------------------------------ MODULE Processor ------------------------------
(***************************************************************************)
(* What machine code does, as far as moving it can change that: a small    *)
(* processor the relocators' input and output both run on.                 *)
(*                                                                         *)
(* An instruction is a size and a sequence of effects.  An address that an *)
(* instruction forms from its own place is given by a distance from its    *)
(* end, so that a copy of it elsewhere forms another one.                  *)
(***************************************************************************)
EXTENDS Integers, Sequences, FiniteSets, SequencesExt

\* Registers are strings; none is a register that reads as zero.
none == "none"

-----------------------------------------------------------------------------
(* Effects *)

\* r := s + factor * t + k
Compute(r, s, t, factor, k) ==
  [do |-> "compute", r |-> r, s |-> s, t |-> t, factor |-> factor, k |-> k]
Constant(r, k) == Compute(r, none, none, 0, k)
Copy(r, s) == Compute(r, s, none, 0, 0)
AddConstant(r, s, k) == Compute(r, s, none, 0, k)

\* r := the address `ahead' bytes from the end of the instruction, rounded down
\* to a multiple, and k; or the address k bytes from the end, in few bits.
FormAligned(r, ahead, align, k) ==
  [do |-> "form", r |-> r, ahead |-> ahead, align |-> align, k |-> k]
FormAddress(r, k) == FormAligned(r, k, 1, 0)
FormModulo(r, k, modulus) == [do |-> "form modulo", r |-> r, k |-> k, modulus |-> modulus]

Load(r, base, k) == [do |-> "load", r |-> r, base |-> base, k |-> k]
Store(base, k, s) == [do |-> "store", base |-> base, k |-> k, s |-> s]

\* Exchanges r with the word base points to.
Exchange(r, base) == [do |-> "exchange", r |-> r, base |-> base]

\* Goes to r + k, and to the address k bytes from the end of the instruction.
Goto(r, k) == [do |-> "goto", r |-> r, k |-> k]
GotoNear(k) == [do |-> "goto near", k |-> k]
GotoLabel(id) == [do |-> "goto label", id |-> id]

\* A branch that may change the instruction set: an odd address is Thumb code.
Interwork(r) == [do |-> "interwork", r |-> r]
SetThumb(value) == [do |-> "thumb", value |-> value]

\* The effects that follow happen if the condition holds: the flag the
\* conditions of the code test, or that a register is zero.
If(test, r, value) == [do |-> "if", test |-> test, r |-> r, value |-> value]
IfFlag(value) == If("flag", none, value)
IfZero(r, value) == If("zero", r, value)

SetFlag == [do |-> "flag"]

\* r := the address the hooked function was called from
Caller(r) == [do |-> "caller", r |-> r]

Insn(size, effects) == [size |-> size, effects |-> effects]
Label(id) == [size |-> 0, effects |-> <<>>, id |-> id]
Size(code) == FoldLeft(LAMBDA n, x : n + x.size, 0, code)

-----------------------------------------------------------------------------
(* Execution *)

\* What memory holds before the code runs.
Content(a) == 1000000 + 10 * a

Reg(s, r) == IF r = none THEN 0 ELSE s.regs[r]
Word(s, a) ==
  IF a \in DOMAIN s.mem THEN s.mem[a]
  ELSE IF a \in s.spoiled THEN -1
  ELSE Content(a)

WriteReg(s, r, v) == [s EXCEPT !.regs[r] = v]
WriteWord(s, a, v) ==
  [s EXCEPT !.mem = [x \in DOMAIN s.mem \cup {a} |-> IF x = a THEN v ELSE s.mem[x]]]

Holds(s, e) ==
  (IF e.test = "flag" THEN s.flag ELSE Reg(s, e.r) = 0) = e.value

Even(a) == a - (a % 2)
RoundedDown(a, align) == a - (a % align)

\* One effect of the instruction that ends at `end'; labels gives their places.
Effect(s, e, end, labels) ==
  IF s.skip THEN s ELSE
  CASE e.do = "compute" ->
         WriteReg(s, e.r, Reg(s, e.s) + e.factor * Reg(s, e.t) + e.k)
    [] e.do = "form" -> WriteReg(s, e.r, RoundedDown(end + e.ahead, e.align) + e.k)
    [] e.do = "form modulo" -> WriteReg(s, e.r, (end + e.k) % e.modulus)
    [] e.do = "load" -> WriteReg(s, e.r, Word(s, Reg(s, e.base) + e.k))
    [] e.do = "store" -> WriteWord(s, Reg(s, e.base) + e.k, Reg(s, e.s))
    [] e.do = "exchange" ->
         WriteReg(WriteWord(s, Reg(s, e.base), Reg(s, e.r)),
                  e.r, Word(s, Reg(s, e.base)))
    [] e.do = "goto" -> [s EXCEPT !.pc = Reg(s, e.r) + e.k]
    [] e.do = "interwork" -> [s EXCEPT !.pc = Even(Reg(s, e.r)), !.thumb = Reg(s, e.r) % 2 = 1]
    [] e.do = "thumb" -> [s EXCEPT !.thumb = e.value]
    [] e.do = "goto near" -> [s EXCEPT !.pc = end + e.k]
    [] e.do = "goto label" -> [s EXCEPT !.pc = labels[e.id]]
    [] e.do = "if" -> [s EXCEPT !.skip = ~Holds(s, e)]
    [] e.do = "caller" -> WriteReg(s, e.r, s.caller)
    [] e.do = "flag" -> [s EXCEPT !.flag = ~@]

Executed(s, insn, labels) ==
  LET end == s.pc + insn.size
      after == FoldLeft(LAMBDA x, e : Effect(x, e, end, labels),
                        [s EXCEPT !.pc = end], insn.effects) IN
  [after EXCEPT !.skip = FALSE]

\* Where the instructions of a sequence start, the first at `at'.
Places(code, at) ==
  [i \in 1 .. Len(code) + 1 |->
     at + Size(SubSeq(code, 1, i - 1))]

LabelPlaces(code, places) ==
  LET put == {i \in DOMAIN code : code[i].size = 0} IN
  [id \in {code[i].id : i \in put} |->
     places[CHOOSE i \in put : code[i].id = id]]

\* Runs the code at `at' from state s until it leaves it or reaches one of
\* the stops, but where it starts; code that loops is left after as many steps
\* as it has instructions.
RunUntil(code, at, s, stops) ==
  LET places == Places(code, at)
      labels == LabelPlaces(code, places)
      here(x) == {i \in DOMAIN code : code[i].size # 0 /\ places[i] = x.pc}
      step(x, i) == IF here(x) = {} \/ (i > 1 /\ x.pc \in stops) THEN x
                    ELSE Executed(x, code[CHOOSE j \in here(x) : TRUE], labels) IN
  FoldLeft(step, s, [i \in 1 .. Len(code) |-> i])
=============================================================================
