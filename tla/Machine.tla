------------------------------- MODULE Machine -------------------------------
(***************************************************************************)
(* The processors, as far as the code that the interceptor's backends have *)
(* put needs them: what each request does to the registers, the flags and  *)
(* the memory, and where it goes on.                                       *)
(*                                                                         *)
(* A value is a number where it is one the backends know, an address or a  *)
(* stack pointer; else it says whose it is: what register n held at some   *)
(* point.  A vector fills several words of memory, and is read back whole  *)
(* or not at all.                                                          *)
(*                                                                         *)
(* An architecture also has cet, the shadow stack of x86, and vectors, how *)
(* many registers of 16 bytes it has.  Code is a function from addresses   *)
(* to the request there and where the next one is; bit 0 of an address     *)
(* tells Thumb code.                                                       *)
(***************************************************************************)
EXTENDS Requests

Is(k, n) == [k |-> k, n |-> n, part |-> 0]
Num(n) == Is("num", n)
Junk == Is("junk", 0)
Fault == -1

Link == 14
Pc == 15
Arm64Link == 30
LinkOf(arch) == IF arch.isa = "arm64" THEN Arm64Link ELSE Link

\* The registers a program has: all but those the processor itself uses.
Registers(arch) ==
  CASE arch.isa = "x86" -> IF arch.mode64 THEN 0..15 ELSE 0..7
    [] arch.isa = "arm64" -> 0..31
    [] OTHER -> 0..14

\* Those of them a called function may change.
CallerSaved(arch) ==
  CASE arch.isa = "x86" /\ ~arch.mode64 -> 0..2
    [] arch.isa = "x86" /\ arch.mode64 -> {0, 1, 2, 8, 9, 10, 11} \cup (IF arch.windows THEN {} ELSE {6, 7})
    [] arch.isa = "arm64" -> (0..18) \cup {Arm64Link}
    [] OTHER -> (0..3) \cup {12, Link}

\* Pointers to code are signed where there is pointer authentication.
Sign(arch, at) == IF arch.auth THEN at + A64!Arm64Space ELSE at
Authentic(arch, at) ==
  CASE ~arch.auth -> at
    [] arch.auth /\ at >= A64!Arm64Space -> at - A64!Arm64Space
    [] OTHER -> Fault

-----------------------------------------------------------------------------
(* Registers and memory *)

IsVector(r) == r.bank = "q"
SizeOf(arch, r) == IF IsVector(r) THEN 16 ELSE WordBytes(arch)
ValueOf(m, r) ==
  CASE IsVector(r) -> m.vecs[r.n]
    [] r = A64!XZR -> Num(0)
    [] OTHER -> m.regs[r.n]
WithReg(m, r, value) ==
  IF IsVector(r) THEN [m EXCEPT !.vecs[r.n] = value] ELSE [m EXCEPT !.regs[r.n] = value]

Sp(arch, m) == m.regs[StackPointer(arch)].n
WithSp(arch, m, at) == [m EXCEPT !.regs[StackPointer(arch)] = Num(at)]

WordAt(m, at) == IF at \in DOMAIN m.mem THEN m.mem[at] ELSE Junk
Loaded(arch, m, at, size) ==
  LET first == WordAt(m, at)
  IN  IF \A i \in 0..((size \div WordBytes(arch)) - 1) :
           WordAt(m, at + WordBytes(arch) * i) = [first EXCEPT !.part = i]
      THEN first ELSE Junk
Stored(arch, m, at, size, value) ==
  LET words == {at + WordBytes(arch) * i : i \in 0..((size \div WordBytes(arch)) - 1)}
  IN  [m EXCEPT !.mem = [a \in words |-> [value EXCEPT !.part = (a - at) \div WordBytes(arch)]] @@ @]

Plus(value, n) == IF value.k = "num" THEN Num(value.n + n) ELSE Junk

\* The stack: one value, or registers with the first at the lowest address.
Pushed(arch, m, value) ==
  LET at == Sp(arch, m) - WordBytes(arch)
  IN  WithSp(arch, Stored(arch, m, at, WordBytes(arch), value), at)
PushedAll(arch, m, regs) ==
  LET size == SizeOf(arch, regs[1])
      at == Sp(arch, m) - size * Len(regs)
  IN  WithSp(arch, InTurn(LAMBDA s, i : Stored(arch, s, at + size * (i - 1), size, ValueOf(m, regs[i])),
                          m, [i \in DOMAIN regs |-> i]), at)
PoppedAll(arch, m, regs) ==
  LET size == SizeOf(arch, regs[1])
      at == Sp(arch, m)
  IN  InTurn(LAMBDA s, i : WithReg(s, regs[i], Loaded(arch, m, at + size * (i - 1), size)),
             WithSp(arch, m, at + size * Len(regs)), [i \in DOMAIN regs |-> i])
ListOf(bits) == SelectSeq([i \in 1..16 |-> A32!ArmReg(i - 1)], LAMBDA r : r.n \in bits)
VectorsOf(r) == [i \in 1..(r.b.n - r.a.n + 1) |-> Reg("q", r.a.n + i - 1)]

-----------------------------------------------------------------------------
(* Jumps *)

To(m, value) == [m EXCEPT !.at = IF value.k = "num" THEN value.n ELSE Fault]
Linked(arch, m, next) == [m EXCEPT !.regs[LinkOf(arch)] = Num(next)]
\* A Thumb branch stays in Thumb code, wherever bit 0 of its target points.
Near(arch, target) ==
  CASE arch.isa = "thumb" -> AlignedDown(target, 2) + 1
    [] arch.isa = "arm64" -> A64!Strip(target, arch.auth)
    [] OTHER -> target

\* A call of x86: the shadow stack, where there is one, has a copy of each
\* return address, and a return compares.
CalledFrom(arch, m, next, value) ==
  LET pushed == Pushed(arch, m, Num(next))
  IN  To([pushed EXCEPT !.shadow = IF arch.cet THEN <<next>> \o @ ELSE @], value)
Returned(arch, m) ==
  LET to == WordAt(m, Sp(arch, m))
      popped == WithSp(arch, m, Sp(arch, m) + WordBytes(arch))
  IN  CASE ~arch.cet -> To(popped, to)
        [] arch.cet /\ m.shadow # <<>> /\ to = Num(m.shadow[1]) ->
             To([popped EXCEPT !.shadow = Tail(@)], to)
        [] OTHER -> [popped EXCEPT !.at = Fault]

-----------------------------------------------------------------------------
(* What a request does.  The flags of x86 keep in n whether the direction  *)
(* flag may be set.                                                        *)

Spoiled(m) == [m EXCEPT !.flags = [@ EXCEPT !.k = "junk"]]
Along(m, next) == [m EXCEPT !.at = next]

\* On each architecture.
Common(arch, m, r, next) ==
  CASE r.op = "mov_address" ->
         IF ~IsVector(r.a) /\ arch.isa \in {"arm", "thumb"} /\ r.a.n = Pc THEN To(m, Num(r.value[1]))
         ELSE Along(WithReg(m, r.a, Num(r.value[1])), next)
    [] r.op = "mov" -> Along(WithReg(m, r.a, ValueOf(m, r.b)), next)
    [] r.op = "load" ->
         Along(WithReg(m, r.a, IF ValueOf(m, r.b).k = "num" THEN WordAt(m, ValueOf(m, r.b).n + r.n)
                               ELSE Junk), next)
    [] r.op = "store" ->
         IF ValueOf(m, r.b).k # "num" THEN [m EXCEPT !.at = Fault]
         ELSE Along(Stored(arch, m, ValueOf(m, r.b).n + r.n, WordBytes(arch), ValueOf(m, r.a)), next)
    [] r.op = "jmp" -> To(m, Num(Near(arch, r.value[1])))
    [] r.op = "bl" -> To(Linked(arch, m, next), Num(Near(arch, r.value[1])))
    [] r.op = "copied" -> [m EXCEPT !.at = IF r.n = 0 THEN next ELSE r.n]
CommonOps == {"mov_address", "mov", "load", "store", "jmp", "bl", "copied"}

OnArm64(arch, m, r, next) ==
  CASE r.op = "push" -> Along(PushedAll(arch, m, <<r.a, r.b>>), next)
    [] r.op = "pop" -> Along(PoppedAll(arch, m, <<r.a, r.b>>), next)
    [] r.op = "store_pre" ->
         LET at == Sp(arch, m) + r.n
         IN  Along(WithSp(arch, Stored(arch, m, at, WordBytes(arch), ValueOf(m, r.a)), at), next)
    [] r.op = "load_post" ->
         Along(WithSp(arch, WithReg(m, r.a, WordAt(m, Sp(arch, m))), Sp(arch, m) + r.n), next)
    [] r.op = "mov_reg_nzcv" -> Along(WithReg(m, r.a, m.flags), next)
    [] r.op = "mov_nzcv_reg" -> Along([m EXCEPT !.flags = ValueOf(m, r.a)], next)
    [] r.op = "add" -> Along(WithReg(m, r.a, Plus(ValueOf(m, r.b), r.n)), next)
    [] r.op = "page" -> Along(WithReg(m, r.a, Num(A64!Strip(r.value[1], arch.auth))), next)
    [] r.op = "jmp_reg" ->
         To(m, IF ValueOf(m, r.a).k = "num" THEN Num(Authentic(arch, ValueOf(m, r.a).n)) ELSE Junk)
    [] r.op \in {"jmp_reg_plain", "ret_reg"} -> To(m, ValueOf(m, r.a))
    [] r.op = "call_body" ->
         To(Linked(arch, WithReg(m, r.a, Junk), next), Num(A64!Strip(r.n, arch.auth)))
    [] OTHER -> [m EXCEPT !.at = Fault]

OnArm(arch, m, r, next) ==
  CASE r.op = "push" -> Along(PushedAll(arch, m, ListOf(r.bits)), next)
    [] r.op = "pop" ->
         LET popped == PoppedAll(arch, m, ListOf(r.bits \ {Pc}))
             top == Sp(arch, popped)
         IN  IF Pc \in r.bits THEN To(WithSp(arch, popped, top + 4), WordAt(m, top))
             ELSE Along(popped, next)
    [] r.op = "vpush" -> Along(PushedAll(arch, m, VectorsOf(r)), next)
    [] r.op = "vpop" -> Along(PoppedAll(arch, m, VectorsOf(r)), next)
    [] r.op \in {"add_u16", "add_imm"} -> Along(WithReg(m, r.a, Plus(ValueOf(m, r.a), r.n)), next)
    [] r.op = "sub_u16" -> Along(WithReg(m, r.a, Plus(ValueOf(m, r.a), -r.n)), next)
    [] r.op = "add" -> Along(WithReg(m, r.a, Plus(ValueOf(m, r.b), r.n)), next)
    [] r.op = "sub" -> Along(WithReg(m, r.a, Plus(ValueOf(m, r.b), -r.n)), next)
    [] r.op \in {"mov_reg_flags", "mrs"} -> Along(WithReg(m, r.a, m.flags), next)
    [] r.op \in {"mov_flags_reg", "msr"} -> Along([m EXCEPT !.flags = ValueOf(m, r.a)], next)
    [] r.op = "call_body" -> To(Linked(arch, m, next), Num(r.n))
    [] r.op = "call_reg" -> To(Linked(arch, m, next), ValueOf(m, r.a))
    [] r.op = "jmp_reg" -> To(m, ValueOf(m, r.a))
    [] OTHER -> [m EXCEPT !.at = Fault]

\* PUSHA and its inverse, which skips the stack pointer; 512 bytes of FXSAVE.
GeneralRegs(arch) ==
  [i \in 1..Cardinality(Registers(arch)) |-> X86!X86Reg(Cardinality(Registers(arch)) - i)]
PoppedSaved(arch, m) ==
  LET popped == PoppedAll(arch, m, GeneralRegs(arch))
  IN  WithSp(arch, popped, Sp(arch, m) + WordBytes(arch) * Cardinality(Registers(arch)))
FxSize == 512
OnX86(arch, m, r, next) ==
  CASE r.op = "push_reg" -> Along(Pushed(arch, m, ValueOf(m, r.a)), next)
    [] r.op = "push_near" -> Along(Pushed(arch, m, WordAt(m, r.value[1])), next)
    [] r.op \in {"add_imm", "sub_imm"} ->
         Along(Spoiled(WithReg(m, r.a, Plus(ValueOf(m, r.a), IF r.op = "add_imm" THEN r.n ELSE -r.n))), next)
    [] r.op = "align" -> Along(Spoiled(WithReg(m, r.a, Num(AlignedDown(ValueOf(m, r.a).n, r.n)))), next)
    [] r.op = "lea" -> Along(WithReg(m, r.a, Plus(ValueOf(m, r.b), r.n)), next)
    [] r.op = "pusha" -> Along(PushedAll(arch, m, GeneralRegs(arch)), next)
    [] r.op = "popa" -> Along(PoppedSaved(arch, m), next)
    [] r.op = "push_flags" -> Along(Pushed(arch, m, m.flags), next)
    [] r.op = "pop_flags" ->
         Along(WithSp(arch, [m EXCEPT !.flags = WordAt(m, Sp(arch, m))], Sp(arch, m) + WordBytes(arch)), next)
    [] r.op = "cld" -> Along([m EXCEPT !.flags.n = 0], next)
    [] r.op = "fxsave" -> Along(Stored(arch, m, ValueOf(m, r.a).n, FxSize, m.vecs[0]), next)
    [] r.op = "fxrstor" -> Along([m EXCEPT !.vecs[0] = Loaded(arch, m, ValueOf(m, r.a).n, FxSize)], next)
    [] r.op = "test" -> Along([Spoiled(m) EXCEPT !.zero = ValueOf(m, r.a) = Num(0)], next)
    [] r.op = "jne" -> [m EXCEPT !.at = IF m.zero THEN next ELSE r.value[1]]
    [] r.op = "call_address" -> CalledFrom(arch, m, next, Num(r.value[1]))
    [] r.op = "jmp_reg" -> To(m, ValueOf(m, r.a))
    [] r.op = "jmp_mem" ->
         To(m, IF ValueOf(m, r.a).k = "num" THEN WordAt(m, ValueOf(m, r.a).n + r.n) ELSE Junk)
    [] r.op = "ret" -> Returned(arch, m)
    [] r.op \in {"nops", "label"} -> Along(m, next)
    [] OTHER -> [m EXCEPT !.at = Fault]

Effect(arch, m, r, next) ==
  CASE r.op \in CommonOps -> Common(arch, m, r, next)
    [] r.op \notin CommonOps /\ arch.isa = "x86" -> OnX86(arch, m, r, next)
    [] r.op \notin CommonOps /\ arch.isa = "arm64" -> OnArm64(arch, m, r, next)
    [] OTHER -> OnArm(arch, m, r, next)

\* Until control leaves the code, or 2^Fuel requests later.
Fuel == 9
RECURSIVE RunFor(_, _, _, _)
RunFor(arch, code, m, k) ==
  CASE m.at \notin DOMAIN code -> m
    [] m.at \in DOMAIN code /\ k = 0 ->
         The({Effect(arch, m, entry.r, entry.next) : entry \in {code[m.at]}})
    [] OTHER -> The({RunFor(arch, code, half, k - 1) : half \in {RunFor(arch, code, m, k - 1)}})
Run(arch, code, m) == RunFor(arch, code, m, Fuel)

-----------------------------------------------------------------------------
(* Code in the making: requests put one after another from base on.        *)
(*                                                                         *)
(* "mark" names the place it is at; a request with such a name takes its   *)
(* address.  "copied" stands for n bytes of a function's beginning, moved  *)
(* there by a relocator.                                                   *)

Mark(name) == [Request("mark") EXCEPT !.id = <<name>>]
FlushHere == Request("flush")
\* Copied code of `size` bytes, which runs on, or leaves for an address.
Copied(size, leavesFor) == [Request("copied") EXCEPT !.m = size, !.n = leavesFor]
OpTo(op, at) == [Request(op) EXCEPT !.value = <<at, 0>>]
OpToMark(op, name) == [Request(op) EXCEPT !.id = <<name>>]
SetTo(r, at) == [Request("mov_address") EXCEPT !.a = r, !.value = <<at, 0>>]
Op1(op, a) == [Request(op) EXCEPT !.a = a]
Op2(op, a, b) == [Request(op) EXCEPT !.a = a, !.b = b]
OpN(op, a, b, n) == [Request(op) EXCEPT !.a = a, !.b = b, !.n = n]
Argument(r) == [kind |-> "register", reg |-> r, literal |-> <<>>]
ArgumentNumber(n) == [kind |-> "address", reg |-> NoReg, literal |-> <<n, 0>>]

\* On AMD64 code is either near the functions or out of their reach.
FarAway == 2^28
OutOfReach(arch, from, to) == arch.isa = "x86" /\ arch.mode64 /\ (from < FarAway) # (to < FarAway)
Labelled(r) == r.op \in {"jne", "label", "mark"}
Aimed(arch, base, marks, r) ==
  LET to == IF r.id # <<>> /\ ~Labelled(r) THEN marks[r.id] ELSE r.value[1]
  IN  IF r.value = <<>> /\ (r.id = <<>> \/ Labelled(r)) THEN r
      ELSE [r EXCEPT !.value = <<to, IF OutOfReach(arch, base, to) THEN 1 ELSE 0>>]

KeyOf(arch, pc) == IF arch.isa = "thumb" THEN pc + 1 ELSE pc
Noted(arch, s, r, next) == (KeyOf(arch, s.w.pc) :> [r |-> r, next |-> KeyOf(arch, next)]) @@ s.code
MarkedHere(arch, s, r) == (r.id :> KeyOf(arch, s.w.pc)) @@ s.marks
\* A refused request leaves the writer alone.
AfterPutting(arch, s, r, put) ==
  CASE put = s.w -> s
    [] put # s.w /\ r.op = "label" -> [s EXCEPT !.w = put, !.marks = MarkedHere(arch, s, r)]
    [] OTHER -> [s EXCEPT !.w = put, !.code = Noted(arch, s, r, put.pc)]
PlaceRequest(arch, s, r) ==
  CASE r.op = "mark" -> [s EXCEPT !.marks = MarkedHere(arch, s, r)]
    [] r.op = "flush" -> [s EXCEPT !.w = Flushed(arch, s.w)]
    [] r.op = "copied" -> [s EXCEPT !.w.pc = @ + r.m, !.code = Noted(arch, s, r, s.w.pc + r.m)]
    [] OTHER ->
         The({AfterPutting(arch, s, r, put) :
                put \in {InTurn(LAMBDA w, piece : PutPiece(arch, w, piece), s.w, Requested(arch, s.w.pc, r))}})
\* Padding goes on to where it ends.
Padding(s, r) ==
  LET end == s.w.base + r.n
  IN  IF r.op = "padding" THEN [r EXCEPT !.op = "nops", !.n = IF end > s.w.pc THEN end - s.w.pc ELSE 0] ELSE r

\* The code, its marks, and the writer behind it.
Settled(entry, marks) ==
  IF entry.r.op = "jne" THEN [entry EXCEPT !.r.value = <<marks[entry.r.id], 0>>] ELSE entry
Settle(placed) ==
  [placed EXCEPT !.code = [at \in DOMAIN placed.code |-> Settled(placed.code[at], placed.marks)]]
Placed(arch, base, requests) ==
  LET nothing == [w |-> NewWriter(base), code |-> <<>>, marks |-> <<>>]
      Place(s, r) ==
        The({PlaceRequest(arch, s, aimed) : aimed \in {Aimed(arch, base, s.marks, Padding(s, r))}})
  IN  The({Settle(placed) : placed \in {InTurn(Place, nothing, requests)}})
Used(placed) == placed.w.pc - placed.w.base

=============================================================================
