------------------------------- MODULE Encoding -------------------------------
(***************************************************************************)
(* A code writer in use: instructions put one after another, labels placed *)
(* before or after the branches to them, literals kept for a pool, and the *)
(* flush that settles both.  One action per kind of call; what a call puts  *)
(* is the writers' own (Arm64Writer, ArmWriter, ThumbWriter, X86Writer),    *)
(* and what has been put is read back by the decoders of the same library.  *)
(*                                                                         *)
(* An architecture is [isa, mode64, windows, auth]: AMD64 or IA32, the     *)
(* Windows calling convention, pointer authentication.                     *)
(***************************************************************************)
EXTENDS Requests

CONSTANTS
  Archs,
  Base,            \* where the writer starts
  MaxAsked,        \* calls before the flush
  Cases(_, _),     \* (arch, pc): single requests with what they should read as
  Threads(_, _),   \* (arch, pc): the requests that are put in sequence
  Calls(_),        \* (arch): calls with arguments
  Labels(_),       \* (arch)
  Gaps(_)          \* (arch): bytes of plain instructions between requests

VARIABLES
  arch,
  w,        \* the writer
  asked,    \* what was put: where, what it should read as, its size
  call,     \* the call with arguments that was put, or none
  outcome   \* writing, flushed or failed

vars == <<arch, w, asked, call, outcome>>

-----------------------------------------------------------------------------
(* By architecture *)

\* The bytes that may still be put before a pool is due.
Unpooled ==
  CASE arch.isa = "arm64" -> A64!Arm64PoolLimit - A64!Arm64SpaceUsed(w)
    [] arch.isa = "arm" -> A32!ArmPoolLimit - A32!ArmSpaceUsed(w)
    [] arch.isa = "thumb" -> T32!ThumbPoolLimit - T32!ThumbSpaceUsed(w)

ReadAt(at) == Read(arch, w.code, at)

-----------------------------------------------------------------------------
(* What a request should read as: an instruction, the value it loads from  *)
(* a literal, the label it names, and how many bytes of what was put are   *)
(* not the instruction itself.                                             *)

Reading(insn) == [insn |-> insn, loads |-> <<>>, to |-> <<>>, tail |-> 0]
Part == Reading([id |-> "part"])

\* A request as it is asked, what a writer puts for it, and what it should
\* read as: nothing, when it should be refused.
Case(ask, pieces, reads) == [ask |-> ask, pieces |-> pieces, reads |-> reads]
NoCall == [kind |-> "none"]

\* A call with arguments: the requests, whether the stack is to be aligned at
\* the call, and what the callee takes off it.
Called(requests, args, aligned, pops) ==
  [requests |-> requests, args |-> args, aligned |-> aligned, pops |-> pops]

-----------------------------------------------------------------------------
(* The calls *)

\* Puts pieces one by one, noting where each went.
PutAll(v, notes, pieces, reads) ==
  InTurn(LAMBDA s, i :
             [w |-> PutPiece(arch, s.w, pieces[i]),
              notes |-> Append(s.notes, [at |-> s.w.pc, size |-> Unit(arch) * Len(pieces[i].words),
                                         read |-> IF i \in DOMAIN reads THEN reads[i] ELSE Part])],
           [w |-> v, notes |-> notes], [i \in DOMAIN pieces |-> i])

\* One request.
Ask(case) ==
  LET put == PutAll(w, asked, case.pieces, case.reads)
  IN  /\ w' = put.w
      /\ asked' = put.notes
      /\ call' = [kind |-> "request", ask |-> case.ask, put |-> Len(case.pieces),
                  due |-> Len(case.reads)]
      /\ UNCHANGED arch
AskOnce ==
  /\ outcome = "writing" /\ asked = <<>>
  /\ \E case \in Cases(arch, w.pc) : Ask(case)
  /\ outcome' = "asked"
AskMore ==
  /\ outcome = "writing" /\ Len(asked) < MaxAsked
  /\ \E case \in Threads(arch, w.pc) : Ask(case)
  /\ UNCHANGED outcome

\* A call with arguments: each of its requests in turn.
PutCall(c) ==
  LET put == InTurn(LAMBDA s, r : PutAll(s.w, s.notes, Requested(arch, s.w.pc, r), <<>>),
                      [w |-> w, notes |-> asked], c.requests)
  IN  /\ w' = put.w
      /\ asked' = put.notes
      /\ call' = [kind |-> "call", made |-> c]
      /\ outcome' = "asked"
      /\ UNCHANGED arch
AskCall == outcome = "writing" /\ asked = <<>> /\ \E c \in Calls(arch) : PutCall(c)

\* put_label
PlaceLabel(id) ==
  /\ outcome = "writing" /\ asked # <<>>
  /\ id \notin DOMAIN w.defs
  /\ w' = DefineLabel(w, id)
  /\ UNCHANGED <<arch, asked, call, outcome>>

\* Plain instructions, which are not kept; none of them brings a pool.
Stretch(bytes) ==
  /\ outcome = "writing" /\ asked # <<>> /\ Len(asked) < MaxAsked
  /\ w.earliest # Nowhere => bytes <= Unpooled
  /\ w' = [w EXCEPT !.pc = w.pc + bytes]
  /\ asked' = Append(asked, [at |-> w.pc, size |-> bytes, read |-> Part])
  /\ UNCHANGED <<arch, call, outcome>>

\* flush
Flush ==
  /\ outcome \in {"writing", "asked"} /\ asked # <<>>
  /\ w' = Flushed(arch, w)
  /\ outcome' = IF Flushes(arch, w) THEN "flushed" ELSE "failed"
  /\ UNCHANGED <<arch, asked, call>>

\* reset: the writer is used for other code, whatever became of this one.
ResetTo(at) == NewWriter(at)
Reset ==
  /\ outcome = "writing" /\ Len(asked) = 1 /\ w.refs # <<>>
  /\ w' = ResetTo(w.base)
  /\ asked' = <<>> /\ call' = NoCall
  /\ UNCHANGED <<arch, outcome>>

\* commit_label, which the Thumb relocator uses before it flushes.
CommitLabel(id) ==
  /\ outcome = "writing" /\ arch.isa = "thumb" /\ id \in DOMAIN w.defs
  /\ \E i \in DOMAIN w.refs : w.refs[i].id = id
  /\ w' = T32!ThumbCommitOne(w, id)
  /\ UNCHANGED <<arch, asked, call, outcome>>

Init ==
  /\ arch \in Archs
  /\ w = NewWriter(Base) /\ asked = <<>> /\ call = NoCall /\ outcome = "writing"
Next ==
  \/ AskOnce \/ AskMore \/ AskCall \/ Flush \/ Reset
  \/ \E id \in Labels(arch) : PlaceLabel(id) \/ CommitLabel(id)
  \/ \E bytes \in Gaps(arch) : Stretch(bytes)
Spec == Init /\ [][Next]_vars

-----------------------------------------------------------------------------
(* Properties.  What was put is settled when no label or literal is owed.  *)

Settled == outcome # "failed" /\ w.refs = <<>> /\ w.literals = <<>>
Instructions == {i \in DOMAIN asked : asked[i].read.insn.id # "part"}

\* The place an instruction names: a branch's target, a load's operand.
Named(at, got) ==
  CASE arch.isa = "arm64" -> got.insn.target
    [] arch.isa = "arm" -> IF got.insn.id = "ldr" THEN at + 8 + got.insn.n ELSE got.insn.target
    [] arch.isa = "thumb" ->
         IF got.insn.id = "ldr" THEN AlignedDown(at + 4, 4) + got.insn.n ELSE got.insn.target
    [] arch.isa = "x86" ->
         IF got.insn.target # -1 THEN got.insn.target
         ELSE got.insn.operand.disp + (IF arch.mode64 THEN at + got.size ELSE 0)

\* Registers an instruction that is not followed further may use.
SameRegs(due, got) ==
  IF arch.isa = "arm64" /\ due.id = "other" THEN ToSet(due.regs) \subseteq ToSet(got.regs)
  ELSE due.regs = got.regs
SameInsn(due, got, names) ==
  /\ got.id = due.id /\ got.cc = due.cc
  /\ IF arch.isa = "x86"
     THEN /\ [got.operand EXCEPT !.size = 0, !.disp = IF names THEN 0 ELSE @] = due.operand
          /\ names \/ got.target = due.target
     ELSE /\ SameRegs(due, got) /\ got.bits = due.bits
          /\ names \/ (got.target = due.target /\ got.n = due.n)

\* What the writer puts is what was asked for: the decoder finds the same
\* instruction, of the same length, with the same registers, condition,
\* immediate and target; and a request the writer cannot express is refused.
ReadsBackAsAsked ==
  Settled =>
    /\ call.kind = "request" /\ outcome = "asked" => call.put = call.due
    /\ \A i \in Instructions : \A got \in {ReadAt(asked[i].at)} :
         LET due == asked[i].read
         IN  /\ got.size + due.tail = asked[i].size
             /\ SameInsn(due.insn, got.insn, due.loads # <<>> \/ due.to # <<>>)

\* Once the writer is flushed, every branch to a label goes to where the
\* label was put, however far, before or after it, and whatever was reset.
LabelsAreReached ==
  Settled => \A i \in Instructions : \A got \in {ReadAt(asked[i].at)} :
               LET to == asked[i].read.to
               IN  to # <<>> => Named(asked[i].at, got) = w.defs[to]

\* Once the writer is flushed, every load of a literal reads its value.
Stored(at, word) == at \in DOMAIN w.code /\ w.code[at] = word
ValueAt(at, value) ==
  IF arch.isa = "x86"
  THEN \A i \in 1..8 : Stored(at + i - 1, X86!Bytes64(value)[i])
  ELSE IF arch.isa = "thumb"
  THEN \A i \in 1..2 : Stored(at + 2 * (i - 1), Field(value[1] \div 2^(16 * (i - 1)), 16, 0))
  ELSE \A i \in DOMAIN value : Stored(at + 4 * (i - 1), Field(value[i], 32, 0))
LiteralsAreRead ==
  Settled => \A i \in Instructions : \A got \in {ReadAt(asked[i].at)} :
               LET value == asked[i].read.loads
               IN  value # <<>> => ValueAt(Named(asked[i].at, got), value)

\* A pool of literals put in the middle of the code is branched over: from
\* each instruction asked for, control comes to the next.
PoolsAreJumpedOver ==
  Settled => \A i \in 2..Len(asked) :
               LET end == asked[i - 1].at + asked[i - 1].size
               IN  \/ end = asked[i].at
                   \/ /\ ReadAt(end).insn.id = "b"
                      /\ ReadAt(end).insn.target = asked[i].at

\* So what flushed code refers to is where it refers to.
FlushedCodeIsComplete == LabelsAreReached /\ LiteralsAreRead

\* Each request that is not refused has an encoding of its own: what differs
\* in what was asked differs in what is put.
WordsOf(case) == [i \in DOMAIN case.pieces |-> case.pieces[i].words]
Encodings ==
  {case \in Cases(arch, w.pc) :
     case.reads # <<>> /\ \A i \in DOMAIN case.reads : case.reads[i].loads = <<>>}
RequestsAreDistinct ==
  call = NoCall /\ asked = <<>> =>
    Cardinality({WordsOf(case) : case \in Encodings}) = Cardinality({case.ask : case \in Encodings})

-----------------------------------------------------------------------------
(* Logical immediates of arm64, as the architecture decodes them: N and    *)
(* imms give the size of an element and its ones, immr rotates it.         *)

Element(word) ==
  LET n == IF 22 \in word THEN 6
           ELSE Max({-1} \cup {k \in 0..5 : 10 + k \notin word})
  IN  [size |-> 2^n, ones |-> (Value(word, 10, 6) % 2^n) + 1, rotate |-> Value(word, 16, 6) % 2^n]
DecodedMask(word, width) ==
  LET e == Element(word)
  IN  {i \in 0..(width - 1) : (i + e.rotate) % e.size < e.ones}
\* The masks there are of a width.
MasksOf(width) ==
  {{i \in 0..(width - 1) : (i + rotate) % size < ones} :
     <<size, ones, rotate>> \in
       UNION {{<<s, o, r>> : o \in 1..(s - 1), r \in 0..(s - 1)} : s \in {2^k : k \in 1..5} \cup {width}}}

\* A mask is put so that the processor makes the same mask of it, and refused
\* only when the processor has no encoding of it.
LogicalImmediates ==
  outcome = "asked" /\ call.kind = "request" /\ call.ask[1] \in {"and", "tst"} /\ arch.isa = "arm64" =>
    LET width == call.ask[2]
        value == call.ask[3]
    IN  IF asked = <<>> THEN value \notin MasksOf(width)
        ELSE DecodedMask(w.code[asked[1].at], width) = value

-----------------------------------------------------------------------------
(* What the requests of a call do to the argument registers and the stack. *)
(* A register is known by its number; a slot of the stack holds a value.   *)

Kept(n) == [kind |-> "register", of |-> <<n>>]
LiteralOf(literal) == [kind |-> "literal", of |-> literal]
Spare == [kind |-> "spare", of |-> <<>>]

\* Adds to the stack pointer, in whole slots.
Moved(s, bytes) ==
  [s EXCEPT !.stack =
     IF bytes < 0 THEN [i \in 1..(-bytes \div WordBytes(arch)) |-> Spare] \o @
     ELSE SubSeq(@, (bytes \div WordBytes(arch)) + 1, Len(@))]
PushedValue(s, value) == [s EXCEPT !.stack = <<value>> \o @]
Done(s, r) ==
  CASE r.op \in {"mov_address"} -> [s EXCEPT !.regs[r.a.n] = LiteralOf(r.value)]
    [] r.op \in {"mov", "uxtw"} -> [s EXCEPT !.regs[r.a.n] = s.regs[r.b.n]]
    [] r.op = "push" -> PushedValue(s, s.regs[CHOOSE n \in r.bits : TRUE])
    [] r.op = "push_reg" -> PushedValue(s, s.regs[r.a.n])
    [] r.op = "push_u32" -> PushedValue(s, LiteralOf(r.value))
    [] r.op = "xchg" -> [s EXCEPT !.regs[r.a.n] = Head(s.stack), !.stack = <<s.regs[r.a.n]>> \o Tail(@)]
    [] r.op = "add_imm" \/ r.op = "add_u16" -> IF r.a.n = StackPointer(arch) THEN Moved(s, r.n) ELSE s
    [] r.op = "sub_u16" -> Moved(s, -r.n)
    \* A function out of reach of arm64's BL is loaded into a register.
    [] OTHER -> LET loaded == IF r.op = "call_body" /\ arch.isa = "arm64" THEN [s EXCEPT !.regs[r.a.n] = Spare] ELSE s
                IN  Moved([loaded EXCEPT !.called = <<[regs |-> loaded.regs, stack |-> loaded.stack]>>], call.made.pops)
Performed ==
  InTurn(Done, [regs |-> [n \in 0..31 |-> Kept(n)], stack |-> <<>>, called |-> <<>>], call.made.requests)

\* Where the callee looks for an argument: by the calling convention.
ArgumentRegisters ==
  CASE arch.isa = "arm64" -> [i \in 1..8 |-> i - 1]
    [] arch.isa \in {"arm", "thumb"} -> [i \in 1..4 |-> i - 1]
    [] arch.isa = "x86" /\ ~arch.mode64 -> <<>>
    [] OTHER -> IF arch.windows THEN <<1, 2, 8, 9>> ELSE <<7, 6, 2, 1, 8, 9>>
Received(at, i) ==
  LET homes == IF arch.windows THEN 4 ELSE 0
  IN  IF i <= Len(ArgumentRegisters) THEN at.regs[ArgumentRegisters[i]]
      ELSE at.stack[i - Len(ArgumentRegisters) + homes]
Wanted(arg) == IF arg.kind = "address" THEN LiteralOf(arg.literal) ELSE Kept(arg.reg.n)

\* At a call with arguments each argument is where the callee looks for it,
\* the stack is as aligned as it was asked to be, the registers that are not
\* an argument's keep their values, and the stack is as before afterwards.
ArgumentsArrive ==
  call.kind = "call" =>
    LET end == Performed
        at == end.called[1]
        Needs == IF arch.isa = "x86" THEN 16 ELSE 8
    IN  /\ \A i \in DOMAIN call.made.args : Received(at, i) = Wanted(call.made.args[i])
        /\ call.made.aligned => (WordBytes(arch) * Len(at.stack)) % Needs = 0
        /\ end.stack = <<>>
        /\ arch.isa = "x86" =>
             \A n \in 0..15 : n \in ToSet(ArgumentRegisters) \/ end.regs[n] = Kept(n)

-----------------------------------------------------------------------------
(* What the relocator takes a register to be free by.                      *)

\* The decoder names every general register an instruction uses, so that the
\* search for a scratch register never takes a busy one for free.
UsedRegistersAreReported ==
  Settled /\ arch.isa = "arm64" =>
    \A i \in Instructions :
      LET due == asked[i].read.insn
      IN  due.id = "other" => ToSet(due.regs) \subseteq ToSet(ReadAt(asked[i].at).insn.regs)

=============================================================================
