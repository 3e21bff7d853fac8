------------------------------ MODULE ArmWriter ------------------------------
(***************************************************************************)
(* hooxarmwriter.c: the words it puts for each request, and its labels and *)
(* literal pools.  Bit 0 of the address of a call asks for Thumb code.     *)
(***************************************************************************)
EXTENDS Words

\* The banks are "r" (13, 14 and 15 are SP, LR and PC), "s", "d" and "q".
ArmReg(n) == Reg("r", n)
ArmSp == ArmReg(13)
ArmLr == ArmReg(14)
ArmPc == ArmReg(15)
ArmAt(r, at) == Field(r.n, 4, at)
Mask(regs) == {r.n : r \in regs}

ArmAlways == 15
\* hoox_arm_condify
Condify(cc) == Field(cc - 1, 4, 28)
Always == Condify(ArmAlways)

-----------------------------------------------------------------------------
(* Branches: the distance counts from two instructions further on. *)

\* can_branch_directly_between, which counts from the branch itself
ArmCanBranch(from, to) == Fits(to - from, 26)

ArmDistanceOfThumb(pc, target) == target - (pc + 4)
ArmDistance(pc, target) == target - (pc + 8)
ArmBranchWord(distance, template) ==
  InsnIf(Fits(distance, 26), template \cup Field(distance \div 4, 24, 0))
PutArmBCondImm(cc, pc, target) ==
  ArmBranchWord(ArmDistance(pc, target), Word(\h0a00, 0) \cup Condify(cc))
PutArmBCondLabel(cc, id) == InsnTo(id, "b", Word(\h0a00, 0) \cup Condify(cc))
PutArmBlImm(pc, target) == ArmBranchWord(ArmDistance(pc, target), Word(\heb00, 0))
PutArmBlLabel(id) == InsnTo(id, "b", Word(\heb00, 0))
PutArmBlxImm(pc, target) ==
  LET distance == ArmDistance(pc, target)
  IN  ArmBranchWord(distance, Word(\hfa00, 0) \cup Field(distance \div 2, 1, 24))
PutArmBxReg(r) == Insn(Word(\he12f, \hff10) \cup ArmAt(r, 0))
PutArmBlxReg(r) == Insn(Word(\he12f, \hff30) \cup ArmAt(r, 0))
PutArmRet == Insn(Word(\he1a0, \hf00e))

-----------------------------------------------------------------------------
(* Arithmetic *)

\* An add or a subtraction of nothing from a register to itself is left out.
ArmAddSub(template, dst, src, imm) ==
  IF dst = src /\ imm % 256 = 0 THEN <<>>
  ELSE Insn(Word(template, 0) \cup ArmAt(dst, 12) \cup ArmAt(src, 16) \cup Field(imm, 12, 0))
PutArmAddRegRegImm(dst, src, imm) == ArmAddSub(\he280, dst, src, imm)
PutArmSubRegRegImm(dst, src, imm) == ArmAddSub(\he240, dst, src, imm)
PutArmMovRegReg(dst, src) == PutArmAddRegRegImm(dst, src, 0)

\* One byte at a time, each with the rotation that puts it in its place.
ArmBytes(value, rotations) ==
  [i \in 1..Len(rotations) |->
     rotations[i] * 256 + ((value \div 2^(8 * (Len(rotations) - i))) % 256)]
ArmByBytes(Put(_, _, _), dst, value, rotations) ==
  FlattenSeq([i \in 1..Len(rotations) |-> Put(dst, dst, ArmBytes(value, rotations)[i])])
PutArmAddRegU16(dst, value) == ArmByBytes(PutArmAddRegRegImm, dst, value, <<12, 0>>)
PutArmAddRegU32(dst, value) == ArmByBytes(PutArmAddRegRegImm, dst, value, <<4, 8, 12, 0>>)
PutArmSubRegU16(dst, value) == ArmByBytes(PutArmSubRegRegImm, dst, value, <<12, 0>>)
PutArmSubRegU32(dst, value) == ArmByBytes(PutArmSubRegRegImm, dst, value, <<4, 8, 12, 0>>)

\* hoox_arm_shiftify, and the shift by an immediate
Shifts == <<"lsl", "lsr", "asr", "ror">>
Shifted(shift, amount) ==
  Field(CHOOSE i \in 0..3 : Shifts[i + 1] = shift, 2, 5) \cup Field(amount, 5, 7)
PutArmMovRegRegShift(dst, src, shift, amount) ==
  IF dst = src /\ amount = 0 THEN <<>>
  ELSE Insn(Word(\he1a0, 0) \cup ArmAt(dst, 12) \cup Shifted(shift, amount) \cup ArmAt(src, 0))
PutArmAddRegRegRegShift(dst, left, right, shift, amount) ==
  Insn(Word(\he080, 0) \cup ArmAt(dst, 12) \cup ArmAt(left, 16)
         \cup Shifted(shift, amount) \cup ArmAt(right, 0))
PutArmAddRegRegReg(dst, left, right) ==
  Insn(Word(\he080, 0) \cup ArmAt(dst, 12) \cup ArmAt(left, 16) \cup ArmAt(right, 0))
PutArmSubRegRegReg(dst, left, right) ==
  Insn(Word(\he040, 0) \cup ArmAt(dst, 12) \cup ArmAt(left, 16) \cup ArmAt(right, 0))
PutArmRsbRegRegImm(dst, src, imm) ==
  Insn(Word(\he260, 0) \cup ArmAt(dst, 12) \cup ArmAt(src, 16) \cup Field(imm, 12, 0))
PutArmAndsRegRegImm(dst, src, imm) ==
  Insn(Word(\he210, 0) \cup ArmAt(dst, 12) \cup ArmAt(src, 16) \cup Field(imm, 8, 0))
PutArmCmpRegImm(r, imm) == Insn(Word(\he350, 0) \cup ArmAt(r, 16) \cup Field(imm, 32, 0))
PutArmMovRegCpsr(r) == Insn(Word(\he10f, 0) \cup ArmAt(r, 12))
PutArmMovCpsrReg(r) == Insn(Word(\he129, \hf000) \cup ArmAt(r, 0))
PutArmNop == Insn(Word(\he1a0, 0))
PutArmBrkImm(n) == Insn(Word(\he7f0, \h00f0) \cup Field(n \div 16, 12, 8) \cup Field(n, 4, 0))

\* put_bl_reg: for a processor without BLX
PutArmBlReg(r) == PutArmMovRegReg(ArmLr, ArmPc) \o PutArmMovRegReg(ArmPc, r)
PutArmCallReg(r, interworks) == IF interworks THEN PutArmBlxReg(r) ELSE PutArmBlReg(r)

-----------------------------------------------------------------------------
(* Loads and stores *)

PutArmLdrU32(r, value) == InsnLoading(value, 32, Word(\he51f, 0) \cup ArmAt(r, 12))
ArmTransfer(template, cc, r, base, offset) ==
  InsnIf(Absolute(offset) < 4096,
         Word(template, 0) \cup Condify(cc) \cup Flag(offset >= 0, 23) \cup ArmAt(r, 12)
           \cup ArmAt(base, 16) \cup Field(Absolute(offset), 12, 0))
PutArmLdrCondRegRegOffset(cc, dst, src, offset) == ArmTransfer(\h0510, cc, dst, src, offset)
PutArmStrCondRegRegOffset(cc, src, dst, offset) == ArmTransfer(\h0500, cc, src, dst, offset)
PutArmLdmia(r, list) == Insn(Word(\he890, 0) \cup ArmAt(r, 16) \cup list)
PutArmLdmiaWb(r, list) == Insn(Word(\he8b0, 0) \cup ArmAt(r, 16) \cup list)
PutArmPushRegs(regs) == Insn(Word(\he92d, 0) \cup Mask(regs))
PutArmPopRegs(regs) == PutArmLdmiaWb(ArmSp, Mask(regs))

\* put_vector_push_or_pop_range: a quadword is two doublewords.  What both
\* writers need of it, where the range has an encoding.
VectorWidth(r) == CASE r.bank = "s" -> 32 [] r.bank = "d" -> 64 [] OTHER -> 128
VectorRange(first, last) ==
  LET isQ == VectorWidth(first) = 128
      low == IF isQ THEN 2 * first.n ELSE first.n
      high == IF isQ THEN 2 * last.n + 1 ELSE last.n
      isDouble == VectorWidth(first) # 32
  IN  [allowed |-> /\ VectorWidth(first) = VectorWidth(last) /\ first.n <= last.n
                   /\ isDouble => high - low + 1 <= 16,
       first |-> low, isDouble |-> isDouble,
       imm |-> (high - low + 1) * (IF isDouble THEN 2 ELSE 1)]
PutArmVectorRange(template, first, last) ==
  LET v == VectorRange(first, last)
  IN  InsnIf(v.allowed,
             Word(template, \h0a00) \cup Always \cup Field(v.first \div 16, 1, 22)
               \cup Field(v.first, 4, 12) \cup Flag(v.isDouble, 8) \cup Field(v.imm, 8, 0))
PutArmVpushRange(first, last) == PutArmVectorRange(\h0d2d, first, last)
PutArmVpopRange(first, last) == PutArmVectorRange(\h0cbd, first, last)

-----------------------------------------------------------------------------
(* Calls and branches to an address *)

Push1(r) == [Request("push") EXCEPT !.bits = {r.n}]
\* put_argument_list_setup: from the last argument to the first; those after
\* the fourth go to the stack, which stays aligned to eight bytes.
StackArguments(args) == IF Len(args) > 4 THEN Len(args) - 4 ELSE 0
ArmArgument(i, arg) ==
  LET dst == IF i <= 4 THEN ArmReg(i - 1) ELSE ArmReg(0)
      load == [Request("mov_address") EXCEPT !.a = dst, !.value = arg.literal]
      move == [Request("mov") EXCEPT !.a = dst, !.b = arg.reg]
  IN  CASE i <= 4 /\ arg.kind = "address" -> <<load>>
        [] i <= 4 /\ arg.kind # "address" -> IF arg.reg = dst THEN <<>> ELSE <<move>>
        [] i > 4 /\ arg.kind = "address" -> <<load, Push1(dst)>>
        [] OTHER -> <<Push1(arg.reg)>>
ArmArguments(args) ==
  FlattenSeq([k \in 1..Len(args) |-> ArmArgument(Len(args) + 1 - k, args[Len(args) + 1 - k])])
ArmArgumentSetup(args) ==
  (IF StackArguments(args) % 2 # 0
   THEN <<[Request("sub_u16") EXCEPT !.a = ArmSp, !.n = 4]>> ELSE <<>>) \o ArmArguments(args)
StackSlotsUnpadded(args) == StackArguments(args)
StackSlots(args) == StackArguments(args) + (StackArguments(args) % 2)
ArmArgumentTeardown(args) ==
  IF StackSlots(args) = 0 THEN <<>>
  ELSE <<[Request("add_u16") EXCEPT !.a = ArmSp, !.n = StackSlots(args) * 4]>>

\* Through the stack: R0 keeps its value, PC takes the address.
ArmFar(address) ==
  PutArmPushRegs({ArmReg(0), ArmPc}) \o PutArmLdrU32(ArmReg(0), <<address>>)
    \o PutArmStrCondRegRegOffset(ArmAlways, ArmReg(0), ArmSp, 4)
    \o PutArmPopRegs({ArmReg(0), ArmPc})
PutArmCallAddressBody(pc, address) ==
  LET aligned == AlignedDown(address, 2)
  IN  CASE ArmCanBranch(pc, aligned) /\ aligned = address -> PutArmBlImm(pc, aligned)
        [] ArmCanBranch(pc, aligned) /\ aligned # address -> PutArmBlxImm(pc, aligned)
        [] OTHER -> PutArmAddRegRegImm(ArmLr, ArmPc, 12) \o ArmFar(address)
ArmCallAddressWithArguments(func, args) ==
  ArmArgumentSetup(args) \o <<[Request("call_body") EXCEPT !.n = func]>>
    \o ArmArgumentTeardown(args)
ArmCallRegWithArguments(r, args) ==
  ArmArgumentSetup(args) \o <<[Request("call_reg") EXCEPT !.a = r]>> \o ArmArgumentTeardown(args)

PutArmBranchAddress(pc, address) ==
  IF ArmCanBranch(pc, address) THEN PutArmBCondImm(ArmAlways, pc, address) ELSE ArmFar(address)

-----------------------------------------------------------------------------
(* Labels and literal pools *)

\* try_commit_label_refs
ArmLabelDistance(w, r) == (w.defs[r.id] - (r.at + 8)) \div 4
ArmLabelCommits(w, r) == r.id \in DOMAIN w.defs /\ Fits(ArmLabelDistance(w, r), 24)
ArmCommitLabel(w, r) == Patched(w, r.at, Field(ArmLabelDistance(w, r), 24, 0))

\* commit_literals: each value has one slot.
ArmPlace(w, first, r) ==
  LET word == Field(r.value[1], 32, 0)
      holds == {at \in first..(w.pc - 4) : (at - first) % 4 = 0 /\ w.code[at] = word}
      slot == IF holds = {} THEN w.pc ELSE Min(holds)
      placed == IF holds = {} THEN AppendWord(w, 4, word) ELSE w
      distance == (slot - (r.at + 8)) \div 4
  IN  Patched(placed, r.at, Field(4 * Absolute(distance), 12, 0) \cup Flag(distance >= 0, 23))
ArmCommitLiterals(w) ==
  [FoldLeft(LAMBDA v, r : ArmPlace(v, w.pc, r), w, w.literals) EXCEPT !.literals = <<>>]

\* maybe_commit_literals, which branches over the pool.
ArmPoolLimit == 4096
ArmSpaceUsed(w) == w.pc - w.earliest + 4 * Len(w.literals)
ArmJumpsIntoThePool(w) ==
  IF w.earliest = Nowhere \/ ArmSpaceUsed(w) <= ArmPoolLimit THEN w
  ELSE LET noted == AddLabelReference([w EXCEPT !.earliest = Nowhere],
                                      [id |-> <<"pool", w.pc>>, type |-> "b"])
           branched == AppendWord(noted, 4, Word(\h0a00, 0) \cup Always)
       IN  ArmCommitLiterals(DefineLabel(branched, <<"pool", w.pc>>))
ArmMaybeCommitLiterals(w) ==
  IF w.earliest = Nowhere \/ ArmSpaceUsed(w) <= ArmPoolLimit THEN w
  ELSE LET noted == AddLabelReference([w EXCEPT !.earliest = Nowhere],
                                      [id |-> <<"pool", w.pc>>, type |-> "b"])
           branched == AppendWord(noted, 4, Word(\h0a00, 0) \cup Always)
       IN  DefineLabel(ArmCommitLiterals(branched), <<"pool", w.pc>>)

\* put_instruction
ArmPutPiece(w, piece) ==
  LET noted == AddLiteralReference(AddLabelReference(w, piece.label), piece.literal)
  IN  IF piece.words = <<>> THEN noted
      ELSE ArmMaybeCommitLiterals(AppendWords(noted, 4, piece.words))

\* flush: the references before one that fails are committed all the same.
ArmFlushes(w) == \A i \in DOMAIN w.refs : ArmLabelCommits(w, w.refs[i])
ArmFlush(w) ==
  LET failing == {i \in DOMAIN w.refs : ~ArmLabelCommits(w, w.refs[i])}
      committed == IF failing = {} THEN w.refs ELSE SubSeq(w.refs, 1, Min(failing) - 1)
      patched == FoldLeft(ArmCommitLabel, w, committed)
  IN  IF failing = {} THEN ArmCommitLiterals([patched EXCEPT !.refs = <<>>])
      ELSE ForgetReferences(patched)

=============================================================================
