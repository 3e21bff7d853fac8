----------------------------- MODULE ThumbWriter -----------------------------
(***************************************************************************)
(* hooxthumbwriter.c: the halfwords it puts for each request, and its      *)
(* labels and literal pools.                                               *)
(*                                                                         *)
(* Some requests are put as two instructions although they are one, or     *)
(* need the IT just before them; a literal pool may come between.          *)
(***************************************************************************)
EXTENDS ArmWriter

IsLow(r) == r.bank = "r" /\ r.n <= 7
ThumbWide(high, low) == <<Piece(<<high, low>>)>>
ThumbWideIf(allowed, high, low) == IF allowed THEN ThumbWide(high, low) ELSE <<>>
ThumbWideTo(id, type, high, low) ==
  <<[Piece(<<high, low>>) EXCEPT !.label = [id |-> id, type |-> type]]>>

-----------------------------------------------------------------------------
(* Branches *)

\* put_branch_imm, by a distance in halfwords; no range is checked.
Halves(distance) ==
  LET sign == Value(Field(distance, 24, 0), 23, 1)
      \* j1 and j2 are one where i1 and i2 agree with the sign.
      J(bit) == Value(Field(distance, 24, 0), bit, 1) = sign
  IN  [high |-> Field(sign, 1, 10) \cup Field(distance \div 2^11, 10, 0),
       low |-> Flag(J(22), 13) \cup Flag(J(21), 11) \cup Field(distance, 11, 0)]
ThumbFarLow(link, thumb) == Half(\h8000) \cup Flag(link, 14) \cup Flag(thumb, 12)
PutThumbBranchImm(pc, target, link, thumb) ==
  LET halves == Halves((AlignedDown(target, 2) - (pc + 4)) \div 2)
  IN  ThumbWide(Half(\hf000) \cup halves.high, ThumbFarLow(link, thumb) \cup halves.low)
PutThumbBImm(pc, target) == PutThumbBranchImm(pc, target, FALSE, TRUE)
PutThumbBlImm(pc, target) == PutThumbBranchImm(pc, target, TRUE, TRUE)
PutThumbBlxImm(pc, target) == PutThumbBranchImm(pc, target, TRUE, FALSE)
PutThumbBLabel(id) == InsnTo(id, "b_t2", Half(\he000))
PutThumbBLabelWide(id) == ThumbWideTo(id, "b_t4", Half(\hf000), ThumbFarLow(FALSE, TRUE))
PutThumbBlLabel(id) == ThumbWideTo(id, "bl_t1", Half(\hf000), ThumbFarLow(TRUE, TRUE))
PutThumbBCondLabel(cc, id) == InsnTo(id, "b_t1", Half(\hd000) \cup Field(cc - 1, 4, 8))
PutThumbBCondLabelWide(cc, id) ==
  ThumbWideTo(id, "b_t3", Half(\hf000) \cup Field(cc - 1, 4, 6), Half(\h8000))
PutThumbCbzRegLabel(r, id) == InsnTo(id, "cbz_t1", Half(\hb100) \cup ArmAt(r, 0))
PutThumbCbnzRegLabel(r, id) == InsnTo(id, "cbz_t1", Half(\hb900) \cup ArmAt(r, 0))
PutThumbBxReg(r) == Insn(Half(\h4700) \cup ArmAt(r, 3))
PutThumbBlxReg(r) == Insn(Half(\h4780) \cup ArmAt(r, 3))
PutThumbCmpRegImm(r, imm) == Insn(Half(\h2800) \cup ArmAt(r, 8) \cup Field(imm, 8, 0))

-----------------------------------------------------------------------------
(* Loads and stores *)

\* put_push_or_pop_regs: narrow for low registers and the special one, which
\* is LR of a push and PC of a pop.
ThumbPushOrPop(narrow, wide, special, regs) ==
  IF \A r \in regs : IsLow(r) \/ r = special
  THEN InsnIf(regs # {}, Half(narrow) \cup Mask(regs \ {special}) \cup Flag(special \in regs, 8))
  ELSE Insn(Half(wide)) \o Insn(Mask(regs))
PutThumbPushRegs(regs) == ThumbPushOrPop(\hb400, \he92d, ArmLr, regs)
PutThumbPopRegs(regs) == ThumbPushOrPop(\hbc00, \he8bd, ArmPc, regs)

\* The register's number goes to the first halfword, where the ISA has it in
\* the second.
ThumbVectorRange(template, first, last) ==
  LET v == VectorRange(first, last)
  IN  ThumbWideIf(v.allowed,
        Half(template) \cup Field(v.first \div 16, 1, 6) \cup Field(v.first, 4, 12),
        Half(\h0a00) \cup Flag(v.isDouble, 8) \cup Field(v.imm, 8, 0))
PutThumbVpushRange(first, last) == ThumbVectorRange(\hed2d, first, last)
PutThumbVpopRange(first, last) == ThumbVectorRange(\hecbd, first, last)

PutThumbLdrU32(r, value) ==
  IF IsLow(r) THEN InsnLoading(value, 32, Half(\h4800) \cup ArmAt(r, 8))
  ELSE <<[Piece(<<Half(\hf8df), ArmAt(r, 12)>>)
            EXCEPT !.literal = [value |-> value, width |-> 32]]>>

\* put_transfer_reg_reg_offset
ThumbTransfer(load, r, base, offset) ==
  LET isSp == base = ArmSp
      isNarrow == /\ IsLow(r)
                  /\ IsLow(base) \/ isSp
                  /\ offset <= (IF isSp THEN 1020 ELSE 124)
                  /\ offset % 4 = 0
  IN  CASE isNarrow /\ isSp ->
             Insn(Half(\h9000) \cup Flag(load, 11) \cup ArmAt(r, 8) \cup Field(offset \div 4, 8, 0))
        [] isNarrow /\ ~isSp ->
             Insn(Half(\h6000) \cup Flag(load, 11) \cup Field(offset \div 4, 5, 6)
                    \cup ArmAt(base, 3) \cup ArmAt(r, 0))
        [] OTHER ->
             ThumbWideIf(offset <= 4095, Half(\hf8c0) \cup Flag(load, 4) \cup ArmAt(base, 0),
                         ArmAt(r, 12) \cup Field(offset, 12, 0))
PutThumbLdrRegRegOffset(dst, src, offset) == ThumbTransfer(TRUE, dst, src, offset)
PutThumbStrRegRegOffset(src, dst, offset) == ThumbTransfer(FALSE, src, dst, offset)
PutThumbLdrbRegReg(dst, src) == Insn(Half(\h7800) \cup ArmAt(src, 3) \cup ArmAt(dst, 0))
PutThumbLdrhRegReg(dst, src) == Insn(Half(\h8800) \cup ArmAt(src, 3) \cup ArmAt(dst, 0))

\* A single is numbered by its low bit last, a double by its high bit first.
PutThumbVldr(dst, src, offset) ==
  LET isSingle == dst.bank = "s"
      vd == IF isSingle THEN dst.n \div 2 ELSE dst.n
      d == IF isSingle THEN dst.n ELSE dst.n \div 16
  IN  ThumbWideIf(Absolute(offset) \div 4 <= 255,
        Half(\hed10) \cup Flag(offset >= 0, 7) \cup Field(d, 1, 6) \cup ArmAt(src, 0),
        Half(\h0800) \cup Field(vd, 4, 12) \cup Field(IF isSingle THEN 2 ELSE 3, 4, 8)
          \cup Field(Absolute(offset) \div 4, 8, 0))
PutThumbLdmia(r, list) ==
  IF r = ArmSp /\ list \subseteq (0..7) \cup {15}
  THEN Insn(Half(\hbc00) \cup Flag(15 \in list, 8) \cup (list \cap (0..7)))
  ELSE ThumbWide(Half(\he8b0) \cup ArmAt(r, 0), list)

-----------------------------------------------------------------------------
(* Arithmetic: the narrow forms set the flags unless an IT comes before. *)

ThumbItAl == Insn(Half(\hbfe8))
Unflagged(insn) == ThumbItAl \o Insn(insn)

\* The number of a high register, as bit 7 and what is left of it.
ThumbHigh(r) == IF IsLow(r) THEN ArmAt(r, 0) ELSE {7} \cup Field(r.n - 8, 4, 0)
PutThumbMovRegReg(dst, src) ==
  IF IsLow(dst) /\ IsLow(src)
  THEN Unflagged(Half(\h1c00) \cup ArmAt(src, 3) \cup ArmAt(dst, 0))
  ELSE Insn(Half(\h4600) \cup ArmAt(src, 3) \cup ThumbHigh(dst))
PutThumbMovRegU8(dst, imm) == Unflagged(Half(\h2000) \cup ArmAt(dst, 8) \cup Field(imm, 8, 0))
PutThumbMovRegCpsr(r) == Insn(Half(\hf3ef)) \o Insn(Half(\h8000) \cup ArmAt(r, 8))
PutThumbMovCpsrReg(r) == Insn(Half(\hf380) \cup ArmAt(r, 0)) \o Insn(Half(\h8900))

PutThumbAddRegImm(dst, imm) ==
  CASE dst = ArmSp ->
         InsnIf(imm % 4 = 0,
                Half(\hb000) \cup Flag(imm < 0, 7) \cup Field(Absolute(imm) \div 4, 16, 0))
    [] IsLow(dst) ->
         Unflagged(Half(\h3000) \cup Flag(imm < 0, 11) \cup ArmAt(dst, 8) \cup Field(Absolute(imm), 16, 0))
    [] OTHER -> <<>>
PutThumbAddRegRegReg(dst, left, right) ==
  IF left = dst THEN Insn(Half(\h4400) \cup ThumbHigh(dst) \cup ArmAt(right, 3))
  ELSE Unflagged(Half(\h1800) \cup ArmAt(right, 6) \cup ArmAt(left, 3) \cup ArmAt(dst, 0))
PutThumbAddRegRegImm(dst, left, imm) ==
  CASE left = dst -> PutThumbAddRegImm(dst, imm)
    [] left # dst /\ left \in {ArmSp, ArmPc} ->
         InsnIf(IsLow(dst) /\ imm >= 0 /\ imm % 4 = 0,
                Half(\ha000) \cup Flag(left = ArmSp, 11) \cup ArmAt(dst, 8)
                  \cup Field(imm \div 4, 16, 0))
    [] OTHER ->
         IF IsLow(dst) /\ IsLow(left) /\ Absolute(imm) <= 7
         THEN Unflagged(Half(\h1c00) \cup Flag(imm < 0, 9) \cup Field(Absolute(imm), 3, 6)
                          \cup ArmAt(left, 3) \cup ArmAt(dst, 0))
         ELSE <<>>
PutThumbSubRegImm(dst, imm) == PutThumbAddRegImm(dst, -imm)
PutThumbSubRegRegImm(dst, left, imm) == PutThumbAddRegRegImm(dst, left, -imm)
PutThumbSubRegRegReg(dst, left, right) ==
  Unflagged(Half(\h1a00) \cup ArmAt(right, 6) \cup ArmAt(left, 3) \cup ArmAt(dst, 0))
PutThumbAndRegRegImm(dst, left, imm) ==
  ThumbWideIf(FitsUnsigned(imm, 8), Half(\hf000) \cup ArmAt(left, 0),
              ArmAt(dst, 8) \cup Field(imm, 8, 0))
PutThumbOrRegRegImm(dst, left, imm) ==
  ThumbWideIf(FitsUnsigned(imm, 8), Half(\hf040) \cup ArmAt(left, 0),
              ArmAt(dst, 8) \cup Field(imm, 8, 0))
PutThumbLsls(dst, left, shift) ==
  InsnIf(shift \in 1..31, Field(shift, 5, 6) \cup ArmAt(left, 3) \cup ArmAt(dst, 0))
PutThumbLsl(dst, left, shift) == ThumbItAl \o PutThumbLsls(dst, left, shift)
PutThumbLsrs(dst, left, shift) ==
  InsnIf(shift \in 1..31, Half(\h0800) \cup Field(shift, 5, 6) \cup ArmAt(left, 3) \cup ArmAt(dst, 0))
PutThumbMrs(r) == ThumbWideIf(r.n <= 12, Half(\hf3ef), Half(\h8000) \cup ArmAt(r, 8))
PutThumbMsr(r) == ThumbWideIf(r.n <= 12, Half(\hf380) \cup ArmAt(r, 0), Half(\h8800))
PutThumbNop == Insn(Half(\hbf00))
PutThumbBkptImm(n) == Insn(Half(\hbe00) \cup Field(n, 8, 0))
PutThumbBreakpoint(linux) ==
  IF linux THEN Insn(Half(\hde01)) ELSE PutThumbBkptImm(0) \o PutThumbBxReg(ArmLr)

-----------------------------------------------------------------------------
(* Calls and branches to an address *)

ThumbArgumentSetup(args) ==
  (IF StackArguments(args) % 2 # 0
   THEN <<[Request("add_imm") EXCEPT !.a = ArmSp, !.n = -4]>> ELSE <<>>) \o ArmArguments(args)
ThumbArgumentTeardown(args) ==
  IF StackSlots(args) = 0 THEN <<>>
  ELSE <<[Request("add_imm") EXCEPT !.a = ArmSp, !.n = StackSlots(args) * 4]>>
ThumbCallRegWithArguments(r, args) ==
  ThumbArgumentSetup(args) \o <<[Request("call_reg") EXCEPT !.a = r]>> \o ThumbArgumentTeardown(args)
ThumbCallAddressWithArguments(func, args) ==
  ThumbArgumentSetup(args)
    \o <<[Request("mov_address") EXCEPT !.a = ArmLr, !.value = <<func>>],
         [Request("call_reg") EXCEPT !.a = ArmLr]>>
    \o ThumbArgumentTeardown(args)

\* can_branch_directly_between, in bytes from the branch itself
ThumbCanBranch(from, to) == Fits(to - from, 24)
WithBitZero(address) == AlignedDown(address, 2) + 1
PutThumbBranchAddress(pc, address) ==
  IF ThumbCanBranch(pc, address) THEN PutThumbBImm(pc, address)
  ELSE PutThumbPushRegs({ArmReg(0), ArmReg(1)})
         \o PutThumbLdrU32(ArmReg(0), <<WithBitZero(address)>>)
         \o PutThumbStrRegRegOffset(ArmReg(0), ArmSp, 4)
         \o PutThumbPopRegs({ArmReg(0), ArmPc})

-----------------------------------------------------------------------------
(* Labels and literal pools *)

\* do_commit_label: what each kind of branch may reach, and its bits.
ThumbLabelDistance(w, r) == (w.defs[r.id] - (r.at + 4)) \div 2
ThumbLabelReachesHalfwords(type, distance) ==
  CASE type = "b_t1" -> Fits(distance, 8)
    [] type = "b_t2" -> Fits(distance, 11)
    [] type = "b_t3" -> Fits(distance, 20)
    [] type \in {"b_t4", "bl_t1"} -> Fits(distance, 24)
    [] type = "cbz_t1" -> FitsUnsigned(distance, 7)
ThumbLabelReaches(type, distance) ==
  CASE type = "b_t1" -> Fits(distance, 8)
    [] type = "b_t2" -> Fits(distance, 11)
    [] type = "b_t3" -> Fits(distance, 20)
    [] type \in {"b_t4", "bl_t1"} -> Fits(distance, 24)
    [] type = "cbz_t1" -> FitsUnsigned(2 * distance, 7)
ThumbLabelCommits(w, r) ==
  r.id \in DOMAIN w.defs /\ ThumbLabelReaches(r.type, ThumbLabelDistance(w, r))
ThumbCommitLabel(w, r) ==
  LET distance == ThumbLabelDistance(w, r)
      halves == Halves(distance)
      J(bit, at) == Field(Value(Field(distance, 24, 0), bit, 1), 1, at)
  IN  CASE r.type = "b_t1" -> Patched(w, r.at, Field(distance, 8, 0))
        [] r.type = "b_t2" -> Patched(w, r.at, Field(distance, 11, 0))
        [] r.type = "b_t3" ->
             Patched(Patched(w, r.at, J(23, 10) \cup Field(distance \div 2^11, 6, 0)),
                     r.at + 2, J(17, 13) \cup J(18, 11) \cup Field(distance, 11, 0))
        [] r.type \in {"b_t4", "bl_t1"} -> Patched(Patched(w, r.at, halves.high), r.at + 2, halves.low)
        [] r.type = "cbz_t1" -> Patched(w, r.at, J(5, 9) \cup Field(distance, 5, 3))

\* commit_literals: each value has one slot, at a multiple of four.
ThumbPlace(w, first, r) ==
  LET low == Field(r.value[1], 16, 0)
      high == Field(r.value[1] \div 2^16, 16, 0)
      holds == {at \in first..(w.pc - 4) :
                  (at - first) % 4 = 0 /\ w.code[at] = low /\ w.code[at + 2] = high}
      slot == IF holds = {} THEN w.pc ELSE Min(holds)
      placed == IF holds = {} THEN AppendWords(w, 2, <<low, high>>) ELSE w
      distance == slot - AlignedDown(r.at + 4, 4)
      isT1 == Matches(w.code[r.at], Half(\hf800), Half(\h4800))
  IN  IF isT1 THEN Patched(placed, r.at, Field(distance \div 4, 16, 0))
      ELSE Patched(placed, r.at + 2, Field(distance, 16, 0))
ThumbPlaceAll(w, refs) ==
  [FoldLeft(LAMBDA v, r : ThumbPlace(v, w.pc, r), w, refs) EXCEPT !.literals = <<>>]
ThumbUnpadded(w) == w
ThumbPadding(w) == IF w.pc % 4 = 0 THEN w ELSE AppendWord(w, 2, Half(\hbf00))

\* maybe_commit_literals, which branches over the pool.
ThumbPoolLimit == 1024
ThumbSpaceUsed(w) == w.pc - w.earliest + 4 * Len(w.literals)
ThumbMaybeCommitLiterals(w) ==
  IF w.earliest = Nowhere \/ ThumbSpaceUsed(w) <= ThumbPoolLimit THEN w
  ELSE LET noted == AddLabelReference([w EXCEPT !.earliest = Nowhere],
                                      [id |-> <<"pool", w.pc>>, type |-> "b_t2"])
           branched == AppendWord(noted, 2, Half(\he000))
           placed == IF w.literals = <<>> THEN branched
                     ELSE ThumbPlaceAll(ThumbPadding(branched), w.literals)
       IN  DefineLabel(placed, <<"pool", w.pc>>)

\* put_instruction and put_instruction_wide
ThumbPutPiece(w, piece) ==
  LET noted == AddLiteralReference(AddLabelReference(w, piece.label), piece.literal)
  IN  IF piece.words = <<>> THEN noted
      ELSE ThumbMaybeCommitLiterals(AppendWords(noted, 2, piece.words))

\* The padding may bring a pool of its own; the references are placed again.
ThumbCommitLiterals(w) ==
  IF w.literals = <<>> THEN w
  ELSE ThumbPlaceAll(IF w.pc % 4 = 0 THEN w ELSE ThumbMaybeCommitLiterals(ThumbPadding(w)), w.literals)

\* flush
ThumbFlushes(w) == \A i \in DOMAIN w.refs : ThumbLabelCommits(w, w.refs[i])
ThumbFlush(w) ==
  LET failing == {i \in DOMAIN w.refs : ~ThumbLabelCommits(w, w.refs[i])}
      committed == IF failing = {} THEN w.refs ELSE SubSeq(w.refs, 1, Min(failing) - 1)
      patched == FoldLeft(ThumbCommitLabel, w, committed)
  IN  IF failing = {} THEN ThumbCommitLiterals([patched EXCEPT !.refs = <<>>])
      ELSE ForgetReferences(patched)

\* commit_label: the first reference to the label only, which then is
\* forgotten where it reaches.
ThumbCommitOne(w, id) ==
  LET at == {i \in DOMAIN w.refs : w.refs[i].id = id}
  IN  IF at = {} \/ ~ThumbLabelCommits(w, w.refs[Min(at)]) THEN w
      ELSE [ThumbCommitLabel(w, w.refs[Min(at)]) EXCEPT !.refs = RemoveAt(@, Min(at))]

=============================================================================
