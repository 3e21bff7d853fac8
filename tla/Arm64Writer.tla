----------------------------- MODULE Arm64Writer -----------------------------
(***************************************************************************)
(* hooxarm64writer.c: the words it puts for each request, and its labels   *)
(* and literal pools.                                                      *)
(*                                                                         *)
(* A register is its bank and its number; number 31 of bank "x" or "w" is  *)
(* the zero register, and "sp" has the number 31 too.  An address may      *)
(* carry a signature above Arm64Space, which a writer for a process with   *)
(* pointer authentication strips from the targets of B, BL and ADRP.       *)
(***************************************************************************)
EXTENDS Words

-----------------------------------------------------------------------------
(* Registers *)

X(n) == Reg("x", n)
SP == Reg("sp", 31)
XZR == Reg("x", 31)
WZR == Reg("w", 31)

\* describe_reg
Width(r) == CASE r.bank \in {"x", "sp", "d"} -> 64 [] r.bank \in {"w", "s"} -> 32 [] OTHER -> 128
IsInteger(r) == r.bank \in {"x", "w", "sp"}
SfAlways(r) == Field(1, 1, 31)
Sf(r) == Flag(r.bank \in {"x", "sp"}, 31)
At(r, at) == Field(r.n, 5, at)

Arm64Space == 2^30
Strip(a, auth) == IF auth THEN a % Arm64Space ELSE a

-----------------------------------------------------------------------------
(* Branches *)

\* can_branch_directly_between
Arm64CanBranch(from, to, auth) == Fits(Strip(to, auth) - Strip(from, auth), 28)

\* A branch over at most 2^(bits + 1) bytes each way.
BranchWord(distance, bits, at, template) ==
  InsnIf(distance % 4 = 0 /\ Fits(distance \div 4, bits),
         template \cup Field(distance \div 4, bits, at))

PutBImm(pc, target, auth) == BranchWord(Strip(target, auth) - pc, 26, 0, Word(\h1400, 0))
PutBLabel(id) == InsnTo(id, "b", Word(\h1400, 0))
PutBCondLabel(cc, id) == InsnTo(id, "b_cond", Word(\h5400, cc - 1))
PutBlImm(pc, target, auth) == BranchWord(Strip(target, auth) - pc, 26, 0, Word(\h9400, 0))
PutBlLabel(id) == InsnTo(id, "bl", Word(\h9400, 0))

\* With pointer authentication: BRAAZ and BLRAAZ.
Extra(auth) == IF auth THEN Half(\h081f) ELSE {}
PutBrReg(r, auth) == InsnIf(Width(r) = 64, Word(\hd61f, 0) \cup At(r, 5) \cup Extra(auth))
PutBlrReg(r, auth) == InsnIf(Width(r) = 64, Word(\hd63f, 0) \cup At(r, 5) \cup Extra(auth))
PutRetReg(r) == InsnIf(Width(r) = 64, Word(\hd65f, 0) \cup At(r, 5))

CbxWord(op, r) == Sf(r) \cup Word(\h3400, 0) \cup Field(op, 1, 24) \cup At(r, 0)
PutCbxRegImm(op, r, pc, target) == BranchWord(target - pc, 19, 5, CbxWord(op, r))
PutCbxRegLabel(op, r, id) == InsnTo(id, "cbz", CbxWord(op, r))

TbxWord(op, r, bit) ==
  Field(bit \div 32, 1, 31) \cup Word(\h3600, 0) \cup Field(op, 1, 24)
    \cup Field(bit, 5, 19) \cup At(r, 0)
PutTbxRegImmImm(op, r, bit, pc, target) ==
  IF bit >= Width(r) THEN <<>> ELSE BranchWord(target - pc, 14, 5, TbxWord(op, r, bit))
\* The reference is noted before a bit out of range is refused.
PutTbxRegImmLabel(op, r, bit, id) ==
  IF bit >= Width(r)
  THEN <<[Piece(<<>>) EXCEPT !.label = [id |-> id, type |-> "tbz"]]>>
  ELSE InsnTo(id, "tbz", TbxWord(op, r, bit))

-----------------------------------------------------------------------------
(* Loads and stores *)

PostAdjust == 1
SignedOffset == 2
PreAdjust == 3

\* put_load_store_pair: the opcode and the scale of each kind of operand.
PairKind(r) ==
  CASE r.bank = "w" -> [opc |-> 0, scale |-> 4]
    [] r.bank \in {"x", "sp"} -> [opc |-> 2, scale |-> 8]
    [] r.bank = "s" -> [opc |-> 0, scale |-> 4]
    [] r.bank = "d" -> [opc |-> 1, scale |-> 8]
    [] OTHER -> [opc |-> 2, scale |-> 16]
PutLoadStorePair(load, a, b, base, offset, mode) ==
  InsnIf(Width(a) = Width(b),
         Field(PairKind(a).opc, 2, 30) \cup Field(5, 3, 27) \cup Flag(~IsInteger(a), 26)
           \cup Field(mode, 2, 23) \cup Flag(load, 22)
           \cup Field(offset \div PairKind(a).scale, 7, 15)
           \cup At(b, 10) \cup At(base, 5) \cup At(a, 0))

PutPushRegReg(a, b) ==
  PutLoadStorePair(FALSE, a, b, SP, -(2 * (Width(a) \div 8)), PreAdjust)
PutPopRegReg(a, b) ==
  PutLoadStorePair(TRUE, a, b, SP, 2 * (Width(a) \div 8), PostAdjust)

\* What push_all_x_registers and its inverse ask for, in their order.
Push(a, b) == [Request("push") EXCEPT !.a = a, !.b = b]
Pop(a, b) == [Request("pop") EXCEPT !.a = a, !.b = b]
PushAllX ==
  [i \in 1..15 |-> Push(X(2 * i - 2), X(2 * i - 1))]
    \o <<[Request("mov_reg_nzcv") EXCEPT !.a = X(15)], Push(X(30), X(15))>>
PopAllX ==
  <<Pop(X(30), X(15)), [Request("mov_nzcv_reg") EXCEPT !.a = X(15)]>>
    \o [i \in 1..15 |-> Pop(X(30 - 2 * i), X(31 - 2 * i))]
PushAllQ == [i \in 1..16 |-> Push(Reg("q", 2 * i - 2), Reg("q", 2 * i - 1))]
PopAllQ == [i \in 1..16 |-> Pop(Reg("q", 32 - 2 * i), Reg("q", 33 - 2 * i))]

\* put_ldr_reg_pcrel
LiteralWord(r) ==
  Word(IF Width(r) = 64 THEN \h5000 ELSE \h1000, 0)
    \cup Word(IF IsInteger(r) THEN \h0800 ELSE \h0c00, 0) \cup At(r, 0)
PutLdrRegPtr(r, width, pc, source) ==
  IF Width(r) # width THEN <<>> ELSE BranchWord(source - pc, 19, 5, LiteralWord(r))

PutMovRegReg(dst, src) ==
  InsnIf(Width(dst) = Width(src),
         IF dst.n = 31 \/ (src.n = 31 /\ src \notin {XZR, WZR})
         THEN Word(\h9100, 0) \cup At(dst, 0) \cup At(src, 5)
         ELSE Sf(dst) \cup Word(\h2a00, 0) \cup At(dst, 0) \cup At(XZR, 5) \cup At(src, 16))

\* put_ldr_reg_u32 and put_ldr_reg_u64: zero needs no literal.
PutLdrRegU32(r, value) ==
  CASE IsInteger(r) /\ value = <<0>> -> PutMovRegReg(r, WZR)
    [] Width(r) # 32 -> <<>>
    [] OTHER -> InsnLoading(value, 32, LiteralWord(r))
PutLdrRegU64(r, value) ==
  CASE IsInteger(r) /\ value = <<0, 0>> -> PutMovRegReg(r, XZR)
    [] Width(r) # 64 -> <<>>
    [] OTHER -> InsnLoading(value, 64, LiteralWord(r))

\* put_ldr_reg_reg_offset and its like: the size, the bank and the operation.
TransferWord(r, load) ==
  Field(CASE Width(r) = 128 -> 0 [] Width(r) = 64 -> 3 [] OTHER -> 2, 2, 30)
    \cup Flag(~IsInteger(r), 26)
    \cup Field((IF load THEN 1 ELSE 0) + (IF Width(r) = 128 THEN 2 ELSE 0), 2, 22)
PutLdrRegRegOffset(r, base, offset) ==
  InsnIf(Width(base) = 64,
         Word(\h3900, 0) \cup TransferWord(r, TRUE)
           \cup Field(offset \div (Width(r) \div 8), 22, 10) \cup At(base, 5) \cup At(r, 0))
PutLdrRegRegOffsetMode(r, base, offset, mode) ==
  InsnIf(Width(base) = 64 /\ Fits(offset, 9),
         Word(\h3800, 0) \cup TransferWord(r, TRUE) \cup Field(offset, 9, 12)
           \cup Field(mode, 2, 10) \cup At(base, 5) \cup At(r, 0))
PutLdrswRegRegOffset(r, base, offset) ==
  InsnIf(/\ Width(r) = 64 /\ Width(base) = 64 /\ IsInteger(r) /\ IsInteger(base)
         /\ FitsUnsigned(offset \div 4, 12),
         Word(\hb980, 0) \cup Field(offset \div 4, 12, 10) \cup At(base, 5) \cup At(r, 0))
PutStrRegRegOffset(r, base, offset) ==
  InsnIf(Width(base) = 64,
         Word(\h3900, 0) \cup TransferWord(r, FALSE)
           \cup Field(offset \div (Width(r) \div 8), 22, 10) \cup At(base, 5) \cup At(r, 0))
PutStrRegRegOffsetMode(r, base, offset, mode) ==
  InsnIf(Width(base) = 64 /\ Fits(offset, 9),
         Word(\h3800, 0) \cup TransferWord(r, FALSE) \cup Field(offset, 9, 12)
           \cup Field(mode, 2, 10) \cup At(base, 5) \cup At(r, 0))

\* In pages, as the distance may be of 33 bits.
Arm64CodePage == 4096
PutAdrpRegAddress(r, pc, address, auth) ==
  LET distance == Strip(address, auth) - AlignedDown(pc, Arm64CodePage)
      pages == distance \div Arm64CodePage
  IN  InsnIf(Width(r) = 64 /\ distance % Arm64CodePage = 0 /\ Fits(pages, 21),
             Word(\h9000, 0) \cup Field(pages, 2, 29) \cup Field(pages \div 4, 19, 5) \cup At(r, 0))

-----------------------------------------------------------------------------
(* Arithmetic and the rest *)

SameWidth(regs) == \A r, s \in regs : Width(r) = Width(s)

PutMovRegNzcv(r) == Insn(Word(\hd53b, \h4200) \cup At(r, 0))
PutMovNzcvReg(r) == Insn(Word(\hd51b, \h4200) \cup At(r, 0))
PutUxtwRegReg(dst, src) ==
  InsnIf(Width(dst) = 64 /\ Width(src) = 32, Word(\hd340, \h7c00) \cup At(src, 5) \cup At(dst, 0))
PutAddRegRegImm(dst, left, n) ==
  InsnIf(SameWidth({dst, left}),
         Sf(dst) \cup Word(\h1100, 0) \cup At(dst, 0) \cup At(left, 5) \cup Field(n, 22, 10))
PutAddRegRegReg(dst, left, right) ==
  InsnIf(SameWidth({dst, left, right}),
         Sf(dst) \cup Word(\h0b00, 0) \cup Flag(Width(dst) = 64, 27)
           \cup At(dst, 0) \cup At(left, 5) \cup At(right, 16))
PutSubRegRegImm(dst, left, n) ==
  InsnIf(SameWidth({dst, left}),
         Sf(dst) \cup Word(\h5100, 0) \cup At(dst, 0) \cup At(left, 5) \cup Field(n, 22, 10))
PutSubRegRegReg(dst, left, right) ==
  InsnIf(SameWidth({dst, left, right}),
         Sf(dst) \cup Word(\h4b00, 0) \cup At(dst, 0) \cup At(left, 5) \cup At(right, 16))
PutEorRegRegReg(dst, left, right) ==
  InsnIf(SameWidth({dst, left, right}),
         Flag(Width(dst) = 64, 31) \cup Word(\h4a00, 0)
           \cup At(right, 16) \cup At(left, 5) \cup At(dst, 0))
PutUbfm(dst, src, immr, imms) ==
  InsnIf(SameWidth({dst, src}) /\ immr < 64 /\ imms < 64,
         (IF Width(dst) = 64 THEN Word(\h8040, 0) ELSE {}) \cup Word(\h5300, 0)
           \cup Field(immr, 8, 16) \cup Field(imms, 8, 10) \cup At(src, 5) \cup At(dst, 0))
PutLslRegImm(dst, src, shift) ==
  IF shift >= Width(dst) THEN <<>>
  ELSE PutUbfm(dst, src, (Width(dst) - shift) % Width(dst), Width(dst) - 1 - shift)
PutLsrRegImm(dst, src, shift) ==
  IF Width(dst) = 32 /\ shift >= 32 THEN <<>> ELSE PutUbfm(dst, src, shift, Width(dst) - 1)
PutCmpRegReg(a, b) ==
  InsnIf(SameWidth({a, b}), Sf(a) \cup Word(\h6b00, \h001f) \cup At(a, 5) \cup At(b, 16))
PutXpaciReg(r) == InsnIf(Width(r) = 64, Word(\hdac1, \h43e0) \cup At(r, 0))
PutNop == Insn(Word(\hd503, \h201f))
PutBrkImm(n) == Insn(Word(\hd420, 0) \cup Field(n, 16, 5))
PutMrs(r, system) ==
  InsnIf(Width(r) = 64 /\ system < 2^15, Word(\hd530, 0) \cup Field(system, 16, 5) \cup At(r, 0))

-----------------------------------------------------------------------------
(* Logical immediates: a value is the set of its bits.  It has an encoding *)
(* when it repeats one element, which is one run of ones, rotated.         *)

ElementSizes == {2, 4, 8, 16, 32, 64}
HalvesAgree(value, size) ==
  \A i \in 0..(size \div 2 - 1) : i \in value <=> i + size \div 2 \in value
\* determine_logical_element_size
ElementSize(value, width) ==
  Min({s \in ElementSizes :
         s <= width /\ \A t \in ElementSizes : s < t /\ t <= width => HalvesAgree(value, t)})

\* is_shifted_mask_64
IsRun(bits) == bits # {} /\ bits = Min(bits)..Max(bits)

\* try_determine_logical_rotation: the ones are one run, or the zeros are.
Rotation(value, size) ==
  LET ones == value \cap (0..(size - 1))
      zeros == (0..(size - 1)) \ ones
  IN  CASE IsRun(ones) -> [found |-> TRUE, rotations |-> Min(ones), ones |-> Cardinality(ones)]
        [] ~IsRun(ones) /\ IsRun(zeros) ->
             [found |-> TRUE, rotations |-> Max(zeros) + 1,
              ones |-> (63 - Max(zeros)) + Min(zeros) - (64 - size)]
        [] OTHER -> [found |-> FALSE, rotations |-> 0, ones |-> 0]

\* try_encode_logical_immediate
HasLogicalImmediate(value, width) ==
  /\ value \notin {{}, 0..63}
  /\ width = 32 => value \subseteq 0..31 /\ value # 0..31
  /\ Rotation(value, ElementSize(value, width)).found
RotatedTheOtherWay(value, width) ==
  LET size == ElementSize(value, width)
      rotation == Rotation(value, size)
      imms == rotation.ones - 1 - 2 * size
  IN  Field(1 - Value(Field(imms, 7, 0), 6, 1), 1, 22)
        \cup Field(rotation.rotations, 6, 16) \cup Field(imms, 6, 10)
LogicalImmediate(value, width) ==
  LET size == ElementSize(value, width)
      rotation == Rotation(value, size)
      imms == rotation.ones - 1 - 2 * size
  IN  Field(1 - Value(Field(imms, 7, 0), 6, 1), 1, 22)
        \cup Field((size - rotation.rotations) % size, 6, 16)
        \cup Field(imms, 6, 10)

PutAndRegRegImm(dst, left, value) ==
  InsnIf(SameWidth({dst, left}) /\ HasLogicalImmediate(value, Width(dst)),
         Sf(dst) \cup Word(\h1200, 0) \cup At(dst, 0) \cup At(left, 5)
           \cup LogicalImmediate(value, Width(dst)))
PutTstRegImm(r, value) ==
  InsnIf(HasLogicalImmediate(value, Width(r)),
         Sf(r) \cup Word(\h7200, \h001f) \cup At(r, 5) \cup LogicalImmediate(value, Width(r)))

-----------------------------------------------------------------------------
(* Calls and branches to an address *)

\* put_argument_list_setup: from the last argument to the first.  An
\* argument is an address (a literal) or a register.
ArgumentSetup(args) ==
  LET Setup(i) ==
        IF args[i].kind = "address"
        THEN <<[Request("mov_address") EXCEPT !.a = X(i - 1), !.value = args[i].literal]>>
        ELSE IF Width(args[i].reg) # 64
        THEN <<[Request("uxtw") EXCEPT !.a = X(i - 1), !.b = args[i].reg]>>
        ELSE IF args[i].reg = X(i - 1) THEN <<>>
        ELSE <<[Request("mov") EXCEPT !.a = X(i - 1), !.b = args[i].reg]>>
  IN  FlattenSeq([k \in 1..Len(args) |-> Setup(Len(args) + 1 - k)])

\* put_call_address_with_arguments: the register after the last argument's
\* takes a function out of reach.
CallAddressBody(func, args) ==
  [Request("call_body") EXCEPT !.a = X(Len(args)), !.n = func]
PutCallAddressBody(r, pc, target, auth) ==
  IF Arm64CanBranch(pc, target, auth) THEN PutBlImm(pc, target, auth)
  ELSE PutLdrRegU64(r, <<target, 0>>) \o PutBlrReg(r, auth)
CallAddressWithArguments(func, args) ==
  ArgumentSetup(args) \o <<CallAddressBody(func, args)>>
CallRegWithArguments(r, args) ==
  ArgumentSetup(args) \o <<[Request("blr") EXCEPT !.a = r]>>

PutBranchAddress(pc, address, auth) ==
  IF Arm64CanBranch(pc, address, auth) THEN PutBImm(pc, address, auth)
  ELSE PutLdrRegU64(X(16), <<address, 0>>) \o PutBrReg(X(16), auth)

-----------------------------------------------------------------------------
(* Labels and literal pools *)

\* try_commit_label_refs: the references before the one that fails are
\* committed all the same.
Arm64LabelBits(type) == CASE type \in {"b", "bl"} -> 26 [] type = "tbz" -> 14 [] OTHER -> 19
Arm64LabelCommits(w, r) ==
  r.id \in DOMAIN w.defs /\ Fits((w.defs[r.id] - r.at) \div 4, Arm64LabelBits(r.type))
Arm64CommitLabel(w, r) ==
  Patched(w, r.at, Field((w.defs[r.id] - r.at) \div 4, Arm64LabelBits(r.type),
                         IF r.type \in {"b", "bl"} THEN 0 ELSE 5))

\* commit_literals: the slots of 64 bits, then those of 32, each value once;
\* a value of 32 bits may be found in a half of one of 64.
Arm64LiteralWords(value) == [i \in 1..Len(value) |-> Field(value[i], 32, 0)]
Arm64Place(w, first, r) ==
  LET size == r.width \div 8
      words == Arm64LiteralWords(r.value)
      holds == {at \in first..(w.pc - size) :
                  /\ (at - first) % size = 0
                  /\ \A i \in 1..Len(words) : w.code[at + 4 * (i - 1)] = words[i]}
      slot == IF holds = {} THEN w.pc ELSE Min(holds)
      placed == IF holds = {} THEN AppendWords(w, 4, words) ELSE w
  IN  Patched(placed, r.at, Field((slot - r.at) \div 4, 19, 5))
Arm64CommitLiterals(w) ==
  LET refs == SelectSeq(w.literals, LAMBDA r : r.width = 64)
                \o SelectSeq(w.literals, LAMBDA r : r.width = 32)
      placed == FoldLeft(LAMBDA v, r : Arm64Place(v, w.pc, r), w, refs)
  IN  [placed EXCEPT !.literals = <<>>]

\* maybe_commit_literals, which branches over the pool.
Arm64PoolLimit == 1048572
Arm64SpaceUsed(w) == w.pc - w.earliest + 8 * Len(w.literals)
Arm64MaybeCommitLiterals(w) ==
  IF w.earliest = Nowhere \/ Arm64SpaceUsed(w) <= Arm64PoolLimit THEN w
  ELSE LET noted == AddLabelReference([w EXCEPT !.earliest = Nowhere], [id |-> <<"pool", w.pc>>, type |-> "b"])
           branched == AppendWord(noted, 4, Word(\h1400, 0))
       IN  DefineLabel(Arm64CommitLiterals(branched), <<"pool", w.pc>>)

\* put_instruction
Arm64PutPiece(w, piece) ==
  LET noted == AddLiteralReference(AddLabelReference(w, piece.label), piece.literal)
  IN  IF piece.words = <<>> THEN noted
      ELSE Arm64MaybeCommitLiterals(AppendWords(noted, 4, piece.words))

\* flush
Arm64Flushes(w) == \A i \in DOMAIN w.refs : Arm64LabelCommits(w, w.refs[i])
Arm64Flush(w) ==
  LET failing == {i \in DOMAIN w.refs : ~Arm64LabelCommits(w, w.refs[i])}
      committed == IF failing = {} THEN w.refs ELSE SubSeq(w.refs, 1, Min(failing) - 1)
      patched == FoldLeft(Arm64CommitLabel, w, committed)
  IN  IF failing = {} THEN Arm64CommitLiterals([patched EXCEPT !.refs = <<>>])
      ELSE ForgetReferences(patched)

=============================================================================
