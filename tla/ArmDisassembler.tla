--------------------------- MODULE ArmDisassembler ---------------------------
(***************************************************************************)
(* hx_disasm_arm.c: what the decoders of A32 and of Thumb make of a word.  *)
(*                                                                         *)
(* A Thumb instruction is its first halfword and, when wide, its second.   *)
(* Of a load, `n` is the displacement with its sign; of an operand shifted *)
(* by an immediate, the shift; an immediate operand is the set of its bits.*)
(***************************************************************************)
EXTENDS Words

\* r_reg: numbers 13, 14 and 15 are SP, LR and PC.
R(n) == Reg("r", n)
RAt(w, at) == R(Value(w, at, 4))
PcNumber == 15
IsPcAt(w, at) == Value(w, at, 4) = PcNumber

\* The condition of an A32 instruction: none for the space of 0b1111.
ArmCc(w) == IF Value(w, 28, 4) <= 14 THEN Value(w, 28, 4) + 1 ELSE 0
ArmInsn(w, id, regs) == [Decoded(id, regs) EXCEPT !.cc = ArmCc(w)]

Listed(list) ==
  [i \in 1..Cardinality(list) |-> R(CHOOSE n \in list : Cardinality({m \in list : m < n}) = i - 1)]

\* mark_unsupported_pc_relative
UnsupportedPcRelative == Decoded("unsupported-pcrel", <<>>)

-----------------------------------------------------------------------------
(* A32 *)

\* The second operand of MOV, ADD and SUB.
ArmImmediate(w) == {(b + 32 - 2 * Value(w, 8, 4)) % 32 : b \in w \cap (0..7)}

ArmDecodedB(w, address) ==
  LET target == address + 8 + 4 * SignedValue(w, 0, 24)
  IN  IF Value(w, 28, 4) = 15
      THEN DecodedTo("blx", <<>>, target + 2 * Value(w, 24, 1))
      ELSE [ArmInsn(w, IF 24 \in w THEN "bl" ELSE "b", <<>>) EXCEPT !.target = target]

\* Of an offset in a register the decoder keeps the index and its shift.
ArmDecodedLdr(w) ==
  LET offset == IF 25 \in w THEN Value(w, 7, 5) ELSE Value(w, 0, 12)
      regs == <<RAt(w, 12), RAt(w, 16)>> \o (IF 25 \in w THEN <<RAt(w, 0)>> ELSE <<>>)
  IN  [ArmInsn(w, IF 24 \notin w \/ 21 \in w THEN "ldr-wb" ELSE "ldr", regs)
         EXCEPT !.n = IF 23 \in w THEN offset ELSE -offset]

ArmDecodedData(w, id, regs) ==
  IF 25 \in w THEN [ArmInsn(w, id, regs) EXCEPT !.bits = ArmImmediate(w)]
  ELSE [ArmInsn(w, id, Append(regs, RAt(w, 0))) EXCEPT !.n = Value(w, 7, 5), !.bits = w \cap {5, 6}]

\* Data processing that reads the pc and is none of MOV, ADD, SUB.
ArmReadsPc(w, opcode) ==
  \/ opcode \notin {13, 15} /\ IsPcAt(w, 16)
  \/ 25 \notin w /\ IsPcAt(w, 0)
  \/ 25 \notin w /\ 4 \in w /\ IsPcAt(w, 8)
ArmDecodedDataProcessing(w) ==
  LET opcode == Value(w, 21, 4)
  IN  CASE opcode = 13 -> ArmDecodedData(w, "mov", <<RAt(w, 12)>>)
        [] opcode = 4 -> ArmDecodedData(w, "add", <<RAt(w, 12), RAt(w, 16)>>)
        [] opcode = 2 -> ArmDecodedData(w, "sub", <<RAt(w, 12), RAt(w, 16)>>)
        [] OTHER -> IF ArmReadsPc(w, opcode) THEN UnsupportedPcRelative
                    ELSE Decoded("other", <<>>)

ArmDecodedBlock(w) ==
  LET list == w \cap (0..15)
      mode == w \cap {20, 21, 23, 24}
  IN  CASE RAt(w, 16) = R(13) /\ mode = {20, 21, 23} -> ArmInsn(w, "pop", Listed(list))
        [] RAt(w, 16) = R(13) /\ mode = {21, 24} -> ArmInsn(w, "push", <<>>)
        [] 20 \in w -> ArmInsn(w, "ldm", <<RAt(w, 16)>> \o Listed(list))
        [] OTHER -> ArmInsn(w, "other", <<>>)

\* hx_decode_arm: the first form that matches.
ArmDecode(w, address) ==
  LET class == Value(w, 25, 3)
  IN  CASE class = 5 -> ArmDecodedB(w, address)
        [] Matches(w, Word(\h0fff, \hfff0), Word(\h012f, \hff10)) -> ArmInsn(w, "bx", <<RAt(w, 0)>>)
        [] Matches(w, Word(\h0fff, \hfff0), Word(\h012f, \hff30)) -> ArmInsn(w, "blx", <<RAt(w, 0)>>)
        [] class = 7 /\ 24 \in w -> ArmInsn(w, "svc", <<>>)
        [] class \in {2, 3} /\ 22 \notin w /\ 20 \in w -> ArmDecodedLdr(w)
        [] class \in {2, 3} /\ IsPcAt(w, 16) -> UnsupportedPcRelative
        [] class = 0 /\ {4, 7} \subseteq w /\ IsPcAt(w, 16) -> UnsupportedPcRelative
        [] class \in {0, 1} -> ArmDecodedDataProcessing(w)
        [] class = 6 /\ IsPcAt(w, 16) -> UnsupportedPcRelative
        [] class = 4 -> ArmDecodedBlock(w)
        [] OTHER -> Decoded("other", <<>>)

-----------------------------------------------------------------------------
(* Thumb *)

IsWide(high) == Value(high, 11, 5) >= 29

\* i1 and i2 of BL, BLX and the widest B: the bits j1 and j2 agree with the sign.
ThumbFarDistance(high, low) ==
  LET sign == Value(high, 10, 1)
      i1 == IF Value(low, 13, 1) = sign THEN 1 ELSE 0
      i2 == IF Value(low, 11, 1) = sign THEN 1 ELSE 0
  IN  Signed(sign * 2^24 + i1 * 2^23 + i2 * 2^22 + Value(high, 0, 10) * 2^12
               + Value(low, 0, 11) * 2, 25)
ThumbCondDistance(high, low) ==
  Signed(Value(high, 10, 1) * 2^20 + Value(low, 11, 1) * 2^19 + Value(low, 13, 1) * 2^18
           + Value(high, 0, 6) * 2^12 + Value(low, 0, 11) * 2, 21)

ThumbDecodedBranch(high, low, pc) ==
  LET cond == Value(high, 6, 4)
      target == pc + ThumbFarDistance(high, low)
      form == low \cap Half(\hd000)
  IN  CASE form = {15} /\ cond < 14 ->
             [DecodedTo("b", <<>>, pc + ThumbCondDistance(high, low)) EXCEPT !.cc = cond + 1]
        [] form = {15} /\ cond >= 14 -> Decoded("other", <<>>)
        [] form = {15, 12} -> DecodedTo("b", <<>>, target)
        [] 12 \in form -> DecodedTo("bl", <<>>, target)
        [] OTHER -> DecodedTo("blx", <<>>, AlignedDown(target, 4))

\* Literal loads: from the pc, up with bit 7 of the first halfword, else down.
UpOrDown(high, n) == IF 7 \in high THEN n ELSE -n
ThumbDecodedLdr(high, low) ==
  [Decoded("ldr", <<RAt(low, 12), R(PcNumber)>>) EXCEPT !.n = UpOrDown(high, Value(low, 0, 12))]
ThumbDecodedVldr(high, low) ==
  LET field == Value(low, 12, 4)
      bit == Value(high, 6, 1)
      reg == IF Value(low, 8, 4) = 10 THEN Reg("s", 2 * field + bit) ELSE Reg("d", 16 * bit + field)
  IN  [Decoded("vldr", <<reg, R(PcNumber)>>) EXCEPT !.n = UpOrDown(high, 4 * Value(low, 0, 8))]

ThumbUnsupported(high) ==
  \/ Matches(high, Half(\hfe0f), Half(\hf80f))
  \/ Matches(high, Half(\hfb0f), Half(\hf20f))
  \/ Matches(high, Half(\hff7f), Half(\he95f))
  \/ Matches(high, Half(\hec0f), Half(\hec0f))

ThumbDecodeWide(high, low, pc) ==
  CASE Matches(high, Half(\hf800), Half(\hf000)) /\ 15 \in low -> ThumbDecodedBranch(high, low, pc)
    [] Matches(high, Half(\hff7f), Half(\hf85f)) -> ThumbDecodedLdr(high, low)
    [] Matches(high, Half(\hff3f), Half(\hed1f)) /\ Value(low, 8, 4) \in {10, 11} ->
         ThumbDecodedVldr(high, low)
    [] Matches(high, Half(\hfff0), Half(\he8d0)) /\ Matches(low, Half(\hffe0), Half(\hf000)) ->
         Decoded(IF 4 \in low THEN "tbh" ELSE "tbb", <<>>)
    [] high = Half(\he8bd) -> Decoded("pop", Listed(low))
    [] high = Half(\he92d) -> Decoded("push", <<>>)
    [] Matches(high, Half(\hffd0), Half(\he890)) -> Decoded("ldm", <<RAt(high, 0)>> \o Listed(low))
    [] ThumbUnsupported(high) -> UnsupportedPcRelative
    [] OTHER -> Decoded("other", <<>>)

LowReg(w, at) == R(Value(w, at, 3))
\* A high register's number has its top bit at 7.
HighReg(w) == R(8 * Value(w, 7, 1) + Value(w, 0, 3))

ThumbDecodedCbz(h, pc) ==
  DecodedTo(IF 11 \in h THEN "cbnz" ELSE "cbz", <<LowReg(h, 0)>>,
            pc + 2 * Value(h, 3, 5) + 64 * Value(h, 9, 1))
ThumbDecodedCond(h, pc) ==
  LET cond == Value(h, 8, 4)
  IN  CASE cond = 15 -> Decoded("svc", <<>>)
        [] cond = 14 -> Decoded("other", <<>>)
        [] OTHER -> [DecodedTo("b", <<>>, pc + 2 * SignedValue(h, 0, 8)) EXCEPT !.cc = cond + 1]
ThumbDecodedIt(h) == [Decoded("it", <<>>) EXCEPT !.cc = Value(h, 4, 4) + 1]

ThumbDecodeNarrow(h, pc) ==
  CASE Matches(h, Half(\hf500), Half(\hb100)) -> ThumbDecodedCbz(h, pc)
    [] Matches(h, Half(\hf800), Half(\he000)) -> DecodedTo("b", <<>>, pc + 2 * SignedValue(h, 0, 11))
    [] Matches(h, Half(\hf000), Half(\hd000)) -> ThumbDecodedCond(h, pc)
    [] Matches(h, Half(\hff87), Half(\h4700)) ->
         Decoded(IF 7 \in h THEN "blx" ELSE "bx", <<RAt(h, 3)>>)
    [] Matches(h, Half(\hf800), Half(\h4800)) ->
         [Decoded("ldr", <<LowReg(h, 8), R(PcNumber)>>) EXCEPT !.n = 4 * Value(h, 0, 8)]
    [] Matches(h, Half(\hf800), Half(\ha000)) ->
         [Decoded("adr", <<LowReg(h, 8)>>) EXCEPT !.n = 4 * Value(h, 0, 8)]
    [] Matches(h, Half(\hff78), Half(\h4478)) -> Decoded("add", <<HighReg(h), R(PcNumber)>>)
    [] Matches(h, Half(\hff00), Half(\h4600)) -> Decoded("mov", <<HighReg(h), RAt(h, 3)>>)
    [] Matches(h, Half(\hfe00), Half(\hbc00)) ->
         Decoded("pop", Listed(h \cap (0..7)) \o (IF 8 \in h THEN <<R(PcNumber)>> ELSE <<>>))
    [] Matches(h, Half(\hfe00), Half(\hb400)) -> Decoded("push", <<>>)
    [] Matches(h, Half(\hff00), Half(\hbf00)) /\ Value(h, 0, 4) # 0 -> ThumbDecodedIt(h)
    [] OTHER -> Decoded("other", <<>>)

\* hx_decode_thumb: the first form that matches.
ThumbDecode(high, low, address) ==
  IF IsWide(high) THEN ThumbDecodeWide(high, low, address + 4)
  ELSE ThumbDecodeNarrow(high, address + 4)

=============================================================================
