-------------------------- MODULE Arm64Disassembler --------------------------
(***************************************************************************)
(* hx_disasm_arm64.c: what the decoder makes of a word.                    *)
(*                                                                         *)
(* The target of an ADRP is a page number: a byte address would need more  *)
(* bits than TLC's numbers have.                                           *)
(***************************************************************************)
EXTENDS Words

\* hx_x_reg, hx_w_reg; number 31 is the zero register.
XReg(n) == Reg("x", n)
GpReg(n, is64) == Reg(IF is64 THEN "x" ELSE "w", n)

RegAt(w, at) == Value(w, at, 5)
Is64(w) == 31 \in w

\* hx_fill_conservative_regs: every field that may name a general register.
ConservativeRegs(w) ==
  LET class == Value(w, 25, 4)
      isReg == class % 8 = 5
      isImm == class \div 2 = 4
      isLoadStore == 27 \in w /\ 25 \notin w
      isSimd == class % 8 = 7
      isSystem == class \div 2 = 5
      fields == (IF isSystem THEN {} ELSE {5})
                  \cup (IF isReg \/ isLoadStore \/ isSimd THEN {16} ELSE {})
                  \cup (IF isLoadStore THEN {10} ELSE {})
  IN  IF isReg \/ isImm \/ isLoadStore \/ isSimd \/ isSystem
      THEN SetToSeq({XReg(RegAt(w, at)) : at \in {0} \cup fields})
      ELSE <<>>

DecodedAdr(w, address) ==
  LET imm == Signed(Value(w, 5, 19) * 4 + Value(w, 29, 2), 21)
  IN  IF Is64(w) THEN DecodedTo("adrp", <<XReg(RegAt(w, 0))>>, address \div 4096 + imm)
      ELSE DecodedTo("adr", <<XReg(RegAt(w, 0))>>, address + imm)

DecodedB(w, address) ==
  DecodedTo(IF Is64(w) THEN "bl" ELSE "b", <<>>, address + 4 * SignedValue(w, 0, 26))

\* 19 bits of distance are common to B.cond, CBZ, CBNZ and the literal loads.
NearTarget(w, address) == address + 4 * SignedValue(w, 5, 19)

DecodedBCond(w, address) ==
  [DecodedTo("b", <<>>, NearTarget(w, address)) EXCEPT !.cc = Value(w, 0, 4) + 1]
DecodedCbz(w, address) ==
  DecodedTo(IF 24 \in w THEN "cbnz" ELSE "cbz", <<GpReg(RegAt(w, 0), Is64(w))>>,
            NearTarget(w, address))
DecodedTbz(w, address) ==
  [DecodedTo(IF 24 \in w THEN "tbnz" ELSE "tbz", <<GpReg(RegAt(w, 0), Is64(w))>>,
             address + 4 * SignedValue(w, 5, 14))
     EXCEPT !.n = 32 * Value(w, 31, 1) + Value(w, 19, 5)]

DecodedLiteral(w, address) ==
  LET bank == IF 26 \in w
              THEN CASE Value(w, 30, 2) = 0 -> "s" [] Value(w, 30, 2) = 1 -> "d" [] OTHER -> "q"
              ELSE IF Value(w, 30, 2) = 0 THEN "w" ELSE "x"
  IN  DecodedTo(IF 26 \notin w /\ Value(w, 30, 2) = 2 THEN "ldrsw" ELSE "ldr",
                <<Reg(bank, RegAt(w, 0))>>, NearTarget(w, address))

DecodedBranchReg(w) ==
  LET opc == Value(w, 21, 4)
      authenticated == Value(w, 10, 6) # 0
  IN  Decoded(CASE opc = 0 -> IF authenticated THEN "braaz" ELSE "br"
                [] opc = 1 -> IF authenticated THEN "blraaz" ELSE "blr"
                [] opc = 2 -> "ret"
                [] opc = 8 -> "braa"
                [] opc = 9 -> "blraa"
                [] opc = 10 -> "retaa"
                [] OTHER -> "br",
              <<XReg(RegAt(w, 5))>>)

\* Its registers are reported as general ones even where they are vectors.
DecodedStp(w) ==
  LET is64 == Value(w, 30, 2) = 2
  IN  Decoded("stp", <<GpReg(RegAt(w, 0), is64), GpReg(RegAt(w, 10), is64), XReg(RegAt(w, 5))>>)

\* hx_decode_arm64: the first form that matches.
Arm64Decode(w, address) ==
  CASE Matches(w, Word(\h1f00, 0), Word(\h1000, 0)) -> DecodedAdr(w, address)
    [] Matches(w, Word(\h7c00, 0), Word(\h1400, 0)) -> DecodedB(w, address)
    [] Matches(w, Word(\hff00, \h0010), Word(\h5400, 0)) -> DecodedBCond(w, address)
    [] Matches(w, Word(\h7e00, 0), Word(\h3400, 0)) -> DecodedCbz(w, address)
    [] Matches(w, Word(\h7e00, 0), Word(\h3600, 0)) -> DecodedTbz(w, address)
    [] Matches(w, Word(\h3b00, 0), Word(\h1800, 0)) /\ Value(w, 30, 2) # 3 -> DecodedLiteral(w, address)
    [] Matches(w, Word(\hfe00, 0), Word(\hd600, 0)) -> DecodedBranchReg(w)
    [] Matches(w, Word(\hffe0, \h001f), Word(\hd400, 1)) -> Decoded("svc", <<>>)
    [] Matches(w, Word(\h7fe0, \hffe0), Word(\h2a00, \h03e0)) ->
         Decoded("mov", <<GpReg(RegAt(w, 0), Is64(w)), GpReg(RegAt(w, 16), Is64(w))>>)
    [] Matches(w, Word(\h3c00, 0), Word(\h2800, 0)) /\ 22 \notin w -> DecodedStp(w)
    [] OTHER -> Decoded("other", ConservativeRegs(w))

=============================================================================
