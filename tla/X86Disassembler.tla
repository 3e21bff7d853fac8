--------------------------- MODULE X86Disassembler ---------------------------
(***************************************************************************)
(* hx_disasm_x86.c: the length of an x86 instruction, what it is, its      *)
(* operand and the address it branches to.                                 *)
(*                                                                         *)
(* The opcode tables are given by what their classes say of an opcode: that *)
(* a ModRM byte follows, and how many bytes of immediate.                  *)
(***************************************************************************)
EXTENDS Words

-----------------------------------------------------------------------------
(* The one-byte opcodes: oc1 *)

SegmentPrefixes == {\h26, \h2e, \h36, \h3e, \h64, \h65}
LegacyPrefixes == SegmentPrefixes \cup {\h66, \h67, \hf0, \hf2, \hf3}
RexPrefixes == \h40..\h4f
Arithmetic(low) == {op \in 0..\h3f : op % 8 \in low}
OneByte ==
  [modRm |-> Arithmetic(0..3) \cup {\h63, \h69, \h6b, \hc0, \hc1, \hc6, \hc7, \hf6, \hf7, \hfe, \hff}
               \cup (\h80..\h8e) \cup (\hd0..\hd3) \cup (\hd8..\hdf),
   imm8 |-> Arithmetic({4}) \cup {\h6a, \h6b, \h80, \h82, \h83, \ha8, \hc0, \hc1, \hc6, \hcd, \hd4}
              \cup (\hb0..\hb7) \cup (\he4..\he7),
   imm16 |-> {\hc2, \hca},
   immZ |-> Arithmetic({5}) \cup {\h68, \h69, \h81, \ha9, \hc7},
   rel8 |-> (\h70..\h7f) \cup (\he0..\he3) \cup {\heb},
   relZ |-> {\he8, \he9},
   \* Vector prefixes that are not ones, ASCII adjusts and the like.
   refused |-> RexPrefixes \cup LegacyPrefixes
                 \cup {\h62, \h8f, \hc4, \hc5, \hd5, \hd6}]

(* The two-byte opcodes: oc0f *)
TwoByte ==
  LET bare == (\h05..\h09) \cup {\h0b, \h0e, \h77} \cup (\h30..\h35) \cup {\h37}
                \cup (\ha0..\ha2) \cup (\ha8..\haa) \cup (\hc8..\hcf)
      refused == {\h04, \h0a, \h0c, \h25, \h27, \h36, \h39, \h7a, \h7b, \hb9, \hff} \cup (\h3b..\h3f)
  IN  [modRm |-> (0..255) \ (bare \cup refused \cup (\h80..\h8f)),
       imm8 |-> {\h0f, \ha4, \hac, \hba, \hc2, \hc4, \hc5, \hc6} \cup (\h70..\h73),
       imm16 |-> {},
       immZ |-> {},
       rel8 |-> {},
       relZ |-> \h80..\h8f,
       refused |-> refused]

-----------------------------------------------------------------------------
(* Reading bytes: one past the end is read too, and what follows it makes  *)
(* the instruction longer than the bytes there are.                        *)

ByteAt(bytes, i) == IF i \in DOMAIN bytes THEN bytes[i] ELSE 0
\* `count` bytes from i on, the last with the sign.
SignedAt(bytes, i, count) ==
  FoldLeft(LAMBDA high, j : 256 * high + ByteAt(bytes, i + count - 1 - j),
           Signed(ByteAt(bytes, i + count - 1), 8), [j \in 1..(count - 1) |-> j])

NoOperand == [reg |-> NoReg, base |-> NoReg, index |-> NoReg, disp |-> 0, size |-> 0]
Ip(addrsize) == Reg(IF addrsize THEN "eip" ELSE "rip", 0)

\* decode_modrm of the bytes from i on, with 16-bit addresses: the memory
\* operand and the size of ModRM and displacement.
SixteenBitBase == <<3, 3, 5, 5, 6, 7, 5, 3>>
SixteenBitIndex == <<6, 7, 6, 7>>
ModRm16(bytes, i, mode, rm) ==
  LET bare == mode = 0 /\ rm = 6
      dispSize == IF mode = 1 THEN 1 ELSE IF mode = 2 \/ bare THEN 2 ELSE 0
      disp == IF dispSize = 0 THEN 0 ELSE SignedAt(bytes, i + 1, dispSize)
  IN  [NoOperand EXCEPT
         !.base = IF bare THEN NoReg ELSE Reg("r", SixteenBitBase[rm + 1]),
         !.index = IF bare \/ rm > 3 THEN NoReg ELSE Reg("r", SixteenBitIndex[rm + 1]),
         !.disp = IF bare THEN disp % 2^16 ELSE disp,
         !.size = 1 + dispSize]

\* ... with longer ones: rm 4 takes a SIB byte, and base 5 without a
\* displacement names no base, or the instruction pointer.
ModRm32(st, bytes, i, mode, rm) ==
  LET hasSib == rm = 4
      sib == ByteAt(bytes, i + 1)
      Named(n, bit) == Reg("r", n + 8 * Cardinality(st.rex \cap {bit}))
      base == IF hasSib THEN sib % 8 ELSE rm
      absolute == mode = 0 /\ base = 5
      dispSize == IF mode = 1 THEN 1 ELSE IF mode = 2 \/ absolute THEN 4 ELSE 0
      opSize == IF hasSib THEN 2 ELSE 1
  IN  [NoOperand EXCEPT
         !.base = CASE ~absolute -> Named(base, 0)
                    [] absolute /\ ~hasSib /\ st.mode64 -> Ip(st.addrsize)
                    [] OTHER -> NoReg,
         !.index = IF hasSib /\ (sib \div 8) % 8 # 4 THEN Named((sib \div 8) % 8, 1) ELSE NoReg,
         !.disp = IF dispSize = 0 THEN 0 ELSE SignedAt(bytes, i + opSize, dispSize),
         !.size = opSize + dispSize]
OperandAt(st, bytes, i) ==
  LET mode == ByteAt(bytes, i) \div 64
      rm == ByteAt(bytes, i) % 8
  IN  CASE mode = 3 ->
             [NoOperand EXCEPT !.reg = Reg("r", rm + 8 * Cardinality(st.rex \cap {0})), !.size = 1]
        [] mode # 3 /\ st.addrsize /\ ~st.mode64 -> ModRm16(bytes, i, mode, rm)
        [] OTHER -> ModRm32(st, bytes, i, mode, rm)

-----------------------------------------------------------------------------
(* The decoder *)

\* The prefixes: where the opcode is, and what they say.  One REX, and only
\* as the last.
Prelude(bytes, mode64) ==
  LET legacy == IF bytes[1] \notin LegacyPrefixes THEN 0
                ELSE Max({k \in DOMAIN bytes : \A i \in 1..k : bytes[i] \in LegacyPrefixes})
      before == {bytes[i] : i \in 1..legacy}
      next == ByteAt(bytes, legacy + 1)
      hasRex == mode64 /\ next \in RexPrefixes
  IN  [mode64 |-> mode64, opsize |-> \h66 \in before, addrsize |-> \h67 \in before,
       rep |-> \hf3 \in before,
       rex |-> IF hasRex THEN Field(next, 4, 0) ELSE {},
       at |-> legacy + 1 + (IF hasRex THEN 1 ELSE 0)]

\* VEX, EVEX and XOP: the size of the vector prefix at i and its opcode map,
\* if it is one: outside 64-bit code a register operand must follow it.
VectorPrefix(st, bytes) ==
  LET first == ByteAt(bytes, st.at)
      second == ByteAt(bytes, st.at + 1)
      allowed == st.mode64 \/ second >= \hc0
  IN  CASE first = \hc5 /\ allowed -> [size |-> 2, map |-> 1]
        [] first = \hc4 /\ allowed -> [size |-> 3, map |-> second % 32]
        [] first = \h8f /\ second % 32 >= 8 -> [size |-> 3, map |-> second % 32]
        [] first = \h62 /\ allowed -> [size |-> 4, map |-> second % 8]
        [] OTHER -> [size |-> 0, map |-> 0]
\* Every vector instruction is taken to have a ModRM byte.
VectorImmediates == {\h70, \h71, \h72, \h73, \hc2, \hc4, \hc5, \hc6}
VectorSize(st, bytes, prefix) ==
  LET op == st.at + prefix.size
      hasImmediate == \/ prefix.map \in {3, 10}
                      \/ prefix.map = 1 /\ ByteAt(bytes, op) \in VectorImmediates
  IN  op + OperandAt(st, bytes, op + 1).size + (IF hasImmediate THEN 1 ELSE 0)

ImmZ(st) == IF st.opsize THEN 2 ELSE 4
\* The immediates of the opcodes whose size depends on the mode or the
\* operation: moves of an offset or a full immediate, far pointers, ENTER,
\* and the TEST among the F6 and F7 groups.
ImmediateSize(st, table, op, extension) ==
  LET one == table = OneByte
  IN  CASE op \in table.imm8 -> 1
        [] op \in table.imm16 -> 2
        [] op \in table.immZ -> ImmZ(st)
        [] one /\ op \in \hb8..\hbf -> IF 3 \in st.rex THEN 8 ELSE ImmZ(st)
        [] one /\ op \in \ha0..\ha3 ->
             (IF st.mode64 THEN 8 ELSE 4) \div (IF st.addrsize THEN 2 ELSE 1)
        [] one /\ op = \hc8 -> 3
        [] one /\ op \in {\h9a, \hea} -> IF st.opsize THEN 4 ELSE 6
        [] one /\ op = \hf6 /\ extension \in {0, 1} -> 1
        [] one /\ op = \hf7 /\ extension \in {0, 1} -> ImmZ(st)
        [] OTHER -> 0

-----------------------------------------------------------------------------
(* What it is *)

AluGroup == <<"add", "or", "adc", "sbb", "and", "sub", "xor", "cmp">>
\* The instruction of a one-byte opcode; jcc has its condition in cc.
OneByteId(st, op, extension) ==
  CASE op = \he8 \/ (op = \hff /\ extension \in {2, 3}) -> "call"
    [] op \in {\he9, \heb} \/ (op = \hff /\ extension \in {4, 5}) -> "jmp"
    [] op \in \h70..\h7f -> "jcc"
    [] op \in \he0..\he3 -> <<"loopne", "loope", "loop", "jcxz">>[op - \hdf]
    [] op \in {\hc2, \hc3} -> "ret"
    [] op \in {\hca, \hcb} -> "retf"
    [] op = \hcc -> "int3"
    [] op \in {\hcd, \hf1} -> "int"
    [] op = \h90 /\ ~st.rep -> "nop"
    [] op \in (\h50..\h57) \cup {\h68, \h6a} \/ (op = \hff /\ extension = 6) -> "push"
    [] op \in {\hfe, \hff} /\ extension = 0 -> "inc"
    [] (op = \hff /\ extension = 1) \/ (op = \hfe /\ extension # 0) -> "dec"
    [] op < \h40 /\ op % 8 <= 5 -> AluGroup[(op \div 8) + 1]
    [] op \in (\h88..\h8c) \cup {\h8e, \hc6, \hc7} \cup (\ha0..\ha3) \cup (\hb0..\hbf) -> "mov"
    [] op = \h8d -> "lea"
    [] op \in {\h84, \h85, \ha8, \ha9} -> "test"
    [] op \in \h58..\h5f -> "pop"
    [] op \in \h80..\h83 -> AluGroup[extension + 1]
    [] OTHER -> "other"
TwoByteId(op) ==
  CASE op \in \h80..\h8f -> "jcc"
    [] op = \h05 -> "syscall"
    [] op = \h34 -> "sysenter"
    [] op = \h1f -> "nop"
    [] op \in {\hb0, \hb1} -> "cmpxchg"
    [] OTHER -> "other"

\* note_implicit_regs: the registers it uses without naming them.
ImplicitRegs(one, op, extension) ==
  CASE one /\ op = \hf6 /\ extension >= 4 -> {0}
    [] one /\ op = \hf7 /\ extension >= 4 -> {0, 2}
    [] one /\ op \in {\hd2, \hd3} -> {1}
    [] ~one /\ op \in {\hb0, \hb1} -> {0}
    [] ~one /\ op = \hc7 -> {0, 2}
    [] OTHER -> {}

Undecoded ==
  [size |-> 1, valid |-> FALSE, id |-> none, cc |-> 0, operand |-> NoOperand, target |-> -1,
   implicit |-> {}]

\* hx_decode of the bytes there are at an address.
X86Decode(bytes, mode64, address) ==
  LET st == Prelude(bytes, mode64)
      vector == VectorPrefix(st, bytes)
      escaped == ByteAt(bytes, st.at) = \h0f
      opAt == IF escaped THEN st.at + 1 ELSE st.at
      op == ByteAt(bytes, opAt)
      \* A third opcode byte, and with 3A an immediate.
      third == escaped /\ op \in {\h38, \h3a}
      table == IF escaped THEN TwoByte ELSE OneByte
      modRmAt == IF third THEN opAt + 2 ELSE opAt + 1
      hasModRm == third \/ op \in table.modRm
      operand == IF hasModRm THEN OperandAt(st, bytes, modRmAt) ELSE NoOperand
      extension == IF hasModRm THEN (ByteAt(bytes, modRmAt) \div 8) % 8 ELSE 0
      relSize == CASE op \in table.rel8 -> 1 [] op \in table.relZ -> ImmZ(st) [] OTHER -> 0
      immSize == IF third THEN (IF op = \h3a THEN 1 ELSE 0)
                 ELSE ImmediateSize(st, table, op, extension)
      size == IF vector.size # 0 THEN VectorSize(st, bytes, vector)
              ELSE modRmAt - 1 + operand.size + relSize + immSize
      refused == /\ vector.size = 0
                 /\ ~third
                 /\ op \in table.refused \/ (~escaped /\ st.mode64 /\ op \in {\h9a, \hea})
  IN  IF refused \/ size > Len(bytes) THEN Undecoded
      ELSE IF vector.size # 0
      THEN [Undecoded EXCEPT !.size = size, !.valid = TRUE, !.id = "other",
                             !.operand = OperandAt(st, bytes, st.at + vector.size + 1)]
      ELSE [size |-> size, valid |-> TRUE,
            id |-> IF third THEN "other"
                   ELSE IF escaped THEN TwoByteId(op) ELSE OneByteId(st, op, extension),
            cc |-> IF ~third /\ op \in (IF escaped THEN \h80..\h8f ELSE \h70..\h7f) THEN op % 16 ELSE 0,
            operand |-> operand,
            target |-> IF relSize = 0 THEN -1
                       ELSE address + size + SignedAt(bytes, modRmAt, relSize),
            implicit |-> IF third THEN {} ELSE ImplicitRegs(~escaped, op, extension)]

=============================================================================
