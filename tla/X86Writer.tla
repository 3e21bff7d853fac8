------------------------------ MODULE X86Writer ------------------------------
(***************************************************************************)
(* hooxx86writer.c: the bytes it puts for each request, for AMD64 and for  *)
(* IA32, and its labels.                                                   *)
(*                                                                         *)
(* A byte is a number.  An address is a pair of 32-bit halves, the low one *)
(* first; with its high half zero it is within reach of what is written,   *)
(* and with another it is not.  The target t tells AMD64 from IA32, and    *)
(* the Windows calling convention from the Unix one.                       *)
(***************************************************************************)
EXTENDS Words

Bytes(n, count) == [i \in 1..count |-> (n \div 256^(i - 1)) % 256]
Bytes32(n) == Bytes(n, 4)
Bytes64(value) == Bytes32(value[1]) \o Bytes32(value[2])
InReach(address) == address[2] = 0
Signed8(n) == Fits(n, 8)
ImmediateBytes(n) == IF Signed8(n) THEN Bytes(n, 1) ELSE Bytes32(n)
BytesIf(allowed, bytes) == IF allowed THEN <<Piece(bytes)>> ELSE <<>>
BytesTo(id, type, bytes) == <<[Piece(bytes) EXCEPT !.label = [id |-> id, type |-> type]]>>
LabelHere(id) == BytesTo(id, "here", <<>>)

-----------------------------------------------------------------------------
(* Registers: banks "e" and "r" of sixteen, and "x" for either by target. *)

PointerWidth(t) == IF t.mode64 THEN 64 ELSE 32
X86Width(t, r) == CASE r.bank = "x" -> PointerWidth(t) [] r.bank = "e" -> 32 [] OTHER -> 64
Index(r) == r.n % 8
Extended(r) == r.n >= 8
X86Reg(n) == Reg("x", n)
Xax == X86Reg(0)
Xsp == X86Reg(4)
Xbp == X86Reg(5)
Rax == Reg("r", 0)
Rsp == Reg("r", 4)

\* Each register may be named at all on this target.
Nameable(t, regs) ==
  t.mode64 \/ \A i \in DOMAIN regs : X86Width(t, regs[i]) = 32 /\ ~Extended(regs[i])
IsPointer(t, r) == X86Width(t, r) = PointerWidth(t) /\ Nameable(t, <<r>>)

\* put_prefix_for_registers: a REX where the width is not the default or a
\* register is one of the upper eight; regs is ModRM.rm, then ModRM.reg.
Prefix(t, width, default, regs) ==
  LET nibble == Flag(width # default, 3) \cup Flag(Len(regs) > 1 /\ Extended(Last(regs)), 2)
                  \cup Flag(Extended(regs[1]), 0)
  IN  IF t.mode64 /\ nibble # {} THEN <<\h40 + Value(nibble, 0, 4)>> ELSE <<>>

\* put_prefix_for_reg_info
PrefixOf(t, r, operand) ==
  LET extension == IF Extended(r) THEN 4^operand ELSE 0
  IN  CASE ~t.mode64 -> <<>>
        [] t.mode64 /\ X86Width(t, r) = 32 -> IF Extended(r) THEN <<\h40 + extension>> ELSE <<>>
        [] OTHER -> <<\h48 + extension>>

-----------------------------------------------------------------------------
(* Operands *)

ModRm(mode, reg, rm) == 64 * mode + 8 * reg + rm
Both(reg, rm) == <<ModRm(3, Index(reg), Index(rm))>>
Only(extension, rm) == <<ModRm(3, extension, Index(rm))>>
Sib(needed) == IF needed THEN <<\h24>> ELSE <<>>
Displaced(reg, base, needsSib, offset) ==
  <<ModRm(IF Signed8(offset) THEN 1 ELSE 2, reg, Index(base))>> \o Sib(needsSib)
    \o ImmediateBytes(offset)
DisplacedOrNot(reg, base, offset) ==
  IF offset = 0 /\ base.n # Xbp.n
  THEN <<ModRm(0, reg, Index(base))>> \o Sib(base.n = Xsp.n)
  ELSE Displaced(reg, base, base.n = Xsp.n, offset)
Pointed(reg, base) ==
  IF base.n = Xbp.n THEN <<ModRm(1, reg, Index(base)), 0>>
  ELSE <<ModRm(0, reg, Index(base))>> \o Sib(base.n = Xsp.n)

\* A 32-bit operand naming an address, for bytes put from pc on: the distance
\* from their end, or on IA32 the address itself.
Naming(t, pc, bytes, address) ==
  bytes \o Bytes32(IF t.mode64 THEN address[1] - (pc + Len(bytes) + 4) ELSE address[1])

-----------------------------------------------------------------------------
(* Branches *)

Relative(pc, opcode, width, target) ==
  opcode \o Bytes(target - (pc + Len(opcode) + width), width)
InShortReach(pc, size, address) == InReach(address) /\ Signed8(address[1] - (pc + size))

PutX86CallIndirect(t, pc, address) ==
  BytesIf(InReach(address) \/ ~t.mode64, Naming(t, pc, <<\hff, \h15>>, address))
PutX86CallIndirectLabel(t, pc, id) ==
  BytesTo(id, IF t.mode64 THEN "near" ELSE "abs", Naming(t, pc, <<\hff, \h15>>, <<pc, 0>>))
PutX86JmpShortLabel(pc, id) == BytesTo(id, "short", Relative(pc, <<\heb>>, 1, pc))

\* The identifiers of the far call's labels are addresses in the output.
PutX86CallAddress(t, pc, address) ==
  LET target == <<"code", pc + 1>>
      carryOn == <<"code", pc + 2>>
  IN  CASE InReach(address) -> BytesIf(TRUE, Relative(pc, <<\he8>>, 4, address[1]))
        [] ~InReach(address) /\ t.mode64 ->
             PutX86CallIndirectLabel(t, pc, target) \o PutX86JmpShortLabel(pc + 6, carryOn)
               \o LabelHere(target) \o BytesIf(TRUE, Bytes64(address)) \o LabelHere(carryOn)
        [] OTHER -> <<>>
PutX86CallReg(t, r) ==
  BytesIf(IsPointer(t, r), (IF Extended(r) THEN <<\h41>> ELSE <<>>) \o <<\hff>> \o Only(2, r))
PutX86CallRegOffsetPtr(t, r, offset) ==
  BytesIf(IsPointer(t, r),
          Prefix(t, PointerWidth(t), 64, <<r>>) \o <<\hff>> \o Displaced(2, r, Index(r) = 4, offset))
PutX86CallNearLabel(pc, id) == BytesTo(id, "near", Relative(pc, <<\he8>>, 4, pc))
PutX86Ret == BytesIf(TRUE, <<\hc3>>)

PutX86Ud2 == <<\h0f, \h0b>>
FarJmp(address) == <<\hff, \h25, 2, 0, 0, 0>> \o PutX86Ud2 \o Bytes64(address)
PutX86JmpAddress(t, pc, address) ==
  CASE InShortReach(pc, 2, address) -> BytesIf(TRUE, Relative(pc, <<\heb>>, 1, address[1]))
    [] InReach(address) /\ ~InShortReach(pc, 2, address) ->
         BytesIf(TRUE, Relative(pc, <<\he9>>, 4, address[1]))
    [] OTHER -> BytesIf(t.mode64, FarJmp(address))
PutX86ShortJmp(pc, address) ==
  BytesIf(InShortReach(pc, 2, address), Relative(pc, <<\heb>>, 1, address[1]))
PutX86NearJmp(t, pc, address) ==
  IF InReach(address) THEN BytesIf(TRUE, Relative(pc, <<\he9>>, 4, address[1]))
  ELSE BytesIf(t.mode64, FarJmp(address))
PutX86JmpReg(t, r) ==
  BytesIf(IsPointer(t, r),
          Prefix(t, PointerWidth(t), 64, <<r>>) \o <<\hff>> \o Only(4, r) \o PutX86Ud2)
PutX86JmpRegPtr(t, r) ==
  BytesIf(IsPointer(t, r),
          Prefix(t, PointerWidth(t), 64, <<r>>)
            \o <<\hff, ModRm(0, 4, Index(r))>> \o Sib(r.n = Xsp.n) \o PutX86Ud2)
PutX86JmpRegOffsetPtr(t, r, offset) ==
  BytesIf(IsPointer(t, r),
          Prefix(t, PointerWidth(t), 64, <<r>>) \o <<\hff>> \o Displaced(4, r, Index(r) = 4, offset)
            \o PutX86Ud2)
PutX86JmpNearPtr(t, pc, address) ==
  BytesIf(InReach(address), Naming(t, pc, <<\hff, \h25>>, address) \o PutX86Ud2)

\* hoox_get_jcc_opcode: 70 and the condition; a hint stays even if the branch
\* is refused, and the distance is measured after it.
Hint(hint) ==
  CASE hint = "likely" -> <<\h3e>> [] hint = "unlikely" -> <<\h2e>> [] OTHER -> <<>>
PutX86JccShort(pc, cc, address, hint) ==
  LET at == pc + Len(Hint(hint))
  IN  BytesIf(TRUE, Hint(hint) \o (IF InShortReach(at, 2, address)
                                   THEN Relative(at, <<\h70 + cc>>, 1, address[1]) ELSE <<>>))
PutX86JccNear(pc, cc, address, hint) ==
  LET at == pc + Len(Hint(hint))
  IN  BytesIf(TRUE, Hint(hint) \o (IF InReach(address)
                                   THEN Relative(at, <<\h0f, \h80 + cc>>, 4, address[1]) ELSE <<>>))
JccToLabel(id, type, pieces) == BytesTo(id, type, pieces[1].words)
PutX86JccShortLabel(pc, cc, id, hint) ==
  JccToLabel(id, "short", PutX86JccShort(pc, cc, <<pc, 0>>, hint))
PutX86JccNearLabel(pc, cc, id, hint) ==
  JccToLabel(id, "near", PutX86JccNear(pc, cc, <<pc, 0>>, hint))

-----------------------------------------------------------------------------
(* Arithmetic *)

\* A request on one register with a full immediate: the accumulator has an
\* opcode of its own.
WithImmediate(t, r, short, extension, imm) ==
  BytesIf(Nameable(t, <<r>>),
          Prefix(t, X86Width(t, r), 32, <<r>>)
            \o (IF r.n = 0 THEN <<short>> ELSE <<\h81>> \o Only(extension, r)) \o Bytes32(imm))
AddOrSub(t, r, short, extension, imm) ==
  IF Signed8(imm)
  THEN BytesIf(Nameable(t, <<r>>),
               Prefix(t, X86Width(t, r), 32, <<r>>) \o <<\h83>> \o Only(extension, r) \o Bytes(imm, 1))
  ELSE WithImmediate(t, r, short, extension, imm)
PutX86AddRegImm(t, r, imm) == AddOrSub(t, r, \h05, 0, imm)
PutX86SubRegImm(t, r, imm) == AddOrSub(t, r, \h2d, 5, imm)
PutX86AndRegU32(t, r, imm) == WithImmediate(t, r, \h25, 4, imm)
PutX86CmpRegI32(t, r, imm) == WithImmediate(t, r, \h3d, 7, imm)
PutX86ShlRegU8(t, r, imm) ==
  BytesIf(Nameable(t, <<r>>),
          Prefix(t, X86Width(t, r), 32, <<r>>) \o <<\hc1>> \o Only(4, r) \o Bytes(imm, 1))

RegReg(t, opcode, dst, src) ==
  BytesIf(X86Width(t, dst) = X86Width(t, src) /\ Nameable(t, <<dst, src>>),
          Prefix(t, X86Width(t, dst), 32, <<dst, src>>) \o <<opcode>> \o Both(src, dst))
PutX86AddRegReg(t, dst, src) == RegReg(t, \h01, dst, src)
PutX86MovRegReg(t, dst, src) == RegReg(t, \h89, dst, src)
PutX86TestRegReg(t, a, b) == RegReg(t, \h85, a, b)
PutX86AndRegReg(t, dst, src) ==
  BytesIf(/\ X86Width(t, dst) = X86Width(t, src)
          /\ ~Extended(dst) /\ ~Extended(src)
          /\ Nameable(t, <<dst>>),
          PrefixOf(t, dst, 0) \o <<\h21>> \o Both(src, dst))
OneReg(t, extension, r) ==
  BytesIf(Nameable(t, <<r>>), Prefix(t, X86Width(t, r), 32, <<r>>) \o <<\hff>> \o Only(extension, r))
PutX86IncReg(t, r) == OneReg(t, 0, r)
PutX86DecReg(t, r) == OneReg(t, 1, r)

\* The lock prefix stays even if the rest is refused.
PutX86LockXaddRegPtrReg(t, dst, src) ==
  BytesIf(TRUE, <<\hf0>> \o (IF Nameable(t, <<dst, src>>)
                             THEN Prefix(t, X86Width(t, src), 32, <<dst, src>>) \o <<\h0f, \hc1>>
                                    \o Pointed(Index(src), dst)
                             ELSE <<>>))
LockIncOrDec(t, pc, extension, address) ==
  BytesIf(InReach(address), Naming(t, pc, <<\hf0, \hff, ModRm(0, extension, 5)>>, address))
PutX86LockIncImm32Ptr(t, pc, address) == LockIncOrDec(t, pc, 0, address)
PutX86LockDecImm32Ptr(t, pc, address) == LockIncOrDec(t, pc, 1, address)

-----------------------------------------------------------------------------
(* Moves *)

PutX86MovRegU32(t, dst, imm) ==
  BytesIf(X86Width(t, dst) = 32 /\ Nameable(t, <<dst>>),
          PrefixOf(t, dst, 0) \o <<\hb8 + Index(dst)>> \o Bytes32(imm))
PutX86MovRegU64(t, dst, value) ==
  BytesIf(t.mode64 /\ X86Width(t, dst) = 64,
          PrefixOf(t, dst, 0) \o <<\hb8 + Index(dst)>> \o Bytes64(value))
PutX86MovRegAddress(t, dst, value) ==
  IF X86Width(t, dst) = 32 THEN PutX86MovRegU32(t, dst, value[1]) ELSE PutX86MovRegU64(t, dst, value)

\* No prefix is put, whatever the register.
PutX86MovRegOffsetPtrU32(t, dst, offset, imm) ==
  BytesIf(X86Width(t, dst) = PointerWidth(t),
          <<\hc7>> \o DisplacedOrNot(0, dst, offset) \o Bytes32(imm))
PutX86MovRegOffsetPtrReg(t, dst, offset, src) ==
  BytesIf(X86Width(t, dst) = PointerWidth(t) /\ Nameable(t, <<dst, src>>),
          Prefix(t, X86Width(t, src), 32, <<dst, src>>) \o <<\h89>>
            \o DisplacedOrNot(Index(src), dst, offset))
PutX86MovRegPtrReg(t, dst, src) == PutX86MovRegOffsetPtrReg(t, dst, 0, src)
PutX86MovRegRegOffsetPtr(t, dst, src, offset) ==
  BytesIf(X86Width(t, src) = PointerWidth(t) /\ Nameable(t, <<dst, src>>),
          Prefix(t, X86Width(t, dst), 32, <<src, dst>>) \o <<\h8b>>
            \o Displaced(Index(dst), src, src.n = Xsp.n, offset))
PutX86MovRegRegPtr(t, dst, src) == PutX86MovRegRegOffsetPtr(t, dst, src, 0)

\* What is put before an address out of reach is found stays; the prefix is
\* decided with the register as ModRM.rm although it is ModRM.reg.
MovNear(t, pc, short, opcode, r, address) ==
  LET head == Prefix(t, X86Width(t, r), 32, <<r>>)
                \o (IF ~t.mode64 /\ r.n = 0 THEN <<short>> ELSE <<opcode, ModRm(0, Index(r), 5)>>)
  IN  BytesIf(Nameable(t, <<r>>), IF InReach(address) THEN Naming(t, pc, head, address) ELSE head)
PutX86MovRegNearPtr(t, pc, dst, address) == MovNear(t, pc, \ha1, \h8b, dst, address)
PutX86MovNearPtrReg(t, pc, address, src) == MovNear(t, pc, \ha3, \h89, src, address)

PutX86LeaRegRegOffset(t, dst, src, offset) ==
  LET prefixes == (IF t.mode64 /\ X86Width(t, src) = 32 THEN <<\h67>> ELSE <<>>)
                    \o (IF t.mode64 /\ X86Width(t, dst) = 64 THEN <<\h48>> ELSE <<>>)
  IN  BytesIf(~Extended(dst) /\ ~Extended(src),
              prefixes \o <<\h8d, ModRm(2, Index(dst), Index(src))>> \o Sib(src.n = Xsp.n)
                \o Bytes32(offset))
PutX86XchgRegRegPtr(t, left, right) ==
  BytesIf(X86Width(t, right) = PointerWidth(t) /\ Nameable(t, <<left>>),
          PrefixOf(t, left, 1) \o <<\h87>> \o Pointed(Index(left), right))
PutX86CmpRegOffsetPtrReg(t, a, offset, b) ==
  BytesIf(Nameable(t, <<a, b>>),
          Prefix(t, X86Width(t, a), 32, <<a, b>>) \o <<\h39>>
            \o Displaced(Index(b), a, Index(a) = 4, offset))

-----------------------------------------------------------------------------
(* The stack *)

PutX86PushU32(imm) == BytesIf(TRUE, <<\h68>> \o Bytes32(imm))
PutX86PushNearPtr(t, pc, address) ==
  BytesIf(InReach(address), Naming(t, pc, <<\hff, \h35>>, address))
PushOrPop(t, opcode, r) ==
  BytesIf(IsPointer(t, r), Prefix(t, PointerWidth(t), 64, <<r>>) \o <<opcode + Index(r)>>)
PutX86PushReg(t, r) == PushOrPop(t, \h50, r)
PutX86PopReg(t, r) == PushOrPop(t, \h58, r)

Upper == [i \in 1..8 |-> Reg("r", i + 7)]
Each(Put(_), regs) == FlattenSeq([i \in DOMAIN regs |-> Put(regs[i])])
PutX86Pushax(t) ==
  LET Push(r) == PutX86PushReg(t, r)
  IN  IF ~t.mode64 THEN BytesIf(TRUE, <<\h60>>)
      ELSE Each(Push, <<Rax, Reg("r", 1), Reg("r", 2), Reg("r", 3)>>)
             \o PutX86LeaRegRegOffset(t, Rax, Rsp, 32) \o Push(Rax)
             \o PutX86MovRegRegOffsetPtr(t, Rax, Rsp, 32)
             \o Each(Push, <<Reg("r", 5), Reg("r", 6), Reg("r", 7)>>) \o Each(Push, Upper)
PutX86Popax(t) ==
  LET Pop(r) == PutX86PopReg(t, r)
  IN  IF ~t.mode64 THEN BytesIf(TRUE, <<\h61>>)
      ELSE Each(Pop, Reverse(Upper)) \o Each(Pop, <<Reg("r", 7), Reg("r", 6), Reg("r", 5)>>)
             \o PutX86LeaRegRegOffset(t, Rsp, Rsp, 8)
             \o Each(Pop, <<Reg("r", 3), Reg("r", 2), Reg("r", 1), Rax>>)
PutX86Pushfx == BytesIf(TRUE, <<\h9c>>)
PutX86Popfx == BytesIf(TRUE, <<\h9d>>)
PutX86Cld == BytesIf(TRUE, <<\hfc>>)
PutX86Nop == BytesIf(TRUE, <<\h90>>)
PutX86Breakpoint == BytesIf(TRUE, <<\hcc>>)

\* One to nine bytes: the longest for as long as they last, then the rest.
Nops ==
  <<<<\h90>>, <<\h66, \h90>>, <<\h0f, \h1f, \h00>>, <<\h0f, \h1f, \h40, 0>>,
    <<\h0f, \h1f, \h44, 0, 0>>, <<\h66, \h0f, \h1f, \h44, 0, 0>>,
    <<\h0f, \h1f, \h80, 0, 0, 0, 0>>, <<\h0f, \h1f, \h84, 0, 0, 0, 0, 0>>,
    <<\h66, \h0f, \h1f, \h84, 0, 0, 0, 0, 0>>>>
PutX86NopPadding(n) ==
  FlattenSeq([i \in 1..(n \div 9) |-> BytesIf(TRUE, Nops[9])])
    \o (IF n % 9 = 0 THEN <<>> ELSE BytesIf(TRUE, Nops[n % 9]))

FxSaveOrRestore(t, operation, r) ==
  BytesIf(IsPointer(t, r),
          Prefix(t, PointerWidth(t), 64, <<r>>)
            \o <<\h0f, \hae, ModRm(0, operation, Index(r))>> \o Sib(Index(r) = 4))
PutX86FxsaveRegPtr(t, r) == FxSaveOrRestore(t, 0, r)
PutX86FxrstorRegPtr(t, r) == FxSaveOrRestore(t, 1, r)

-----------------------------------------------------------------------------
(* Calls with arguments, each a register or an address, as requests *)

ArgumentRegs(t, bank) ==
  LET regs == IF t.windows THEN <<1, 2, 8, 9>> ELSE <<7, 6, 2, 1, 8, 9>>
  IN  [i \in DOMAIN regs |-> Reg(bank, regs[i])]

PushReg(r) == [Request("push_reg") EXCEPT !.a = r]
AddTo(r, n) == [Request("add_imm") EXCEPT !.a = r, !.n = n]
\* Argument i; one that is in its register already needs nothing.
X86Argument(t, i, arg) ==
  LET full == ArgumentRegs(t, "r")
      half == ArgumentRegs(t, "e")
      isAddress == arg.kind = "address"
  IN  CASE ~t.mode64 ->
             IF isAddress THEN <<[Request("push_u32") EXCEPT !.value = arg.literal]>>
             ELSE <<PushReg(arg.reg)>>
        [] t.mode64 /\ i \in DOMAIN full ->
             CASE isAddress -> <<[Request("mov_address") EXCEPT !.a = full[i], !.value = arg.literal]>>
               [] ~isAddress /\ arg.reg.n = full[i].n -> <<>>
               [] OTHER -> <<[Request("mov") EXCEPT !.a = IF arg.reg.bank = "e" THEN half[i] ELSE full[i],
                                                    !.b = arg.reg]>>
        [] t.mode64 /\ i \notin DOMAIN full ->
             IF isAddress
             THEN <<PushReg(Xax), [Request("mov_address") EXCEPT !.a = Rax, !.value = arg.literal],
                    [Request("xchg") EXCEPT !.a = Rax, !.b = Rsp]>>
             ELSE <<PushReg(arg.reg)>>

\* The last argument first, then on Windows the callee's home space.
X86ArgumentSetup(t, args) ==
  FlattenSeq(Reverse([i \in DOMAIN args |-> X86Argument(t, i, args[i])]))
    \o (IF t.mode64 /\ t.windows THEN <<AddTo(Rsp, -32)>> ELSE <<>>)
X86ArgumentTeardown(t, capi, count) ==
  CASE ~t.mode64 -> IF capi /\ count # 0 THEN <<AddTo(Reg("e", 4), 4 * count)>> ELSE <<>>
    [] t.mode64 /\ t.windows -> <<AddTo(Rsp, 8 * (IF count > 4 THEN count ELSE 4))>>
    [] OTHER -> IF count > 6 THEN <<AddTo(Rsp, 8 * (count - 6))>> ELSE <<>>

\* get_needed_alignment_correction
AlignmentCorrection(t, count) ==
  LET inRegs == IF t.mode64 THEN Len(ArgumentRegs(t, "r")) ELSE 0
      onStack == IF count > inRegs THEN count - inRegs ELSE 0
  IN  (-(onStack * (PointerWidth(t) \div 8))) % 16
Corrected(correction, sign) ==
  IF correction = 0 THEN <<>> ELSE <<AddTo(Xsp, sign * correction)>>
X86AlignedArgumentSetup(t, args) ==
  Corrected(AlignmentCorrection(t, Len(args)), -1) \o X86ArgumentSetup(t, args)
X86AlignedArgumentTeardown(t, capi, count) ==
  X86ArgumentTeardown(t, capi, count) \o Corrected(AlignmentCorrection(t, count), 1)

\* A call that is refused leaves the arguments set up.
CallAddress(t, func, teardown) ==
  <<[Request("call_address") EXCEPT !.value = func]>>
    \o (IF t.mode64 \/ InReach(func) THEN teardown ELSE <<>>)
PutX86CallAddressWithArguments(t, capi, func, args) ==
  X86ArgumentSetup(t, args) \o CallAddress(t, func, X86ArgumentTeardown(t, capi, Len(args)))
PutX86CallAddressWithAlignedArguments(t, capi, func, args) ==
  X86AlignedArgumentSetup(t, args)
    \o CallAddress(t, func, X86AlignedArgumentTeardown(t, capi, Len(args)))
CallThrough(t, call, capi, args) ==
  X86ArgumentSetup(t, args) \o <<call>>
    \o (IF IsPointer(t, call.a) THEN X86ArgumentTeardown(t, capi, Len(args)) ELSE <<>>)
PutX86CallRegWithArguments(t, capi, r, args) ==
  CallThrough(t, [Request("call_reg") EXCEPT !.a = r], capi, args)
PutX86CallRegOffsetPtrWithArguments(t, capi, r, offset, args) ==
  CallThrough(t, [Request("call_reg_ptr") EXCEPT !.a = r, !.n = offset], capi, args)

-----------------------------------------------------------------------------
(* Labels *)

\* A reference is noted after its instruction.
X86PutPiece(w, piece) ==
  LET put == AppendWords(w, 1, piece.words)
  IN  IF piece.label.type = "here" THEN DefineLabel(put, piece.label.id)
      ELSE AddLabelReference(put, piece.label)

X86Patch(w, at, bytes) ==
  [w EXCEPT !.code = [a \in at..(at + Len(bytes) - 1) |-> bytes[a - at + 1]] @@ @]
X86LabelCommits(w, r) ==
  /\ r.id \in DOMAIN w.defs
  /\ r.type = "short" => Signed8(w.defs[r.id] - r.at)
X86CommitLabel(t, w, r) ==
  LET target == w.defs[r.id]
  IN  CASE r.type = "short" -> X86Patch(w, r.at - 1, Bytes(target - r.at, 1))
        [] r.type = "near" -> X86Patch(w, r.at - 4, Bytes32(target - r.at))
        [] r.type = "abs" /\ t.mode64 -> X86Patch(w, r.at - 8, Bytes64(<<target, 0>>))
        [] OTHER -> X86Patch(w, r.at - 4, Bytes32(target))

\* flush: at the first reference that fails, the rest are forgotten.
X86Flushes(w) == \A i \in DOMAIN w.refs : X86LabelCommits(w, w.refs[i])
X86Flush(t, w) ==
  LET failing == {i \in DOMAIN w.refs : ~X86LabelCommits(w, w.refs[i])}
      committed == IF failing = {} THEN w.refs ELSE SubSeq(w.refs, 1, Min(failing) - 1)
      patched == FoldLeft(LAMBDA v, r : X86CommitLabel(t, v, r), w, committed)
  IN  [patched EXCEPT !.refs = <<>>]

=============================================================================
