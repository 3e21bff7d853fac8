------------------------------ MODULE Requests ------------------------------
(***************************************************************************)
(* The code writers by architecture: what each puts for a request, and     *)
(* what the decoders of the same library read back.                        *)
(*                                                                         *)
(* An architecture is a record with isa, mode64, windows and auth: AMD64   *)
(* or IA32, the Windows calling convention, pointer authentication.        *)
(***************************************************************************)
EXTENDS Words

A64 == INSTANCE Arm64Writer
D64 == INSTANCE Arm64Disassembler
A32 == INSTANCE ArmWriter
T32 == INSTANCE ThumbWriter
D32 == INSTANCE ArmDisassembler
X86 == INSTANCE X86Writer
DX86 == INSTANCE X86Disassembler

\* The bytes of a word, and of a pointer.
Unit(arch) == CASE arch.isa = "x86" -> 1 [] arch.isa = "thumb" -> 2 [] OTHER -> 4
WordBytes(arch) == IF arch.isa = "arm64" \/ arch.mode64 THEN 8 ELSE 4
StackPointer(arch) == CASE arch.isa = "x86" -> 4 [] arch.isa = "arm64" -> 31 [] OTHER -> 13

PutPiece(arch, w, piece) ==
  CASE arch.isa = "arm64" -> A64!Arm64PutPiece(w, piece)
    [] arch.isa = "arm" -> A32!ArmPutPiece(w, piece)
    [] arch.isa = "thumb" -> T32!ThumbPutPiece(w, piece)
    [] arch.isa = "x86" -> X86!X86PutPiece(w, piece)
Flushes(arch, w) ==
  CASE arch.isa = "arm64" -> A64!Arm64Flushes(w)
    [] arch.isa = "arm" -> A32!ArmFlushes(w)
    [] arch.isa = "thumb" -> T32!ThumbFlushes(w)
    [] arch.isa = "x86" -> X86!X86Flushes(w)
Flushed(arch, w) ==
  CASE arch.isa = "arm64" -> A64!Arm64Flush(w)
    [] arch.isa = "arm" -> A32!ArmFlush(w)
    [] arch.isa = "thumb" -> T32!ThumbFlush(w)
    [] arch.isa = "x86" -> X86!X86Flush(arch, w)

-----------------------------------------------------------------------------
(* What is put for a request.  An operation has the same name on each of   *)
(* the architectures where it does the same: a register and b another, n a *)
(* number, value an address or a literal, bits a list of registers.        *)

ArmRegs(bits) == {A32!ArmReg(n) : n \in bits}

PutArm64(arch, pc, r) ==
  CASE r.op = "mov_address" -> A64!PutLdrRegU64(r.a, r.value)
    [] r.op = "uxtw" -> A64!PutUxtwRegReg(r.a, r.b)
    [] r.op = "mov" -> A64!PutMovRegReg(r.a, r.b)
    [] r.op = "push" -> A64!PutPushRegReg(r.a, r.b)
    [] r.op = "pop" -> A64!PutPopRegReg(r.a, r.b)
    [] r.op = "mov_reg_nzcv" -> A64!PutMovRegNzcv(r.a)
    [] r.op = "mov_nzcv_reg" -> A64!PutMovNzcvReg(r.a)
    [] r.op = "call_body" -> A64!PutCallAddressBody(r.a, pc, r.n, arch.auth)
    [] r.op = "blr" -> A64!PutBlrReg(r.a, arch.auth)
    [] r.op = "add" -> A64!PutAddRegRegImm(r.a, r.b, r.n)
    [] r.op = "load" -> A64!PutLdrRegRegOffset(r.a, r.b, r.n)
    [] r.op = "store" -> A64!PutStrRegRegOffset(r.a, r.b, r.n)
    [] r.op = "store_pre" -> A64!PutStrRegRegOffsetMode(r.a, A64!SP, r.n, A64!PreAdjust)
    [] r.op = "load_post" -> A64!PutLdrRegRegOffsetMode(r.a, A64!SP, r.n, A64!PostAdjust)
    [] r.op = "jmp" -> A64!PutBImm(pc, r.value[1], arch.auth)
    [] r.op = "bl" -> A64!PutBlImm(pc, r.value[1], arch.auth)
    [] r.op = "page" -> A64!PutAdrpRegAddress(r.a, pc, r.value[1], arch.auth)
    [] r.op = "jmp_reg" -> A64!PutBrReg(r.a, arch.auth)
    [] r.op = "jmp_reg_plain" -> A64!PutBrReg(r.a, FALSE)
    [] r.op = "ret_reg" -> A64!PutRetReg(r.a)

PutArm(pc, r) ==
  CASE r.op = "mov_address" -> A32!PutArmLdrU32(r.a, <<r.value[1]>>)
    [] r.op = "mov" -> A32!PutArmMovRegReg(r.a, r.b)
    [] r.op = "push" -> A32!PutArmPushRegs(ArmRegs(r.bits))
    [] r.op = "pop" -> A32!PutArmPopRegs(ArmRegs(r.bits))
    [] r.op = "sub_u16" -> A32!PutArmSubRegU16(r.a, r.n)
    [] r.op = "add_u16" -> A32!PutArmAddRegU16(r.a, r.n)
    [] r.op = "add" -> A32!PutArmAddRegRegImm(r.a, r.b, r.n)
    [] r.op = "sub" -> A32!PutArmSubRegRegImm(r.a, r.b, r.n)
    [] r.op = "load" -> A32!PutArmLdrCondRegRegOffset(A32!ArmAlways, r.a, r.b, r.n)
    [] r.op = "store" -> A32!PutArmStrCondRegRegOffset(A32!ArmAlways, r.a, r.b, r.n)
    [] r.op = "vpush" -> A32!PutArmVpushRange(r.a, r.b)
    [] r.op = "vpop" -> A32!PutArmVpopRange(r.a, r.b)
    [] r.op = "mov_reg_flags" -> A32!PutArmMovRegCpsr(r.a)
    [] r.op = "mov_flags_reg" -> A32!PutArmMovCpsrReg(r.a)
    [] r.op = "jmp" -> A32!PutArmBCondImm(A32!ArmAlways, pc, r.value[1])
    [] r.op = "call_body" -> A32!PutArmCallAddressBody(pc, r.n)
    [] r.op = "call_reg" -> A32!PutArmCallReg(r.a, TRUE)

PutThumb(pc, r) ==
  CASE r.op = "mov_address" -> T32!PutThumbLdrU32(r.a, <<r.value[1]>>)
    [] r.op = "mov" -> T32!PutThumbMovRegReg(r.a, r.b)
    [] r.op = "push" -> T32!PutThumbPushRegs(ArmRegs(r.bits))
    [] r.op = "pop" -> T32!PutThumbPopRegs(ArmRegs(r.bits))
    [] r.op = "add_imm" -> T32!PutThumbAddRegImm(r.a, r.n)
    [] r.op = "sub_u16" -> T32!PutThumbSubRegImm(r.a, r.n)
    [] r.op = "add_u16" -> T32!PutThumbAddRegImm(r.a, r.n)
    [] r.op = "add" -> T32!PutThumbAddRegRegImm(r.a, r.b, r.n)
    [] r.op = "sub" -> T32!PutThumbSubRegRegImm(r.a, r.b, r.n)
    [] r.op = "load" -> T32!PutThumbLdrRegRegOffset(r.a, r.b, r.n)
    [] r.op = "store" -> T32!PutThumbStrRegRegOffset(r.a, r.b, r.n)
    [] r.op = "vpush" -> T32!PutThumbVpushRange(r.a, r.b)
    [] r.op = "vpop" -> T32!PutThumbVpopRange(r.a, r.b)
    [] r.op = "mov_reg_flags" -> T32!PutThumbMovRegCpsr(r.a)
    [] r.op = "mov_flags_reg" -> T32!PutThumbMovCpsrReg(r.a)
    [] r.op = "mrs" -> T32!PutThumbMrs(r.a)
    [] r.op = "msr" -> T32!PutThumbMsr(r.a)
    [] r.op = "jmp" -> T32!PutThumbBImm(pc, r.value[1])
    [] r.op = "bl" -> T32!PutThumbBlImm(pc, r.value[1])
    [] r.op = "jmp_reg" -> T32!PutThumbBxReg(r.a)
    [] r.op = "call_reg" -> T32!PutThumbBlxReg(r.a)

JneCondition == 5
PutX86(t, pc, r) ==
  CASE r.op = "mov_address" -> X86!PutX86MovRegAddress(t, r.a, r.value)
    [] r.op = "mov" -> X86!PutX86MovRegReg(t, r.a, r.b)
    [] r.op = "push_reg" -> X86!PutX86PushReg(t, r.a)
    [] r.op = "pop_reg" -> X86!PutX86PopReg(t, r.a)
    [] r.op = "push_u32" -> X86!PutX86PushU32(r.value[1])
    [] r.op = "push_near" -> X86!PutX86PushNearPtr(t, pc, r.value)
    [] r.op = "xchg" -> X86!PutX86XchgRegRegPtr(t, r.a, r.b)
    [] r.op = "add_imm" -> X86!PutX86AddRegImm(t, r.a, r.n)
    [] r.op = "sub_imm" -> X86!PutX86SubRegImm(t, r.a, r.n)
    [] r.op = "align" -> X86!PutX86AndRegU32(t, r.a, -r.n)
    [] r.op = "lea" -> X86!PutX86LeaRegRegOffset(t, r.a, r.b, r.n)
    [] r.op = "load" -> X86!PutX86MovRegRegOffsetPtr(t, r.a, r.b, r.n)
    [] r.op = "store" -> X86!PutX86MovRegOffsetPtrReg(t, r.b, r.n, r.a)
    [] r.op = "pusha" -> X86!PutX86Pushax(t)
    [] r.op = "popa" -> X86!PutX86Popax(t)
    [] r.op = "push_flags" -> X86!PutX86Pushfx
    [] r.op = "pop_flags" -> X86!PutX86Popfx
    [] r.op = "cld" -> X86!PutX86Cld
    [] r.op = "fxsave" -> X86!PutX86FxsaveRegPtr(t, r.a)
    [] r.op = "fxrstor" -> X86!PutX86FxrstorRegPtr(t, r.a)
    [] r.op = "test" -> X86!PutX86TestRegReg(t, r.a, r.a)
    [] r.op = "jne" -> X86!PutX86JccShortLabel(pc, JneCondition, r.id, none)
    [] r.op = "label" -> X86!LabelHere(r.id)
    [] r.op = "jmp" -> X86!PutX86JmpAddress(t, pc, r.value)
    [] r.op = "jmp_reg" -> X86!PutX86JmpReg(t, r.a)
    [] r.op = "jmp_mem" -> X86!PutX86JmpRegOffsetPtr(t, r.a, r.n)
    [] r.op = "call_address" -> X86!PutX86CallAddress(t, pc, r.value)
    [] r.op = "call_reg" -> X86!PutX86CallReg(t, r.a)
    [] r.op = "call_reg_ptr" -> X86!PutX86CallRegOffsetPtr(t, r.a, r.n)
    [] r.op = "ret" -> X86!PutX86Ret
    [] r.op = "nops" -> X86!PutX86NopPadding(r.n)
    [] r.op = "bytes" -> X86!BytesIf(TRUE, [i \in 1..r.n |-> 0])

Requested(arch, pc, r) ==
  CASE arch.isa = "arm64" -> PutArm64(arch, pc, r)
    [] arch.isa = "arm" -> PutArm(pc, r)
    [] arch.isa = "thumb" -> PutThumb(pc, r)
    [] arch.isa = "x86" -> PutX86(arch, pc, r)

-----------------------------------------------------------------------------
(* What is read at an address: its size and what it decodes to.            *)

CodeFrom(code, at) ==
  [i \in 1..Cardinality({k \in 0..14 : at + k \in DOMAIN code}) |-> code[at + i - 1]]
Read(arch, code, at) ==
  CASE arch.isa = "arm64" -> [size |-> 4, insn |-> D64!Arm64Decode(code[at], at)]
    [] arch.isa = "arm" -> [size |-> 4, insn |-> D32!ArmDecode(code[at], at)]
    [] arch.isa = "thumb" ->
         IF D32!IsWide(code[at])
         THEN [size |-> 4, insn |-> D32!ThumbDecode(code[at], code[at + 2], at)]
         ELSE [size |-> 2, insn |-> D32!ThumbDecode(code[at], {}, at)]
    [] arch.isa = "x86" ->
         LET insn == DX86!X86Decode(CodeFrom(code, at), arch.mode64, at)
         IN  [size |-> insn.size, insn |-> insn]

=============================================================================
