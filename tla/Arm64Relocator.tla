--------------------------- MODULE Arm64Relocator ---------------------------
(***************************************************************************)
(* How hooxarm64relocator.c classifies and rewrites an instruction it      *)
(* moves.                                                                  *)
(*                                                                         *)
(* The distance to what an instruction refers to is from the instruction   *)
(* itself; a register of 32 bits has the name of the one it is half of,    *)
(* and the bit a TBZ tests is its register.                                *)
(***************************************************************************)
EXTENDS Processor

-----------------------------------------------------------------------------
(* The instructions *)

Arm64PageSize == 64

\* cc: "none" and "al" are unconditional, as is "nv"; "ne" is any other.
Arm64(id, reg, disp) ==
  [arch |-> "arm64", id |-> id, size |-> 4, reg |-> reg, disp |-> disp,
   cc |-> none, src |-> none]
Arm64Mov(reg, src) == [Arm64("mov", reg, 0) EXCEPT !.src = src]
Arm64Cond(disp, cc) == [Arm64("b", none, disp) EXCEPT !.cc = cc]

Arm64IsFp(r) == r \in {"s0", "d0", "q0"}

Arm64Effects(i) ==
  LET near == i.disp - 4 IN
  CASE i.id = "b" /\ i.cc = "ne" -> <<IfFlag(TRUE), GotoNear(near)>>
    [] i.id = "b" -> <<GotoNear(near)>>
    [] i.id = "bl" -> <<FormAddress("lr", 0), GotoNear(near)>>
    [] i.id = "blr" -> <<Copy("address", i.reg), FormAddress("lr", 0), Goto("address", 0)>>
    [] i.id \in {"br", "ret"} -> <<Goto(i.reg, 0)>>
    [] i.id \in {"cbz", "tbz"} -> <<IfZero(i.reg, TRUE), GotoNear(near)>>
    [] i.id \in {"cbnz", "tbnz"} -> <<IfZero(i.reg, FALSE), GotoNear(near)>>
    [] i.id \in {"ldr", "ldrsw"} -> <<FormAddress("address", near), Load(i.reg, "address", 0)>>
    [] i.id = "adr" -> <<FormAddress(i.reg, near)>>
    [] i.id = "adrp" -> <<FormAligned(i.reg, -4, Arm64PageSize, i.disp)>>
    [] i.id = "mov" -> <<Copy(i.reg, i.src)>>
    [] i.id = "add" -> <<AddConstant(i.reg, i.reg, 1)>>
    [] OTHER -> <<SetFlag>>

Arm64Copied(i) == Insn(4, Arm64Effects(i))

\* What the decoder says an instruction read at i.at refers to.
Arm64Target(i) ==
  (IF i.id = "adrp" THEN RoundedDown(i.at, Arm64PageSize) ELSE i.at) + i.disp

-----------------------------------------------------------------------------
(* Reading *)

Arm64IsUnconditional(i) == i.cc \in {none, "al", "nv"}

Arm64EndsInput(i) ==
  \/ i.id = "b" /\ Arm64IsUnconditional(i)
  \/ i.id \in {"br", "ret"}

\* can_relocate stops after these unless it runs while no thread can be inside.
Arm64StopsScanAtCalls(i) == i.id = "bl"
Arm64StopsScan(i) == i.id \in {"bl", "blr", "svc"}

\* can_relocate's search for branches into the code it would move: the
\* branches it follows, and what ends a stretch.
Arm64FollowsSome(i) == i.id \in {"b", "cbz", "cbnz"}
Arm64Follows(i) == i.id \in {"b", "cbz", "cbnz", "tbz", "tbnz"}
Arm64EndsStretch(i) == Arm64EndsInput(i)

\* A register no instruction names as a register operand.
Arm64Operands(i) ==
  CASE i.id \in {"ldr", "ldrsw", "adr", "adrp", "br", "ret", "blr", "cbz", "cbnz", "tbz", "tbnz", "add"} -> {i.reg}
    [] i.id = "mov" -> {i.reg, i.src}
    [] OTHER -> {}
Arm64RegisterIsFree(insns, r) == \A i \in insns : r \notin Arm64Operands(i)

Arm64ScratchRegister(insns) ==
  CASE Arm64RegisterIsFree(insns, "x16") -> "x16"
    [] Arm64RegisterIsFree(insns, "x17") -> "x17"
    [] OTHER -> none

-----------------------------------------------------------------------------
(* What the writer puts for the relocator *)

PutArm64LdrAddress(r, a) == Insn(4, <<Constant(r, a)>>)
PutArm64BrReg(r) == Insn(4, <<Goto(r, 0)>>)
PutArm64BlrReg(r) == Insn(4, Arm64Effects(Arm64("blr", r, 0)))
PutArm64Ldr(r, base) == Insn(4, <<Load(r, base, 0)>>)
PutArm64BLabel(id) == Insn(4, <<GotoLabel(id)>>)
PutArm64PushRegReg(r, s) ==
  Insn(4, <<AddConstant("sp", "sp", -16), Store("sp", 0, r), Store("sp", 8, s)>>)
PutArm64PopRegReg(r, s) ==
  Insn(4, <<Load(r, "sp", 0), Load(s, "sp", 8), AddConstant("sp", "sp", 16)>>)

-----------------------------------------------------------------------------
(* Rewriting *)

Arm64RewriteLdrClobbering(i) ==
  <<PutArm64LdrAddress("x0", Arm64Target(i)), PutArm64Ldr(i.reg, "x0")>>

Arm64RewriteLdr(i) ==
  IF Arm64IsFp(i.reg)
  THEN <<PutArm64PushRegReg("x0", "x1"), PutArm64LdrAddress("x0", Arm64Target(i)),
         PutArm64Ldr(i.reg, "x0"), PutArm64PopRegReg("x0", "x1")>>
  ELSE <<PutArm64LdrAddress(i.reg, Arm64Target(i)), PutArm64Ldr(i.reg, i.reg)>>

Arm64RewriteAdr(i) == <<PutArm64LdrAddress(i.reg, Arm64Target(i))>>

Arm64RewriteB(i) == <<PutArm64LdrAddress("x16", Arm64Target(i)), PutArm64BrReg("x16")>>

\* B.cond, CBZ, CBNZ, TBZ, TBNZ: the same test chooses between two places.
Arm64RewriteTest(i, pc, test) ==
  <<Insn(4, <<test, GotoLabel(<<pc, "true">>)>>), PutArm64BLabel(<<pc, "false">>),
    Label(<<pc, "true">>)>> \o Arm64RewriteB(i) \o <<Label(<<pc, "false">>)>>

Arm64RewriteBl(i) == <<PutArm64LdrAddress("lr", Arm64Target(i)), PutArm64BlrReg("lr")>>

\* write_one
Arm64Rewritten(i, pc) ==
  CASE i.id \in {"ldr", "ldrsw"} -> Arm64RewriteLdr(i)
    [] i.id \in {"adr", "adrp"} -> Arm64RewriteAdr(i)
    [] i.id = "b" /\ Arm64IsUnconditional(i) -> Arm64RewriteB(i)
    [] i.id = "b" -> Arm64RewriteTest(i, pc, IfFlag(TRUE))
    [] i.id = "bl" -> Arm64RewriteBl(i)
    [] i.id \in {"cbz", "tbz"} -> Arm64RewriteTest(i, pc, IfZero(i.reg, TRUE))
    [] i.id \in {"cbnz", "tbnz"} -> Arm64RewriteTest(i, pc, IfZero(i.reg, FALSE))
    [] OTHER -> <<Arm64Copied(i)>>
=============================================================================
