---------------------------- MODULE ArmRelocator ----------------------------
(***************************************************************************)
(* How hooxarmrelocator.c classifies and rewrites an instruction of the    *)
(* ARM state it moves.                                                     *)
(*                                                                         *)
(* The pc an instruction reads is its address and eight.  An operand is a  *)
(* number or a register; a shift is a factor.  A register is "pc" only as  *)
(* an operand of the original: the relocators' output never reads it.      *)
(***************************************************************************)
EXTENDS Processor

-----------------------------------------------------------------------------
(* The instructions *)

ArmImm(k) == [kind |-> "imm", k |-> k, factor |-> 1]
ArmReg(r) == [kind |-> "reg", reg |-> r, factor |-> 1]
ArmShifted(r, factor) == [kind |-> "reg", reg |-> r, factor |-> factor]
ArmPc == ArmReg("pc")

\* LDR dst, [left, right], MOV dst, right, ADD and SUB dst, left, right.
ArmData(id, dst, left, right) ==
  [arch |-> "arm", id |-> id, size |-> 4, dst |-> dst, left |-> left, right |-> right,
   cc |-> "al", subtracted |-> FALSE, writeback |-> FALSE]

\* LDR dst, [pc, #-k]: the decoder gives the number and that it is subtracted.
ArmLdrBefore(dst, k) == [ArmData("ldr", dst, "pc", ArmImm(k)) EXCEPT !.subtracted = TRUE]

\* B, BL, BLX to a place, BX and BLX to a register.
ArmBranch(id, right, cc) == [ArmData(id, none, none, right) EXCEPT !.cc = cc]

ArmIsPc(op) == op.kind = "reg" /\ op.reg = "pc"

\* r := the pc the instruction reads
ReadPc(r) == FormAddress(r, 4)

\* The right operand goes to the register "word".
ArmValue(op) ==
  CASE op.kind = "imm" -> <<Constant("word", op.k)>>
    [] op.reg = "pc" -> <<ReadPc("word")>>
    [] OTHER -> <<Compute("word", none, op.reg, op.factor, 0)>>
ArmLeft(r) == IF r = "pc" THEN <<ReadPc("address")>> ELSE <<Copy("address", r)>>

ArmSetReg(dst, r) == IF dst = "pc" THEN <<Interwork(r)>> ELSE <<Copy(dst, r)>>

ArmFactor(i) == IF i.id = "sub" \/ i.subtracted THEN -1 ELSE 1

ArmTakes(i) ==
  CASE i.id = "mov" -> ArmValue(i.right) \o ArmSetReg(i.dst, "word")
    [] i.id \in {"ldr", "add", "sub"} ->
         ArmLeft(i.left) \o ArmValue(i.right)
           \o <<Compute("address", "address", "word", ArmFactor(i), 0)>>
           \o (IF i.id = "ldr" THEN <<Load("address", "address", 0)>> ELSE <<>>)
           \o ArmSetReg(i.dst, "address")
    [] i.id = "pop" -> <<Load("address", "sp", 0), AddConstant("sp", "sp", 4), Interwork("address")>>
    [] i.id = "b" -> <<GotoNear(i.right.k + 4)>>
    [] i.id = "bx" -> <<Interwork(i.right.reg)>>
    [] i.id = "bl" -> <<FormAddress("lr", 0), GotoNear(i.right.k + 4)>>
    [] i.id = "blx" /\ i.right.kind = "imm" ->
         <<FormAddress("lr", 0), GotoNear(i.right.k + 4), SetThumb(TRUE)>>
    [] i.id = "blx" -> <<Copy("address", i.right.reg), FormAddress("lr", 0), Interwork("address")>>
    [] OTHER -> <<SetFlag>>

ArmEffects(i) == (IF i.cc = "al" THEN <<>> ELSE <<IfFlag(TRUE)>>) \o ArmTakes(i)

ArmCopied(i) == Insn(4, ArmEffects(i))

-----------------------------------------------------------------------------
(* Reading *)

ArmIsUnconditional(i) == i.cc = "al"

ArmEndsInput(i) ==
  CASE i.id \in {"b", "bx"} -> ArmIsUnconditional(i)
    [] i.id \in {"ldr", "mov", "add", "sub", "pop", "ldm"} -> i.dst = "pc"
    [] OTHER -> FALSE

\* can_relocate goes no further than the instructions it can rewrite.
ArmIsSupported(i) ==
  /\ i.id # "unsupported"
  /\ ~(/\ i.id = "ldr" /\ i.left = "pc"
       /\ (i.writeback \/ (i.right.kind = "reg" /\ i.subtracted)))

-----------------------------------------------------------------------------
(* What the writer puts for the relocator *)

PutArmLdrAddress(r, a) ==
  Insn(4, IF r = "pc" THEN <<Constant("address", a), Interwork("address")>> ELSE <<Constant(r, a)>>)
PutArmPush(r) == Insn(4, <<AddConstant("sp", "sp", -4), Store("sp", 0, r)>>)
\* push { r, pc }, and what undoes it with the place to go to on top
PutArmPushWithPc(r) ==
  Insn(4, <<AddConstant("sp", "sp", -8), Store("sp", 0, r), ReadPc("word"), Store("sp", 4, "word")>>)
PutArmPopAndGo(r) ==
  <<Insn(4, <<Store("sp", 4, r)>>),
    Insn(4, <<Load(r, "sp", 0), Load("address", "sp", 4), AddConstant("sp", "sp", 8), Interwork("address")>>)>>
PutArmMov(r, s, factor) == Insn(4, <<Compute(r, none, s, factor, 0)>>)
PutArmAdd(r, k) == Insn(4, <<AddConstant(r, r, k)>>)
PutArmAddReg(r, s, t, factor) == Insn(4, <<Compute(r, s, t, factor, 0)>>)
PutArmLdr(r, base) == Insn(4, <<Load(r, base, 0)>>)

-----------------------------------------------------------------------------
(* Rewriting *)

ArmPcOf(i) == i.at + 8

\* What is computed in a register goes to dst, or, by way of the stack, to pc.
ByWayOf(target, i, code) ==
  IF i.dst = "pc"
  THEN <<PutArmPushWithPc(target)>> \o code \o PutArmPopAndGo(target)
  ELSE code

\* The register the value is computed in: Rm is favored.
ArmScratch(i, op) ==
  CASE i.dst # "pc" -> i.dst
    [] op.kind = "reg" /\ ~ArmIsPc(op) -> op.reg
    [] OTHER -> "r0"

ArmRewriteLdr(i) ==
  LET target == ArmScratch(i, i.right) IN
  CASE i.left # "pc" \/ i.writeback -> <<ArmCopied(i)>>
    [] i.right.kind = "imm" ->
         ByWayOf(target, i, <<PutArmLdrAddress(target, ArmPcOf(i) + i.right.k),
                              PutArmLdr(target, target)>>)
    [] OTHER ->
         ByWayOf(target, i, <<PutArmMov(target, i.right.reg, i.right.factor),
                              PutArmAdd(target, ArmPcOf(i)), PutArmLdr(target, target)>>)

ArmRewriteMov(i) ==
  IF ArmIsPc(i.right) THEN <<PutArmLdrAddress(i.dst, ArmPcOf(i))>> ELSE <<ArmCopied(i)>>

\* ADD: the pc is either operand.
ArmSumClobbering(target, i, op) ==
  <<PutArmLdrAddress(target, ArmPcOf(i)), PutArmAddReg(target, target, op.reg, 1)>>

ArmSum(target, i, op) ==
  CASE op.kind = "imm" -> <<PutArmLdrAddress(target, ArmPcOf(i)), PutArmAdd(target, op.k)>>
    [] op.factor # 1 ->
         <<PutArmMov(target, op.reg, 1), PutArmMov(target, target, op.factor),
           PutArmAdd(target, ArmPcOf(i))>>
    [] op.reg = i.dst -> <<PutArmAdd(target, ArmPcOf(i))>>
    [] OTHER -> ArmSumClobbering(target, i, op)

ArmRewriteAdd(i) ==
  LET op == IF ArmIsPc(i.right) THEN ArmReg(i.left) ELSE i.right
      target == ArmScratch(i, op) IN
  IF i.left = "pc" \/ ArmIsPc(i.right)
  THEN ByWayOf(target, i, ArmSum(target, i, op))
  ELSE <<ArmCopied(i)>>

\* SUB
ArmDifference(target, i) ==
  LET op == i.right
      negated == PutArmAddReg(target, none, target, -1)
      pc == ArmPcOf(i) IN
  CASE op.kind = "imm" -> <<PutArmLdrAddress(target, pc), PutArmAdd(target, -op.k)>>
    [] op.factor # 1 ->
         <<PutArmMov(target, op.reg, 1), PutArmMov(target, target, op.factor), negated,
           PutArmAdd(target, pc)>>
    [] i.dst = i.left /\ i.left = op.reg -> <<PutArmAddReg(target, target, target, -1)>>
    [] i.left = i.dst /\ i.left = "pc" -> <<negated, PutArmAdd(target, pc)>>
    [] i.left = i.dst -> <<PutArmAdd(target, -pc)>>
    [] op.reg = i.dst /\ op.reg = "pc" -> <<PutArmMov(target, i.left, 1), PutArmAdd(target, -pc)>>
    [] op.reg = i.dst -> <<negated, PutArmAdd(target, pc)>>
    [] i.left = "pc" -> <<PutArmLdrAddress(target, pc), PutArmAddReg(target, op.reg, none, 0)>>
    [] OTHER -> <<PutArmLdrAddress(target, pc), negated, PutArmAddReg(target, i.left, none, 0)>>

ArmRewriteSub(i) ==
  LET target == ArmScratch(i, i.right) IN
  IF i.left = "pc" \/ ArmIsPc(i.right)
  THEN ByWayOf(target, i, ArmDifference(target, i))
  ELSE <<ArmCopied(i)>>

ArmTarget(i) == ArmPcOf(i) + i.right.k

ArmRewriteB(i) ==
  IF i.right.kind = "imm" THEN <<PutArmLdrAddress("pc", ArmTarget(i))>> ELSE <<ArmCopied(i)>>

ArmRewriteBCond(i, pc) ==
  <<Insn(4, <<IfFlag(TRUE), GotoLabel(<<pc, "true">>)>>), Insn(4, <<GotoLabel(<<pc, "false">>)>>),
    Label(<<pc, "true">>), PutArmPush("r0"), PutArmPush("r0"),
    PutArmLdrAddress("r0", ArmTarget(i))>> \o PutArmPopAndGo("r0") \o <<Label(<<pc, "false">>)>>

\* An odd address goes to Thumb code.
ArmRewriteBl(i, pc) ==
  IF i.right.kind = "imm"
  THEN <<PutArmLdrAddress("lr", pc + 8),
         PutArmLdrAddress("pc", IF i.id = "blx" THEN ArmTarget(i) + 1 ELSE ArmTarget(i))>>
  ELSE <<ArmCopied(i)>>

\* write_one
ArmRewritten(i, pc) ==
  CASE i.id = "ldr" -> ArmRewriteLdr(i)
    [] i.id = "mov" -> ArmRewriteMov(i)
    [] i.id = "add" -> ArmRewriteAdd(i)
    [] i.id = "sub" -> ArmRewriteSub(i)
    [] i.id = "b" /\ ~ArmIsUnconditional(i) -> ArmRewriteBCond(i, pc)
    [] i.id \in {"b", "bx"} -> ArmRewriteB(i)
    [] i.id \in {"bl", "blx"} -> ArmRewriteBl(i, pc)
    [] OTHER -> <<ArmCopied(i)>>
=============================================================================
