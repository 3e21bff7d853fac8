------------------------------ MODULE ArmBackend ------------------------------
(***************************************************************************)
(* The code that the ARM backend, and the code allocator for its           *)
(* deflectors, put for a hook of an A32 or a Thumb function, as requests   *)
(* to the writer of that instruction set.                                  *)
(*                                                                         *)
(* A hook is asked for as in X86Backend and Arm64Backend.  An architecture *)
(* may be unaligned: its function begins between two multiples of four.    *)
(***************************************************************************)
EXTENDS Machine

ArmFullRedirect == 8
LinkRedirect == 6
TinyRedirect == 4
ArmMaxRedirect == 128
ArmCaveSize == 8
R(n) == A32!ArmReg(n)
ArmSp == R(13)
ArmLr == R(14)
ArmPc == R(15)

IsThumb(t) == t.isa = "thumb"

\* HooxCpuContext, which the next hop and its padding lie below.
ArmContextAt == 8
ArmContextOffset(n) ==
  CASE n = 13 -> 4 [] n = 14 -> 324 [] n \in 8..12 -> 12 + 4 * (n - 8) [] OTHER -> 292 + 4 * n
ArmFlagsOffset == 8
ArmVectorOffset(n) == 32 + 16 * n
ArmVectorArea == 16 * 16

HighPart == 0..7
MiddlePart == 8..12
PushList(bits) == [Request("push") EXCEPT !.bits = bits]
PopList(bits) == [Request("pop") EXCEPT !.bits = bits]
VectorRange(op, first, last) == Op2(op, Reg("q", first), Reg("q", last))

-----------------------------------------------------------------------------
(* Thunks *)

\* What goes between the high part of the context, which is there already, and
\* the middle: the vectors the processor has, and padding.
VectorsPushed(t) ==
  CASE t.vectors = 16 ->
         <<OpN("sub_u16", ArmSp, NoReg, 4), VectorRange("vpush", 8, 15), VectorRange("vpush", 0, 7)>>
    [] t.vectors = 8 -> <<OpN("sub_u16", ArmSp, NoReg, 8 * 16 + 4), VectorRange("vpush", 0, 7)>>
    [] OTHER -> <<OpN("sub_u16", ArmSp, NoReg, ArmVectorArea + 4)>>
VectorsPopped(t) ==
  CASE t.vectors = 16 ->
         <<VectorRange("vpop", 0, 7), VectorRange("vpop", 8, 15), OpN("add_u16", ArmSp, NoReg, 4)>>
    [] t.vectors = 8 -> <<VectorRange("vpop", 0, 7), OpN("add_u16", ArmSp, NoReg, 8 * 16 + 4)>>
    [] OTHER -> <<OpN("add_u16", ArmSp, NoReg, ArmVectorArea + 4)>>
ArmProlog(t) ==
  <<Op1("mov_reg_flags", R(5)), OpN("add", R(4), ArmSp, 9 * 4)>>
    \o VectorsPushed(t)
    \o <<PushList({4, 5} \cup MiddlePart), OpN("sub_u16", ArmSp, NoReg, 12)>>

\* lr is restored, and its place taken by the next hop, so that it can be
\* popped into the program counter.
LrRestored(t) ==
  <<OpN("sub", R(0), R(4), 4)>>
    \o (IF IsThumb(t) THEN <<OpN("load", R(1), R(0), 0), Op2("mov", ArmLr, R(1))>>
        ELSE <<OpN("load", ArmLr, R(0), 0)>>)
ArmEpilog(t) ==
  LrRestored(t)
    \o <<OpN("load", R(1), ArmSp, 0), OpN("store", R(1), R(0), 0),
         OpN("load", R(5), ArmSp, ArmContextAt + ArmFlagsOffset),
         OpN("add_u16", ArmSp, NoReg, ArmContextAt + 12), PopList(MiddlePart)>>
    \o VectorsPopped(t)
    \o <<Op1("mov_flags_reg", R(5)), PopList(HighPart \cup {Pc})>>

ArmCall(t, func, args) ==
  IF IsThumb(t) THEN T32!ThumbCallAddressWithArguments(func, args)
  ELSE A32!ArmCallAddressWithArguments(func, args)
ArmEnterThunk(t, begin) ==
  ArmProlog(t)
    \o <<OpN("add", R(1), ArmSp, ArmContextAt), OpN("sub", R(2), R(4), 4), OpN("add", R(3), ArmSp, 0)>>
    \o ArmCall(t, begin, <<Argument(R(6)), Argument(R(1)), Argument(R(2)), Argument(R(3))>>)
    \o ArmEpilog(t)
ArmLeaveThunk(t, end) ==
  ArmProlog(t)
    \o <<OpN("add", R(1), ArmSp, ArmContextAt), OpN("add", R(2), ArmSp, 0)>>
    \o ArmCall(t, end, <<Argument(R(6)), Argument(R(1)), Argument(R(2))>>)
    \o ArmEpilog(t)

-----------------------------------------------------------------------------
(* The plan.  Less than the full redirect takes a deflector: a redirect of *)
(* six bytes calls one that all functions in its reach share, and one of   *)
(* four jumps to its own.                                                  *)

ArmNoPlan == [refused |-> TRUE, size |-> 0, deflect |-> FALSE]
ArmPlanOf(size, deflect) == [refused |-> FALSE, size |-> size, deflect |-> deflect]

FullSizeAligned(t) == ArmFullRedirect
\* A literal after the jump lies at a multiple of four.
FullSize(t) == ArmFullRedirect + (IF IsThumb(t) /\ t.unaligned THEN 2 ELSE 0)
ArmCustomPlan(t, c) ==
  LET limit == IF c.hint # 0 THEN c.hint ELSE ArmMaxRedirect
      available == Min({c.limit, limit})
  IN  IF available >= FullSize(t) THEN ArmPlanOf(FullSize(t), FALSE) ELSE ArmNoPlan
ArmPlan(t, c) ==
  CASE c.custom -> ArmCustomPlan(t, c)
    [] ~c.custom /\ (c.force \/ c.limit >= FullSize(t)) -> ArmPlanOf(FullSize(t), FALSE)
    [] OTHER ->
         IF c.limit < TinyRedirect \/ ~c.cave THEN ArmNoPlan
         ELSE ArmPlanOf(IF IsThumb(t) /\ c.limit >= LinkRedirect THEN LinkRedirect ELSE TinyRedirect, TRUE)
Links(plan) == plan.deflect /\ plan.size = LinkRedirect

-----------------------------------------------------------------------------
(* The trampolines *)

ArmJump(target) == <<SetTo(ArmPc, target)>>
HighPartPushed == PushList(HighPart \cup {Link})
ArmToThunk(ctx, thunk) == <<SetTo(R(6), ctx)>> \o ArmJump(thunk)

\* Thumb code goes back without a register to spare.
BranchBack(t, resume) ==
  IF ~IsThumb(t) THEN ArmJump(resume)
  ELSE <<PushList({0, 1}), SetTo(R(0), resume), OpN("store", R(0), ArmSp, 4), PopList({0, Pc})>>

\* Thumb code that asks for its caller is given what lr was before the trap.
ThumbClobbered == HighPart \cup {9, 12, Link}
ThumbLrRewritten(t, dst, translate) ==
  LET saved == ThumbClobbered \ {dst}
      flags == R(IF dst = 4 THEN 5 ELSE 4)
  IN  <<PushList(saved), Op1("mrs", flags)>>
        \o ArmCall(t, translate, <<Argument(ArmLr)>>)
        \o <<Op2("mov", R(dst), R(0)), Op1("msr", flags), PopList(saved)>>

\* A BL that was the last instruction moved looks as if it were in its place.
TrailingCall(after, target) == <<SetTo(ArmLr, after), SetTo(ArmPc, target)>>

ArmSlice(t, c, plan, moved, thunks, ctx, translate) ==
  (IF c.fast THEN <<>>
   ELSE (IF Links(plan) THEN <<>> ELSE <<HighPartPushed>>) \o ArmToThunk(ctx, thunks.enter)
          \o <<Mark("on_leave"), HighPartPushed>> \o ArmToThunk(ctx, thunks.leave) \o <<FlushHere>>)
    \o <<Mark("on_invoke")>>
    \o (IF moved.asks THEN ThumbLrRewritten(t, moved.dst, translate) ELSE <<>>)
    \o <<Copied(moved.copy, moved.leaves)>>
    \o (CASE moved.calls # 0 -> TrailingCall(moved.resume, moved.calls)
          [] moved.calls = 0 /\ moved.leaves # 0 -> <<>>
          [] OTHER -> BranchBack(t, moved.resume))
    \o <<FlushHere>>

\* What activation writes; target is on_enter or the replacement.
ArmRedirect(plan, target, deflector) ==
  (CASE Links(plan) -> <<HighPartPushed, OpTo("bl", deflector)>>
     [] ~Links(plan) /\ plan.deflect -> <<OpTo("jmp", deflector)>>
     [] OTHER -> ArmJump(target))
    \o <<FlushHere>>

-----------------------------------------------------------------------------
(* Deflectors *)

ArmCave(dedicated, target, thunk) == ArmJump(IF dedicated THEN target ELSE thunk) \o <<FlushHere>>
ThumbLookupThunk(t, lookup, dispatcher) ==
  <<PushList({9, 12})>>
    \o ArmCall(t, lookup, <<ArgumentNumber(dispatcher), Argument(ArmLr)>>)
    \o <<PopList({9, 12}), Op1("jmp_reg", R(0)), FlushHere>>

=============================================================================
