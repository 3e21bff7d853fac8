----------------------------- MODULE Arm64Backend -----------------------------
(***************************************************************************)
(* The code that the ARM64 backend, and the code allocator for its         *)
(* deflectors, put for a hook, as requests to the writer.                  *)
(*                                                                         *)
(* A hook is asked for as in X86Backend, with two more fields: cave (there *)
(* is room for a deflector in reach of the function) and scratch (the      *)
(* register the relocator found unused, or 0).                          *)
(***************************************************************************)
EXTENDS Machine

Arm64FullRedirect == 16
Arm64MaxRedirect == 128
CaveSize == 24
X(n) == A64!X(n)

\* HooxCpuContext, and the frame with the next hop above it.
Arm64ContextSize == 784
Arm64ContextOffset(n) ==
  CASE n = 31 -> 8 [] n = 30 -> 264 [] n = 29 -> 256 [] OTHER -> 24 + 8 * n
Arm64FlagsOffset == 16
Arm64VectorOffset(n) == 272 + 16 * n

Arm64Add(r, base, n) == OpN("add", r, base, n)

-----------------------------------------------------------------------------
(* Thunks *)

\* The vectors, x1 to lr, the flags and x0, the stack pointer; and an entry of
\* the chain of frame pointers.
Arm64Prolog ==
  [i \in 1..16 |-> A64!Push(Reg("q", 32 - 2 * i), Reg("q", 33 - 2 * i))]
    \o <<A64!Push(X(29), X(30))>> \o [i \in 1..14 |-> A64!Push(X(29 - 2 * i), X(30 - 2 * i))]
    \o <<Op1("mov_reg_nzcv", X(1)), A64!Push(X(1), X(0)),
         Arm64Add(X(0), A64!SP, Arm64ContextSize - Arm64FlagsOffset + 16), A64!Push(A64!XZR, X(0)),
         OpN("store", X(30), A64!SP, Arm64ContextSize + 8), OpN("store", X(29), A64!SP, Arm64ContextSize),
         Arm64Add(X(29), A64!SP, Arm64ContextSize)>>
Arm64Epilog(t, scratch) ==
  <<Arm64Add(A64!SP, A64!SP, 16), A64!Pop(X(1), X(0)), Op1("mov_nzcv_reg", X(1))>>
    \o [i \in 1..14 |-> A64!Pop(X(2 * i - 1), X(2 * i))] \o <<A64!Pop(X(29), X(30))>>
    \o [i \in 1..16 |-> A64!Pop(Reg("q", 2 * i - 2), Reg("q", 2 * i - 1))]
    \o <<OpN("load_post", scratch, A64!SP, 16),
         Op1(IF t.auth THEN "jmp_reg" ELSE "ret_reg", scratch)>>

Arm64EnterThunk(t, scratch, begin) ==
  <<OpN("load", X(17), A64!SP, 0)>> \o Arm64Prolog
    \o <<Arm64Add(X(1), A64!SP, 0), Arm64Add(X(2), A64!SP, Arm64ContextOffset(30)),
         Arm64Add(X(3), A64!SP, Arm64ContextSize)>>
    \o A64!CallAddressWithArguments(begin, [i \in 1..4 |-> Argument(X(IF i = 1 THEN 17 ELSE i - 1))])
    \o Arm64Epilog(t, scratch) \o <<FlushHere>>
Arm64LeaveThunk(t, scratch, end) ==
  <<OpN("load", X(17), A64!SP, 0)>> \o Arm64Prolog
    \o <<Arm64Add(X(1), A64!SP, 0), Arm64Add(X(2), A64!SP, Arm64ContextSize)>>
    \o A64!CallAddressWithArguments(end, [i \in 1..3 |-> Argument(X(IF i = 1 THEN 17 ELSE i - 1))])
    \o Arm64Epilog(t, scratch) \o <<FlushHere>>

-----------------------------------------------------------------------------
(* The plan: deflect says that the slice is out of the redirect's reach,   *)
(* scratch is the register all of the code may use.                        *)

Arm64NoPlan == [refused |-> TRUE, size |-> 0, near |-> FALSE, deflect |-> FALSE, scratch |-> 16]
Arm64PlanOf(size, near, deflect, scratch) ==
  [refused |-> FALSE, size |-> size, near |-> near, deflect |-> deflect, scratch |-> scratch]
ScratchOr16(c) == IF c.scratch = 0 THEN 16 ELSE c.scratch

\* A custom redirect is a jump through the scratch register, if that fits.
Arm64CustomPlan(c) ==
  LET limit == IF c.hint # 0 THEN c.hint ELSE Arm64MaxRedirect
      available == Min({c.limit, limit})
  IN  IF available >= Arm64FullRedirect
      THEN Arm64PlanOf(Arm64FullRedirect, FALSE, FALSE, ScratchOr16(c)) ELSE Arm64NoPlan

Arm64ShortPlan(c) ==
  LET size == IF c.limit >= 8 THEN 8 ELSE 4
  IN  IF c.fast \/ c.limit < 4 \/ (~c.near /\ ~c.cave) \/ c.scratch = 0 THEN Arm64NoPlan
      ELSE Arm64PlanOf(size, c.near, ~c.near, c.scratch)
Arm64Plan(c) ==
  CASE c.custom -> Arm64CustomPlan(c)
    [] ~c.custom /\ c.limit >= Arm64FullRedirect /\ ~c.force /\ c.scratch = 0 -> Arm64NoPlan
    [] ~c.custom /\ (c.force \/ (c.limit >= Arm64FullRedirect /\ c.scratch # 0)) ->
         Arm64PlanOf(Arm64FullRedirect, FALSE, FALSE, ScratchOr16(c))
    [] OTHER -> Arm64ShortPlan(c)

-----------------------------------------------------------------------------
(* The trampolines *)

Arm64Through(t, scratch, target) == <<SetTo(scratch, target), Op1("jmp_reg", scratch)>>
ToThunk(t, scratch, ctx, thunk) ==
  <<SetTo(scratch, ctx), OpN("store_pre", scratch, A64!SP, -16)>>
    \o Arm64Through(t, scratch, Sign(t, thunk))

\* Code that asks for its caller is given what the return address was before
\* the trap: a mov from lr becomes a call, whose answer goes where the register
\* was saved.
AnswerSlotBelow(dst) == (14 - (dst \div 2)) * 16 + (IF dst % 2 = 0 THEN 0 ELSE 8)
AnswerSlot(dst) == (15 - (dst \div 2)) * 16 + (IF dst % 2 = 0 THEN 0 ELSE 8)
LrRewritten(dst, translate) ==
  A64!PushAllX \o A64!CallAddressWithArguments(translate, <<Argument(X(30))>>)
    \o <<OpN("store", X(0), A64!SP, AnswerSlot(dst))>> \o A64!PopAllX

Arm64Slice(t, c, plan, moved, thunks, ctx, translate) ==
  LET scratch == X(plan.scratch)
  IN  (IF plan.deflect THEN <<A64!Pop(X(0), X(30))>> ELSE <<>>)
        \o (IF c.fast THEN <<>>
            ELSE ToThunk(t, scratch, ctx, thunks.enter) \o <<Mark("on_leave")>>
                   \o ToThunk(t, scratch, ctx, thunks.leave) \o <<FlushHere>>)
        \o <<Mark("on_invoke")>>
        \o (IF moved.asks THEN LrRewritten(moved.dst, translate) ELSE <<>>)
        \o <<Copied(moved.copy, moved.leaves)>>
        \o (IF moved.leaves # 0 THEN <<>> ELSE Arm64Through(t, scratch, Sign(t, moved.resume)))
        \o <<FlushHere>>

\* What activation writes; target is on_enter or the replacement, signed.
Arm64Redirect(t, plan, target, deflector) ==
  LET scratch == X(plan.scratch)
  IN  (CASE plan.deflect /\ plan.size = 8 -> <<A64!Push(X(0), X(30)), OpTo("bl", deflector)>>
         [] plan.deflect /\ plan.size = 4 -> <<OpTo("jmp", deflector)>>
         [] ~plan.deflect /\ plan.size = 4 -> <<OpTo("jmp", target)>>
         [] ~plan.deflect /\ plan.size = 8 ->
              <<[Request("page") EXCEPT !.a = scratch, !.value = <<target, 0>>], Op1("jmp_reg_plain", scratch)>>
         [] OTHER -> Arm64Through(t, scratch, target))
        \o <<FlushHere>>

-----------------------------------------------------------------------------
(* Deflectors: a jump from a cave in the module to one function's on_enter *)
(* or to a thunk that looks it up by the address the function called from. *)

Arm64Cave(t, dedicated, target, thunk) ==
  (IF dedicated THEN <<A64!Push(X(0), X(30))>> \o Arm64Through(t, X(0), target)
   ELSE Arm64Through(t, X(0), Sign(t, thunk)))
    \o <<FlushHere>>
Arm64LookupThunk(lookup, dispatcher) ==
  [i \in 1..4 |-> A64!Push(Reg("q", 8 - 2 * i), Reg("q", 9 - 2 * i))]
    \o [i \in 1..9 |-> A64!Push(X(19 - 2 * i), X(20 - 2 * i))]
    \o A64!CallAddressWithArguments(lookup, <<ArgumentNumber(dispatcher), Argument(X(30))>>)
    \o [i \in 1..9 |-> A64!Pop(X(2 * i - 1), X(2 * i))]
    \o [i \in 1..4 |-> A64!Pop(Reg("q", 2 * i - 2), Reg("q", 2 * i - 1))]
    \o <<Op1("jmp_reg", X(0)), FlushHere>>

=============================================================================
