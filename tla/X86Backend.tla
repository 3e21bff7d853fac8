------------------------------ MODULE X86Backend ------------------------------
(***************************************************************************)
(* The code that the x86 backend puts for a hook, as requests to its       *)
(* writer: the thunks all hooks share, the trampolines of one hook, and    *)
(* the redirect that replaces a function's first bytes; and the plan that  *)
(* decides how long that is and where the trampolines go.                  *)
(*                                                                         *)
(* A hook is asked for in a record: fast, custom (its user writes a jump   *)
(* if it fits), hint (the bytes the user wants for that), near (the        *)
(* allocator has a slice in reach), limit (the bytes of the function that  *)
(* can be moved away) and force.  Its first instructions, once moved, run  *)
(* on, or leave for elsewhere; they may be longer than the redirect        *)
(* (beyond) and longer where they are moved to (grown).                    *)
(***************************************************************************)
EXTENDS Machine

FullRedirectSize == 16
NearRedirectSize == 5
MaxRedirectSize == 128
SliceSize == 256

\* The frame that a thunk builds: the context of the processor, from the
\* program counter to xax, the flags, and the next hop.
Xax == X86!X86Reg(0)
Xcx == X86!X86Reg(1)
Xdx == X86!X86Reg(2)
Xbx == X86!X86Reg(3)
Xsp == X86!X86Reg(4)
Xsi == X86!X86Reg(6)
Xdi == X86!X86Reg(7)
X86ContextSize(t) == (Cardinality(Registers(t)) + 1) * WordBytes(t)
X86ContextOffset(t, n) == (Cardinality(Registers(t)) - n) * WordBytes(t)
X86OffsetNextHop(t) == X86ContextSize(t) + WordBytes(t)
X86OffsetTop(t) == X86OffsetNextHop(t) + WordBytes(t)

Lea(r, base, n) == OpN("lea", r, base, n)

-----------------------------------------------------------------------------
(* Thunks *)

X86PrologKeepingDirection(t, displacement) ==
  <<Request("push_flags"), Request("pusha"), Lea(Xsp, Xsp, -WordBytes(t)),
    Lea(Xax, Xsp, X86OffsetTop(t) + displacement),
    OpN("store", Xax, Xsp, X86ContextOffset(t, 4)),
    Op2("mov", Xbx, Xsp), OpN("align", Xsp, NoReg, 16), OpN("sub_imm", Xsp, NoReg, FxSize),
    Op1("fxsave", Xsp)>>
X86Prolog(t, displacement) ==
  <<Request("push_flags"), Request("cld"), Request("pusha"), Lea(Xsp, Xsp, -WordBytes(t)),
    Lea(Xax, Xsp, X86OffsetTop(t) + displacement),
    OpN("store", Xax, Xsp, X86ContextOffset(t, 4)),
    Op2("mov", Xbx, Xsp), OpN("align", Xsp, NoReg, 16), OpN("sub_imm", Xsp, NoReg, FxSize),
    Op1("fxsave", Xsp)>>

X86EpilogReturning(t, entering) ==
  <<Op1("fxrstor", Xsp), Op2("mov", Xsp, Xbx), Lea(Xsp, Xsp, WordBytes(t)),
    Request("popa"), Request("pop_flags"), Request("ret")>>
\* On the way in a jump does the return, and leaves the shadow stack alone.
X86Epilog(t, entering) ==
  <<Op1("fxrstor", Xsp), Op2("mov", Xsp, Xbx), Lea(Xsp, Xsp, WordBytes(t)),
    Request("popa"), Request("pop_flags")>>
    \o (IF entering THEN <<Lea(Xsp, Xsp, WordBytes(t)), OpN("jmp_mem", Xsp, NoReg, -WordBytes(t))>>
        ELSE <<Request("ret")>>)

\* begin_invocation finds the context of the function in a register, and with
\* a shadow stack says whether the return is to be trapped.
X86ContextReg(t) == IF t.mode64 THEN X86!X86Reg(12) ELSE Xdi
X86EnterThunk(t, begin, shadowOffset) ==
  X86Prolog(t, 0)
    \o <<Lea(Xsi, Xbx, 0), Lea(Xdx, Xbx, X86OffsetTop(t)), Lea(Xcx, Xbx, X86OffsetNextHop(t)),
         OpN("load", X86ContextReg(t), Xcx, 0)>>
    \o X86!PutX86CallAddressWithAlignedArguments(t, TRUE, <<begin, 0>>,
         <<Argument(X86ContextReg(t)), Argument(Xsi), Argument(Xdx), Argument(Xcx)>>)
    \o (IF t.cet
        THEN <<Op1("test", Reg("e", 0)), OpToMark("jne", "prepare_trap_on_leave"), Mark("epilog")>>
               \o X86Epilog(t, TRUE)
               \o <<OpToMark("label", "prepare_trap_on_leave"),
                    [SetTo(Xax, 0) EXCEPT !.id = <<"epilog">>],
                    OpN("jmp_mem", X86ContextReg(t), NoReg, shadowOffset)>>
        ELSE X86Epilog(t, TRUE))
    \o <<FlushHere>>
X86LeaveThunk(t, end) ==
  X86Prolog(t, -WordBytes(t))
    \o <<Lea(Xsi, Xbx, 0), Lea(Xdx, Xbx, X86OffsetNextHop(t)), OpN("load", Xdi, Xdx, 0)>>
    \o X86!PutX86CallAddressWithAlignedArguments(t, TRUE, <<end, 0>>,
         <<Argument(Xdi), Argument(Xsi), Argument(Xdx)>>)
    \o X86Epilog(t, FALSE) \o <<FlushHere>>

-----------------------------------------------------------------------------
(* The plan: refused, or the bytes to redirect in and where the slice is;  *)
(* relay says that the slice has a jump to the replacement.                *)

NoPlan == [refused |-> TRUE, size |-> 0, near |-> FALSE, relay |-> FALSE]
PlanOf(size, near, relay) == [refused |-> FALSE, size |-> size, near |-> near, relay |-> relay]

\* What a custom redirect may take up, and what it does: a jump, if that fits.
X86AvailableSpace(c) == Min({c.limit, IF c.hint # 0 THEN c.hint ELSE MaxRedirectSize})
X86CustomJumpSize(t, near) == IF t.mode64 /\ ~near THEN FullRedirectSize ELSE NearRedirectSize

X86Plan(t, c) ==
  LET near == t.mode64 /\ ~c.fast /\ c.near
      size == IF ~t.mode64 \/ near THEN NearRedirectSize ELSE FullRedirectSize
      relayed == t.mode64 /\ c.fast /\ c.limit >= NearRedirectSize /\ c.near
  IN  CASE c.custom ->
             IF X86AvailableSpace(c) >= X86CustomJumpSize(t, near)
             THEN PlanOf(X86CustomJumpSize(t, near), near, FALSE) ELSE NoPlan
        [] ~c.custom /\ (c.force \/ c.limit >= size) -> PlanOf(size, near, FALSE)
        [] OTHER -> IF relayed THEN PlanOf(NearRedirectSize, TRUE, TRUE) ELSE NoPlan

-----------------------------------------------------------------------------
(* The trampolines of one hook, and what activation writes *)

\* Jumping to push_to_shadow_stack makes on_leave an address to return to.
X86ShadowStack(t) ==
  IF ~t.cet THEN <<>>
  ELSE <<Mark("after_push"), Lea(Xsp, Xsp, WordBytes(t)), Op1("jmp_reg", Xax),
         Mark("push_to_shadow_stack"), OpToMark("call_address", "after_push")>>
X86Pushing(thunk) == <<OpToMark("push_near", "context"), OpTo("jmp", thunk)>>
X86Resume(resume, ends) == IF ends THEN <<>> ELSE <<OpTo("jmp", resume)>>
X86Slice(t, c, plan, moved, thunks) ==
  (IF c.fast THEN IF plan.relay THEN <<OpN("nops", NoReg, NoReg, FullRedirectSize), FlushHere>> ELSE <<>>
   ELSE <<Mark("context"), OpN("bytes", NoReg, NoReg, WordBytes(t)), Mark("on_enter")>>
          \o X86Pushing(thunks.enter) \o X86ShadowStack(t)
          \o <<Mark("on_leave")>> \o X86Pushing(thunks.leave) \o <<FlushHere>>)
    \o <<Mark("on_invoke"), Copied(moved.copy, moved.leaves)>>
    \o X86Resume(moved.resume, moved.leaves # 0) \o <<FlushHere>>

\* The jump that the slice of a fast hook in reach begins with.
X86Relay(replacement) == <<OpTo("jmp", replacement), FlushHere>>

\* The redirect, and what fills the rest of the bytes moved away.
PaddingOf(n) == [Request("padding") EXCEPT !.n = n]
X86Redirect(target, overwritten) == <<OpTo("jmp", target), FlushHere, PaddingOf(overwritten), FlushHere>>

=============================================================================
