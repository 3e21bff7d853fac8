------------------------------- MODULE Hooking -------------------------------
(***************************************************************************)
(* One hook from its creation to its removal, and the calls that go        *)
(* through it: the code the backends put is run on the machine, and the    *)
(* parties it connects, the caller, the listeners, the replacement and the *)
(* original function, are told apart by what each leaves in the registers. *)
(*                                                                         *)
(* begin_invocation and end_invocation are those of the interceptor, cut   *)
(* down to what they do to the thunk's frame; module Invocation has the    *)
(* rest.  As any C function they may change what a callee may change.      *)
(***************************************************************************)
EXTENDS X86Backend, Arm64Backend, ArmBackend

CONSTANTS
  Archs,       \* the architectures
  Hooks(_),    \* the hooks asked for on each, see the backends
  ChangeSets   \* whether the listeners change the registers

VARIABLES
  arch,    \* the architecture
  choice,  \* the hook asked for
  phase,   \* none, prepared, refused, ready, created, active, inactive, destroyed
  hook,    \* how the function is redirected, and the code put for that
  m,       \* the machine
  due,     \* where control must come next
  left,    \* the registers, vectors and flags as the last party left them
  frames   \* the calls of the function in progress: its stack pointer, where it
           \* returns to, where its code is told to, and whether that is a trap

vars == <<arch, choice, phase, hook, m, due, left, frames>>

-----------------------------------------------------------------------------
(* Where things are *)

Function(t) == 2^20 + (IF t.unaligned THEN 2 ELSE 0)
Elsewhere == 2^20 + 2^14
Cave == 2^20 + 2^15
NearSlice == 2^20 + 2^16
FarSlice == 2^29
EnterThunkAt == 2^29 + 2^12
LeaveThunkAt == 2^29 + 2^13
LookupThunkAt == 2^29 + 2^14
\* The functions in C are odd in Thumb code, as the other two are there.
InC(t, i) == KeyOf(t, (IF t.faraway THEN 2^27 ELSE 2^29 + 2^16) + 64 * i)
Begin(t) == InC(t, 1)
End(t) == InC(t, 2)
Translate(t) == InC(t, 3)
Lookup(t) == InC(t, 4)
Replacement(t) == KeyOf(t, 2^29 + 2^17)
ReplacementReturn(t) == KeyOf(t, 2^29 + 2^17 + 64)
ReturnTo(t) == KeyOf(t, 2^20 + 2^12)
Context == 2^29 + 2^18
ShadowOffset == 64
Dispatcher == 2^29 + 2^19
StackTop == 3 * 2^28
StackBottom == StackTop - 2^16

-----------------------------------------------------------------------------
(* What there is of code *)

\* Code to be put at an address, with so much room there.
Part(at, room, requests) == [at |-> at, room |-> room, requests |-> requests]
\* What is put for some parts, with all of their marks.
Joined(placed, parts) ==
  [code |-> FoldSeq(LAMBDA p, all : p.code @@ all, <<>>, placed),
   marks |-> FoldSeq(LAMBDA p, all : p.marks @@ all, <<>>, placed),
   uses |-> {<<Used(placed[i]), parts[i].room>> : i \in DOMAIN parts}]
Assembled(t, parts) ==
  The({Joined(placed, parts) :
         placed \in {[i \in DOMAIN parts |-> Placed(t, parts[i].at, parts[i].requests)]}})

\* The thunks, and that of a deflector that functions share.
PageSize == 4096
Arm64ThunkSpace == 1024
ThunkParts(t, scratch) ==
  LET leave == <<Mark("leave_thunk")>>
  IN  CASE t.isa = "x86" ->
             <<Part(EnterThunkAt, SliceSize, X86EnterThunk(t, Begin(t), ShadowOffset)),
               Part(LeaveThunkAt, SliceSize, leave \o X86LeaveThunk(t, End(t)))>>
        [] t.isa = "arm64" ->
             <<Part(EnterThunkAt, Arm64ThunkSpace,
                    Arm64EnterThunk(t, X(scratch), Begin(t)) \o leave \o Arm64LeaveThunk(t, X(scratch), End(t))),
               Part(LookupThunkAt, PageSize, Arm64LookupThunk(Lookup(t), Dispatcher))>>
        [] OTHER ->
             <<Part(EnterThunkAt, SliceSize,
                    ArmEnterThunk(t, Begin(t)) \o leave \o ArmLeaveThunk(t, End(t)) \o <<FlushHere>>),
               Part(LookupThunkAt, PageSize, IF IsThumb(t) THEN ThumbLookupThunk(t, Lookup(t), Dispatcher) ELSE <<>>)>>

\* prepare_trampoline: refused, or how the function is to be redirected.
Planned(t, c) ==
  CASE t.isa = "x86" -> [deflect |-> FALSE, scratch |-> 16] @@ X86Plan(t, c)
    [] t.isa = "arm64" -> [relay |-> FALSE] @@ Arm64Plan(c)
    [] OTHER -> [near |-> FALSE, relay |-> FALSE, scratch |-> 16] @@ ArmPlan(t, c)
\* A deflector that functions share knows them by where they call from.
Shared(plan) == plan.deflect /\ plan.size # 4
Dedicated(plan) == plan.deflect /\ plan.size = 4
Overwritten == hook.plan.size + choice.beyond

\* The first instructions of the function, moved into the slice.
Moved ==
  [copy |-> Overwritten + choice.grown,
   leaves |-> IF choice.prologue \in {"leaves", "asks"} THEN KeyOf(arch, Elsewhere) ELSE 0,
   calls |-> IF choice.prologue = "calls" THEN KeyOf(arch, Elsewhere) ELSE 0,
   asks |-> choice.prologue = "asks", dst |-> choice.dst,
   resume |-> KeyOf(arch, Function(arch) + Overwritten)]

\* The trampolines and the deflector of one hook.
SliceAt == IF hook.plan.near THEN NearSlice ELSE FarSlice
\* What x86 has before the code of on_enter is the function's context.
OnEnter == Sign(arch, KeyOf(arch, IF arch.isa = "x86" THEN SliceAt + WordBytes(arch) ELSE SliceAt))
SliceRequests ==
  LET thunks == [enter |-> KeyOf(arch, EnterThunkAt), leave |-> hook.marks[<<"leave_thunk">>]]
  IN  CASE arch.isa = "x86" -> X86Slice(arch, choice, hook.plan, Moved, thunks)
        [] arch.isa = "arm64" -> Arm64Slice(arch, choice, hook.plan, Moved, thunks, Context, Translate(arch))
        [] OTHER -> ArmSlice(arch, choice, hook.plan, Moved, thunks, Context, Translate(arch))
CaveRequests ==
  CASE ~hook.plan.deflect -> <<>>
    [] hook.plan.deflect /\ arch.isa = "arm64" -> Arm64Cave(arch, Dedicated(hook.plan), OnEnter, LookupThunkAt)
    [] OTHER -> ArmCave(Dedicated(hook.plan), OnEnter, KeyOf(arch, LookupThunkAt))
CaveRoom == IF arch.isa = "arm64" THEN CaveSize ELSE ArmCaveSize
TrampolineParts == <<Part(SliceAt, SliceSize, SliceRequests), Part(Cave, CaveRoom, CaveRequests)>>

\* What activation writes.
RedirectRequests ==
  LET target == IF choice.fast THEN Sign(arch, Replacement(arch)) ELSE OnEnter
  IN  CASE arch.isa = "x86" -> X86Redirect(IF hook.plan.relay THEN SliceAt ELSE target, Overwritten)
        [] arch.isa = "arm64" -> Arm64Redirect(arch, hook.plan, target, Cave)
        [] OTHER -> ArmRedirect(hook.plan, target, KeyOf(arch, Cave))
RedirectParts ==
  <<Part(Function(arch), Overwritten, RedirectRequests),
    Part(SliceAt, FullRedirectSize, IF hook.plan.relay THEN X86Relay(Replacement(arch)) ELSE <<>>)>>

-----------------------------------------------------------------------------
(* Calls and returns *)

Left(machine) == [regs |-> machine.regs, vecs |-> machine.vecs, flags |-> machine.flags]
Vectors(t) == IF t.isa = "x86" THEN {0} ELSE 0..(t.vectors - 1)
\* The registers, vectors and flags as some party leaves them.
By(k, machine) ==
  [machine EXCEPT
     !.regs = [r \in DOMAIN @ |-> IF r = StackPointer(arch) THEN @[r] ELSE Is(k, r)],
     !.vecs = [v \in DOMAIN @ |-> Is(k, 100 + v)],
     !.flags = Is(k, 1)]
\* What is below the stack pointer is lost.
Kept(machine, sp) ==
  [machine EXCEPT !.mem = [a \in {b \in DOMAIN @ : b >= sp \/ b < StackBottom} |-> @[a]]]

Calling(machine, target, ret) ==
  IF arch.isa = "x86" THEN CalledFrom(arch, machine, ret, Num(target))
  ELSE To(Linked(arch, machine, ret), Num(target))
Returning(machine, to) == IF arch.isa = "x86" THEN Returned(arch, machine) ELSE To(machine, to)

\* A function in C: its arguments, and what is left when it returns.
CArgument(i) ==
  LET sysV == <<7, 6, 2, 1>>
      win64 == <<1, 2, 8, 9>>
  IN  CASE arch.isa = "x86" /\ arch.mode64 -> m.regs[IF arch.windows THEN win64[i] ELSE sysV[i]]
        [] arch.isa = "x86" /\ ~arch.mode64 -> WordAt(m, Sp(arch, m) + 4 * i)
        [] OTHER -> m.regs[i - 1]
\* The space above the return address that is the callee's.
HomeSpace ==
  IF arch.isa # "x86" \/ (arch.mode64 /\ ~arch.windows) THEN {}
  ELSE {Sp(arch, m) + WordBytes(arch) * i : i \in 1..4}
CReturn(machine, value) ==
  LET clobbered ==
        [machine EXCEPT
           !.regs = [r \in DOMAIN @ |-> IF r = 0 THEN Num(value)
                                        ELSE IF r \in CallerSaved(arch) THEN Junk ELSE @[r]],
           !.vecs = [v \in DOMAIN @ |-> Junk], !.flags = Junk,
           !.mem = [a \in DOMAIN @ \ HomeSpace |-> @[a]]]
  IN  Returning(Kept(clobbered, Sp(arch, m)), machine.regs[LinkOf(arch)])

WithWord(machine, at, value) == [machine EXCEPT !.mem = (at :> value) @@ @]
Frame == frames[Len(frames)]
BodyAt ==
  CASE Moved.calls # 0 -> Moved.calls
    [] Moved.calls = 0 /\ Moved.leaves # 0 -> Moved.leaves
    [] OTHER -> Moved.resume
\* The original is entered through on_invoke, and may ask for its caller first,
\* or call another function, which returns into it.
Invoked == IF Moved.asks THEN Translate(arch) ELSE BodyAt
IntoBody(as) ==
  IF Moved.calls = 0 THEN as ELSE [as EXCEPT !.regs[Link] = Num(Moved.resume)]
\* Whether control is in code of the hook.
Running == frames # <<>> /\ m.at \in DOMAIN hook.code
Arrived(at) == frames # <<>> /\ ~Running /\ m.at = at /\ due = at

\* What the context says of register r, and where.
ContextOffset(r) ==
  CASE arch.isa = "x86" -> X86ContextOffset(arch, r)
    [] arch.isa = "arm64" -> Arm64ContextOffset(r)
    [] OTHER -> ArmContextOffset(r)
FlagsOffset == IF arch.isa = "arm64" THEN Arm64FlagsOffset ELSE ArmFlagsOffset
VectorOffset(v) == IF arch.isa = "arm64" THEN Arm64VectorOffset(v) ELSE ArmVectorOffset(v)
StackAlignment == IF arch.isa \in {"arm", "thumb"} THEN 8 ELSE 16
\* The backends use these registers up, as a PLT would.
Temporaries == IF arch.isa = "arm64" THEN {17, hook.plan.scratch} ELSE {}
\* A listener changes all registers it may.
Changeable == Registers(arch) \ ({StackPointer(arch), LinkOf(arch)} \cup Temporaries)
ChangedContext(machine, at, regs) ==
  [machine EXCEPT !.mem = [a \in {at + ContextOffset(r) : r \in regs} |->
                             Is("listener", CHOOSE r \in regs : a = at + ContextOffset(r))] @@ @]
ChangedLeft(regs) == [left EXCEPT !.regs = [r \in DOMAIN @ |-> IF r \in regs THEN Is("listener", r) ELSE @[r]]]

-----------------------------------------------------------------------------
(* The life of the hook *)

Nothing ==
  [at |-> 0, regs |-> <<>>, vecs |-> <<>>, flags |-> Junk, mem |-> <<>>, shadow |-> <<>>, zero |-> FALSE]
Idle == m = Nothing /\ due = 0 /\ left = Left(Nothing) /\ frames = <<>>
Unplanned == [refused |-> TRUE, size |-> 0, near |-> FALSE, relay |-> FALSE, deflect |-> FALSE, scratch |-> 16]
NoHook == [plan |-> Unplanned, code |-> <<>>, marks |-> <<>>, uses |-> {}]
Init ==
  /\ arch \in Archs
  /\ choice = [fast |-> FALSE]
  /\ phase = "none"
  /\ hook = NoHook
  /\ Idle

\* The hook that is asked for, and what prepare_trampoline makes of it.
Prepare ==
  /\ phase = "none"
  /\ \E c \in Hooks(arch) :
       /\ choice' = c
       /\ hook' = [hook EXCEPT !.plan = Planned(arch, c)]
       /\ phase' = IF Planned(arch, c).refused THEN "refused" ELSE "prepared"
  /\ UNCHANGED <<arch, m, due, left, frames>>

\* The backend puts some code in its place.  The thunks are made when they are
\* first needed.
ToWrite ==
  CASE phase = "prepared" -> ThunkParts(arch, hook.plan.scratch)
    [] phase = "ready" -> TrampolineParts
    [] OTHER -> RedirectParts
Writes(made, before, after) ==
  /\ phase = before /\ phase' = after
  /\ hook' = [hook EXCEPT !.code = made.code @@ @, !.marks = made.marks @@ @, !.uses = @ \cup made.uses]
CreateThunks(made) == Writes(made, "prepared", "ready")
CreateTrampoline(made) == Writes(made, "ready", "created")
Activate(made) == Writes(made, "created", "active")
BackendWrites ==
  /\ phase \in {"prepared", "ready", "created"}
  /\ \E parts \in {ToWrite} : \E made \in {Assembled(arch, parts)} :
       CreateThunks(made) \/ CreateTrampoline(made) \/ Activate(made)
  /\ UNCHANGED <<arch, choice, m, due, left, frames>>

\* No thread is in the bytes that deactivation restores.  The interceptor keeps
\* the trampolines while an invocation uses them.
Deactivate ==
  /\ phase = "active" /\ ~Running
  /\ phase' = "inactive"
  /\ hook' = [hook EXCEPT !.code = [a \in DOMAIN @ \ (Function(arch)..(Function(arch) + Overwritten)) |-> @[a]]]
  /\ UNCHANGED <<arch, choice, m, due, left, frames>>

Destroy ==
  /\ phase = "inactive" /\ frames = <<>>
  /\ phase' = "destroyed"
  /\ hook' = NoHook
  /\ UNCHANGED <<arch, choice, m, due, left, frames>>

-----------------------------------------------------------------------------
(* Calls of the function *)

\* Control goes on from `machine`, due at `at` as `as` says.
Leaves(machine, at, as) ==
  /\ m' = machine /\ due' = at /\ left' = as
  /\ UNCHANGED <<arch, choice, phase, hook>>

\* The code of the hook runs until control leaves it.
CodeRuns ==
  /\ Running
  /\ m' = Run(arch, hook.code, m)
  /\ UNCHANGED <<arch, choice, phase, hook, due, left, frames>>

\* A call of the function: the caller's registers, and two words of its stack.
FirstStop ==
  CASE choice.fast -> Replacement(arch)
    [] ~choice.fast /\ Shared(hook.plan) -> Lookup(arch)
    [] OTHER -> Begin(arch)
CallersWords(sp) == {sp, sp + WordBytes(arch)}
CallerAt(sp) ==
  [at |-> 0, regs |-> [r \in Registers(arch) |-> IF r = StackPointer(arch) THEN Num(sp) ELSE Is("caller", r)],
   vecs |-> [v \in Vectors(arch) |-> Is("caller", 100 + v)], flags |-> Is("caller", 1),
   mem |-> [a \in CallersWords(sp) |-> Is("stack", a)]
             @@ (IF arch.isa # "x86" \/ choice.fast THEN <<>> ELSE hook.marks[<<"context">>] :> Num(Context))
             @@ (IF arch.cet /\ ~choice.fast
                 THEN Context + ShadowOffset :> Num(hook.marks[<<"push_to_shadow_stack">>]) ELSE <<>>),
   shadow |-> <<>>, zero |-> FALSE]
FrameAt(sp, ret) == [sp |-> sp, ret |-> ret, link |-> ret, trapped |-> FALSE]
Call ==
  /\ phase = "active" /\ frames = <<>>
  /\ \E skew \in IF arch.isa = "x86" THEN {0, WordBytes(arch)} ELSE {0} :
       LET called == Calling(CallerAt(StackTop - skew), KeyOf(arch, Function(arch)), ReturnTo(arch))
       IN  /\ frames' = <<FrameAt(Sp(arch, called), ReturnTo(arch))>>
           /\ Leaves(called, FirstStop, Left(called))

\* The dispatcher of a shared deflector finds the function by the address it
\* called from.  What it changes and its thunk does not save is lost.
LookupReturns ==
  LET from == KeyOf(arch, Function(arch) + hook.plan.size)
      saved == IF arch.isa = "arm64" THEN 0..7 ELSE {}
  IN  /\ Arrived(Lookup(arch))
      /\ \E after \in {CReturn(m, IF CArgument(1) = Num(Dispatcher) /\ CArgument(2) = Num(from)
                                  THEN OnEnter ELSE 0)} :
           Leaves(after, Begin(arch),
                  [left EXCEPT !.flags = Junk,
                               !.vecs = [v \in DOMAIN @ |-> IF v \in saved THEN @[v] ELSE Junk]])
      /\ UNCHANGED frames

-----------------------------------------------------------------------------
(* begin_invocation and end_invocation *)

\* Whether the function is replaced, and whether its return is trapped.  A
\* call from the replacement is neither, and no listener is told of it.
BeginReturns ==
  \E way \in IF Len(frames) > 1 THEN {[replaced |-> FALSE, trapped |-> FALSE]}
             ELSE {w \in [replaced : BOOLEAN, trapped : BOOLEAN] : w.replaced => w.trapped},
     changing \in ChangeSets :
    LET onLeave == hook.marks[<<"on_leave">>]
        regs == IF changing /\ Len(frames) = 1 THEN Changeable ELSE {}
        target == IF way.replaced THEN Replacement(arch) ELSE hook.marks[<<"on_invoke">>]
        trap == IF way.trapped THEN WithWord(m, CArgument(3).n, Num(onLeave)) ELSE m
        told == WithWord(ChangedContext(trap, CArgument(2).n, regs), CArgument(4).n, Num(Sign(arch, target)))
        linked == IF way.trapped /\ arch.isa # "x86"
                  THEN [ChangedLeft(regs) EXCEPT !.regs[LinkOf(arch)] = Num(onLeave)] ELSE ChangedLeft(regs)
    IN  /\ Arrived(Begin(arch))
        /\ \A i \in 2..4 : CArgument(i).k = "num"
        /\ frames' = [frames EXCEPT ![Len(frames)].trapped = way.trapped,
                                    ![Len(frames)].link = IF way.trapped THEN onLeave ELSE @]
        /\ \E after \in {CReturn(told, IF way.trapped THEN 1 ELSE 0)} :
             IF way.replaced THEN Leaves(after, Replacement(arch), linked)
             ELSE Leaves(after, Invoked, IntoBody(linked))

\* translate_top_return_address: what the trap of the outermost call hides
TranslateReturns ==
  LET asked == CArgument(1)
      trapped == Len(frames) = 1 /\ Frame.trapped /\ asked = Num(Frame.link)
  IN  /\ Arrived(Translate(arch))
      /\ \E after \in {CReturn(m, IF trapped THEN Frame.ret ELSE asked.n)} :
           Leaves(after, BodyAt,
                  [left EXCEPT !.regs[Moved.dst] = Num(Frame.ret), !.vecs = [v \in DOMAIN @ |-> Junk]])
      /\ UNCHANGED frames

EndReturns ==
  \E changing \in ChangeSets :
    LET hop == CArgument(3)
        regs == IF changing THEN Changeable ELSE {}
    IN  /\ Arrived(End(arch))
        /\ CArgument(2).k = "num" /\ hop.k = "num"
        /\ \E after \in {CReturn(WithWord(ChangedContext(m, CArgument(2).n, regs), hop.n,
                                          Num(Sign(arch, Frame.ret))), 0)} :
             Leaves(after, Frame.ret, ChangedLeft(regs))
        /\ UNCHANGED frames

-----------------------------------------------------------------------------
(* The other parties *)

\* A function returns with its stack as it found it, to where its link says.
Finishes(frame, k) ==
  LET restored == By(k, WithSp(arch, Kept(m, frame.sp), frame.sp))
      returned == Returning(restored, Num(frame.link))
  IN  Leaves(returned, IF frame.trapped THEN End(arch) ELSE frame.ret, Left(returned))

\* The original, however it was reached.
BodyReturns ==
  /\ phase \in {"active", "inactive"}
  /\ Arrived(BodyAt)
  /\ Finishes(Frame, "body")
  /\ UNCHANGED frames

\* The replacement calls the original: by its name, or by the address that
\* replace gave it.
Calls(entry, firstStop) ==
  LET sp == Sp(arch, m) - 16 * WordBytes(arch)
      called == Calling(By("replacement", WithSp(arch, m, sp)), entry, ReplacementReturn(arch))
      as == Left(called)
  IN  /\ frames' = Append(frames, FrameAt(Sp(arch, called), ReplacementReturn(arch)))
      /\ Leaves(called, firstStop, IF firstStop = BodyAt THEN IntoBody(as) ELSE as)
ReplacementCallsFunction ==
  /\ Arrived(Replacement(arch)) /\ Len(frames) = 1 /\ phase = "active" /\ ~choice.fast
  /\ Calls(KeyOf(arch, Function(arch)), FirstStop)
ReplacementCallsOriginal ==
  /\ Arrived(Replacement(arch)) /\ Len(frames) = 1 /\ phase \in {"active", "inactive"}
  /\ Calls(hook.marks[<<"on_invoke">>], Invoked)

ReplacementReturns ==
  /\ Arrived(Replacement(arch)) /\ Len(frames) = 1
  /\ Finishes(Frame, "replacement")
  /\ UNCHANGED frames

\* The original's return to the replacement, which returns in its turn; and
\* the return to the caller.
OriginalReturned ==
  /\ Arrived(ReplacementReturn(arch))
  /\ frames' = Front(frames)
  /\ Finishes(frames[1], "replacement")
CallEnds ==
  /\ Arrived(ReturnTo(arch))
  /\ frames' = <<>>
  /\ Leaves(Nothing, 0, Left(Nothing))

Next ==
  \/ Prepare \/ BackendWrites \/ Deactivate \/ Destroy \/ CodeRuns
  \/ Call \/ LookupReturns \/ BeginReturns \/ TranslateReturns \/ EndReturns
  \/ BodyReturns \/ ReplacementCallsFunction \/ ReplacementCallsOriginal \/ ReplacementReturns
  \/ OriginalReturned \/ CallEnds

Spec == Init /\ [][Next]_vars

-----------------------------------------------------------------------------
(* Properties *)

\* Control comes where it is due: to the listeners, the replacement, the moved
\* first instructions and back to the caller, on every architecture and with
\* every kind of redirect, thunk and deflector, and, where the processor checks
\* returns or pointers, without a fault.  Nobody returns into a trampoline that
\* is not there, and nobody skips the on_leave that begin_invocation asked for.
ControlArrives == frames # <<>> /\ ~Running => m.at = due

\* The code between two parties keeps their registers, vectors, flags and
\* stack: a function, its replacement and its caller find all of them as the
\* last party left them, or as a listener asked, but for the temporaries that
\* a linker's stub may use.
AtParty == frames # <<>> /\ ~Running /\ m.at = due /\ due \notin {Begin(arch), End(arch), Lookup(arch), Translate(arch)}
RegistersAreAsLeft ==
  AtParty =>
    /\ \A r \in Registers(arch) \ Temporaries : m.regs[r] = left.regs[r]
    /\ m.vecs = left.vecs
    /\ m.flags = left.flags
    /\ \A a \in CallersWords(frames[1].sp + (IF arch.isa = "x86" THEN WordBytes(arch) ELSE 0)) : WordAt(m, a) = Is("stack", a)

\* What the listeners are shown is what the party that called or returned left:
\* its registers, stack pointer, vectors and flags, each where the context of
\* that processor has it, with the place of the return address on the way in;
\* and they run on a stack aligned as the calling convention wants it, with
\* the direction flag clear.
ContextIsCallers ==
  (Arrived(Begin(arch)) \/ Arrived(End(arch))) =>
    LET entering == due = Begin(arch)
        at == CArgument(2).n
        sp == left.regs[StackPointer(arch)].n - (IF arch.isa = "x86" /\ ~entering THEN WordBytes(arch) ELSE 0)
    IN  /\ CArgument(1) = Num(Context)
        /\ CArgument(2).k = "num"
        /\ \A r \in Registers(arch) \ (Temporaries \cup {StackPointer(arch)}) :
             WordAt(m, at + ContextOffset(r)) = left.regs[r]
        /\ WordAt(m, at + ContextOffset(StackPointer(arch))) = Num(sp)
        /\ entering => WordAt(m, CArgument(3).n) = Num(Frame.ret)
        /\ arch.isa # "x86" =>
             /\ WordAt(m, at + FlagsOffset) = left.flags
             /\ \A v \in Vectors(arch) : Loaded(arch, m, at + VectorOffset(v), 16) = left.vecs[v]
        /\ arch.isa = "x86" => m.flags.n = 0
        /\ (Sp(arch, m) + (IF arch.isa = "x86" THEN WordBytes(arch) ELSE 0)) % StackAlignment = 0

\* What is written fits: the thunks and trampolines in their slice, the
\* redirect in the bytes of the function that were moved away, the deflector
\* in its cave.
CodeFits == \A use \in hook.uses : use[1] <= use[2]

=============================================================================
