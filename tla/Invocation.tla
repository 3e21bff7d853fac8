------------------------------- MODULE Invocation -------------------------------
(***************************************************************************)
(* The invocation stack of a thread (src/src/core/hooxinterceptor.c) beside*)
(* the native stack of calls it is to mirror: recursion, tail calls, frames*)
(* left by longjmp or an exception, ignored threads, the guard slot against*)
(* re-entrancy, and the data a listener keeps per thread.                  *)
(*                                                                         *)
(* The hooks are installed and only detach removes some.  begin_invocation *)
(* runs in one step up to the callbacks, and end_invocation likewise: what *)
(* other threads can do in between is the subject of module Interceptor.   *)
(* The stack grows down; sp counts downwards from the thread's base, so a  *)
(* deeper frame has the larger sp.                                         *)
(***************************************************************************)
EXTENDS Integers, Sequences, FiniteSets

CONSTANTS
  Threads,
  Callers,          \* the threads that call functions ...
  Selectors,        \* ... and those that have the others ignored
  Functions,
  Listeners,
  Keepers,          \* the listeners that keep data per thread
  Attached,         \* the listeners of each function at first
  Replaced,         \* the functions with a replacement
  LeaveListeners,   \* the listeners with an on_leave; all have an on_enter
  Unignorable,      \* those attached as HOOX_INVOCATION_UNIGNORABLE
  None,
  MaxSp,            \* bound: size of a native stack
  MaxEntries,       \* bound: entries of an invocation stack
  MaxIgnore         \* bound: ignore level

ASSUME ConstantsAssumption ==
  /\ IsFiniteSet(Functions)
  /\ Callers \subseteq Threads /\ Selectors \subseteq Threads
  /\ Keepers \subseteq Listeners
  /\ Attached \in [Functions -> SUBSET Listeners]
  /\ Replaced \subseteq Functions
  /\ LeaveListeners \subseteq Listeners /\ Unignorable \subseteq Listeners
  /\ None \notin Threads \cup Listeners
  /\ MaxSp \in Nat /\ MaxEntries \in Nat /\ MaxIgnore \in Nat

VARIABLES
  restoring, \* non-local exits are bracketed by save and restore
  attached,  \* the live listeners of each function
  counter,   \* trampoline_usage_counter of each function's context
  selected,  \* selected_thread_id
  frames,    \* the native stack of each thread
  stack,     \* its HooxInvocationStack
  guard,     \* the threads whose guard slot holds the interceptor
  ignore,    \* ignore_level of each thread
  slots      \* listener_data_slots of each thread

vars == <<restoring, attached, counter, selected, frames, stack, guard, ignore, slots>>
settings == <<restoring, attached, selected, ignore, slots>>

\* A native frame.  ret: the functions whose on-leave trampoline the frame is
\* still to return through, the next one last.  running: the listener whose
\* callback is in progress, todo those to be told next.  original: it runs the
\* original of a replaced function, because a replacement seems to call it.
\* saved: the depth the last save in this frame recorded.
NativeFrame ==
  [fn : Functions, sp : Nat, at : {"enter", "body", "repl", "leave", "returning", "astray"},
   ret : Seq(Functions), running : Listeners \cup {None}, todo : SUBSET Listeners,
   original : BOOLEAN, saved : Nat \cup {None}]

\* A HooxInvocationStackEntry.  quiet (the thread was not to be observed),
\* entered (the listeners told of the entry) and live (no longjmp went past its
\* frame) are history.
StackEntry ==
  [fn : Functions, sp : Nat, only : BOOLEAN, replacing : BOOLEAN, trap : BOOLEAN,
   snap : SUBSET Listeners, quiet : BOOLEAN, entered : SUBSET Listeners,
   live : BOOLEAN]

Slot == [owner : Listeners \cup {None}, data : Listeners \cup {None}]

-----------------------------------------------------------------------------
Top(t) == frames[t][Len(frames[t])]
SetTop(t, fr) == frames' = [frames EXCEPT ![t][Len(frames[t])] = fr]
TopEntry(t) == stack[t][Len(stack[t])]

Hooked(f) == attached[f] # {} \/ f \in Replaced

PlainFrame(f, sp) ==
  [fn |-> f, sp |-> sp, at |-> "body", ret |-> <<>>, running |-> None,
   todo |-> {}, original |-> FALSE, saved |-> None]

\* The thread runs code of the program: a function, or a callback.
UserCode(t) ==
  frames[t] # <<>> => Top(t).at \in {"body", "repl"} \/ Top(t).running # None

LastOf(S) == IF S = {} THEN 0 ELSE CHOOSE i \in S : \A j \in S : j <= i

UnwoundUpTo(entry, sp) == entry.sp >= sp
Unwound(entry, sp) == entry.sp > sp

\* How many entries reap_unwound and reap_unwound_above leave.
KeptOnEnter(stk, sp) == LastOf({i \in DOMAIN stk : ~Unwound(stk[i], sp)})
KeptOnLeave(stk, f) == LastOf({i \in DOMAIN stk : stk[i].fn = f})

Kept(stk, n) == SubSeq(stk, 1, n)

\* The usage counters once the entries of stk above the n-th are released.
NotReleased(stk, n) == counter
Released(stk, n) ==
  [f \in Functions |->
     counter[f] - Cardinality({i \in (n + 1) .. Len(stk) : stk[i].fn = f})]

-----------------------------------------------------------------------------
(* Entering a function *)

\* A call pushes a frame, and one in tail position takes the place of its
\* caller's: it will return as the caller would have.
Deepest(t) == IF frames[t] = <<>> THEN 0 ELSE Top(t).sp

Enters(t, fr, tail) ==
  frames' = [frames EXCEPT ![t] =
    IF tail THEN [@ EXCEPT ![Len(@)] = [fr EXCEPT !.ret = Top(t).ret]]
    ELSE Append(@, fr)]

CanCall(t, sp, tail) ==
  /\ UserCode(t)
  /\ sp \in 1 .. MaxSp
  /\ IF tail THEN frames[t] # <<>> /\ Top(t).running = None /\ sp = Top(t).sp
     ELSE sp > Deepest(t)

CallPlain(t, f, sp, tail) ==
  /\ CanCall(t, sp, tail)
  /\ ~Hooked(f)
  /\ Enters(t, PlainFrame(f, sp), tail)
  /\ UNCHANGED <<counter, stack, guard, settings>>

\* The top entry says that the replacement of f is being called.
CallsAnyReplacement(t, f) == stack[t] # <<>> /\ TopEntry(t).replacing
CallsReplacement(t, f) ==
  stack[t] # <<>> /\ TopEntry(t).replacing /\ TopEntry(t).fn = f

GuardClearedOnBypass(t) == guard \ {t}
GuardOnBypass(t) == guard

\* begin_invocation goes straight on to the original.
CallBypassed(t, f, sp, tail) ==
  /\ CanCall(t, sp, tail)
  /\ Hooked(f)
  /\ t \in guard \/ CallsReplacement(t, f)
  /\ Enters(t, [PlainFrame(f, sp) EXCEPT !.original = t \notin guard], tail)
  /\ guard' = GuardOnBypass(t)
  /\ UNCHANGED <<counter, stack, settings>>

\* Whom begin_invocation decides to tell of the entry.
Quiet(t) == selected \notin {None, t} \/ ignore[t] > 0
OnlyUnignorableNever(t, f) == FALSE
OnlyUnignorable(t, f) == Quiet(t) /\ attached[f] \cap Unignorable # {}
Invokes(t, f) == ~Quiet(t) \/ OnlyUnignorable(t, f)
Traps(t, f) ==
  f \in Replaced \/ (Invokes(t, f) /\ attached[f] \cap LeaveListeners # {})

Due(entry) == IF entry.only THEN entry.snap \cap Unignorable ELSE entry.snap

NewEntry(t, f, sp) ==
  [fn |-> f, sp |-> sp, only |-> OnlyUnignorable(t, f), replacing |-> FALSE,
   trap |-> Traps(t, f), snap |-> attached[f], quiet |-> Quiet(t),
   entered |-> {}, live |-> TRUE]

CallIntercepted(t, f, sp, tail) ==
  LET kept == KeptOnEnter(stack[t], sp)
      below == Kept(stack[t], kept)
      entry == NewEntry(t, f, sp)
      pushed == Traps(t, f) \/ Invokes(t, f) IN
  /\ CanCall(t, sp, tail)
  /\ Hooked(f) /\ t \notin guard /\ ~CallsReplacement(t, f)
  /\ pushed => kept < MaxEntries
  /\ stack' = [stack EXCEPT ![t] = IF pushed THEN Append(below, entry) ELSE below]
  /\ counter' = IF pushed THEN [Released(stack[t], kept) EXCEPT ![f] = @ + 1]
                ELSE Released(stack[t], kept)
  /\ guard' = IF pushed THEN guard \cup {t} ELSE guard
  /\ Enters(t, IF pushed
                 THEN [PlainFrame(f, sp) EXCEPT
                         !.at = "enter",
                         !.todo = IF Invokes(t, f) THEN Due(entry) ELSE {}]
                 ELSE PlainFrame(f, sp), tail)
  /\ UNCHANGED settings

\* A callback starts, and returns.
TellListener(t) ==
  /\ frames[t] # <<>> /\ Top(t).at \in {"enter", "leave"} /\ Top(t).running = None
  /\ \E l \in Top(t).todo :
       /\ SetTop(t, [Top(t) EXCEPT !.running = l, !.todo = @ \ {l}])
       /\ stack' = IF Top(t).at = "leave" THEN stack
                   ELSE [stack EXCEPT ![t][Len(stack[t])].entered = @ \cup {l}]
  /\ UNCHANGED <<counter, guard, settings>>

ListenerReturns(t) ==
  /\ frames[t] # <<>> /\ Top(t).running # None
  /\ SetTop(t, [Top(t) EXCEPT !.running = None, !.saved = None])
  /\ UNCHANGED <<counter, stack, guard, settings>>

\* The listeners are told: the return address is replaced, or the entry has
\* served its purpose.
EnterDone(t) ==
  LET fr == Top(t)
      n == Len(stack[t])
      trap == TopEntry(t).trap IN
  /\ frames[t] # <<>> /\ fr.at = "enter" /\ fr.running = None /\ fr.todo = {}
  /\ stack' = [stack EXCEPT ![t] =
       IF trap THEN [@ EXCEPT ![n].replacing = fr.fn \in Replaced]
       ELSE Kept(@, n - 1)]
  /\ counter' = IF trap THEN counter ELSE Released(stack[t], n - 1)
  /\ guard' = guard \ {t}
  /\ SetTop(t, [fr EXCEPT !.at = IF fr.fn \in Replaced THEN "repl" ELSE "body",
                          !.ret = IF trap THEN Append(@, fr.fn) ELSE @])
  /\ UNCHANGED settings

-----------------------------------------------------------------------------
(* Leaving a function *)

Return(t) ==
  /\ frames[t] # <<>> /\ Top(t).at \in {"body", "returning"} /\ Top(t).ret = <<>>
  /\ frames' = [frames EXCEPT ![t] = SubSeq(@, 1, Len(@) - 1)]
  /\ UNCHANGED <<counter, stack, guard, settings>>

LeaveTodoOfAll(entry) == entry.snap \cap LeaveListeners
LeaveTodo(entry) == Due(entry) \cap LeaveListeners

\* The on-leave trampoline of f: end_invocation takes the top entry for that of
\* the frame that returns.  If it is not, the thread would return elsewhere.
EndInvocation(t) ==
  LET fr == Top(t)
      f == fr.ret[Len(fr.ret)]
      kept == KeptOnLeave(stack[t], f)
      left == Kept(stack[t], kept)
      own == kept # 0 /\ left[kept].live /\ left[kept].sp = fr.sp IN
  /\ frames[t] # <<>> /\ fr.at \in {"body", "repl", "returning"} /\ fr.ret # <<>>
  /\ stack' = [stack EXCEPT ![t] = left]
  /\ counter' = Released(stack[t], kept)
  /\ guard' = guard \cup {t}
  /\ SetTop(t, IF own
       THEN [fr EXCEPT !.at = "leave", !.todo = LeaveTodo(left[kept]),
                       !.ret = SubSeq(@, 1, Len(@) - 1), !.original = FALSE,
                       !.saved = None]
       ELSE [fr EXCEPT !.at = "astray", !.saved = None])
  /\ UNCHANGED settings

\* The entry is popped, and the frame returns to its caller or to the on-leave
\* trampoline of a function that left it in tail position.
LeaveDone(t) ==
  LET n == Len(stack[t]) IN
  /\ frames[t] # <<>>
  /\ Top(t).at = "leave" /\ Top(t).running = None /\ Top(t).todo = {}
  /\ stack' = [stack EXCEPT ![t] = Kept(@, n - 1)]
  /\ counter' = Released(stack[t], n - 1)
  /\ guard' = guard \ {t}
  /\ SetTop(t, [Top(t) EXCEPT !.at = "returning"])
  /\ UNCHANGED settings

Save(t) ==
  /\ frames[t] # <<>> /\ UserCode(t) /\ Top(t).saved # Len(stack[t])
  /\ SetTop(t, [Top(t) EXCEPT !.saved = Len(stack[t])])
  /\ UNCHANGED <<counter, stack, guard, settings>>

NeverRestored(stk, n) == Len(stk)
Restored(stk, n) == IF restoring THEN n ELSE Len(stk)

\* A longjmp, or an exception, to a frame that has not returned; the guard slot
\* stays as it is, and without restore so does the invocation stack.
Unwind(t, k) ==
  LET target == frames[t][k]
      kept == Restored(stack[t], target.saved)
      marked == [i \in DOMAIN stack[t] |->
                   [stack[t][i] EXCEPT !.live = @ /\ stack[t][i].sp <= target.sp]] IN
  /\ UserCode(t)
  /\ k < Len(frames[t]) /\ target.saved # None
  /\ frames' = [frames EXCEPT ![t] = SubSeq(@, 1, k)]
  /\ stack' = [stack EXCEPT ![t] = Kept(marked, kept)]
  /\ counter' = Released(stack[t], kept)
  /\ UNCHANGED <<guard, settings>>

\* The thread ends: its context is destroyed, and a new thread starts afresh.
ExitThread(t) ==
  /\ UserCode(t) /\ frames[t] # <<>>
  /\ frames' = [frames EXCEPT ![t] = <<>>]
  /\ stack' = [stack EXCEPT ![t] = <<>>]
  /\ counter' = Released(stack[t], 0)
  /\ guard' = guard \ {t}
  /\ ignore' = [ignore EXCEPT ![t] = 0]
  /\ slots' = [slots EXCEPT ![t] = <<>>]
  /\ UNCHANGED <<restoring, attached, selected>>

-----------------------------------------------------------------------------
(* What a thread asks of the interceptor *)

Ignore(t) ==
  /\ UserCode(t) /\ ignore[t] < MaxIgnore
  /\ ignore' = [ignore EXCEPT ![t] = @ + 1]
  /\ UNCHANGED <<restoring, attached, counter, selected, frames, stack, guard, slots>>

UnignoreUnchecked(t) ==
  /\ UserCode(t)
  /\ ignore' = [ignore EXCEPT ![t] = @ - 1]
  /\ UNCHANGED <<restoring, attached, counter, selected, frames, stack, guard, slots>>

\* unignore, which balances an ignore, and maybe_unignore.
Unignore(t) ==
  /\ UserCode(t) /\ ignore[t] > 0
  /\ ignore' = [ignore EXCEPT ![t] = @ - 1]
  /\ UNCHANGED <<restoring, attached, counter, selected, frames, stack, guard, slots>>

IgnoreOthers(t) ==
  /\ UserCode(t) /\ selected # t
  /\ selected' = t
  /\ UNCHANGED <<restoring, attached, counter, frames, stack, guard, ignore, slots>>

UnignoreOthers(t) ==
  /\ UserCode(t) /\ selected = t
  /\ selected' = None
  /\ UNCHANGED <<restoring, attached, counter, frames, stack, guard, ignore, slots>>

TakenAsItIs(slot, l) == [slot EXCEPT !.owner = l]
Taken(slot, l) == [owner |-> l, data |-> None]

\* A callback asks for its data of this thread: its slot, else the last free
\* slot, cleared, else a new one.
TakeData(t) ==
  LET l == Top(t).running
      free == LastOf({i \in DOMAIN slots[t] : slots[t][i].owner = None}) IN
  /\ frames[t] # <<>> /\ l \in Keepers
  /\ \A i \in DOMAIN slots[t] : slots[t][i].owner # l
  /\ slots' = [slots EXCEPT ![t] =
       IF free = 0 THEN Append(@, [owner |-> l, data |-> None])
       ELSE [@ EXCEPT ![free] = Taken(@, l)]]
  /\ UNCHANGED <<restoring, attached, counter, selected, frames, stack, guard, ignore>>

\* ... and stores something in it.
WriteData(t) ==
  /\ frames[t] # <<>> /\ Top(t).running # None
  /\ \E i \in DOMAIN slots[t] :
       /\ slots[t][i].owner = Top(t).running
       /\ slots' = [slots EXCEPT ![t][i].data = Top(t).running]
  /\ UNCHANGED <<restoring, attached, counter, selected, frames, stack, guard, ignore>>

\* detach, called by some other thread: every thread forgets the data of l.
Detach(l) ==
  /\ \E f \in Functions : l \in attached[f]
  /\ attached' = [f \in Functions |-> attached[f] \ {l}]
  /\ slots' = [t \in Threads |-> [i \in DOMAIN slots[t] |->
       IF slots[t][i].owner = l THEN [slots[t][i] EXCEPT !.owner = None]
       ELSE slots[t][i]]]
  /\ UNCHANGED <<restoring, counter, selected, frames, stack, guard, ignore>>

-----------------------------------------------------------------------------
Init ==
  /\ restoring \in BOOLEAN
  /\ attached = Attached
  /\ counter = [f \in Functions |-> 0]
  /\ selected = None
  /\ frames = [t \in Threads |-> <<>>]
  /\ stack = [t \in Threads |-> <<>>]
  /\ guard = {}
  /\ ignore = [t \in Threads |-> 0]
  /\ slots = [t \in Threads |-> <<>>]

Calls(t) ==
  \E f \in Functions, sp \in 1 .. MaxSp, tail \in BOOLEAN :
    CallPlain(t, f, sp, tail) \/ CallBypassed(t, f, sp, tail)
      \/ CallIntercepted(t, f, sp, tail)

Next ==
  \/ \E t \in Callers :
       \/ Calls(t)
       \/ TellListener(t) \/ ListenerReturns(t) \/ EnterDone(t)
       \/ Return(t) \/ EndInvocation(t) \/ LeaveDone(t)
       \/ Save(t) \/ (\E k \in DOMAIN frames[t] : Unwind(t, k)) \/ ExitThread(t)
       \/ Ignore(t) \/ Unignore(t)
       \/ TakeData(t) \/ WriteData(t)
  \/ \E t \in Selectors : IgnoreOthers(t) \/ UnignoreOthers(t)
  \/ \E l \in Listeners : Detach(l)

Spec == Init /\ [][Next]_vars

-----------------------------------------------------------------------------
(* Properties *)

TypeOK ==
  /\ restoring \in BOOLEAN
  /\ attached \in [Functions -> SUBSET Listeners]
  /\ counter \in [Functions -> Int]
  /\ selected \in Threads \cup {None}
  /\ frames \in [Threads -> Seq(NativeFrame)]
  /\ stack \in [Threads -> Seq(StackEntry)]
  /\ guard \subseteq Threads
  /\ ignore \in [Threads -> Nat]
  /\ slots \in [Threads -> Seq(Slot)]

\* Every usage counter is the number of stack entries for its function: reaping,
\* restoring and the end of a thread release each entry they drop once.
EntriesOf(f) ==
  {e \in UNION {{t} \X DOMAIN stack[t] : t \in Threads} : stack[e[1]][e[2]].fn = f}
CountersCountEntries == \A f \in Functions : counter[f] = Cardinality(EntriesOf(f))

\* Reaping goes by stack address and by function, and never takes the entry of
\* a frame that is still there, tail calls and frames of any size included.
LiveFramesKeepEntries ==
  \A t \in Threads : \A k \in DOMAIN frames[t] :
    LET fr == frames[t][k]
        own == {i \in DOMAIN stack[t] : stack[t][i].sp = fr.sp /\ stack[t][i].live} IN
    fr.at # "astray" =>
      Cardinality(own) = Len(fr.ret) + (IF fr.at \in {"enter", "leave"} THEN 1 ELSE 0)

\* A callback is never entered on a thread that is inside another one, although
\* callbacks may call hooked functions and jump out of those.
InCallback(fr) == fr.at \in {"enter", "leave"}
CallbacksDoNotNest ==
  \A t \in Threads : Cardinality({k \in DOMAIN frames[t] : InCallback(frames[t][k])}) <= 1

\* A thread that was to be ignored when it entered a function tells the
\* unignorable listeners of the entry only, any other thread all of them.
EnteredAsDue ==
  \A t \in Threads : \A i \in DOMAIN stack[t] :
    LET e == stack[t][i] IN
    /\ e.entered \subseteq (IF e.quiet THEN e.snap \cap Unignorable ELSE e.snap)
    /\ e.live /\ (i < Len(stack[t]) \/ ~\E k \in DOMAIN frames[t] : frames[t][k].at = "enter") =>
         e.entered = IF e.quiet THEN e.snap \cap Unignorable ELSE e.snap

\* Listeners told of a return were told of the entry, whatever was attached,
\* ignored or selected meanwhile; entries made for a replacement on an ignored
\* thread excepted.
Leaving(t) == frames[t] # <<>> /\ Top(t).at = "leave"
LeftWereEntered ==
  \A t \in Threads : Leaving(t) =>
    \/ Top(t).todo \subseteq TopEntry(t).entered
    \/ TopEntry(t).quiet /\ ~TopEntry(t).only

\* A thread that has restored the invocation stack at every non-local exit
\* returns from every function to where it was called from, and no entry
\* outlives its frame.
ReturnsToCaller ==
  restoring => \A t \in Threads : \A k \in DOMAIN frames[t] : frames[t][k].at # "astray"
NoStaleEntries ==
  restoring => \A t \in Threads : \A i \in DOMAIN stack[t] : stack[t][i].live

\* On such a thread the hook of a replaced function is bypassed only while its
\* replacement runs.
BypassIsReplacements ==
  restoring => \A t \in Threads : \A k \in DOMAIN frames[t] :
    frames[t][k].original =>
      \E j \in 1 .. k : \E i \in DOMAIN frames[t][j].ret :
        frames[t][j].ret[i] = frames[t][k].fn /\ frames[t][k].fn \in Replaced

\* The data a listener is given is what it stored there itself, or zero, and it
\* has one slot at most in each thread.
ThreadDataIsPrivate ==
  \A t \in Threads : \A i \in DOMAIN slots[t] :
    LET s == slots[t][i] IN
    s.owner # None =>
      /\ s.data \in {None, s.owner}
      /\ \A j \in DOMAIN slots[t] : slots[t][j].owner = s.owner => j = i

-----------------------------------------------------------------------------
(* What the documentation says and the code does not do *)

\* The guard slot is set only inside a callback.
GuardMeansCallback ==
  \A t \in guard : \E k \in DOMAIN frames[t] : InCallback(frames[t][k])

\* No listener but an unignorable one is told anything on an ignored thread.
IgnoredAreNotTold ==
  \A t \in Threads : Leaving(t) /\ TopEntry(t).quiet =>
    (Top(t).todo \cup {Top(t).running}) \ {None} \subseteq Unignorable

\* hoox_invocation_stack_translate gives the return address of a live frame:
\* the entry it finds for the function's on-leave trampoline is the frame's.
Translates(t, f) == CHOOSE i \in DOMAIN stack[t] :
  stack[t][i].fn = f /\ \A j \in 1 .. i - 1 : stack[t][j].fn # f
TranslateIsExact ==
  \A t \in Threads : \A k \in DOMAIN frames[t] :
    frames[t][k].ret # <<>> =>
      LET f == frames[t][k].ret[Len(frames[t][k].ret)] IN
      stack[t][Translates(t, f)].sp = frames[t][k].sp

=============================================================================
