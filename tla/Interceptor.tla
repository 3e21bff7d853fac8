------------------------------ MODULE Interceptor ------------------------------
(***************************************************************************)
(* The interceptor of hoox (src/src/core/hooxinterceptor.c): the table of  *)
(* hooked functions, the transaction that patches code and defers the      *)
(* release of memory, and the threads that run through the trampolines     *)
(* without taking the interceptor's lock.                                  *)
(*                                                                         *)
(* An API call is a sequence of steps of op[t]; it holds `lock' from its   *)
(* first step to its last, except around a destroy notification.  A call   *)
(* of a hooked function is a sequence of steps of the top frame of         *)
(* calls[t]; each step makes at most one access to shared memory that      *)
(* another thread can disturb, and thread-local work is folded into it.    *)
(*                                                                         *)
(* A trampoline is known by the context that owns it, so the addresses     *)
(* that code can jump to are the functions, the replacements and Ctxs.     *)
(* Whether listeners are to be invoked at all (ignore level, selected      *)
(* thread, unignorable listeners) is a nondeterministic choice here, and   *)
(* no frame is unwound past.                                               *)
(***************************************************************************)
EXTENDS Integers, Sequences, FiniteSets

CONSTANTS
  Threads,          \* the threads of the process
  Mutators,         \* those that call the API ...
  Callers,          \* ... and those that call the hooked functions
  Functions,        \* functions the API is asked to hook
  Replacements,     \* functions given to replace and replace_fast
  Listeners,        \* HooxInvocationListener objects
  LeaveListeners,   \* those whose interface has an on_leave
  Ctxs,             \* HooxFunctionContext objects, each allocated at most once
  None,             \* NULL
  MaxListeners,     \* HOOX_MAX_LISTENERS_PER_FUNCTION
  MaxOps,           \* bound: attach, detach, replace and revert calls
  MaxOpen,          \* bound: begin_transaction calls not yet ended, per thread
  MaxDepth          \* bound: frames under which a thread makes a new call

ASSUME ConstantsAssumption ==
  /\ IsFiniteSet(Threads) /\ IsFiniteSet(Listeners)
  /\ Mutators \subseteq Threads /\ Callers \subseteq Threads
  /\ LeaveListeners \subseteq Listeners
  /\ MaxListeners \in Nat \ {0}
  /\ Functions \cap Replacements = {}
  /\ Functions \cap Ctxs = {}
  /\ Replacements \cap Ctxs = {}
  /\ None \notin Threads \cup Functions \cup Replacements \cup Listeners \cup Ctxs

VARIABLES
  lock,       \* owner of the interceptor's recursive mutex
  table,      \* function_by_address
  code,       \* what the first instructions of an address jump to
  fc,         \* the function contexts
  entries,    \* the listener arrays each context has published, oldest first
  reclaimed,  \* the listener arrays whose memory was released
  refs,       \* reference count of each listener
  owned,      \* the listeners whose creator still holds its reference
  txn,        \* current_transaction
  open,       \* begin_transaction calls each thread has not ended
  op,         \* the API call each thread is making
  calls,      \* the frames of hooked and replacement functions of each thread
  guard,      \* the threads whose guard TLS slot holds the interceptor
  promised,   \* the <<function, listener>> pairs attach reported as attached
  started     \* number of API calls counted against MaxOps

vars == <<lock, table, code, fc, entries, reclaimed, refs, owned, txn, open, op,
          calls, guard, promised, started>>
heap == <<fc, entries, reclaimed, refs>>
control == <<lock, table, code, entries, reclaimed, refs, owned, txn, open, op,
             promised, started>>

Addr == Functions \cup Replacements \cup Ctxs
Arrays == Ctxs \X Nat

-----------------------------------------------------------------------------
(* Records *)

\* A listener array: its length, holes included, and its live entries.
ListenerArray == [len : Nat, live : SUBSET Listeners]

FunctionContext ==
  [state : {"unborn", "live", "freed"}, addr : Addr \cup {None}, fast : BOOLEAN,
   repl : Replacements \cup {None}, original : Replacements \cup {None},
   hasLeave : BOOLEAN, activated : BOOLEAN, destroyed : BOOLEAN,
   counter : Int, saved : Addr \cup {None}]

Unborn ==
  [state |-> "unborn", addr |-> None, fast |-> FALSE, repl |-> None,
   original |-> None, hasLeave |-> FALSE, activated |-> FALSE,
   destroyed |-> FALSE, counter |-> 0, saved |-> None]

\* A HooxDestroyTask; ver names the array and lsn the listener to release.
DestroyTask ==
  [what : {"array", "listener", "context"}, ctx : Ctxs, ver : Nat,
   lsn : Listeners \cup {None}]

ArrayTask(c, v) == [what |-> "array", ctx |-> c, ver |-> v, lsn |-> None]
ListenerTaskWithoutContext(c, l) ==
  [what |-> "listener", ctx |-> None, ver |-> 0, lsn |-> l]
ListenerTask(c, l) == [what |-> "listener", ctx |-> c, ver |-> 0, lsn |-> l]
ContextTask(c) == [what |-> "context", ctx |-> c, ver |-> 0, lsn |-> None]

Updates == Ctxs \X {"activate", "deactivate"}

Transaction ==
  [level : Int, dirty : BOOLEAN, destroy : Seq(DestroyTask),
   updates : SUBSET Updates]

CleanTransaction ==
  [level |-> 0, dirty |-> FALSE, destroy |-> <<>>, updates |-> {}]

\* An API call: the step it is at, what it works on and, once the outermost
\* transaction ends, its local copy of the transaction.
ApiCall ==
  [kind : {"none", "update", "flush"},
   at : {"idle", "flags", "detaching", "retire", "end", "patch", "tasks",
         "notify", "relock"},
   ctx : Ctxs \cup {None}, lsn : Listeners \cup {None},
   destroy : Seq(DestroyTask), updates : SUBSET Updates,
   task : DestroyTask \cup {None}]

Idle ==
  [kind |-> "none", at |-> "idle", ctx |-> None, lsn |-> None,
   destroy |-> <<>>, updates |-> {}, task |-> None]

\* A call of a function.  `counted' : it is included in the usage counter of
\* ctx; `late' : it was counted after the code had stopped leading to ctx;
\* `pushed' : it has an entry on the invocation stack; snap, todo : the array
\* the entry refers to and the listeners of it still to be told.
Frame ==
  [at : {"jump", "decide", "snap", "enter", "hop", "load", "repl", "release",
         "invoke", "body", "leave", "crashed"},
   addr : Addr \cup {None}, ctx : Ctxs \cup {None}, counted : BOOLEAN,
   late : BOOLEAN, trap : BOOLEAN, invoke : BOOLEAN, pushed : BOOLEAN,
   snap : Nat, todo : SUBSET Listeners]

JumpTo(a) ==
  [at |-> "jump", addr |-> a, ctx |-> None, counted |-> FALSE, late |-> FALSE,
   trap |-> FALSE, invoke |-> FALSE, pushed |-> FALSE, snap |-> 0, todo |-> {}]

-----------------------------------------------------------------------------
(* Listener arrays and contexts *)

Current(c) == entries[c][Len(entries[c])]

\* add_listener copies the live entries only, then appends the new one ...
WithListenerCountedTwice(arr, l) ==
  [len |-> Cardinality(arr.live) + 2, live |-> arr.live \cup {l}]
WithListener(arr, l) ==
  [len |-> Cardinality(arr.live) + 1, live |-> arr.live \cup {l}]

\* ... and remove_listener leaves a hole in place of the one removed.
WithoutListener(arr, l) == [len |-> arr.len, live |-> arr.live \ {l}]

IsEmptyOfReplacement(ctx, arr) == ctx.repl = None
IsEmpty(ctx, arr) == ctx.repl = None /\ arr.live = {}

NewContext(a, fast) ==
  [Unborn EXCEPT !.state = "live", !.addr = a, !.fast = fast, !.saved = code[a]]

\* Redirects are followed until a hooked address or plain code is reached.
Stops(a) == table[a] # None \/ code[a] = None
NextHop(a) == IF Stops(a) THEN a ELSE code[a]
HopN[n \in Nat] ==
  IF n = 0 THEN [a \in Addr |-> a] ELSE [a \in Addr |-> NextHop(HopN[n - 1][a])]
ResolvesTo(f, a) ==
  /\ Stops(a)
  /\ IF Stops(f) THEN a = f ELSE HopN[Cardinality(Addr)][f] = a

\* c is the context hoox_interceptor_instrument returns for address a.
Instruments(a, fast, c) ==
  \/ table[a] = c /\ fc[c].fast = fast
  \/ table[a] = None /\ fc[c].state = "unborn"

Instrumented(a, fast, c) ==
  IF table[a] = c THEN fc[c] ELSE NewContext(a, fast)

InstrumentUpdates(a, c) ==
  IF table[a] = c THEN txn.updates ELSE txn.updates \cup {<<c, "activate">>}

\* hoox_function_context_destroy: the updates and the task it schedules.
DestroyUpdatesNever(c) == {}
DestroyUpdatesAlways(c) == {<<c, "deactivate">>}
DestroyUpdates(c) == IF fc[c].activated THEN {<<c, "deactivate">>} ELSE {}

-----------------------------------------------------------------------------
(* Frames *)

Top(t) == calls[t][Len(calls[t])]
SetTop(t, fr) == calls' = [calls EXCEPT ![t][Len(calls[t])] = fr]
Push(t, fr) == calls' = [calls EXCEPT ![t] = Append(@, fr)]
Pop(t) == calls' = [calls EXCEPT ![t] = SubSeq(@, 1, Len(@) - 1)]

Running(t, step) == calls[t] # <<>> /\ op[t].at = "idle" /\ Top(t).at = step
Snapshot(fr) == entries[fr.ctx][fr.snap]

\* A frame in code that is not hoox's: the body of a function, or a callback of
\* one of the listeners already told.
IsUserCode(fr) ==
  \/ fr.at = "body"
  \/ /\ fr.at = "enter" => fr.invoke
     /\ fr.at \in {"enter", "leave"} /\ fr.todo # Snapshot(fr).live
InUserCode(t) == op[t].at = "idle" /\ (calls[t] # <<>> => IsUserCode(Top(t)))

\* The top entry of the invocation stack is calling the replacement of a.
InReplacementOf(t, a) ==
  \E i \in DOMAIN calls[t] :
    /\ calls[t][i].pushed /\ calls[t][i].at = "repl"
    /\ fc[calls[t][i].ctx].addr = a
    /\ \A j \in DOMAIN calls[t] : calls[t][j].pushed => j <= i

\* What the next step of the top frame reads has been released.
Faulty(t) ==
  LET fr == Top(t) IN
  \/ fr.at = "jump" /\ fr.addr \in Ctxs /\ fc[fr.addr].state = "freed"
  \/ /\ fr.at \in {"decide", "snap", "enter", "hop", "load", "release",
                   "invoke", "leave"}
     /\ fc[fr.ctx].state = "freed"
  \/ /\ fr.at \in {"enter", "leave"} /\ fr.snap # 0
     /\ <<fr.ctx, fr.snap>> \in reclaimed

-----------------------------------------------------------------------------
(* The API, under the lock *)

\* hoox_interceptor_attach and its kin open with this: the lock is taken and
\* the transaction's level goes up.
Starts(t) ==
  /\ InUserCode(t)
  /\ lock = None /\ lock' = t
  /\ started < MaxOps /\ started' = started + 1

\* ... the transaction is dirty from then on, whatever the call finds.
Opened(destroy, updates) ==
  [level |-> txn.level + 1, dirty |-> TRUE, destroy |-> txn.destroy \o destroy,
   updates |-> updates]

Goes(t, step, c, l) ==
  op' = [op EXCEPT ![t] =
           [Idle EXCEPT !.kind = "update", !.at = step, !.ctx = c, !.lsn = l]]

\* The call finds nothing it can do: attach and replace report why.
Refused(t) ==
  /\ Starts(t)
  /\ txn' = Opened(<<>>, txn.updates)
  /\ Goes(t, "end", None, None)
  /\ UNCHANGED <<table, code, heap, owned, open, calls, guard, promised>>

CanTake(c, l) ==
  /\ l \notin Current(c).live
  /\ Cardinality(Current(c).live) < MaxListeners

\* Wrong signature, wrong type, already attached or too many listeners.
AttachRefused(t, f, l) ==
  /\ l \in owned
  /\ \E a \in Addr :
       /\ ResolvesTo(f, a)
       /\ table[a] # None => fc[table[a]].fast \/ ~CanTake(table[a], l)
  /\ Refused(t)

\* Instrument the function if need be, publish the new listener array and
\* schedule the release of the old one.
Attach(t, f, l) ==
  /\ Starts(t)
  /\ l \in owned
  /\ \E a \in Addr, c \in Ctxs :
       /\ ResolvesTo(f, a)
       /\ Instruments(a, FALSE, c)
       /\ CanTake(c, l)
       /\ fc' = [fc EXCEPT ![c] = Instrumented(a, FALSE, c)]
       /\ table' = [table EXCEPT ![a] = c]
       /\ entries' = [entries EXCEPT ![c] = Append(@, WithListener(Current(c), l))]
       /\ txn' = Opened(<<ArrayTask(c, Len(entries[c]))>>, InstrumentUpdates(a, c))
       /\ Goes(t, "flags", c, l)
  /\ promised' = promised \cup {<<f, l>>}
  /\ UNCHANGED <<code, reclaimed, refs, owned, open, calls, guard>>

\* add_listener updates the flags the invocations read after the array.
AttachFlags(t) ==
  /\ op[t].at = "flags"
  /\ fc' = [fc EXCEPT ![op[t].ctx].hasLeave = @ \/ op[t].lsn \in LeaveListeners]
  /\ op' = [op EXCEPT ![t].at = "end"]
  /\ UNCHANGED <<lock, table, code, entries, reclaimed, refs, owned, txn, open,
                 calls, guard, promised, started>>

Detach(t, l) ==
  /\ Starts(t)
  /\ l \in owned
  /\ txn' = Opened(<<>>, txn.updates)
  /\ promised' = {p \in promised : p[2] # l}
  /\ Goes(t, "detaching", None, l)
  /\ UNCHANGED <<table, code, heap, owned, open, calls, guard>>

\* One turn of detach's loop over the table: remove_listener up to the array
\* it publishes ...
DetachFrom(t, c) ==
  /\ op[t].at = "detaching"
  /\ \E a \in Addr : table[a] = c
  /\ op[t].lsn \in Current(c).live
  /\ entries' = [entries EXCEPT ![c] = Append(@, WithoutListener(Current(c), op[t].lsn))]
  /\ txn' = [txn EXCEPT !.destroy = Append(@, ArrayTask(c, Len(entries[c])))]
  /\ op' = [op EXCEPT ![t].at = "retire", ![t].ctx = c]
  /\ UNCHANGED <<lock, table, code, fc, reclaimed, refs, owned, open, calls,
                 guard, promised, started>>

WithoutReference(l) == refs
WithReference(l) == [refs EXCEPT ![l] = @ + 1]

\* ... then the flags, the reference to release and, if nothing else hooks the
\* function, the end of the context.
DetachRetire(t) ==
  LET c == op[t].ctx
      ctx == [fc[c] EXCEPT !.hasLeave = Current(c).live \cap LeaveListeners # {}]
      gone == IsEmpty(ctx, Current(c)) IN
  /\ op[t].at = "retire"
  /\ refs' = WithReference(op[t].lsn)
  /\ fc' = [fc EXCEPT ![c] = [ctx EXCEPT !.destroyed = @ \/ gone]]
  /\ table' = IF gone THEN [table EXCEPT ![ctx.addr] = None] ELSE table
  /\ txn' = [txn EXCEPT
       !.destroy = @ \o <<ListenerTask(c, op[t].lsn)>>
                     \o IF gone THEN <<ContextTask(c)>> ELSE <<>>,
       !.updates = IF gone THEN @ \cup DestroyUpdates(c) ELSE @]
  /\ op' = [op EXCEPT ![t].at = "detaching", ![t].ctx = None]
  /\ UNCHANGED <<lock, code, entries, reclaimed, owned, open, calls, guard,
                 promised, started>>

DetachDone(t) ==
  /\ op[t].at = "detaching"
  /\ \A a \in Addr : table[a] # None => op[t].lsn \notin Current(table[a]).live
  /\ op' = [op EXCEPT ![t].at = "end", ![t].lsn = None]
  /\ UNCHANGED <<lock, table, code, heap, owned, txn, open, calls, guard,
                 promised, started>>

\* Wrong signature, wrong type or already replaced.
ReplaceRefused(t, f, fast) ==
  /\ \E a \in Addr :
       /\ ResolvesTo(f, a)
       /\ table[a] # None => fc[table[a]].fast # fast \/ fc[table[a]].repl # None
  /\ Refused(t)

CanReplaceAgain(c) == TRUE
CanReplace(c) == fc[c].repl = None

Replace(t, f, r, fast) ==
  /\ Starts(t)
  /\ \E a \in Addr, c \in Ctxs :
       /\ ResolvesTo(f, a)
       /\ Instruments(a, fast, c)
       /\ CanReplace(c)
       /\ fc' = [fc EXCEPT ![c] =
                   [Instrumented(a, fast, c) EXCEPT !.repl = r, !.original = r]]
       /\ table' = [table EXCEPT ![a] = c]
       /\ txn' = Opened(<<>>, InstrumentUpdates(a, c))
  /\ Goes(t, "end", None, None)
  /\ UNCHANGED <<code, entries, reclaimed, refs, owned, open, calls, guard, promised>>

RevertNothing(t, f) ==
  /\ \E a \in Addr : ResolvesTo(f, a) /\ table[a] = None
  /\ Refused(t)

Revert(t, f) ==
  /\ Starts(t)
  /\ \E a \in Addr :
       LET c == table[a]
           ctx == [fc[c] EXCEPT !.repl = None]
           gone == IsEmpty(ctx, Current(c)) IN
       /\ ResolvesTo(f, a) /\ c # None
       /\ fc' = [fc EXCEPT ![c] = [ctx EXCEPT !.destroyed = @ \/ gone]]
       /\ table' = IF gone THEN [table EXCEPT ![a] = None] ELSE table
       /\ txn' = Opened(IF gone THEN <<ContextTask(c)>> ELSE <<>>,
                        txn.updates \cup IF gone THEN DestroyUpdates(c) ELSE {})
  /\ Goes(t, "end", None, None)
  /\ UNCHANGED <<code, entries, reclaimed, refs, owned, open, calls, guard, promised>>

-----------------------------------------------------------------------------
(* Transactions and the deferred release *)

BeginTransaction(t) ==
  /\ InUserCode(t) /\ lock = None
  /\ open[t] < MaxOpen
  /\ open' = [open EXCEPT ![t] = @ + 1]
  /\ txn' = [txn EXCEPT !.level = @ + 1]
  /\ UNCHANGED <<lock, table, code, heap, owned, op, calls, guard, promised, started>>

EndTransaction(t) ==
  /\ InUserCode(t) /\ lock = None
  /\ open[t] > 0
  /\ open' = [open EXCEPT ![t] = @ - 1]
  /\ lock' = t
  /\ Goes(t, "end", None, None)
  /\ UNCHANGED <<table, code, heap, owned, txn, calls, guard, promised, started>>

\* flush ends a transaction of its own, unless one is open already.
Flush(t) ==
  /\ InUserCode(t) /\ lock = None
  /\ txn.level = 0
  /\ lock' = t
  /\ txn' = [txn EXCEPT !.level = 1]
  /\ op' = [op EXCEPT ![t] = [Idle EXCEPT !.kind = "flush", !.at = "end"]]
  /\ UNCHANGED <<table, code, heap, owned, open, calls, guard, promised, started>>

Returns(t) == lock' = None /\ op' = [op EXCEPT ![t] = Idle]

AtAnyEnd == TRUE
AtOutermostEnd == txn.level = 1

\* transaction_end of a nested transaction, of one in which nothing happened
\* or of one that left nothing to do.
EndNothingToDo(t) ==
  /\ op[t].at = "end"
  /\ \/ ~AtOutermostEnd \/ ~txn.dirty
     \/ txn.destroy = <<>> /\ txn.updates = {}
  /\ txn' = [txn EXCEPT !.level = @ - 1, !.dirty = @ /\ ~AtOutermostEnd]
  /\ Returns(t)
  /\ UNCHANGED <<table, code, heap, owned, open, calls, guard, promised, started>>

KeepsItsQueue == [CleanTransaction EXCEPT !.destroy = txn.destroy]
Reinitialized == CleanTransaction

\* Otherwise the transaction moves to a copy of the caller's.
EndTakesCopy(t) ==
  /\ op[t].at = "end"
  /\ AtOutermostEnd /\ txn.dirty
  /\ txn.destroy # <<>> \/ txn.updates # {}
  /\ txn' = Reinitialized
  /\ op' = [op EXCEPT ![t].at = "patch", ![t].destroy = txn.destroy,
                      ![t].updates = txn.updates]
  /\ UNCHANGED <<lock, table, code, heap, owned, open, calls, guard, promised, started>>

NeverSkipsActivation(c) == FALSE
SkipsActivation(c) == fc[c].destroyed

\* One hoox_interceptor_activate or _deactivate of hoox_apply_updates.  Pages
\* are patched one by one while other threads run; no two updates of one
\* transaction concern the same context and address, so their order is free.
ActivateUpdate(t, c) ==
  /\ op[t].at = "patch" /\ <<c, "activate">> \in op[t].updates
  /\ op' = [op EXCEPT ![t].updates = @ \ {<<c, "activate">>}]
  /\ IF SkipsActivation(c)
       THEN UNCHANGED <<fc, code>>
       ELSE /\ fc' = [fc EXCEPT ![c].activated = TRUE]
            /\ code' = [code EXCEPT ![fc[c].addr] = IF fc[c].fast THEN fc[c].repl ELSE c]
  /\ UNCHANGED <<lock, table, entries, reclaimed, refs, owned, txn, open, calls,
                 guard, promised, started>>

DeactivateUpdate(t, c) ==
  /\ op[t].at = "patch" /\ <<c, "deactivate">> \in op[t].updates
  /\ op' = [op EXCEPT ![t].updates = @ \ {<<c, "deactivate">>}]
  /\ fc' = [fc EXCEPT ![c].activated = FALSE]
  /\ code' = [code EXCEPT ![fc[c].addr] = fc[c].saved]
  /\ UNCHANGED <<lock, table, entries, reclaimed, refs, owned, txn, open, calls,
                 guard, promised, started>>

Patched(t) ==
  /\ op[t].at = "patch" /\ op[t].updates = {}
  /\ op' = [op EXCEPT ![t].at = "tasks"]
  /\ UNCHANGED <<lock, table, code, heap, owned, txn, open, calls, guard,
                 promised, started>>

\* A released context is read as well: its counter then has any value.
SeenWithoutLooking(c) == TRUE
SeenUnused(c) == fc[c].state = "freed" \/ fc[c].counter = 0
SeenInUse(c) == fc[c].state = "freed" \/ fc[c].counter # 0

\* The task at the head is for a context not in use: the lock is dropped to
\* run its notification ...
TaskRuns(t) ==
  /\ op[t].at = "tasks" /\ op[t].destroy # <<>>
  /\ SeenUnused(Head(op[t].destroy).ctx)
  /\ op' = [op EXCEPT ![t].at = "notify", ![t].task = Head(op[t].destroy),
                      ![t].destroy = Tail(@)]
  /\ lock' = None
  /\ UNCHANGED <<table, code, heap, owned, txn, open, calls, guard, promised, started>>

\* ... or it goes back to the shared queue for a later pass.
RequeuesCleanly(task) == [txn EXCEPT !.destroy = Append(@, task)]
Requeues(task) == [txn EXCEPT !.dirty = TRUE, !.destroy = Append(@, task)]

TaskRequeuedLocally(t) ==
  /\ op[t].at = "tasks" /\ op[t].destroy # <<>>
  /\ SeenInUse(Head(op[t].destroy).ctx)
  /\ op' = [op EXCEPT ![t].destroy = Append(Tail(@), Head(@))]
  /\ UNCHANGED <<lock, table, code, heap, owned, txn, open, calls, guard, promised,
                 started>>
TaskRequeued(t) ==
  /\ op[t].at = "tasks" /\ op[t].destroy # <<>>
  /\ SeenInUse(Head(op[t].destroy).ctx)
  /\ op' = [op EXCEPT ![t].destroy = Tail(@)]
  /\ txn' = Requeues(Head(op[t].destroy))
  /\ UNCHANGED <<lock, table, code, heap, owned, open, calls, guard, promised, started>>

TasksDone(t) ==
  /\ op[t].at = "tasks" /\ op[t].destroy = <<>>
  /\ Returns(t)
  /\ UNCHANGED <<table, code, heap, owned, txn, open, calls, guard, promised, started>>

\* What the notification releases: an old listener array, a reference to a
\* listener, or the context with its trampoline and its current array.
Notify(t) ==
  LET task == op[t].task
      c == task.ctx IN
  /\ op[t].at = "notify"
  /\ refs' = IF task.what = "listener" THEN [refs EXCEPT ![task.lsn] = @ - 1] ELSE refs
  /\ reclaimed' = reclaimed \cup
       CASE task.what = "array" -> {<<c, task.ver>>}
         [] task.what = "context" -> {<<c, Len(entries[c])>>}
         [] OTHER -> {}
  /\ fc' = IF task.what = "context" THEN [fc EXCEPT ![c].state = "freed"] ELSE fc
  /\ op' = [op EXCEPT ![t].at = "relock", ![t].task = None]
  /\ UNCHANGED <<lock, table, code, entries, owned, txn, open, calls, guard,
                 promised, started>>

RelockWithoutLock(t) ==
  /\ op[t].at = "relock" /\ lock = None
  /\ op' = [op EXCEPT ![t].at = "tasks"]
  /\ UNCHANGED <<lock, table, code, heap, owned, txn, open, calls, guard, promised,
                 started>>
Relock(t) ==
  /\ op[t].at = "relock" /\ lock = None
  /\ lock' = t
  /\ op' = [op EXCEPT ![t].at = "tasks"]
  /\ UNCHANGED <<table, code, heap, owned, txn, open, calls, guard, promised, started>>

\* The creator of a listener drops its reference after detaching it.
Unref(l) ==
  /\ l \in owned
  /\ \A t \in Threads : op[t].lsn # l
  /\ \A c \in Ctxs : fc[c].state = "live" => l \notin Current(c).live
  /\ owned' = owned \ {l}
  /\ refs' = [refs EXCEPT ![l] = @ - 1]
  /\ UNCHANGED <<lock, table, code, fc, entries, reclaimed, txn, open, op, calls,
                 guard, promised, started>>

-----------------------------------------------------------------------------
(* Threads in hooked functions, without the lock *)

\* Every step of an invocation but a jump in user code is one of a top frame
\* whose memory is still there.
Steps(t, step) == Running(t, step) /\ ~Faulty(t)

Call(t, f) ==
  /\ InUserCode(t) /\ Len(calls[t]) < MaxDepth
  /\ Push(t, JumpTo(f))
  /\ UNCHANGED <<control, fc, guard>>

\* A replacement calls the original through the pointer it was given.
CallOriginal(t, c) ==
  /\ InUserCode(t) /\ Len(calls[t]) < MaxDepth
  /\ calls[t] # <<>> /\ Top(t).at = "body"
  /\ fc[c].original # None /\ Top(t).addr = fc[c].original
  /\ Push(t, [JumpTo(None) EXCEPT !.at = "invoke", !.ctx = c])
  /\ UNCHANGED <<control, fc, guard>>

\* Follow a redirect, or fall through to the code of a function.
Jump(t) ==
  LET fr == Top(t) IN
  /\ Steps(t, "jump")
  /\ \/ /\ code[fr.addr] # None
        /\ SetTop(t, [fr EXCEPT !.addr = code[fr.addr]])
     \/ /\ code[fr.addr] = None /\ fr.addr \notin Ctxs
        /\ SetTop(t, [fr EXCEPT !.at = "body"])
  /\ UNCHANGED <<control, fc, guard>>

\* The trampoline calls begin_invocation, which counts the invocation; when the
\* thread is inside a callback, or is the replacement calling its original, it
\* is sent straight on to the original.
BeginInvocation(t) ==
  LET c == Top(t).addr
      bypass == t \in guard \/ InReplacementOf(t, fc[c].addr) IN
  /\ Steps(t, "jump")
  /\ code[c] = None /\ c \in Ctxs
  /\ fc' = [fc EXCEPT ![c].counter = @ + 1]
  /\ SetTop(t, [JumpTo(None) EXCEPT
       !.at = IF bypass THEN "release" ELSE "decide",
       !.ctx = c, !.counted = TRUE, !.late = ~fc[c].activated])
  /\ guard' = IF bypass THEN guard ELSE guard \cup {t}
  /\ UNCHANGED control

\* Whether to tell the listeners, to trap the return and so to push an entry.
Decide(t) ==
  \E invoke \in BOOLEAN :
    LET ctx == fc[Top(t).ctx]
        trap == ctx.repl # None \/ (invoke /\ ctx.hasLeave)
        push == trap \/ invoke IN
    /\ Steps(t, "decide")
    /\ SetTop(t, [Top(t) EXCEPT !.at = IF push THEN "snap" ELSE "enter",
                                !.trap = trap, !.invoke = invoke, !.pushed = push])
    /\ UNCHANGED <<control, fc, guard>>

TakeSnapshot(t) ==
  LET fr == [Top(t) EXCEPT !.snap = Len(entries[Top(t).ctx])] IN
  /\ Steps(t, "snap")
  /\ SetTop(t, [fr EXCEPT !.at = "enter",
                          !.todo = IF fr.invoke THEN Snapshot(fr).live ELSE {}])
  /\ UNCHANGED <<control, fc, guard>>

\* The next listener's on_enter or on_leave; the order is that of the array,
\* any order here.
TellListener(t) ==
  /\ Steps(t, "enter") \/ Steps(t, "leave")
  /\ \E l \in Top(t).todo : SetTop(t, [Top(t) EXCEPT !.todo = @ \ {l}])
  /\ UNCHANGED <<control, fc, guard>>

\* An entry pushed for on_enter only is popped, and the guard is cleared.
EnterDone(t) ==
  LET fr == Top(t) IN
  /\ Steps(t, "enter") /\ fr.todo = {}
  /\ SetTop(t, [fr EXCEPT !.at = "hop", !.pushed = fr.trap,
                          !.snap = IF fr.trap THEN @ ELSE 0])
  /\ guard' = guard \ {t}
  /\ UNCHANGED <<control, fc>>

\* The replacement is read again to choose the next hop; without an entry there
\* is no invocation context to fill in, and the code writes through NULL.
ChooseHop(t) ==
  LET fr == Top(t) IN
  /\ Steps(t, "hop")
  /\ SetTop(t, [fr EXCEPT !.at =
       IF fc[fr.ctx].repl = None THEN (IF fr.trap THEN "invoke" ELSE "release")
       ELSE IF fr.trap \/ fr.invoke THEN "load" ELSE "crashed"])
  /\ UNCHANGED <<control, fc, guard>>

\* ... and once more to load it.
LoadReplacement(t) ==
  LET fr == Top(t)
      r == fc[fr.ctx].repl IN
  /\ Steps(t, "load")
  /\ IF r = None THEN SetTop(t, [fr EXCEPT !.at = "crashed"])
     ELSE IF fr.trap
       THEN calls' = [calls EXCEPT ![t] =
              [@ EXCEPT ![Len(@)] = [fr EXCEPT !.at = "repl"]] \o <<JumpTo(r)>>]
       ELSE SetTop(t, [fr EXCEPT !.at = "release", !.addr = r])
  /\ UNCHANGED <<control, fc, guard>>

StillCounts(c) == fc
Uncounts(c) == [fc EXCEPT ![c].counter = @ - 1]

\* Without a trap the invocation is over before the function has started.
Release(t) ==
  LET fr == Top(t) IN
  /\ Steps(t, "release")
  /\ fc' = Uncounts(fr.ctx)
  /\ SetTop(t, IF fr.addr # None THEN JumpTo(fr.addr)
               ELSE [fr EXCEPT !.at = "invoke", !.counted = FALSE])
  /\ UNCHANGED <<control, guard>>

\* The relocated prologue runs in the trampoline, then the rest of the function.
InvokeOriginal(t) ==
  /\ Steps(t, "invoke")
  /\ SetTop(t, [Top(t) EXCEPT !.at = "body", !.addr = fc[Top(t).ctx].addr])
  /\ UNCHANGED <<control, fc, guard>>

\* The function, or the replacement it called, returns to a plain caller ...
Return(t) ==
  /\ Running(t, "body") /\ ~Top(t).trap
  /\ Pop(t)
  /\ UNCHANGED <<control, fc, guard>>

\* ... or to the on-leave trampoline, which calls end_invocation.
EndInvocation(t) ==
  LET fr == Top(t) IN
  /\ \/ Running(t, "body") /\ fr.trap
     \/ Running(t, "repl")
  /\ SetTop(t, [fr EXCEPT !.at = "leave", !.todo = Snapshot(fr).live])
  /\ guard' = guard \cup {t}
  /\ UNCHANGED <<control, fc>>

LeaveDone(t) ==
  /\ Steps(t, "leave") /\ Top(t).todo = {}
  /\ fc' = Uncounts(Top(t).ctx)
  /\ Pop(t)
  /\ guard' = guard \ {t}
  /\ UNCHANGED control

\* A thread stops at its first use of released memory: what it would do next
\* is undefined.
UseAfterFree(t) ==
  /\ calls[t] # <<>> /\ Top(t).at # "crashed" /\ op[t].at = "idle" /\ Faulty(t)
  /\ SetTop(t, [Top(t) EXCEPT !.at = "crashed"])
  /\ UNCHANGED <<control, fc, guard>>

-----------------------------------------------------------------------------
Init ==
  /\ lock = None
  /\ table = [a \in Addr |-> None]
  /\ code = [a \in Addr |-> None]
  /\ fc = [c \in Ctxs |-> Unborn]
  /\ entries = [c \in Ctxs |-> <<[len |-> 0, live |-> {}]>>]
  /\ reclaimed = {}
  /\ refs = [l \in Listeners |-> 1]
  /\ owned = Listeners
  /\ txn = CleanTransaction
  /\ open = [t \in Threads |-> 0]
  /\ op = [t \in Threads |-> Idle]
  /\ calls = [t \in Threads |-> <<>>]
  /\ guard = {}
  /\ promised = {}
  /\ started = 0

ApiStarts(t) ==
  \/ \E f \in Functions, l \in Listeners : Attach(t, f, l) \/ AttachRefused(t, f, l)
  \/ \E l \in Listeners : Detach(t, l)
  \/ \E f \in Functions, fast \in BOOLEAN :
       \/ ReplaceRefused(t, f, fast)
       \/ \E r \in Replacements : Replace(t, f, r, fast)
  \/ \E f \in Functions : Revert(t, f) \/ RevertNothing(t, f)
  \/ BeginTransaction(t)
  \/ EndTransaction(t)
  \/ Flush(t)

ApiSteps(t) ==
  \/ AttachFlags(t)
  \/ \E c \in Ctxs : DetachFrom(t, c)
  \/ DetachRetire(t)
  \/ DetachDone(t)
  \/ EndNothingToDo(t)
  \/ EndTakesCopy(t)
  \/ \E c \in Ctxs : ActivateUpdate(t, c) \/ DeactivateUpdate(t, c)
  \/ Patched(t)
  \/ TaskRuns(t)
  \/ TaskRequeued(t)
  \/ TasksDone(t)
  \/ Notify(t)

InvocationSteps(t) ==
  \/ Jump(t)
  \/ BeginInvocation(t)
  \/ Decide(t)
  \/ TakeSnapshot(t)
  \/ TellListener(t)
  \/ EnterDone(t)
  \/ ChooseHop(t)
  \/ LoadReplacement(t)
  \/ Release(t)
  \/ InvokeOriginal(t)
  \/ EndInvocation(t)
  \/ LeaveDone(t)
  \/ UseAfterFree(t)

Next ==
  \/ \E t \in Mutators : ApiStarts(t) \/ ApiSteps(t) \/ Relock(t)
  \/ \E t \in Callers :
       \/ \E f \in Functions : Call(t, f)
       \/ \E c \in Ctxs : CallOriginal(t, c)
       \/ InvocationSteps(t)
       \/ Return(t)
  \/ \E l \in Listeners : Unref(l)

Spec == Init /\ [][Next]_vars

-----------------------------------------------------------------------------
(* Properties *)

\* The type of every variable; it also says what depends on what: a thread in
\* an API call that needs the lock has it, and the steps that work on a context
\* or a listener have one.
TypeOK ==
  /\ lock \in Threads \cup {None}
  /\ table \in [Addr -> Ctxs \cup {None}]
  /\ code \in [Addr -> Addr \cup {None}]
  /\ fc \in [Ctxs -> FunctionContext]
  /\ entries \in [Ctxs -> Seq(ListenerArray)]
  /\ reclaimed \subseteq Arrays
  /\ refs \in [Listeners -> Int]
  /\ owned \subseteq Listeners
  /\ txn \in Transaction
  /\ open \in [Threads -> Nat]
  /\ op \in [Threads -> ApiCall]
  /\ calls \in [Threads -> Seq(Frame)]
  /\ guard \subseteq Threads
  /\ promised \subseteq Functions \X Listeners
  /\ started \in Nat

\* Mutual exclusion of the API: at most one thread is inside the part of a call
\* that the interceptor's mutex protects, and it is the mutex's owner.  The
\* hooks of a destroy notification run outside it.
LockedSteps == {"flags", "detaching", "retire", "end", "patch", "tasks"}
LockProtects == \A t \in Threads : op[t].at \in LockedSteps <=> lock = t

\* The frames that are included in the usage counter of c.
Places == UNION {{t} \X DOMAIN calls[t] : t \in Threads}
Holders(c) ==
  {h \in Places : calls[h[1]][h[2]].counted /\ calls[h[1]][h[2]].ctx = c}

\* trampoline_usage_counter is the number of invocations in flight, whatever
\* path each took out of begin_invocation: none is leaked, which would block
\* the release for ever, and none is dropped twice, which would allow it early.
CounterCountsInvocations == \A c \in Ctxs : fc[c].counter = Cardinality(Holders(c))

\* What an invocation that was counted while the code led to its context may
\* still use is there until it is done: the context and its trampoline, and the
\* listener array of its stack entry.
Protected(fr) ==
  /\ fc[fr.ctx].state = "live"
  /\ fr.snap # 0 => <<fr.ctx, fr.snap>> \notin reclaimed
Safe(fr) == fr.counted /\ ~fr.late
InvocationsAreProtected ==
  \A t \in Threads : \A i \in DOMAIN calls[t] :
    Safe(calls[t][i]) => Protected(calls[t][i])

\* ... and so is every listener of that array, although detach has returned and
\* the program has dropped its own reference.
ListenersAreProtected ==
  \A t \in Threads : \A i \in DOMAIN calls[t] :
    Safe(calls[t][i]) /\ calls[t][i].snap # 0 =>
      \A l \in Snapshot(calls[t][i]).live : refs[l] > 0

\* Every task not run yet, by the queue it is in and its place there.
TaskAt(p) ==
  LET queue == IF p[1] = None THEN txn.destroy ELSE op[p[1]].destroy IN
  IF p[2] \in DOMAIN queue THEN queue[p[2]]
  ELSE IF p[1] # None /\ p[2] = 0 THEN op[p[1]].task ELSE None
Queued ==
  UNION {{<<q, i>> : i \in 0 .. Len(IF q = None THEN txn.destroy ELSE op[q].destroy)} :
           q \in {None} \cup Threads}

\* Nothing is released twice: a task to release an array or a context is queued
\* at most once in all queues, and only while its object is still there.
ReleasedOnce ==
  \A p \in Queued :
    LET task == TaskAt(p) IN
    task # None /\ task.what # "listener" =>
      /\ task.what = "array" => <<task.ctx, task.ver>> \notin reclaimed
      /\ task.what = "context" => fc[task.ctx].state = "live" /\ fc[task.ctx].destroyed
      /\ \A q \in Queued : TaskAt(q) = task => q = p

\* A listener's reference count is its creator's reference and those of the
\* detaches not released yet.
ListenerReferences ==
  \A l \in Listeners :
    refs[l] = Cardinality({l} \cap owned)
              + Cardinality({p \in Queued : TaskAt(p) # None /\ TaskAt(p).lsn = l})

\* With no call in progress and no transaction open, exactly the functions in
\* the table are patched, each with a jump to its own live context; the code of
\* every other function is what it was at first.
Quiet == lock = None /\ txn.level = 0
CodeMatchesTable ==
  Quiet => \A f \in Functions :
    code[f] = IF table[f] = None THEN None
              ELSE IF fc[table[f]].fast THEN fc[table[f]].repl ELSE table[f]

\* The assertions of hoox_interceptor_activate and _deactivate hold when a page
\* is patched, and no update is for a context released already.
UpdatesAreDue ==
  \A t \in Threads : op[t].at = "patch" => \A u \in op[t].updates :
    /\ fc[u[1]].state = "live"
    /\ u[2] = "activate" => fc[u[1]].destroyed \/ ~fc[u[1]].activated
    /\ u[2] = "deactivate" => fc[u[1]].activated

\* attach said HOOX_ATTACH_OK, no detach was asked for since, and no transaction
\* is open: the function jumps to a context with the listener among its own.
AttachedListenersAreReached ==
  Quiet => \A p \in promised :
    \E c \in Ctxs : code[p[1]] = c /\ fc[c].state = "live" /\ p[2] \in Current(c).live

\* No array is longer than the listener_invocation_data an entry has room for.
ArraysFit == \A c \in Ctxs : \A v \in DOMAIN entries[c] : entries[c][v].len <= MaxListeners

\* Code is patched only when every transaction that was begun has been ended:
\* the end of a nested one, or a call another thread makes meanwhile, leaves
\* all code as it is.
PatchesOnlyAtOutermostEnd == [][code' # code => \A t \in Threads : open[t] = 0]_vars

\* A context is released only by way of the queue: the table no longer has it,
\* no code leads to it, and it was in use by late invocations at most.
ReleaseIsLast ==
  [][\A c \in Ctxs : fc[c].state = "live" /\ fc'[c].state = "freed" =>
       /\ fc[c].destroyed /\ ~fc[c].activated
       /\ \A a \in Addr : table[a] # c
       /\ \A f \in Functions : code[f] # c]_vars

-----------------------------------------------------------------------------
(* What the documentation says and the code does not do *)

\* flush returns TRUE only if no teardown remains: not in the shared queue, and
\* not in the hands of a thread that is still running its own copy of one.
FlushAnswersTrue(t) ==
  op[t].kind = "flush" /\ op[t].at # "idle" /\ op'[t].at = "idle" /\ txn'.destroy = <<>>
FlushMeansDrained ==
  [][\A t \in Threads : FlushAnswersTrue(t) =>
       \A u \in Threads : op[u].destroy = <<>> /\ op[u].task = None]_vars

\* The memory of a trampoline is released once no thread executes inside it.
InTrampoline(fr, c) ==
  \/ fr.at = "jump" /\ fr.addr = c
  \/ fr.at \in {"decide", "snap", "enter", "hop", "load", "release", "invoke", "leave"}
     /\ fr.ctx = c
NoThreadInReleasedTrampoline ==
  \A t \in Threads : \A i \in DOMAIN calls[t] : \A c \in Ctxs :
    InTrampoline(calls[t][i], c) => fc[c].state # "freed"

\* While a transaction is open, no function's hooks change.
HooksOf(f) ==
  IF code[f] \in Ctxs THEN <<Current(code[f]).live, fc[code[f]].repl>>
  ELSE <<{}, code[f]>>
ChangesAreStaged ==
  [][(\E t \in Threads : open[t] > 0 /\ open'[t] > 0)
       => \A f \in Functions : HooksOf(f)' = HooksOf(f)]_vars

\* A listener told of the entry of a function will be told of its return.
EnteredListenersAreLeft ==
  \A t \in Threads : \A i \in DOMAIN calls[t] :
    LET fr == calls[t][i] IN
    fr.at = "enter" /\ fr.pushed /\ ~fr.trap =>
      Snapshot(fr).live \cap LeaveListeners \subseteq fr.todo

\* A thread in a hooked function crashes at most by the use of released memory:
\* begin_invocation neither writes nor jumps through a NULL pointer.
NoNullDereference ==
  \A t \in Threads : \A i \in DOMAIN calls[t] :
    calls[t][i].at = "crashed" /\ calls[t][i].ctx # None
      => fc[calls[t][i].ctx].state = "freed"

\* Every task still to run is for a context that is still there: both the next
\* pass and flush_function read it through the task.
TasksHaveContexts ==
  \A p \in Queued : TaskAt(p) # None => fc[TaskAt(p).ctx].state = "live"

-----------------------------------------------------------------------------
(* Liveness *)

\* An API call that can go on does.  A function and a callback make finitely
\* many calls, a thread that waits for the mutex gets it in the end, and
\* somebody keeps calling flush: these are enabled again and again rather than
\* all the time, hence the strong fairness.
Fairness ==
  /\ \A t \in Threads :
       /\ WF_vars(t \in Mutators /\ ApiSteps(t)) /\ SF_vars(t \in Mutators /\ Relock(t))
       /\ SF_vars(t \in Callers /\ (InvocationSteps(t) \/ Return(t)))
  /\ SF_vars(\E t \in Mutators : Flush(t))

FairSpec == Spec /\ Fairness

\* A context that was given up is released in the end, whatever was in flight
\* when it was: a requeued task is tried again.
GivenUpIsReleased == \A c \in Ctxs : fc[c].destroyed ~> fc[c].state = "freed"

\* Every API call returns: the pass over the tasks ends although tasks go back
\* to a queue, and the locking does not block it.
ApiCallsReturn == \A t \in Threads : op[t].at # "idle" ~> op[t].at = "idle"

=============================================================================
