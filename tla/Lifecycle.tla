------------------------------- MODULE Lifecycle -------------------------------
(***************************************************************************)
(* The life of the library, of the interceptor singleton and of the        *)
(* threads' contexts, and what fork makes of them (src/src/core/hoox.c,    *)
(* src/src/core/hooxinterceptor.c).                                        *)
(*                                                                         *)
(* Hooking a function is one step, and so is its patching; what remains of *)
(* a transaction is how the contexts of functions no longer hooked are     *)
(* released, with the lock given up for each.  When a thread forks, the    *)
(* behaviour goes on in the parent or in the child.                        *)
(*                                                                         *)
(* liberties is what the program does that a careful one does not:         *)
(*   "late obtain": obtain the singleton, or fork, while its last reference*)
(*                  is being dropped                                       *)
(*   "early unref": drop the last reference, or shut the library down,     *)
(*                  while hooked functions are being called                *)
(*   "held fork":   fork with the lock of the interceptor held             *)
(***************************************************************************)
EXTENDS Integers, Sequences, FiniteSets

CONSTANTS
  Threads,
  Forkers,         \* the threads that may fork
  Objects,         \* interceptors, one after the other
  Ctxs,            \* function contexts
  None,
  Programs,        \* the programs there are, as the liberties they take
  MaxOwned,        \* bound: references a thread owns
  MaxInits,        \* bound: hoox_ref_count
  MaxGeneration,   \* bound: how often the library is brought up
  MaxDepth         \* bound: hooked functions a thread is inside

ASSUME ConstantsAssumption ==
  /\ IsFiniteSet(Threads) /\ IsFiniteSet(Ctxs)
  /\ Forkers \subseteq Threads
  /\ Programs \subseteq SUBSET {"late obtain", "early unref", "held fork"}
  /\ None \notin Threads \cup Objects \cup Ctxs
  /\ \A S \in SUBSET Threads : S # None
  /\ None \notin [generation : Nat, stack : Seq(Ctxs)]
  /\ MaxOwned \in Nat /\ MaxInits \in Nat /\ MaxGeneration \in Nat /\ MaxDepth \in Nat

VARIABLES
  liberties,
  inChild,  \* the behaviour goes on in a child of fork
  inits,    \* hoox_ref_count
  generation,
  locks,    \* owners of the lifecycle lock, the global lock and the spinlock
  mutex,    \* owner and depth of an interceptor's lock
  the,      \* _the_interceptor
  obj,      \* the interceptors
  fc,       \* the function contexts
  registry, \* hoox_interceptor_thread_contexts: the threads whose context it holds
  context,  \* the context of a thread, which its thread-local slot points to
  prepared, \* hoox_interceptor_fork_interceptor
  thr       \* what a thread is doing

vars == <<liberties, inChild, inits, generation, locks, mutex, the, obj, fc, registry,
          context, prepared, thr>>
library == <<liberties, inChild, inits, generation>>
calls == <<registry, context>>

\* pending: pending_destroy_tasks of its current_transaction.
Interceptor == [at : {"new", "live", "freed"}, refs : Int, pending : SUBSET Ctxs]
FunctionContext ==
  [of : Objects \cup {None}, at : {"new", "hooked", "unhooked", "freed"}, counter : Int]
ThreadContext == [generation : Nat, stack : Seq(Ctxs)]

\* obj: the interceptor at hand.  ctx: the function context at hand.  tasks: the
\* destroy tasks of its transaction_copy.  dying: transaction_end is finalize's.
\* next: what follows an unref.  gen: the generation of a context being made.
\* keeps: with_lock_held is in progress.  owned: its references.
Activity ==
  [at : {"idle", "entering", "adding", "release", "notify", "dispose", "clear",
         "destroy", "pin", "pinned", "locked", "prepared", "unlock", "gone"},
   obj : Objects \cup {None}, ctx : Ctxs \cup {None}, tasks : SUBSET Ctxs,
   dying : BOOLEAN, next : {"idle", "pin", "unlock"}, gen : Nat, keeps : BOOLEAN,
   owned : [Objects -> Nat]]

-----------------------------------------------------------------------------
At(t, where) == thr[t].at = where
GoesTo(t, where) == thr' = [thr EXCEPT ![t].at = where]

CanLock(t, o) == mutex[o].owner \in {t, None}
Locked(t, o) == [mutex EXCEPT ![o] = [owner |-> t, depth |-> @.depth + 1]]
Unlocked(o) ==
  [mutex EXCEPT ![o] = [owner |-> IF @.depth = 1 THEN None ELSE @.owner,
                        depth |-> @.depth - 1]]

ContextsAt(o, where) == {c \in Ctxs : fc[c].of = o /\ fc[c].at = where}
InState(S, where) == [c \in Ctxs |-> IF c \in S THEN [fc[c] EXCEPT !.at = where] ELSE fc[c]]

EntriesOf(t) == IF context[t] = None THEN <<>> ELSE context[t].stack
Places(S, c) ==
  UNION {{t} \X {i \in DOMAIN EntriesOf(t) : EntriesOf(t)[i] = c} : t \in S}
TimesIn(S, c) == Cardinality(Places(S, c))

\* The counters once the contexts of the threads in S are destroyed.
Released(S) == [c \in Ctxs |-> [fc[c] EXCEPT !.counter = @ - TimesIn(S, c)]]

\* Threads between the count of a call and its entry on the stack.
Arriving(c) == {t \in Threads : (At(t, "entering") \/ At(t, "adding")) /\ thr[t].ctx = c}

Owners(o) == {t \in Threads : thr[t].owned[o] > 0}
Calling == {t \in Threads : EntriesOf(t) # <<>> \/ At(t, "entering") \/ At(t, "adding")}
Dying == the # None /\ obj[the].refs = 0

-----------------------------------------------------------------------------
(* The library *)

LibraryInit(t) ==
  /\ At(t, "idle") /\ ~thr[t].keeps
  /\ locks.lifecycle = None /\ inits < MaxInits
  /\ inits' = inits + 1
  /\ IF inits = 0
     THEN /\ generation < MaxGeneration
          /\ generation' = generation + 1
          /\ registry' = {}
     ELSE UNCHANGED <<generation, registry>>
  /\ UNCHANGED <<liberties, inChild, locks, mutex, the, obj, fc, context, prepared, thr>>

\* hoox_deinit: the contexts of other threads stay until these end or call again.
LibraryDeinit(t) ==
  /\ At(t, "idle") /\ ~thr[t].keeps
  /\ locks.lifecycle = None /\ inits > 0
  /\ inits = 1 => "early unref" \in liberties \/ Calling = {}
  /\ inits' = inits - 1
  /\ IF inits = 1
     THEN /\ registry' = None
          /\ fc' = Released({t})
          /\ context' = [context EXCEPT ![t] = None]
     ELSE UNCHANGED <<registry, fc, context>>
  /\ UNCHANGED <<liberties, inChild, generation, locks, mutex, the, obj, prepared, thr>>

-----------------------------------------------------------------------------
(* The singleton *)

NewInterceptor == {o \in Objects : obj[o].at = "new"}

Obtain(t) ==
  /\ At(t, "idle") /\ inits > 0 /\ locks.global = None
  /\ IF the # None
     THEN /\ Dying => "late obtain" \in liberties
          /\ thr[t].owned[the] < MaxOwned
          /\ obj' = [obj EXCEPT ![the].refs = @ + 1]
          /\ thr' = [thr EXCEPT ![t].owned[the] = @ + 1]
          /\ UNCHANGED the
     ELSE \E o \in NewInterceptor :
            /\ the' = o
            /\ obj' = [obj EXCEPT ![o].at = "live", ![o].refs = 1]
            /\ thr' = [thr EXCEPT ![t].owned[o] = 1]
  /\ UNCHANGED <<library, locks, mutex, fc, calls, prepared>>

\* unref by thread t, which goes on to next, or finalizes first.
Unreferenced(t, o, next) ==
  /\ obj' = [obj EXCEPT ![o].refs = @ - 1]
  /\ thr' = [thr EXCEPT ![t].at = IF obj[o].refs = 1 THEN "dispose" ELSE next,
                        ![t].obj = IF obj[o].refs = 1 THEN o ELSE None,
                        ![t].next = next,
                        ![t].owned[o] = IF next = "idle" THEN @ - 1 ELSE @]

Unref(t) ==
  /\ At(t, "idle") /\ ~thr[t].keeps
  /\ \E o \in Objects :
       /\ thr[t].owned[o] > 0
       /\ Owners(o) = {t} /\ thr[t].owned[o] = 1
            => "early unref" \in liberties \/ Calling = {}
       /\ Unreferenced(t, o, "idle")
  /\ UNCHANGED <<library, locks, mutex, the, fc, calls, prepared>>

\* finalize, up to what transaction_end does: every function is unhooked.
Dispose(t) ==
  LET o == thr[t].obj IN
  /\ At(t, "dispose") /\ CanLock(t, o)
  /\ mutex' = Locked(t, o)
  /\ fc' = InState(ContextsAt(o, "hooked"), "unhooked")
  /\ obj' = [obj EXCEPT ![o].pending = {}]
  /\ thr' = [thr EXCEPT ![t].at = "release", ![t].dying = TRUE,
                        ![t].tasks = obj[o].pending \cup ContextsAt(o, "hooked")]
  /\ UNCHANGED <<library, locks, the, calls, prepared>>

ClearSingleton(t) ==
  /\ At(t, "clear") /\ locks.global = None
  /\ the' = IF the = thr[t].obj THEN None ELSE the
  /\ GoesTo(t, "destroy")
  /\ UNCHANGED <<library, locks, mutex, obj, fc, calls, prepared>>

DestroyWithoutTasks(t) == {}
RemainingTasks(t) == obj[thr[t].obj].pending

\* transaction_destroy runs the tasks that are left whatever the counters say.
Destroy(t) ==
  LET o == thr[t].obj IN
  /\ At(t, "destroy")
  /\ fc' = InState(RemainingTasks(t), "freed")
  /\ obj' = [obj EXCEPT ![o].at = "freed", ![o].pending = {}]
  /\ thr' = [thr EXCEPT ![t].at = thr[t].next, ![t].obj = None, ![t].dying = FALSE]
  /\ UNCHANGED <<library, locks, mutex, the, calls, prepared>>

-----------------------------------------------------------------------------
(* Hooks *)

Hook(t) ==
  /\ At(t, "idle") /\ inits > 0
  /\ \E o \in Objects, c \in Ctxs :
       /\ thr[t].owned[o] > 0 /\ CanLock(t, o)
       /\ fc[c].at = "new"
       /\ fc' = [fc EXCEPT ![c] = [of |-> o, at |-> "hooked", counter |-> 0]]
  /\ UNCHANGED <<library, locks, mutex, the, obj, calls, prepared, thr>>

\* detach, revert or flush (unhooked is empty) up to the release of the tasks.
Unhook(t) ==
  /\ At(t, "idle")
  /\ \E o \in Objects : \E unhooked \in SUBSET ContextsAt(o, "hooked") :
       /\ thr[t].owned[o] > 0 /\ CanLock(t, o)
       /\ unhooked \cup obj[o].pending # {}
       /\ mutex' = Locked(t, o)
       /\ fc' = InState(unhooked, "unhooked")
       /\ obj' = [obj EXCEPT ![o].pending = {}]
       /\ thr' = [thr EXCEPT ![t].at = "release", ![t].obj = o,
                             ![t].tasks = obj[o].pending \cup unhooked]
  /\ UNCHANGED <<library, locks, the, calls, prepared>>

\* A task whose context is in use is left for later; for another the lock is
\* given up while its notify runs.
Postpone(t) ==
  /\ At(t, "release")
  /\ \E c \in thr[t].tasks :
       /\ fc[c].counter # 0
       /\ thr' = [thr EXCEPT ![t].tasks = @ \ {c}]
       /\ obj' = [obj EXCEPT ![thr[t].obj].pending = @ \cup {c}]
  /\ UNCHANGED <<library, locks, mutex, the, fc, calls, prepared>>

ReleaseStarts(t) ==
  /\ At(t, "release")
  /\ \E c \in thr[t].tasks :
       /\ fc[c].counter = 0
       /\ thr' = [thr EXCEPT ![t].tasks = @ \ {c}, ![t].ctx = c, ![t].at = "notify"]
  /\ mutex' = Unlocked(thr[t].obj)
  /\ UNCHANGED <<library, locks, the, obj, fc, calls, prepared>>

ReleaseEnds(t) ==
  /\ At(t, "notify") /\ CanLock(t, thr[t].obj)
  /\ fc' = InState({thr[t].ctx}, "freed")
  /\ mutex' = Locked(t, thr[t].obj)
  /\ thr' = [thr EXCEPT ![t].ctx = None, ![t].at = "release"]
  /\ UNCHANGED <<library, locks, the, obj, calls, prepared>>

TransactionEnds(t) ==
  /\ At(t, "release") /\ thr[t].tasks = {}
  /\ mutex' = Unlocked(thr[t].obj)
  /\ thr' = [thr EXCEPT ![t].at = IF thr[t].dying THEN "clear" ELSE "idle",
                        ![t].obj = IF thr[t].dying THEN @ ELSE None]
  /\ UNCHANGED <<library, locks, the, obj, fc, calls, prepared>>

\* with_lock_held, or a transaction of the program.
HoldLock(t) ==
  /\ At(t, "idle") /\ ~thr[t].keeps
  /\ the # None /\ thr[t].owned[the] > 0 /\ CanLock(t, the)
  /\ mutex' = Locked(t, the)
  /\ thr' = [thr EXCEPT ![t].keeps = TRUE]
  /\ UNCHANGED <<library, locks, the, obj, fc, calls, prepared>>

YieldLock(t) ==
  /\ At(t, "idle") /\ thr[t].keeps
  /\ mutex' = Unlocked(the)
  /\ thr' = [thr EXCEPT ![t].keeps = FALSE]
  /\ UNCHANGED <<library, locks, the, obj, fc, calls, prepared>>

-----------------------------------------------------------------------------
(* Calls of hooked functions, and the contexts of threads *)

Fresh(t) == context[t] # None /\ context[t].generation = generation

CallBegins(t) ==
  /\ At(t, "idle") /\ Len(EntriesOf(t)) < MaxDepth
  /\ \E c \in Ctxs :
       /\ fc[c].at = "hooked"
       /\ "early unref" \in liberties \/ (inits > 0 /\ Owners(fc[c].of) # {})
       /\ fc' = [fc EXCEPT ![c].counter = @ + 1]
       /\ thr' = [thr EXCEPT ![t].at = "entering", ![t].ctx = c]
  /\ UNCHANGED <<library, locks, mutex, the, obj, calls, prepared>>

\* get_interceptor_thread_context, for a thread without a context or with one of
\* an earlier generation.
MakeContext(t) ==
  /\ At(t, "entering") /\ ~Fresh(t)
  /\ fc' = Released({t})
  /\ context' = [context EXCEPT ![t] = None]
  /\ thr' = [thr EXCEPT ![t].at = "adding", ![t].gen = generation]
  /\ UNCHANGED <<library, locks, mutex, the, obj, registry, prepared>>

AddContext(t) ==
  /\ At(t, "adding") /\ locks.spin = None /\ registry # None
  /\ registry' = registry \cup {t}
  /\ context' = [context EXCEPT ![t] = [generation |-> thr[t].gen, stack |-> <<>>]]
  /\ GoesTo(t, "entering")
  /\ UNCHANGED <<library, locks, mutex, the, obj, fc, prepared>>

Push(t) ==
  /\ At(t, "entering") /\ Fresh(t)
  /\ context' = [context EXCEPT ![t].stack = Append(@, thr[t].ctx)]
  /\ thr' = [thr EXCEPT ![t].at = "idle", ![t].ctx = None]
  /\ UNCHANGED <<library, locks, mutex, the, obj, fc, registry, prepared>>

CallEnds(t) ==
  LET n == Len(EntriesOf(t)) IN
  /\ At(t, "idle") /\ n > 0
  /\ fc' = [fc EXCEPT ![context[t].stack[n]].counter = @ - 1]
  /\ context' = [context EXCEPT ![t].stack = SubSeq(@, 1, n - 1)]
  /\ UNCHANGED <<library, locks, mutex, the, obj, registry, prepared, thr>>

\* release_interceptor_thread_context, as a thread ends.
ExitThread(t) ==
  /\ At(t, "idle") /\ ~thr[t].keeps /\ context[t] # None
  /\ locks.spin = None
  /\ registry' = IF registry = None THEN None ELSE registry \ {t}
  /\ fc' = Released({t})
  /\ context' = [context EXCEPT ![t] = None]
  /\ UNCHANGED <<library, locks, mutex, the, obj, prepared, thr>>

-----------------------------------------------------------------------------
(* fork *)

PrepareToFork(t) ==
  /\ At(t, "idle") /\ t \in Forkers /\ locks.lifecycle = None
  /\ thr[t].keeps => "held fork" \in liberties
  /\ locks' = [locks EXCEPT !.lifecycle = t]
  /\ GoesTo(t, "pin")
  /\ UNCHANGED <<library, mutex, the, obj, fc, calls, prepared>>

\* The singleton is referenced ...
NotPinned(o) == obj
Pinned(o) == IF o = None THEN obj ELSE [obj EXCEPT ![o].refs = @ + 1]

Pin(t) ==
  /\ At(t, "pin") /\ locks.global = None
  /\ Dying => "late obtain" \in liberties
  /\ obj' = Pinned(the)
  /\ thr' = [thr EXCEPT ![t].at = IF the = None THEN "locked" ELSE "pinned",
                        ![t].obj = the]
  /\ UNCHANGED <<library, locks, mutex, the, fc, calls, prepared>>

\* ... then locked ...
LockPinned(t) ==
  /\ At(t, "pinned") /\ CanLock(t, thr[t].obj)
  /\ mutex' = Locked(t, thr[t].obj)
  /\ GoesTo(t, "locked")
  /\ UNCHANGED <<library, locks, the, obj, fc, calls, prepared>>

\* ... and if it is the singleton still, everything is frozen.
Freeze(t) ==
  /\ At(t, "locked") /\ locks.global = None /\ the = thr[t].obj
  /\ locks.spin = None
  /\ locks' = [locks EXCEPT !.global = t, !.spin = t]
  /\ prepared' = the
  /\ GoesTo(t, "prepared")
  /\ UNCHANGED <<library, mutex, the, obj, fc, calls>>

TryAgain(t) ==
  /\ At(t, "locked") /\ locks.global = None /\ the # thr[t].obj
  /\ IF thr[t].obj = None
     THEN GoesTo(t, "pin") /\ UNCHANGED <<mutex, obj>>
     ELSE /\ mutex' = Unlocked(thr[t].obj)
          /\ Unreferenced(t, thr[t].obj, "pin")
  /\ UNCHANGED <<library, locks, the, fc, calls, prepared>>

\* unref at the end of the recovery, which is not for a reference of the program.
DropPin(t, o, threads) ==
  IF o = None
  THEN thr' = [threads EXCEPT ![t].at = "unlock", ![t].obj = None] /\ UNCHANGED obj
  ELSE /\ obj' = [obj EXCEPT ![o].refs = @ - 1]
       /\ thr' = [threads EXCEPT ![t].at = IF obj[o].refs = 1 THEN "dispose" ELSE "unlock",
                                 ![t].obj = IF obj[o].refs = 1 THEN o ELSE None,
                                 ![t].next = "unlock"]

RecoverInParent(t) ==
  /\ At(t, "prepared")
  /\ locks' = [locks EXCEPT !.global = None, !.spin = None]
  /\ mutex' = IF prepared = None THEN mutex ELSE Unlocked(prepared)
  /\ prepared' = None
  /\ DropPin(t, prepared, thr)
  /\ UNCHANGED <<library, the, fc, calls>>

\* The counters a child starts from: what the surviving thread is inside.
KeptCounters(t, pruned) == pruned
Recounted(t, pruned) ==
  LET own == EntriesOf(t)
      counted == ContextsAt(prepared, "hooked") \cup obj[prepared].pending
                   \cup {own[i] : i \in DOMAIN own} IN
  IF prepared = None THEN pruned
  ELSE [c \in Ctxs |-> IF c \in counted THEN [pruned[c] EXCEPT !.counter = TimesIn({t}, c)]
                       ELSE pruned[c]]

\* The child's replacements of the locks held when it came to be.
MutexKept(o) == mutex
MutexReplaced(o) ==
  IF o = None THEN mutex ELSE [mutex EXCEPT ![o] = [owner |-> None, depth |-> 0]]

RecoverInChild(t) ==
  LET vanished == Threads \ {t}
      pruned == IF registry = None THEN {} ELSE registry \ {t} IN
  /\ At(t, "prepared") /\ ~inChild
  /\ inChild' = TRUE
  /\ fc' = Recounted(t, Released(pruned))
  /\ registry' = IF registry = None THEN None ELSE registry \ pruned
  /\ context' = [u \in Threads |-> IF u = t THEN context[t] ELSE None]
  /\ locks' = [locks EXCEPT !.global = None, !.spin = None]
  /\ mutex' = MutexReplaced(prepared)
  /\ prepared' = None
  /\ DropPin(t, prepared, [u \in Threads |-> IF u = t THEN thr[t]
                                             ELSE [thr[u] EXCEPT !.at = "gone"]])
  /\ UNCHANGED <<liberties, inits, generation, the>>

Recovered(t) ==
  /\ At(t, "unlock")
  /\ locks' = [locks EXCEPT !.lifecycle = None]
  /\ thr' = [thr EXCEPT ![t].at = "idle", ![t].obj = None]
  /\ UNCHANGED <<library, mutex, the, obj, fc, calls, prepared>>

-----------------------------------------------------------------------------
Resting ==
  [at |-> "idle", obj |-> None, ctx |-> None, tasks |-> {}, dying |-> FALSE,
   next |-> "idle", gen |-> 0, keeps |-> FALSE, owned |-> [o \in Objects |-> 0]]

Init ==
  /\ liberties \in Programs
  /\ inChild = FALSE
  /\ inits = 0 /\ generation = 0
  /\ locks = [lifecycle |-> None, global |-> None, spin |-> None]
  /\ mutex = [o \in Objects |-> [owner |-> None, depth |-> 0]]
  /\ the = None
  /\ obj = [o \in Objects |-> [at |-> "new", refs |-> 0, pending |-> {}]]
  /\ fc = [c \in Ctxs |-> [of |-> None, at |-> "new", counter |-> 0]]
  /\ registry = None
  /\ context = [t \in Threads |-> None]
  /\ prepared = None
  /\ thr = [t \in Threads |-> Resting]

Next ==
  \E t \in Threads :
    \/ LibraryInit(t) \/ LibraryDeinit(t)
    \/ Obtain(t) \/ Unref(t) \/ Dispose(t) \/ ClearSingleton(t) \/ Destroy(t)
    \/ Hook(t) \/ Unhook(t)
    \/ Postpone(t) \/ ReleaseStarts(t) \/ ReleaseEnds(t) \/ TransactionEnds(t)
    \/ HoldLock(t) \/ YieldLock(t)
    \/ CallBegins(t) \/ MakeContext(t) \/ AddContext(t) \/ Push(t) \/ CallEnds(t)
    \/ ExitThread(t)
    \/ PrepareToFork(t) \/ Pin(t) \/ LockPinned(t) \/ Freeze(t) \/ TryAgain(t)
    \/ RecoverInParent(t) \/ RecoverInChild(t) \/ Recovered(t)

Spec == Init /\ [][Next]_vars

-----------------------------------------------------------------------------
(* Properties *)

LifecycleTypeOK ==
  /\ liberties \in Programs
  /\ inChild \in BOOLEAN
  /\ inits \in Nat /\ generation \in Nat
  /\ locks \in [lifecycle : Threads \cup {None}, global : Threads \cup {None},
                spin : Threads \cup {None}]
  /\ mutex \in [Objects -> [owner : Threads \cup {None}, depth : Int]]
  /\ the \in Objects \cup {None} /\ prepared \in Objects \cup {None}
  /\ obj \in [Objects -> Interceptor]
  /\ fc \in [Ctxs -> FunctionContext]
  /\ registry # None => registry \subseteq Threads
  /\ context \in [Threads -> ThreadContext \cup {None}]
  /\ thr \in [Threads -> Activity]

Careful == "early unref" \notin liberties

\* In a careful program nothing in use has been freed: no interceptor somebody
\* owns a reference of or works on, no function context that awaits its release,
\* is being entered or is on an invocation stack; and the contexts of threads that
\* the registry points to are there, of this generation.
InUseIsLive ==
  Careful =>
    /\ \A t \in Threads, o \in Objects :
         thr[t].owned[o] > 0 \/ (thr[t].obj = o /\ ~At(t, "gone")) => obj[o].at = "live"
    /\ \A t \in Threads : \A i \in DOMAIN EntriesOf(t) : fc[EntriesOf(t)[i]].at # "freed"
    /\ \A c \in Ctxs : Arriving(c) # {} => fc[c].at # "freed"
    /\ \A o \in Objects : \A c \in obj[o].pending : fc[c].at = "unhooked"
    /\ registry # None => \A t \in registry : Fresh(t)

\* The usage counter of a function context that can still be released counts the
\* calls in progress, in a child of fork those of the thread that survived: a
\* call of a thread that vanished keeps nothing, and none of its own is lost.
CountersMatchCalls ==
  Careful =>
    \A c \in Ctxs :
      (fc[c].at = "hooked" \/ \E o \in Objects : c \in obj[o].pending)
        => fc[c].counter = TimesIn(Threads, c) + Cardinality(Arriving(c))

\* A lock is held by a thread that exists and is where it will give it up.
HoldsMutex(t, o) ==
  \/ thr[t].keeps
  \/ thr[t].obj = o /\ thr[t].at \in {"release", "locked", "prepared"}

NoOrphanedLock ==
  /\ locks.global # None => At(locks.global, "prepared")
  /\ locks.spin # None => At(locks.spin, "prepared")
  /\ locks.lifecycle # None => ~At(locks.lifecycle, "idle") /\ ~At(locks.lifecycle, "gone")
  /\ the # None /\ mutex[the].owner # None
       => HoldsMutex(mutex[the].owner, the) /\ ~At(mutex[the].owner, "gone")
  /\ \A t \in Threads :
       thr[t].keeps /\ ~At(t, "gone") => mutex[the].owner = t

\* An interceptor that is gone has released all function contexts, also those
\* that were in use when their functions were unhooked.  (In a child of fork those
\* are lost that another thread was about to release.)
FinalizeReleasesAll ==
  \A c \in Ctxs :
    fc[c].of # None /\ obj[fc[c].of].at = "freed" /\ ~inChild => fc[c].at = "freed"

=============================================================================
