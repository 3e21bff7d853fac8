----------------------------- MODULE Lifecycle_proofs -----------------------------
(***************************************************************************)
(* Theorems about Lifecycle, for any number of threads, interceptors and   *)
(* function contexts.                                                      *)
(*                                                                         *)
(* CountInv holds whatever the program does: what a position promises, who *)
(* has the locks of a fork, and that an interceptor's reference count is   *)
(* the number of references there are.  The rest is for programs that do   *)
(* not obtain the singleton while its last reference is dropped            *)
(* (ObtainsInTime): an interceptor with references is the singleton, and   *)
(* one thread finalizes one that has none (ObjectInv); hooked functions    *)
(* are the singleton's (HooksInv), and a function context no longer hooked *)
(* is in one set of destroy tasks (TasksInv).                              *)
(*                                                                         *)
(* LockInv, for programs that do not fork with the lock held either        *)
(* (LocksNotKept), says who has locked an interceptor how often.           *)
(* CarefulInv, for careful programs, is about the calls in progress: that  *)
(* they keep library and interceptor up (CallsInv), that what they use is  *)
(* there (UsedInv), and that the counters count them (ExactInv).           *)
(***************************************************************************)
EXTENDS Lifecycle, FiniteSetTheorems, SequenceTheorems, TLAPS

-----------------------------------------------------------------------------
(* The inductive invariant *)

ForkSteps == {"pin", "pinned", "locked", "prepared", "unlock"}
PinSteps == {"pinned", "locked", "prepared"}
ReleaseSteps == {"release", "notify"}
FinalSteps == {"dispose", "clear", "destroy"}

\* A thread finalizes its interceptor.
IsDying(a) == a.at \in FinalSteps \/ (a.at \in ReleaseSteps /\ a.dying)

\* What a thread works on is what its position says.
Proper(a) ==
  /\ a.at \in {"idle", "entering", "adding", "pin", "unlock"} => a.obj = None
  /\ a.at \in ReleaseSteps \cup FinalSteps \cup {"pinned"} => a.obj # None
  /\ a.at \notin ReleaseSteps \cup {"gone"} => a.tasks = {}
  /\ a.at \notin ReleaseSteps \cup {"clear", "destroy", "gone"} => ~a.dying
  /\ a.at \in {"entering", "adding", "notify"} => a.ctx # None
  /\ a.at \in ReleaseSteps /\ ~a.dying => a.owned[a.obj] > 0
TypeInv == LifecycleTypeOK /\ \A t \in Threads : Proper(thr[t])

\* The thread that forks has the lifecycle lock, from before it pins the
\* singleton until after it has dropped it, and finalized it if need be.
InFork(a) == a.at \in ForkSteps \/ (IsDying(a) /\ a.next # "idle")
ForkInv ==
  /\ \A t \in Threads : InFork(thr[t]) => locks.lifecycle = t
  /\ locks.lifecycle # None => InFork(thr[locks.lifecycle])
  /\ locks.global = locks.spin
  /\ locks.global # None => At(locks.global, "prepared")
  /\ \A t \in Threads : At(t, "prepared") =>
       locks.global = t /\ prepared = thr[t].obj /\ the = prepared

\* A reference is one a thread owns, numbered from 1, or its pin.
Pins(a, o) == a.at \in PinSteps /\ a.obj = o
References(o) ==
  {r \in Threads \X Nat :
     IF r[2] = 0 THEN Pins(thr[r[1]], o) ELSE r[2] <= thr[r[1]].owned[o]}
RefsInv ==
  \A o \in Objects : IsFiniteSet(References(o)) /\ obj[o].refs = Cardinality(References(o))

\* An interceptor with references is the singleton; one without is finalized,
\* by one thread, which clears the singleton before it destroys it.
ObjectInv ==
  /\ \A o \in Objects : obj[o].refs # 0 => the = o
  /\ the # None => obj[the].at = "live"
  /\ \A t \in Threads : IsDying(thr[t]) =>
       /\ obj[thr[t].obj].at = "live" /\ obj[thr[t].obj].refs = 0
       /\ the = thr[t].obj <=> ~At(t, "destroy")
       /\ \A u \in Threads : IsDying(thr[u]) /\ thr[u].obj = thr[t].obj => u = t

-----------------------------------------------------------------------------
(* Typing *)

LEMMA EntriesAre ==
  ASSUME LifecycleTypeOK, NEW t \in Threads
  PROVE  /\ EntriesOf(t) \in Seq(Ctxs)
         /\ IsFiniteSet(DOMAIN EntriesOf(t))
         /\ DOMAIN EntriesOf(t) = 1 .. Len(EntriesOf(t))
<1>1. EntriesOf(t) \in Seq(Ctxs)
  BY DEF EntriesOf, LifecycleTypeOK, ThreadContext
<1>2. DOMAIN EntriesOf(t) = 1 .. Len(EntriesOf(t)) /\ Len(EntriesOf(t)) \in Nat
  BY <1>1
<1> QED
  BY <1>1, <1>2, FS_Interval

LEMMA PlacesAre ==
  ASSUME LifecycleTypeOK, NEW S \in SUBSET Threads, NEW c
  PROVE  /\ IsFiniteSet(Places(S, c))
         /\ TimesIn(S, c) \in Nat
<1> DEFINE at == [t \in S |-> {t} \X {i \in DOMAIN EntriesOf(t) : EntriesOf(t)[i] = c}]
           all == {at[t] : t \in S}
<1>1. \A t \in S : IsFiniteSet(at[t])
  <2> SUFFICES ASSUME NEW t \in S PROVE IsFiniteSet(at[t])
    OBVIOUS
  <2>1. IsFiniteSet({i \in DOMAIN EntriesOf(t) : EntriesOf(t)[i] = c})
    BY EntriesAre, FS_Subset
  <2> QED
    BY <2>1, FS_Singleton, FS_Product
<1>2. IsFiniteSet(S)
  BY FS_Subset, ConstantsAssumption
<1>3. at \in Surjection(S, all)
  BY DEF Surjection
<1>4. IsFiniteSet(all)
  BY <1>2, <1>3, FS_Surjection
<1>5. IsFiniteSet(UNION all)
  BY <1>1, <1>4, FS_UNION
<1>6. Places(S, c) = UNION all
  BY DEF Places
<1>7. IsFiniteSet(Places(S, c))
  BY <1>5, <1>6
<1> QED
  BY <1>7, FS_CardinalityType DEF TimesIn

LEMMA ReleasedAre ==
  ASSUME LifecycleTypeOK, NEW S \in SUBSET Threads
  PROVE  /\ Released(S) \in [Ctxs -> FunctionContext]
         /\ \A c \in Ctxs : Released(S)[c] = [fc[c] EXCEPT !.counter = @ - TimesIn(S, c)]
         /\ \A c \in Ctxs : Released(S)[c].at = fc[c].at /\ Released(S)[c].of = fc[c].of
         /\ \A c \in Ctxs : Released(S)[c].counter = fc[c].counter - TimesIn(S, c)
<1>1. \A c \in Ctxs : TimesIn(S, c) \in Nat
  BY PlacesAre
<1>2. \A c \in Ctxs : fc[c] \in FunctionContext
  BY DEF LifecycleTypeOK
<1>3. \A c \in Ctxs : fc[c].counter \in Int
  BY <1>2 DEF FunctionContext
<1>4. \A c \in Ctxs : fc[c].counter - TimesIn(S, c) \in Int
  BY <1>1, <1>3
<1>5. \A c \in Ctxs : Released(S)[c] = [fc[c] EXCEPT !.counter = fc[c].counter - TimesIn(S, c)]
  BY DEF Released
<1>. HIDE DEF Released
<1>6. \A c \in Ctxs : Released(S)[c] \in FunctionContext
  BY <1>2, <1>4, <1>5 DEF FunctionContext
<1>7. \A c \in Ctxs : /\ Released(S)[c].at = fc[c].at /\ Released(S)[c].of = fc[c].of
                      /\ Released(S)[c].counter = fc[c].counter - TimesIn(S, c)
  BY <1>2, <1>5 DEF FunctionContext
<1>8. Released(S) = [c \in Ctxs |-> Released(S)[c]]
  BY DEF Released
<1>9. Released(S) \in [Ctxs -> FunctionContext]
  BY <1>6, <1>8
<1> QED
  BY <1>5, <1>7, <1>9

LEMMA InStateAre ==
  ASSUME LifecycleTypeOK, NEW S, NEW where \in {"new", "hooked", "unhooked", "freed"}
  PROVE  /\ InState(S, where) \in [Ctxs -> FunctionContext]
         /\ \A c \in Ctxs : /\ InState(S, where)[c].of = fc[c].of
                            /\ InState(S, where)[c].counter = fc[c].counter
                            /\ InState(S, where)[c].at = IF c \in S THEN where ELSE fc[c].at
<1>1. \A c \in Ctxs : fc[c] \in FunctionContext
  BY DEF LifecycleTypeOK
<1>2. \A c \in Ctxs : InState(S, where)[c] =
        IF c \in S THEN [fc[c] EXCEPT !.at = where] ELSE fc[c]
  BY DEF InState
<1>3. \A c \in Ctxs : [fc[c] EXCEPT !.at = where] \in FunctionContext
  BY <1>1 DEF FunctionContext
<1>4. InState(S, where) \in [Ctxs -> FunctionContext]
  BY <1>1, <1>3 DEF InState
<1> QED
  BY <1>1, <1>2, <1>4 DEF FunctionContext

LEMMA MutexAre ==
  ASSUME LifecycleTypeOK, NEW t \in Threads, NEW o \in Objects
  PROVE  /\ Locked(t, o) \in [Objects -> [owner : Threads \cup {None}, depth : Int]]
         /\ Unlocked(o) \in [Objects -> [owner : Threads \cup {None}, depth : Int]]
         /\ \A p \in Objects : p # o => Locked(t, o)[p] = mutex[p] /\ Unlocked(o)[p] = mutex[p]
         /\ Locked(t, o)[o].owner = t /\ Locked(t, o)[o].depth = mutex[o].depth + 1
         /\ Unlocked(o)[o].owner = IF mutex[o].depth = 1 THEN None ELSE mutex[o].owner
         /\ Unlocked(o)[o].depth = mutex[o].depth - 1
<1>1. mutex \in [Objects -> [owner : Threads \cup {None}, depth : Int]]
  BY DEF LifecycleTypeOK
<1>2. mutex[o].depth + 1 \in Int /\ mutex[o].depth - 1 \in Int
  BY <1>1
<1> QED
  BY <1>1, <1>2 DEF Locked, Unlocked

\* Thread t alone moves.
OneMoves(t) ==
  /\ thr' \in [Threads -> Activity] /\ Proper(thr'[t])
  /\ \A u \in Threads : u # t => thr'[u] = thr[u]

LEMMA DisposeMoves ==
  ASSUME TypeInv, NEW t \in Threads, Dispose(t)
  PROVE  /\ OneMoves(t)
         /\ thr[t].at = "dispose"
         /\ thr'[t].at = "release"
         /\ thr'[t].tasks = obj[thr[t].obj].pending \cup ContextsAt(thr[t].obj, "hooked")
         /\ thr'[t].dying = TRUE
         /\ thr'[t].obj = thr[t].obj /\ thr'[t].ctx = thr[t].ctx /\ thr'[t].next = thr[t].next
         /\ thr'[t].gen = thr[t].gen /\ thr'[t].keeps = thr[t].keeps
         /\ thr'[t].owned = thr[t].owned
<1>1. thr \in [Threads -> Activity] /\ thr[t] \in Activity /\ Proper(thr[t])
  BY DEF TypeInv, LifecycleTypeOK
<1>2. thr' = [thr EXCEPT ![t].at = "release",
                         ![t].dying = TRUE,
                          ![t].tasks = obj[thr[t].obj].pending
                                         \cup ContextsAt(thr[t].obj, "hooked")]
  BY DEF Dispose, GoesTo
<1>3. /\ obj[thr[t].obj].pending \cup ContextsAt(thr[t].obj, "hooked") \in SUBSET Ctxs
      /\ thr[t].obj \in Objects
  BY <1>1 DEF TypeInv, LifecycleTypeOK, Interceptor, ContextsAt, Dispose, At, Proper,
        FinalSteps, Activity
<1>4. thr'[t] = [thr[t] EXCEPT !.at = "release",
                               !.dying = TRUE,
                                !.tasks = obj[thr[t].obj].pending
                                            \cup ContextsAt(thr[t].obj, "hooked")]
  BY <1>1, <1>2
<1>5. thr'[t] \in Activity
  BY <1>1, <1>3, <1>2, <1>4 DEF Activity
<1>6. /\ thr'[t].at = "release"
      /\ thr'[t].tasks = obj[thr[t].obj].pending \cup ContextsAt(thr[t].obj, "hooked")
      /\ thr'[t].dying = TRUE
      /\ thr'[t].obj = thr[t].obj /\ thr'[t].ctx = thr[t].ctx /\ thr'[t].next = thr[t].next
      /\ thr'[t].gen = thr[t].gen /\ thr'[t].keeps = thr[t].keeps /\ thr'[t].owned = thr[t].owned
  BY <1>1, <1>4 DEF Activity
<1>7. thr[t].at = "dispose"
  BY DEF Dispose, At
<1>8. Proper(thr'[t])
  BY <1>1, <1>3, <1>2, <1>6, <1>7, ConstantsAssumption DEF Proper, ReleaseSteps, FinalSteps,
        Activity
<1>9. thr' \in [Threads -> Activity] /\ \A u \in Threads : u # t => thr'[u] = thr[u]
  BY <1>1, <1>2, <1>5
<1> QED
  BY <1>2, <1>6, <1>7, <1>8, <1>9, <1>3 DEF OneMoves

LEMMA ClearSingletonMoves ==
  ASSUME TypeInv, NEW t \in Threads, ClearSingleton(t)
  PROVE  /\ OneMoves(t)
         /\ thr[t].at = "clear"
         /\ thr'[t].at = "destroy"
         /\ thr'[t].obj = thr[t].obj /\ thr'[t].ctx = thr[t].ctx /\ thr'[t].tasks = thr[t].tasks
         /\ thr'[t].dying = thr[t].dying /\ thr'[t].next = thr[t].next
         /\ thr'[t].gen = thr[t].gen
         /\ thr'[t].keeps = thr[t].keeps /\ thr'[t].owned = thr[t].owned
<1>1. thr \in [Threads -> Activity] /\ thr[t] \in Activity /\ Proper(thr[t])
  BY DEF TypeInv, LifecycleTypeOK
<1>2. thr' = [thr EXCEPT ![t].at = "destroy"]
  BY DEF ClearSingleton, GoesTo
<1>4. thr'[t] = [thr[t] EXCEPT !.at = "destroy"]
  BY <1>1, <1>2
<1>5. thr'[t] \in Activity
  BY <1>1, <1>2, <1>4 DEF Activity
<1>6. /\ thr'[t].at = "destroy"
      /\ thr'[t].obj = thr[t].obj /\ thr'[t].ctx = thr[t].ctx /\ thr'[t].tasks = thr[t].tasks
      /\ thr'[t].dying = thr[t].dying /\ thr'[t].next = thr[t].next /\ thr'[t].gen = thr[t].gen
      /\ thr'[t].keeps = thr[t].keeps /\ thr'[t].owned = thr[t].owned
  BY <1>1, <1>4 DEF Activity
<1>7. thr[t].at = "clear"
  BY DEF ClearSingleton, At
<1>8. Proper(thr'[t])
  BY <1>1, <1>2, <1>6, <1>7, ConstantsAssumption DEF Proper, ReleaseSteps, FinalSteps, Activity
<1>9. thr' \in [Threads -> Activity] /\ \A u \in Threads : u # t => thr'[u] = thr[u]
  BY <1>1, <1>2, <1>5
<1> QED
  BY <1>2, <1>6, <1>7, <1>8, <1>9 DEF OneMoves

LEMMA DestroyMoves ==
  ASSUME TypeInv, NEW t \in Threads, Destroy(t)
  PROVE  /\ OneMoves(t)
         /\ thr[t].at = "destroy"
         /\ thr'[t].at = thr[t].next
         /\ thr'[t].obj = None
         /\ thr'[t].dying = FALSE
         /\ thr'[t].ctx = thr[t].ctx /\ thr'[t].tasks = thr[t].tasks
         /\ thr'[t].next = thr[t].next
         /\ thr'[t].gen = thr[t].gen /\ thr'[t].keeps = thr[t].keeps
         /\ thr'[t].owned = thr[t].owned
<1>1. thr \in [Threads -> Activity] /\ thr[t] \in Activity /\ Proper(thr[t])
  BY DEF TypeInv, LifecycleTypeOK
<1>2. thr' = [thr EXCEPT ![t].at = thr[t].next, ![t].obj = None, ![t].dying = FALSE]
  BY DEF Destroy, GoesTo
<1>4. thr'[t] = [thr[t] EXCEPT !.at = thr[t].next, !.obj = None, !.dying = FALSE]
  BY <1>1, <1>2
<1>5. thr'[t] \in Activity
  BY <1>1, <1>2, <1>4 DEF Activity
<1>6. /\ thr'[t].at = thr[t].next
      /\ thr'[t].obj = None
      /\ thr'[t].dying = FALSE
      /\ thr'[t].ctx = thr[t].ctx /\ thr'[t].tasks = thr[t].tasks /\ thr'[t].next = thr[t].next
      /\ thr'[t].gen = thr[t].gen /\ thr'[t].keeps = thr[t].keeps /\ thr'[t].owned = thr[t].owned
  BY <1>1, <1>4 DEF Activity
<1>7. thr[t].at = "destroy"
  BY DEF Destroy, At
<1>8. Proper(thr'[t])
  BY <1>1, <1>2, <1>6, <1>7, ConstantsAssumption DEF Proper, ReleaseSteps, FinalSteps, Activity
<1>9. thr' \in [Threads -> Activity] /\ \A u \in Threads : u # t => thr'[u] = thr[u]
  BY <1>1, <1>2, <1>5
<1> QED
  BY <1>2, <1>6, <1>7, <1>8, <1>9 DEF OneMoves

LEMMA UnhookMoves ==
  ASSUME TypeInv, NEW t \in Threads, Unhook(t)
  PROVE  \E o \in Objects : \E unhooked \in SUBSET Ctxs :
           /\ OneMoves(t)
           /\ thr[t].at = "idle"
           /\ unhooked \subseteq ContextsAt(o, "hooked")
           /\ thr[t].owned[o] > 0 /\ CanLock(t, o)
           /\ mutex' = Locked(t, o)
           /\ fc' = InState(unhooked, "unhooked")
           /\ obj' = [obj EXCEPT ![o].pending = {}]
           /\ thr'[t].at = "release"
           /\ thr'[t].obj = o
           /\ thr'[t].tasks = obj[o].pending \cup unhooked
           /\ thr'[t].ctx = thr[t].ctx /\ thr'[t].dying = thr[t].dying
           /\ thr'[t].next = thr[t].next
           /\ thr'[t].gen = thr[t].gen /\ thr'[t].keeps = thr[t].keeps
           /\ thr'[t].owned = thr[t].owned
<1>1. thr \in [Threads -> Activity] /\ thr[t] \in Activity /\ Proper(thr[t])
  BY DEF TypeInv, LifecycleTypeOK
<1>2. PICK o \in Objects, unhooked \in SUBSET Ctxs :
        /\ unhooked \subseteq ContextsAt(o, "hooked")
        /\ thr[t].owned[o] > 0 /\ CanLock(t, o)
        /\ mutex' = Locked(t, o)
        /\ fc' = InState(unhooked, "unhooked")
        /\ obj' = [obj EXCEPT ![o].pending = {}]
        /\ thr' = [thr EXCEPT ![t].at = "release", ![t].obj = o,
                              ![t].tasks = obj[o].pending \cup unhooked]
  BY DEF Unhook, ContextsAt
<1>3. /\ obj[o].pending \cup unhooked \in SUBSET Ctxs
      /\ thr[t].owned[o] > 0 /\ o # None
  BY <1>2, ConstantsAssumption DEF TypeInv, LifecycleTypeOK, Interceptor, ContextsAt
<1>4. thr'[t] = [thr[t] EXCEPT !.at = "release", !.obj = o,
                               !.tasks = obj[o].pending \cup unhooked]
  BY <1>1, <1>2
<1>5. thr'[t] \in Activity
  BY <1>1, <1>3, <1>2, <1>4 DEF Activity
<1>6. /\ thr'[t].at = "release"
      /\ thr'[t].obj = o
      /\ thr'[t].tasks = obj[o].pending \cup unhooked
      /\ thr'[t].ctx = thr[t].ctx /\ thr'[t].dying = thr[t].dying /\ thr'[t].next = thr[t].next
      /\ thr'[t].gen = thr[t].gen /\ thr'[t].keeps = thr[t].keeps /\ thr'[t].owned = thr[t].owned
  BY <1>1, <1>4 DEF Activity
<1>7. thr[t].at = "idle"
  BY DEF Unhook, At
<1>8. Proper(thr'[t])
  BY <1>1, <1>3, <1>6, <1>7, ConstantsAssumption DEF Proper, ReleaseSteps, FinalSteps, Activity
<1>9. thr' \in [Threads -> Activity] /\ \A u \in Threads : u # t => thr'[u] = thr[u]
  BY <1>1, <1>2, <1>5
<1> QED
  BY <1>2, <1>6, <1>7, <1>8, <1>9, <1>3 DEF OneMoves

LEMMA PostponeMoves ==
  ASSUME TypeInv, NEW t \in Threads, Postpone(t)
  PROVE  \E c \in thr[t].tasks :
           /\ OneMoves(t)
           /\ thr[t].at = "release"
           /\ fc[c].counter # 0
           /\ obj' = [obj EXCEPT ![thr[t].obj].pending = @ \cup {c}]
           /\ thr'[t].tasks = thr[t].tasks \ {c}
           /\ thr'[t].at = thr[t].at /\ thr'[t].obj = thr[t].obj /\ thr'[t].ctx = thr[t].ctx
           /\ thr'[t].dying = thr[t].dying /\ thr'[t].next = thr[t].next
           /\ thr'[t].gen = thr[t].gen
           /\ thr'[t].keeps = thr[t].keeps /\ thr'[t].owned = thr[t].owned
<1>1. thr \in [Threads -> Activity] /\ thr[t] \in Activity /\ Proper(thr[t])
  BY DEF TypeInv, LifecycleTypeOK
<1>2. PICK c \in thr[t].tasks :
        /\ fc[c].counter # 0
        /\ obj' = [obj EXCEPT ![thr[t].obj].pending = @ \cup {c}]
        /\ thr' = [thr EXCEPT ![t].tasks = thr[t].tasks \ {c}]
  BY DEF Postpone
<1>4. thr'[t] = [thr[t] EXCEPT !.tasks = thr[t].tasks \ {c}]
  BY <1>1, <1>2
<1>5. thr'[t] \in Activity
  BY <1>1, <1>2, <1>4 DEF Activity
<1>6. /\ thr'[t].tasks = thr[t].tasks \ {c}
      /\ thr'[t].at = thr[t].at /\ thr'[t].obj = thr[t].obj /\ thr'[t].ctx = thr[t].ctx
      /\ thr'[t].dying = thr[t].dying /\ thr'[t].next = thr[t].next /\ thr'[t].gen = thr[t].gen
      /\ thr'[t].keeps = thr[t].keeps /\ thr'[t].owned = thr[t].owned
  BY <1>1, <1>4 DEF Activity
<1>7. thr[t].at = "release"
  BY DEF Postpone, At
<1>8. Proper(thr'[t])
  BY <1>1, <1>2, <1>6, <1>7, ConstantsAssumption DEF Proper, ReleaseSteps, FinalSteps, Activity
<1>9. thr' \in [Threads -> Activity] /\ \A u \in Threads : u # t => thr'[u] = thr[u]
  BY <1>1, <1>2, <1>5
<1> QED
  BY <1>2, <1>6, <1>7, <1>8, <1>9 DEF OneMoves

LEMMA ReleaseStartsMoves ==
  ASSUME TypeInv, NEW t \in Threads, ReleaseStarts(t)
  PROVE  \E c \in thr[t].tasks :
           /\ OneMoves(t)
           /\ thr[t].at = "release"
           /\ fc[c].counter = 0
           /\ thr'[t].tasks = thr[t].tasks \ {c}
           /\ thr'[t].ctx = c
           /\ thr'[t].at = "notify"
           /\ thr'[t].obj = thr[t].obj /\ thr'[t].dying = thr[t].dying
           /\ thr'[t].next = thr[t].next
           /\ thr'[t].gen = thr[t].gen /\ thr'[t].keeps = thr[t].keeps
           /\ thr'[t].owned = thr[t].owned
<1>1. thr \in [Threads -> Activity] /\ thr[t] \in Activity /\ Proper(thr[t])
  BY DEF TypeInv, LifecycleTypeOK
<1>2. PICK c \in thr[t].tasks :
        /\ fc[c].counter = 0
        /\ thr' = [thr EXCEPT ![t].tasks = thr[t].tasks \ {c}, ![t].ctx = c, ![t].at = "notify"]
  BY DEF ReleaseStarts
<1>3. c \in Ctxs /\ c # None
  <2>1. thr[t].tasks \in SUBSET Ctxs
    BY <1>1 DEF Activity
  <2> QED
    BY <2>1, <1>2, ConstantsAssumption
<1>4. thr'[t] = [thr[t] EXCEPT !.tasks = thr[t].tasks \ {c}, !.ctx = c, !.at = "notify"]
  BY <1>1, <1>2
<1>5. thr'[t] \in Activity
  BY <1>1, <1>3, <1>2, <1>4 DEF Activity
<1>6. /\ thr'[t].tasks = thr[t].tasks \ {c}
      /\ thr'[t].ctx = c
      /\ thr'[t].at = "notify"
      /\ thr'[t].obj = thr[t].obj /\ thr'[t].dying = thr[t].dying /\ thr'[t].next = thr[t].next
      /\ thr'[t].gen = thr[t].gen /\ thr'[t].keeps = thr[t].keeps /\ thr'[t].owned = thr[t].owned
  BY <1>1, <1>4 DEF Activity
<1>7. thr[t].at = "release"
  BY DEF ReleaseStarts, At
<1>8. Proper(thr'[t])
  BY <1>1, <1>3, <1>6, <1>7, ConstantsAssumption DEF Proper, ReleaseSteps, FinalSteps, Activity
<1>9. thr' \in [Threads -> Activity] /\ \A u \in Threads : u # t => thr'[u] = thr[u]
  BY <1>1, <1>2, <1>5
<1> QED
  BY <1>2, <1>6, <1>7, <1>8, <1>9, <1>3 DEF OneMoves

LEMMA ReleaseEndsMoves ==
  ASSUME TypeInv, NEW t \in Threads, ReleaseEnds(t)
  PROVE  /\ OneMoves(t)
         /\ thr[t].at = "notify"
         /\ thr'[t].at = "release"
         /\ thr'[t].ctx = None
         /\ thr'[t].obj = thr[t].obj /\ thr'[t].tasks = thr[t].tasks
         /\ thr'[t].dying = thr[t].dying
         /\ thr'[t].next = thr[t].next /\ thr'[t].gen = thr[t].gen
         /\ thr'[t].keeps = thr[t].keeps
         /\ thr'[t].owned = thr[t].owned
<1>1. thr \in [Threads -> Activity] /\ thr[t] \in Activity /\ Proper(thr[t])
  BY DEF TypeInv, LifecycleTypeOK
<1>2. thr' = [thr EXCEPT ![t].at = "release", ![t].ctx = None]
  BY DEF ReleaseEnds, GoesTo
<1>4. thr'[t] = [thr[t] EXCEPT !.at = "release", !.ctx = None]
  BY <1>1, <1>2
<1>5. thr'[t] \in Activity
  BY <1>1, <1>2, <1>4 DEF Activity
<1>6. /\ thr'[t].at = "release"
      /\ thr'[t].ctx = None
      /\ thr'[t].obj = thr[t].obj /\ thr'[t].tasks = thr[t].tasks /\ thr'[t].dying = thr[t].dying
      /\ thr'[t].next = thr[t].next /\ thr'[t].gen = thr[t].gen /\ thr'[t].keeps = thr[t].keeps
      /\ thr'[t].owned = thr[t].owned
  BY <1>1, <1>4 DEF Activity
<1>7. thr[t].at = "notify"
  BY DEF ReleaseEnds, At
<1>8. Proper(thr'[t])
  BY <1>1, <1>2, <1>6, <1>7, ConstantsAssumption DEF Proper, ReleaseSteps, FinalSteps, Activity
<1>9. thr' \in [Threads -> Activity] /\ \A u \in Threads : u # t => thr'[u] = thr[u]
  BY <1>1, <1>2, <1>5
<1> QED
  BY <1>2, <1>6, <1>7, <1>8, <1>9 DEF OneMoves

LEMMA TransactionEndsMoves ==
  ASSUME TypeInv, NEW t \in Threads, TransactionEnds(t)
  PROVE  /\ OneMoves(t)
         /\ thr[t].at = "release" /\ thr[t].tasks = {}
         /\ thr'[t].at = IF thr[t].dying THEN "clear" ELSE "idle"
         /\ thr'[t].obj = IF thr[t].dying THEN thr[t].obj ELSE None
         /\ thr'[t].ctx = thr[t].ctx /\ thr'[t].tasks = thr[t].tasks
         /\ thr'[t].dying = thr[t].dying
         /\ thr'[t].next = thr[t].next /\ thr'[t].gen = thr[t].gen
         /\ thr'[t].keeps = thr[t].keeps
         /\ thr'[t].owned = thr[t].owned
<1>1. thr \in [Threads -> Activity] /\ thr[t] \in Activity /\ Proper(thr[t])
  BY DEF TypeInv, LifecycleTypeOK
<1>2. thr' = [thr EXCEPT ![t].at = IF thr[t].dying THEN "clear" ELSE "idle",
                         ![t].obj = IF thr[t].dying THEN thr[t].obj ELSE None]
  BY DEF TransactionEnds, GoesTo
<1>4. thr'[t] = [thr[t] EXCEPT !.at = IF thr[t].dying THEN "clear" ELSE "idle",
                               !.obj = IF thr[t].dying THEN thr[t].obj ELSE None]
  BY <1>1, <1>2
<1>5. thr'[t] \in Activity
  BY <1>1, <1>2, <1>4 DEF Activity
<1>6. /\ thr'[t].at = IF thr[t].dying THEN "clear" ELSE "idle"
      /\ thr'[t].obj = IF thr[t].dying THEN thr[t].obj ELSE None
      /\ thr'[t].ctx = thr[t].ctx /\ thr'[t].tasks = thr[t].tasks /\ thr'[t].dying = thr[t].dying
      /\ thr'[t].next = thr[t].next /\ thr'[t].gen = thr[t].gen /\ thr'[t].keeps = thr[t].keeps
      /\ thr'[t].owned = thr[t].owned
  BY <1>1, <1>4 DEF Activity
<1>7. thr[t].at = "release" /\ thr[t].tasks = {}
  BY DEF TransactionEnds, At
<1>8. Proper(thr'[t])
  BY <1>1, <1>6, <1>7, ConstantsAssumption DEF Proper, ReleaseSteps, FinalSteps, Activity
<1>9. thr' \in [Threads -> Activity] /\ \A u \in Threads : u # t => thr'[u] = thr[u]
  BY <1>1, <1>2, <1>5
<1> QED
  BY <1>2, <1>6, <1>7, <1>8, <1>9 DEF OneMoves

LEMMA HoldLockMoves ==
  ASSUME TypeInv, NEW t \in Threads, HoldLock(t)
  PROVE  /\ OneMoves(t)
         /\ thr[t].at = "idle"
         /\ thr'[t].keeps = TRUE
         /\ thr'[t].at = thr[t].at /\ thr'[t].obj = thr[t].obj /\ thr'[t].ctx = thr[t].ctx
         /\ thr'[t].tasks = thr[t].tasks /\ thr'[t].dying = thr[t].dying
         /\ thr'[t].next = thr[t].next
         /\ thr'[t].gen = thr[t].gen /\ thr'[t].owned = thr[t].owned
<1>1. thr \in [Threads -> Activity] /\ thr[t] \in Activity /\ Proper(thr[t])
  BY DEF TypeInv, LifecycleTypeOK
<1>2. thr' = [thr EXCEPT ![t].keeps = TRUE]
  BY DEF HoldLock, GoesTo
<1>4. thr'[t] = [thr[t] EXCEPT !.keeps = TRUE]
  BY <1>1, <1>2
<1>5. thr'[t] \in Activity
  BY <1>1, <1>2, <1>4 DEF Activity
<1>6. /\ thr'[t].keeps = TRUE
      /\ thr'[t].at = thr[t].at /\ thr'[t].obj = thr[t].obj /\ thr'[t].ctx = thr[t].ctx
      /\ thr'[t].tasks = thr[t].tasks /\ thr'[t].dying = thr[t].dying
      /\ thr'[t].next = thr[t].next
      /\ thr'[t].gen = thr[t].gen /\ thr'[t].owned = thr[t].owned
  BY <1>1, <1>4 DEF Activity
<1>7. thr[t].at = "idle"
  BY DEF HoldLock, At
<1>8. Proper(thr'[t])
  BY <1>1, <1>2, <1>6, <1>7, ConstantsAssumption DEF Proper, ReleaseSteps, FinalSteps, Activity
<1>9. thr' \in [Threads -> Activity] /\ \A u \in Threads : u # t => thr'[u] = thr[u]
  BY <1>1, <1>2, <1>5
<1> QED
  BY <1>2, <1>6, <1>7, <1>8, <1>9 DEF OneMoves

LEMMA YieldLockMoves ==
  ASSUME TypeInv, NEW t \in Threads, YieldLock(t)
  PROVE  /\ OneMoves(t)
         /\ thr[t].at = "idle"
         /\ thr'[t].keeps = FALSE
         /\ thr'[t].at = thr[t].at /\ thr'[t].obj = thr[t].obj /\ thr'[t].ctx = thr[t].ctx
         /\ thr'[t].tasks = thr[t].tasks /\ thr'[t].dying = thr[t].dying
         /\ thr'[t].next = thr[t].next
         /\ thr'[t].gen = thr[t].gen /\ thr'[t].owned = thr[t].owned
<1>1. thr \in [Threads -> Activity] /\ thr[t] \in Activity /\ Proper(thr[t])
  BY DEF TypeInv, LifecycleTypeOK
<1>2. thr' = [thr EXCEPT ![t].keeps = FALSE]
  BY DEF YieldLock, GoesTo
<1>4. thr'[t] = [thr[t] EXCEPT !.keeps = FALSE]
  BY <1>1, <1>2
<1>5. thr'[t] \in Activity
  BY <1>1, <1>2, <1>4 DEF Activity
<1>6. /\ thr'[t].keeps = FALSE
      /\ thr'[t].at = thr[t].at /\ thr'[t].obj = thr[t].obj /\ thr'[t].ctx = thr[t].ctx
      /\ thr'[t].tasks = thr[t].tasks /\ thr'[t].dying = thr[t].dying
      /\ thr'[t].next = thr[t].next
      /\ thr'[t].gen = thr[t].gen /\ thr'[t].owned = thr[t].owned
  BY <1>1, <1>4 DEF Activity
<1>7. thr[t].at = "idle"
  BY DEF YieldLock, At
<1>8. Proper(thr'[t])
  BY <1>1, <1>2, <1>6, <1>7, ConstantsAssumption DEF Proper, ReleaseSteps, FinalSteps, Activity
<1>9. thr' \in [Threads -> Activity] /\ \A u \in Threads : u # t => thr'[u] = thr[u]
  BY <1>1, <1>2, <1>5
<1> QED
  BY <1>2, <1>6, <1>7, <1>8, <1>9 DEF OneMoves

LEMMA CallBeginsMoves ==
  ASSUME TypeInv, NEW t \in Threads, CallBegins(t)
  PROVE  \E c \in Ctxs :
           /\ OneMoves(t)
           /\ thr[t].at = "idle"
           /\ fc[c].at = "hooked"
           /\ "early unref" \in liberties \/ (inits > 0 /\ Owners(fc[c].of) # {})
           /\ fc' = [fc EXCEPT ![c].counter = @ + 1]
           /\ thr'[t].at = "entering"
           /\ thr'[t].ctx = c
           /\ thr'[t].obj = thr[t].obj /\ thr'[t].tasks = thr[t].tasks
           /\ thr'[t].dying = thr[t].dying
           /\ thr'[t].next = thr[t].next /\ thr'[t].gen = thr[t].gen
           /\ thr'[t].keeps = thr[t].keeps
           /\ thr'[t].owned = thr[t].owned
<1>1. thr \in [Threads -> Activity] /\ thr[t] \in Activity /\ Proper(thr[t])
  BY DEF TypeInv, LifecycleTypeOK
<1>2. PICK c \in Ctxs :
        /\ fc[c].at = "hooked"
        /\ "early unref" \in liberties \/ (inits > 0 /\ Owners(fc[c].of) # {})
        /\ fc' = [fc EXCEPT ![c].counter = @ + 1]
        /\ thr' = [thr EXCEPT ![t].at = "entering", ![t].ctx = c]
  BY DEF CallBegins
<1>4. thr'[t] = [thr[t] EXCEPT !.at = "entering", !.ctx = c]
  BY <1>1, <1>2
<1>5. thr'[t] \in Activity
  BY <1>1, <1>2, <1>4 DEF Activity
<1>6. /\ thr'[t].at = "entering"
      /\ thr'[t].ctx = c
      /\ thr'[t].obj = thr[t].obj /\ thr'[t].tasks = thr[t].tasks /\ thr'[t].dying = thr[t].dying
      /\ thr'[t].next = thr[t].next /\ thr'[t].gen = thr[t].gen /\ thr'[t].keeps = thr[t].keeps
      /\ thr'[t].owned = thr[t].owned
  BY <1>1, <1>4 DEF Activity
<1>7. thr[t].at = "idle"
  BY DEF CallBegins, At
<1>8. Proper(thr'[t])
  <2>1. thr[t].obj = None /\ thr[t].tasks = {} /\ ~thr[t].dying
    BY <1>1, <1>7 DEF Proper, ReleaseSteps, FinalSteps
  <2>2. c # None
    BY <1>2, ConstantsAssumption
  <2> QED
    BY <1>6, <2>1, <2>2 DEF Proper, ReleaseSteps, FinalSteps
<1>9. thr' \in [Threads -> Activity] /\ \A u \in Threads : u # t => thr'[u] = thr[u]
  BY <1>1, <1>2, <1>5
<1> QED
  BY <1>2, <1>6, <1>7, <1>8, <1>9 DEF OneMoves

LEMMA MakeContextMoves ==
  ASSUME TypeInv, NEW t \in Threads, MakeContext(t)
  PROVE  /\ OneMoves(t)
         /\ thr[t].at = "entering"
         /\ thr'[t].at = "adding"
         /\ thr'[t].gen = generation
         /\ thr'[t].obj = thr[t].obj /\ thr'[t].ctx = thr[t].ctx /\ thr'[t].tasks = thr[t].tasks
         /\ thr'[t].dying = thr[t].dying /\ thr'[t].next = thr[t].next
         /\ thr'[t].keeps = thr[t].keeps
         /\ thr'[t].owned = thr[t].owned
<1>1. thr \in [Threads -> Activity] /\ thr[t] \in Activity /\ Proper(thr[t])
  BY DEF TypeInv, LifecycleTypeOK
<1>2. thr' = [thr EXCEPT ![t].at = "adding", ![t].gen = generation]
  BY DEF MakeContext, GoesTo
<1>3. generation \in Nat
  BY DEF TypeInv, LifecycleTypeOK
<1>4. thr'[t] = [thr[t] EXCEPT !.at = "adding", !.gen = generation]
  BY <1>1, <1>2
<1>5. thr'[t] \in Activity
  BY <1>1, <1>3, <1>2, <1>4 DEF Activity
<1>6. /\ thr'[t].at = "adding"
      /\ thr'[t].gen = generation
      /\ thr'[t].obj = thr[t].obj /\ thr'[t].ctx = thr[t].ctx /\ thr'[t].tasks = thr[t].tasks
      /\ thr'[t].dying = thr[t].dying /\ thr'[t].next = thr[t].next
      /\ thr'[t].keeps = thr[t].keeps
      /\ thr'[t].owned = thr[t].owned
  BY <1>1, <1>4 DEF Activity
<1>7. thr[t].at = "entering"
  BY DEF MakeContext, At
<1>8. Proper(thr'[t])
  BY <1>1, <1>3, <1>2, <1>6, <1>7, ConstantsAssumption DEF Proper, ReleaseSteps, FinalSteps,
        Activity
<1>9. thr' \in [Threads -> Activity] /\ \A u \in Threads : u # t => thr'[u] = thr[u]
  BY <1>1, <1>2, <1>5
<1> QED
  BY <1>2, <1>6, <1>7, <1>8, <1>9, <1>3 DEF OneMoves

LEMMA AddContextMoves ==
  ASSUME TypeInv, NEW t \in Threads, AddContext(t)
  PROVE  /\ OneMoves(t)
         /\ thr[t].at = "adding"
         /\ thr'[t].at = "entering"
         /\ thr'[t].obj = thr[t].obj /\ thr'[t].ctx = thr[t].ctx /\ thr'[t].tasks = thr[t].tasks
         /\ thr'[t].dying = thr[t].dying /\ thr'[t].next = thr[t].next
         /\ thr'[t].gen = thr[t].gen
         /\ thr'[t].keeps = thr[t].keeps /\ thr'[t].owned = thr[t].owned
<1>1. thr \in [Threads -> Activity] /\ thr[t] \in Activity /\ Proper(thr[t])
  BY DEF TypeInv, LifecycleTypeOK
<1>2. thr' = [thr EXCEPT ![t].at = "entering"]
  BY DEF AddContext, GoesTo
<1>4. thr'[t] = [thr[t] EXCEPT !.at = "entering"]
  BY <1>1, <1>2
<1>5. thr'[t] \in Activity
  BY <1>1, <1>2, <1>4 DEF Activity
<1>6. /\ thr'[t].at = "entering"
      /\ thr'[t].obj = thr[t].obj /\ thr'[t].ctx = thr[t].ctx /\ thr'[t].tasks = thr[t].tasks
      /\ thr'[t].dying = thr[t].dying /\ thr'[t].next = thr[t].next /\ thr'[t].gen = thr[t].gen
      /\ thr'[t].keeps = thr[t].keeps /\ thr'[t].owned = thr[t].owned
  BY <1>1, <1>4 DEF Activity
<1>7. thr[t].at = "adding"
  BY DEF AddContext, At
<1>8. Proper(thr'[t])
  BY <1>1, <1>2, <1>6, <1>7, ConstantsAssumption DEF Proper, ReleaseSteps, FinalSteps, Activity
<1>9. thr' \in [Threads -> Activity] /\ \A u \in Threads : u # t => thr'[u] = thr[u]
  BY <1>1, <1>2, <1>5
<1> QED
  BY <1>2, <1>6, <1>7, <1>8, <1>9 DEF OneMoves

LEMMA PushMoves ==
  ASSUME TypeInv, NEW t \in Threads, Push(t)
  PROVE  /\ OneMoves(t)
         /\ thr[t].at = "entering"
         /\ thr'[t].at = "idle"
         /\ thr'[t].ctx = None
         /\ thr'[t].obj = thr[t].obj /\ thr'[t].tasks = thr[t].tasks
         /\ thr'[t].dying = thr[t].dying
         /\ thr'[t].next = thr[t].next /\ thr'[t].gen = thr[t].gen
         /\ thr'[t].keeps = thr[t].keeps
         /\ thr'[t].owned = thr[t].owned
<1>1. thr \in [Threads -> Activity] /\ thr[t] \in Activity /\ Proper(thr[t])
  BY DEF TypeInv, LifecycleTypeOK
<1>2. thr' = [thr EXCEPT ![t].at = "idle", ![t].ctx = None]
  BY DEF Push, GoesTo
<1>4. thr'[t] = [thr[t] EXCEPT !.at = "idle", !.ctx = None]
  BY <1>1, <1>2
<1>5. thr'[t] \in Activity
  BY <1>1, <1>2, <1>4 DEF Activity
<1>6. /\ thr'[t].at = "idle"
      /\ thr'[t].ctx = None
      /\ thr'[t].obj = thr[t].obj /\ thr'[t].tasks = thr[t].tasks /\ thr'[t].dying = thr[t].dying
      /\ thr'[t].next = thr[t].next /\ thr'[t].gen = thr[t].gen /\ thr'[t].keeps = thr[t].keeps
      /\ thr'[t].owned = thr[t].owned
  BY <1>1, <1>4 DEF Activity
<1>7. thr[t].at = "entering"
  BY DEF Push, At
<1>8. Proper(thr'[t])
  BY <1>1, <1>2, <1>6, <1>7, ConstantsAssumption DEF Proper, ReleaseSteps, FinalSteps, Activity
<1>9. thr' \in [Threads -> Activity] /\ \A u \in Threads : u # t => thr'[u] = thr[u]
  BY <1>1, <1>2, <1>5
<1> QED
  BY <1>2, <1>6, <1>7, <1>8, <1>9 DEF OneMoves

LEMMA PrepareToForkMoves ==
  ASSUME TypeInv, NEW t \in Threads, PrepareToFork(t)
  PROVE  /\ OneMoves(t)
         /\ thr[t].at = "idle"
         /\ thr'[t].at = "pin"
         /\ thr'[t].obj = thr[t].obj /\ thr'[t].ctx = thr[t].ctx /\ thr'[t].tasks = thr[t].tasks
         /\ thr'[t].dying = thr[t].dying /\ thr'[t].next = thr[t].next
         /\ thr'[t].gen = thr[t].gen
         /\ thr'[t].keeps = thr[t].keeps /\ thr'[t].owned = thr[t].owned
<1>1. thr \in [Threads -> Activity] /\ thr[t] \in Activity /\ Proper(thr[t])
  BY DEF TypeInv, LifecycleTypeOK
<1>2. thr' = [thr EXCEPT ![t].at = "pin"]
  BY DEF PrepareToFork, GoesTo
<1>4. thr'[t] = [thr[t] EXCEPT !.at = "pin"]
  BY <1>1, <1>2
<1>5. thr'[t] \in Activity
  BY <1>1, <1>2, <1>4 DEF Activity
<1>6. /\ thr'[t].at = "pin"
      /\ thr'[t].obj = thr[t].obj /\ thr'[t].ctx = thr[t].ctx /\ thr'[t].tasks = thr[t].tasks
      /\ thr'[t].dying = thr[t].dying /\ thr'[t].next = thr[t].next /\ thr'[t].gen = thr[t].gen
      /\ thr'[t].keeps = thr[t].keeps /\ thr'[t].owned = thr[t].owned
  BY <1>1, <1>4 DEF Activity
<1>7. thr[t].at = "idle"
  BY DEF PrepareToFork, At
<1>8. Proper(thr'[t])
  BY <1>1, <1>2, <1>6, <1>7, ConstantsAssumption DEF Proper, ReleaseSteps, FinalSteps, Activity
<1>9. thr' \in [Threads -> Activity] /\ \A u \in Threads : u # t => thr'[u] = thr[u]
  BY <1>1, <1>2, <1>5
<1> QED
  BY <1>2, <1>6, <1>7, <1>8, <1>9 DEF OneMoves

LEMMA PinMoves ==
  ASSUME TypeInv, NEW t \in Threads, Pin(t)
  PROVE  /\ OneMoves(t)
         /\ thr[t].at = "pin"
         /\ thr'[t].at = IF the = None THEN "locked" ELSE "pinned"
         /\ thr'[t].obj = the
         /\ thr'[t].ctx = thr[t].ctx /\ thr'[t].tasks = thr[t].tasks
         /\ thr'[t].dying = thr[t].dying
         /\ thr'[t].next = thr[t].next /\ thr'[t].gen = thr[t].gen
         /\ thr'[t].keeps = thr[t].keeps
         /\ thr'[t].owned = thr[t].owned
<1>1. thr \in [Threads -> Activity] /\ thr[t] \in Activity /\ Proper(thr[t])
  BY DEF TypeInv, LifecycleTypeOK
<1>2. thr' = [thr EXCEPT ![t].at = IF the = None THEN "locked" ELSE "pinned", ![t].obj = the]
  BY DEF Pin, GoesTo
<1>3. the \in Objects \cup {None}
  BY DEF TypeInv, LifecycleTypeOK
<1>4. thr'[t] = [thr[t] EXCEPT !.at = IF the = None THEN "locked" ELSE "pinned", !.obj = the]
  BY <1>1, <1>2
<1>5. thr'[t] \in Activity
  BY <1>1, <1>3, <1>2, <1>4 DEF Activity
<1>6. /\ thr'[t].at = IF the = None THEN "locked" ELSE "pinned"
      /\ thr'[t].obj = the
      /\ thr'[t].ctx = thr[t].ctx /\ thr'[t].tasks = thr[t].tasks /\ thr'[t].dying = thr[t].dying
      /\ thr'[t].next = thr[t].next /\ thr'[t].gen = thr[t].gen /\ thr'[t].keeps = thr[t].keeps
      /\ thr'[t].owned = thr[t].owned
  BY <1>1, <1>4 DEF Activity
<1>7. thr[t].at = "pin"
  BY DEF Pin, At
<1>8. Proper(thr'[t])
  BY <1>1, <1>3, <1>6, <1>7, ConstantsAssumption DEF Proper, ReleaseSteps, FinalSteps, Activity
<1>9. thr' \in [Threads -> Activity] /\ \A u \in Threads : u # t => thr'[u] = thr[u]
  BY <1>1, <1>2, <1>5
<1> QED
  BY <1>2, <1>6, <1>7, <1>8, <1>9, <1>3 DEF OneMoves

LEMMA LockPinnedMoves ==
  ASSUME TypeInv, NEW t \in Threads, LockPinned(t)
  PROVE  /\ OneMoves(t)
         /\ thr[t].at = "pinned"
         /\ thr'[t].at = "locked"
         /\ thr'[t].obj = thr[t].obj /\ thr'[t].ctx = thr[t].ctx /\ thr'[t].tasks = thr[t].tasks
         /\ thr'[t].dying = thr[t].dying /\ thr'[t].next = thr[t].next
         /\ thr'[t].gen = thr[t].gen
         /\ thr'[t].keeps = thr[t].keeps /\ thr'[t].owned = thr[t].owned
<1>1. thr \in [Threads -> Activity] /\ thr[t] \in Activity /\ Proper(thr[t])
  BY DEF TypeInv, LifecycleTypeOK
<1>2. thr' = [thr EXCEPT ![t].at = "locked"]
  BY DEF LockPinned, GoesTo
<1>4. thr'[t] = [thr[t] EXCEPT !.at = "locked"]
  BY <1>1, <1>2
<1>5. thr'[t] \in Activity
  BY <1>1, <1>2, <1>4 DEF Activity
<1>6. /\ thr'[t].at = "locked"
      /\ thr'[t].obj = thr[t].obj /\ thr'[t].ctx = thr[t].ctx /\ thr'[t].tasks = thr[t].tasks
      /\ thr'[t].dying = thr[t].dying /\ thr'[t].next = thr[t].next /\ thr'[t].gen = thr[t].gen
      /\ thr'[t].keeps = thr[t].keeps /\ thr'[t].owned = thr[t].owned
  BY <1>1, <1>4 DEF Activity
<1>7. thr[t].at = "pinned"
  BY DEF LockPinned, At
<1>8. Proper(thr'[t])
  BY <1>1, <1>2, <1>6, <1>7, ConstantsAssumption DEF Proper, ReleaseSteps, FinalSteps, Activity
<1>9. thr' \in [Threads -> Activity] /\ \A u \in Threads : u # t => thr'[u] = thr[u]
  BY <1>1, <1>2, <1>5
<1> QED
  BY <1>2, <1>6, <1>7, <1>8, <1>9 DEF OneMoves

LEMMA FreezeMoves ==
  ASSUME TypeInv, NEW t \in Threads, Freeze(t)
  PROVE  /\ OneMoves(t)
         /\ thr[t].at = "locked"
         /\ thr'[t].at = "prepared"
         /\ thr'[t].obj = thr[t].obj /\ thr'[t].ctx = thr[t].ctx /\ thr'[t].tasks = thr[t].tasks
         /\ thr'[t].dying = thr[t].dying /\ thr'[t].next = thr[t].next
         /\ thr'[t].gen = thr[t].gen
         /\ thr'[t].keeps = thr[t].keeps /\ thr'[t].owned = thr[t].owned
<1>1. thr \in [Threads -> Activity] /\ thr[t] \in Activity /\ Proper(thr[t])
  BY DEF TypeInv, LifecycleTypeOK
<1>2. thr' = [thr EXCEPT ![t].at = "prepared"]
  BY DEF Freeze, GoesTo
<1>4. thr'[t] = [thr[t] EXCEPT !.at = "prepared"]
  BY <1>1, <1>2
<1>5. thr'[t] \in Activity
  BY <1>1, <1>2, <1>4 DEF Activity
<1>6. /\ thr'[t].at = "prepared"
      /\ thr'[t].obj = thr[t].obj /\ thr'[t].ctx = thr[t].ctx /\ thr'[t].tasks = thr[t].tasks
      /\ thr'[t].dying = thr[t].dying /\ thr'[t].next = thr[t].next /\ thr'[t].gen = thr[t].gen
      /\ thr'[t].keeps = thr[t].keeps /\ thr'[t].owned = thr[t].owned
  BY <1>1, <1>4 DEF Activity
<1>7. thr[t].at = "locked"
  BY DEF Freeze, At
<1>8. Proper(thr'[t])
  BY <1>1, <1>2, <1>6, <1>7, ConstantsAssumption DEF Proper, ReleaseSteps, FinalSteps, Activity
<1>9. thr' \in [Threads -> Activity] /\ \A u \in Threads : u # t => thr'[u] = thr[u]
  BY <1>1, <1>2, <1>5
<1> QED
  BY <1>2, <1>6, <1>7, <1>8, <1>9 DEF OneMoves

LEMMA RecoveredMoves ==
  ASSUME TypeInv, NEW t \in Threads, Recovered(t)
  PROVE  /\ OneMoves(t)
         /\ thr[t].at = "unlock"
         /\ thr'[t].at = "idle"
         /\ thr'[t].obj = None
         /\ thr'[t].ctx = thr[t].ctx /\ thr'[t].tasks = thr[t].tasks
         /\ thr'[t].dying = thr[t].dying
         /\ thr'[t].next = thr[t].next /\ thr'[t].gen = thr[t].gen
         /\ thr'[t].keeps = thr[t].keeps
         /\ thr'[t].owned = thr[t].owned
<1>1. thr \in [Threads -> Activity] /\ thr[t] \in Activity /\ Proper(thr[t])
  BY DEF TypeInv, LifecycleTypeOK
<1>2. thr' = [thr EXCEPT ![t].at = "idle", ![t].obj = None]
  BY DEF Recovered, GoesTo
<1>4. thr'[t] = [thr[t] EXCEPT !.at = "idle", !.obj = None]
  BY <1>1, <1>2
<1>5. thr'[t] \in Activity
  BY <1>1, <1>2, <1>4 DEF Activity
<1>6. /\ thr'[t].at = "idle"
      /\ thr'[t].obj = None
      /\ thr'[t].ctx = thr[t].ctx /\ thr'[t].tasks = thr[t].tasks /\ thr'[t].dying = thr[t].dying
      /\ thr'[t].next = thr[t].next /\ thr'[t].gen = thr[t].gen /\ thr'[t].keeps = thr[t].keeps
      /\ thr'[t].owned = thr[t].owned
  BY <1>1, <1>4 DEF Activity
<1>7. thr[t].at = "unlock"
  BY DEF Recovered, At
<1>8. Proper(thr'[t])
  BY <1>1, <1>2, <1>6, <1>7, ConstantsAssumption DEF Proper, ReleaseSteps, FinalSteps, Activity
<1>9. thr' \in [Threads -> Activity] /\ \A u \in Threads : u # t => thr'[u] = thr[u]
  BY <1>1, <1>2, <1>5
<1> QED
  BY <1>2, <1>6, <1>7, <1>8, <1>9 DEF OneMoves

LEMMA ObtainMoves ==
  ASSUME TypeInv, NEW t \in Threads, Obtain(t)
  PROVE  /\ OneMoves(t)
         /\ thr[t].at = "idle"
         /\ thr'[t].at = thr[t].at /\ thr'[t].obj = thr[t].obj /\ thr'[t].ctx = thr[t].ctx
         /\ thr'[t].tasks = thr[t].tasks /\ thr'[t].dying = thr[t].dying
         /\ thr'[t].next = thr[t].next /\ thr'[t].gen = thr[t].gen
         /\ thr'[t].keeps = thr[t].keeps
         /\ IF the # None
            THEN thr'[t].owned = [thr[t].owned EXCEPT ![the] = thr[t].owned[the] + 1]
            ELSE thr'[t].owned = [thr[t].owned EXCEPT ![the'] = 1]
<1>1. thr \in [Threads -> Activity] /\ thr[t] \in Activity /\ Proper(thr[t])
  BY DEF TypeInv, LifecycleTypeOK
<1>2. thr[t].owned \in [Objects -> Nat] /\ thr[t].at = "idle"
  BY <1>1 DEF Activity, Obtain, At
<1>3. \E o \in Objects, n \in Nat :
        /\ thr' = [thr EXCEPT ![t].owned[o] = n]
        /\ IF the # None THEN o = the /\ n = thr[t].owned[the] + 1 ELSE o = the' /\ n = 1
  <2>1. CASE the # None
    <3>1. the \in Objects /\ thr[t].owned[the] + 1 \in Nat
      BY <1>2, <2>1 DEF TypeInv, LifecycleTypeOK
    <3>2. thr' = [thr EXCEPT ![t].owned[the] = thr[t].owned[the] + 1]
      BY <1>1, <2>1 DEF Obtain
    <3> QED
      BY <2>1, <3>1, <3>2
  <2>2. CASE the = None
    <3>1. the' \in Objects /\ thr' = [thr EXCEPT ![t].owned[the'] = 1]
      BY <2>2 DEF Obtain, NewInterceptor
    <3> QED
      BY <2>2, <3>1
  <2> QED
    BY <2>1, <2>2
<1>4. PICK o \in Objects, n \in Nat :
        /\ thr' = [thr EXCEPT ![t].owned[o] = n]
        /\ IF the # None THEN o = the /\ n = thr[t].owned[the] + 1 ELSE o = the' /\ n = 1
  BY <1>3
<1>5. thr'[t] = [thr[t] EXCEPT !.owned[o] = n]
  BY <1>1, <1>4
<1>6. [thr[t].owned EXCEPT ![o] = n] \in [Objects -> Nat]
  BY <1>2, <1>4
<1>7. /\ thr'[t].at = thr[t].at /\ thr'[t].obj = thr[t].obj /\ thr'[t].ctx = thr[t].ctx
      /\ thr'[t].tasks = thr[t].tasks /\ thr'[t].dying = thr[t].dying
      /\ thr'[t].next = thr[t].next /\ thr'[t].gen = thr[t].gen /\ thr'[t].keeps = thr[t].keeps
      /\ thr'[t].owned = [thr[t].owned EXCEPT ![o] = n]
  BY <1>1, <1>5 DEF Activity
<1>8. thr'[t] \in Activity
  BY <1>1, <1>5, <1>6 DEF Activity
<1>9. Proper(thr'[t])
  BY <1>1, <1>2, <1>7 DEF Proper, ReleaseSteps, FinalSteps
<1>10. thr' \in [Threads -> Activity] /\ \A u \in Threads : u # t => thr'[u] = thr[u]
  BY <1>1, <1>4, <1>8
<1> QED
  BY <1>2, <1>4, <1>7, <1>9, <1>10 DEF OneMoves

LEMMA UnreferencedMoves ==
  ASSUME TypeInv, NEW t \in Threads, NEW o \in Objects, NEW next \in {"idle", "pin"},
         Unreferenced(t, o, next), thr[t].at \in {"idle", "locked"},
         next = "idle" => thr[t].owned[o] > 0
  PROVE  /\ OneMoves(t)
         /\ thr'[t].at = (IF obj[o].refs = 1 THEN "dispose" ELSE next)
         /\ thr'[t].obj = (IF obj[o].refs = 1 THEN o ELSE None)
         /\ thr'[t].ctx = thr[t].ctx /\ thr'[t].tasks = thr[t].tasks
         /\ thr'[t].dying = thr[t].dying /\ thr'[t].next = next
         /\ thr'[t].gen = thr[t].gen /\ thr'[t].keeps = thr[t].keeps
         /\ thr'[t].owned = [thr[t].owned EXCEPT
              ![o] = IF next = "idle" THEN thr[t].owned[o] - 1 ELSE thr[t].owned[o]]
<1>1. thr \in [Threads -> Activity] /\ thr[t] \in Activity /\ Proper(thr[t])
  BY DEF TypeInv, LifecycleTypeOK
<1>2. thr[t].owned \in [Objects -> Nat]
  BY <1>1 DEF Activity
<1> DEFINE at == IF obj[o].refs = 1 THEN "dispose" ELSE next
           oo == IF obj[o].refs = 1 THEN o ELSE None
           n == IF next = "idle" THEN thr[t].owned[o] - 1 ELSE thr[t].owned[o]
<1>3. n \in Nat
  BY <1>2
<1>4. thr' = [thr EXCEPT ![t].at = at, ![t].obj = oo, ![t].next = next, ![t].owned[o] = n]
  BY DEF Unreferenced
<1>5. at \in {"dispose", "idle", "pin"} /\ oo \in Objects \cup {None}
      /\ (at = "dispose" => oo # None) /\ (at # "dispose" => oo = None)
  BY ConstantsAssumption
<1>. HIDE DEF at, oo, n
<1>6. thr'[t] = [thr[t] EXCEPT !.at = at, !.obj = oo, !.next = next, !.owned[o] = n]
  BY <1>1, <1>4
<1>7. [thr[t].owned EXCEPT ![o] = n] \in [Objects -> Nat]
  BY <1>2, <1>3
<1>8. /\ thr'[t].at = at /\ thr'[t].obj = oo /\ thr'[t].ctx = thr[t].ctx
      /\ thr'[t].tasks = thr[t].tasks /\ thr'[t].dying = thr[t].dying
      /\ thr'[t].next = next /\ thr'[t].gen = thr[t].gen /\ thr'[t].keeps = thr[t].keeps
      /\ thr'[t].owned = [thr[t].owned EXCEPT ![o] = n]
  BY <1>1, <1>6 DEF Activity
<1>9. thr'[t] \in Activity
  BY <1>1, <1>5, <1>6, <1>7 DEF Activity
<1>10. Proper(thr'[t])
  BY <1>1, <1>5, <1>8 DEF Proper, ReleaseSteps, FinalSteps
<1>11. thr' \in [Threads -> Activity] /\ \A u \in Threads : u # t => thr'[u] = thr[u]
  BY <1>1, <1>4, <1>9
<1> QED
  BY <1>8, <1>10, <1>11 DEF OneMoves, at, oo, n

LEMMA DropPinMoves ==
  ASSUME TypeInv, NEW t \in Threads, NEW o \in Objects \cup {None},
         NEW threads \in [Threads -> Activity], threads[t] = thr[t], thr[t].at = "prepared",
         DropPin(t, o, threads)
  PROVE  /\ thr' \in [Threads -> Activity] /\ Proper(thr'[t])
         /\ \A u \in Threads : u # t => thr'[u] = threads[u]
         /\ IF o # None /\ obj[o].refs = 1
            THEN thr'[t].at = "dispose" /\ thr'[t].obj = o /\ thr'[t].next = "unlock"
            ELSE thr'[t].at = "unlock" /\ thr'[t].obj = None
         /\ thr'[t].ctx = thr[t].ctx /\ thr'[t].tasks = thr[t].tasks
         /\ thr'[t].dying = thr[t].dying /\ thr'[t].gen = thr[t].gen
         /\ thr'[t].keeps = thr[t].keeps /\ thr'[t].owned = thr[t].owned
<1>1. thr[t] \in Activity /\ Proper(thr[t])
  BY DEF TypeInv, LifecycleTypeOK
<1>2. \E at, oo, next :
        /\ thr' = [threads EXCEPT ![t].at = at, ![t].obj = oo, ![t].next = next]
        /\ IF o # None /\ obj[o].refs = 1
           THEN at = "dispose" /\ oo = o /\ next = "unlock"
           ELSE at = "unlock" /\ oo = None /\ next \in {thr[t].next, "unlock"}
  <2>1. CASE o = None
    <3>1. thr' = [threads EXCEPT ![t].at = "unlock", ![t].obj = None]
      BY <2>1 DEF DropPin
    <3>2. thr' = [threads EXCEPT ![t].at = "unlock", ![t].obj = None, ![t].next = thr[t].next]
      BY <1>1, <3>1 DEF Activity
    <3> QED
      BY <2>1, <3>2
  <2>2. CASE o # None /\ obj[o].refs = 1
    <3>1. thr' = [threads EXCEPT ![t].at = "dispose", ![t].obj = o, ![t].next = "unlock"]
      BY <2>2 DEF DropPin
    <3> QED
      BY <2>2, <3>1
  <2>3. CASE o # None /\ obj[o].refs # 1
    <3>1. thr' = [threads EXCEPT ![t].at = "unlock", ![t].obj = None, ![t].next = "unlock"]
      BY <2>3 DEF DropPin
    <3> QED
      BY <2>3, <3>1
  <2> QED
    BY <2>1, <2>2, <2>3
<1>3. PICK at, oo, next :
        /\ thr' = [threads EXCEPT ![t].at = at, ![t].obj = oo, ![t].next = next]
        /\ IF o # None /\ obj[o].refs = 1
           THEN at = "dispose" /\ oo = o /\ next = "unlock"
           ELSE at = "unlock" /\ oo = None /\ next \in {thr[t].next, "unlock"}
  BY <1>2
<1>4. thr'[t] = [thr[t] EXCEPT !.at = at, !.obj = oo, !.next = next]
  BY <1>1, <1>3
<1>5. /\ thr'[t].at = at /\ thr'[t].obj = oo /\ thr'[t].ctx = thr[t].ctx
      /\ thr'[t].tasks = thr[t].tasks /\ thr'[t].dying = thr[t].dying
      /\ thr'[t].next = next /\ thr'[t].gen = thr[t].gen /\ thr'[t].keeps = thr[t].keeps
      /\ thr'[t].owned = thr[t].owned
  BY <1>1, <1>4 DEF Activity
<1>6. at \in {"dispose", "unlock"} /\ oo \in Objects \cup {None}
      /\ next \in {"idle", "pin", "unlock"}
  BY <1>1, <1>3 DEF Activity
<1>7. thr'[t] \in Activity
  BY <1>1, <1>4, <1>6 DEF Activity
<1>8. Proper(thr'[t])
  BY <1>1, <1>3, <1>5 DEF Proper, ReleaseSteps, FinalSteps
<1>9. thr' \in [Threads -> Activity] /\ \A u \in Threads : u # t => thr'[u] = threads[u]
  BY <1>3, <1>7
<1> QED
  BY <1>3, <1>5, <1>8, <1>9

LEMMA UnrefMoves ==
  ASSUME TypeInv, NEW t \in Threads, Unref(t)
  PROVE  \E o \in Objects :
           /\ OneMoves(t)
           /\ thr[t].at = "idle" /\ ~thr[t].keeps /\ thr[t].owned[o] > 0
           /\ Owners(o) = {t} /\ thr[t].owned[o] = 1
                 => "early unref" \in liberties \/ Calling = {}
           /\ obj' = [obj EXCEPT ![o].refs = @ - 1]
           /\ thr'[t].at = (IF obj[o].refs = 1 THEN "dispose" ELSE "idle")
           /\ thr'[t].obj = (IF obj[o].refs = 1 THEN o ELSE None)
           /\ thr'[t].ctx = thr[t].ctx /\ thr'[t].tasks = thr[t].tasks
           /\ thr'[t].dying = thr[t].dying /\ thr'[t].next = "idle"
           /\ thr'[t].gen = thr[t].gen /\ thr'[t].keeps = thr[t].keeps
           /\ thr'[t].owned = [thr[t].owned EXCEPT ![o] = thr[t].owned[o] - 1]
<1>1. PICK o \in Objects :
        /\ thr[t].owned[o] > 0
        /\ Owners(o) = {t} /\ thr[t].owned[o] = 1 => "early unref" \in liberties \/ Calling = {}
        /\ Unreferenced(t, o, "idle")
  BY DEF Unref
<1>2. thr[t].at = "idle" /\ ~thr[t].keeps
  BY DEF Unref, At
<1>3. obj' = [obj EXCEPT ![o].refs = @ - 1]
  BY <1>1 DEF Unreferenced
<1>4. /\ OneMoves(t)
      /\ thr'[t].at = (IF obj[o].refs = 1 THEN "dispose" ELSE "idle")
      /\ thr'[t].obj = (IF obj[o].refs = 1 THEN o ELSE None)
      /\ thr'[t].ctx = thr[t].ctx /\ thr'[t].tasks = thr[t].tasks
      /\ thr'[t].dying = thr[t].dying /\ thr'[t].next = "idle"
      /\ thr'[t].gen = thr[t].gen /\ thr'[t].keeps = thr[t].keeps
      /\ thr'[t].owned = [thr[t].owned EXCEPT
           ![o] = IF "idle" = "idle" THEN thr[t].owned[o] - 1 ELSE thr[t].owned[o]]
  BY <1>1, <1>2, UnreferencedMoves
<1> QED
  BY <1>1, <1>2, <1>3, <1>4

\* The singleton may have changed before it was locked only if there was none.
LEMMA TryAgainMoves ==
  ASSUME TypeInv, NEW t \in Threads, TryAgain(t)
  PROVE  /\ OneMoves(t)
         /\ thr[t].at = "locked" /\ the # thr[t].obj
         /\ thr'[t].ctx = thr[t].ctx /\ thr'[t].tasks = thr[t].tasks
         /\ thr'[t].dying = thr[t].dying
         /\ thr'[t].gen = thr[t].gen /\ thr'[t].keeps = thr[t].keeps
         /\ thr'[t].owned = thr[t].owned
         /\ IF thr[t].obj = None
            THEN /\ thr'[t].at = "pin" /\ thr'[t].obj = None /\ thr'[t].next = thr[t].next
                 /\ UNCHANGED <<mutex, obj>>
            ELSE /\ mutex' = Unlocked(thr[t].obj)
                 /\ obj' = [obj EXCEPT ![thr[t].obj].refs = @ - 1]
<1>1. thr \in [Threads -> Activity] /\ thr[t] \in Activity /\ Proper(thr[t])
  BY DEF TypeInv, LifecycleTypeOK
<1>2. thr[t].at = "locked" /\ the # thr[t].obj
  BY DEF TryAgain, At
<1>3. thr[t].obj \in Objects \cup {None} /\ thr[t].owned \in [Objects -> Nat]
  BY <1>1 DEF Activity
<1>4. CASE thr[t].obj = None
  <2>1. thr' = [thr EXCEPT ![t].at = "pin"]
    BY <1>4 DEF TryAgain, GoesTo
  <2>2. thr'[t] = [thr[t] EXCEPT !.at = "pin"]
    BY <1>1, <2>1
  <2>3. thr'[t] \in Activity
    BY <1>1, <2>2 DEF Activity
  <2>4. /\ thr'[t].at = "pin" /\ thr'[t].obj = thr[t].obj
        /\ thr'[t].ctx = thr[t].ctx /\ thr'[t].tasks = thr[t].tasks
        /\ thr'[t].dying = thr[t].dying /\ thr'[t].next = thr[t].next
        /\ thr'[t].gen = thr[t].gen /\ thr'[t].keeps = thr[t].keeps
        /\ thr'[t].owned = thr[t].owned
    BY <1>1, <2>2 DEF Activity
  <2>5. Proper(thr'[t])
    BY <1>1, <1>2, <1>4, <2>4 DEF Proper, ReleaseSteps, FinalSteps
  <2>6. thr' \in [Threads -> Activity] /\ \A u \in Threads : u # t => thr'[u] = thr[u]
    BY <1>1, <2>1, <2>3
  <2>7. UNCHANGED <<mutex, obj>>
    BY <1>4 DEF TryAgain
  <2> QED
    BY <1>2, <1>4, <2>4, <2>5, <2>6, <2>7 DEF OneMoves
<1>5. CASE thr[t].obj # None
  <2>1. thr[t].obj \in Objects /\ Unreferenced(t, thr[t].obj, "pin")
        /\ mutex' = Unlocked(thr[t].obj)
    BY <1>3, <1>5 DEF TryAgain
  <2>2. obj' = [obj EXCEPT ![thr[t].obj].refs = @ - 1]
    BY <2>1 DEF Unreferenced
  <2>3. /\ OneMoves(t)
        /\ thr'[t].ctx = thr[t].ctx /\ thr'[t].tasks = thr[t].tasks
        /\ thr'[t].dying = thr[t].dying
        /\ thr'[t].gen = thr[t].gen /\ thr'[t].keeps = thr[t].keeps
        /\ thr'[t].owned = [thr[t].owned EXCEPT ![thr[t].obj] =
             IF "pin" = "idle" THEN thr[t].owned[thr[t].obj] - 1 ELSE thr[t].owned[thr[t].obj]]
    BY <1>2, <2>1, UnreferencedMoves
  <2>4. thr'[t].owned = thr[t].owned
    BY <1>3, <2>3
  <2> QED
    BY <1>2, <1>5, <2>1, <2>2, <2>3, <2>4
<1> QED
  BY <1>4, <1>5

LEMMA RecoverInParentMoves ==
  ASSUME TypeInv, NEW t \in Threads, RecoverInParent(t)
  PROVE  /\ OneMoves(t)
         /\ thr[t].at = "prepared"
         /\ IF prepared # None /\ obj[prepared].refs = 1
            THEN thr'[t].at = "dispose" /\ thr'[t].obj = prepared /\ thr'[t].next = "unlock"
            ELSE thr'[t].at = "unlock" /\ thr'[t].obj = None
         /\ thr'[t].ctx = thr[t].ctx /\ thr'[t].tasks = thr[t].tasks
         /\ thr'[t].dying = thr[t].dying /\ thr'[t].gen = thr[t].gen
         /\ thr'[t].keeps = thr[t].keeps /\ thr'[t].owned = thr[t].owned
<1>1. thr \in [Threads -> Activity] /\ prepared \in Objects \cup {None}
  BY DEF TypeInv, LifecycleTypeOK
<1>2. thr[t].at = "prepared" /\ DropPin(t, prepared, thr)
  BY DEF RecoverInParent, At
<1> QED
  BY <1>1, <1>2, DropPinMoves DEF OneMoves

\* Everybody else is gone.
LEMMA GoneIs ==
  ASSUME NEW a \in Activity, NEW b, b = [a EXCEPT !.at = "gone"]
  PROVE  /\ b \in Activity /\ b.at = "gone" /\ b.obj = a.obj /\ b.ctx = a.ctx
         /\ b.tasks = a.tasks /\ b.keeps = a.keeps /\ b.owned = a.owned
BY DEF Activity

LEMMA RecoverInChildMoves ==
  ASSUME TypeInv, NEW t \in Threads, RecoverInChild(t)
  PROVE  /\ thr' \in [Threads -> Activity]
         /\ thr[t].at = "prepared"
         /\ \A u \in Threads : Proper(thr'[u])
         /\ \A u \in Threads : u # t =>
              /\ thr'[u].at = "gone" /\ thr'[u].obj = thr[u].obj /\ thr'[u].ctx = thr[u].ctx
              /\ thr'[u].tasks = thr[u].tasks /\ thr'[u].keeps = thr[u].keeps
              /\ thr'[u].owned = thr[u].owned
         /\ IF prepared # None /\ obj[prepared].refs = 1
            THEN thr'[t].at = "dispose" /\ thr'[t].obj = prepared /\ thr'[t].next = "unlock"
            ELSE thr'[t].at = "unlock" /\ thr'[t].obj = None
         /\ thr'[t].ctx = thr[t].ctx /\ thr'[t].tasks = thr[t].tasks
         /\ thr'[t].dying = thr[t].dying /\ thr'[t].gen = thr[t].gen
         /\ thr'[t].keeps = thr[t].keeps /\ thr'[t].owned = thr[t].owned
<1>1. /\ thr \in [Threads -> Activity] /\ prepared \in Objects \cup {None}
      /\ \A u \in Threads : thr[u] \in Activity
  BY DEF TypeInv, LifecycleTypeOK
<1> DEFINE threads == [u \in Threads |-> IF u = t THEN thr[t] ELSE [thr[u] EXCEPT !.at = "gone"]]
<1>2. thr[t].at = "prepared" /\ DropPin(t, prepared, threads)
  BY DEF RecoverInChild, At
<1>3. \A u \in Threads : [thr[u] EXCEPT !.at = "gone"] \in Activity
  BY <1>1, GoneIs
<1>4. threads \in [Threads -> Activity] /\ threads[t] = thr[t]
  BY <1>1, <1>3
<1>5. \A u \in Threads : u # t => threads[u] = [thr[u] EXCEPT !.at = "gone"]
  OBVIOUS
<1>. HIDE DEF threads
<1>6. /\ thr' \in [Threads -> Activity] /\ Proper(thr'[t])
      /\ \A u \in Threads : u # t => thr'[u] = threads[u]
      /\ IF prepared # None /\ obj[prepared].refs = 1
         THEN thr'[t].at = "dispose" /\ thr'[t].obj = prepared /\ thr'[t].next = "unlock"
         ELSE thr'[t].at = "unlock" /\ thr'[t].obj = None
      /\ thr'[t].ctx = thr[t].ctx /\ thr'[t].tasks = thr[t].tasks
      /\ thr'[t].dying = thr[t].dying /\ thr'[t].gen = thr[t].gen
      /\ thr'[t].keeps = thr[t].keeps /\ thr'[t].owned = thr[t].owned
  BY <1>1, <1>2, <1>4, DropPinMoves
<1>7. \A u \in Threads : u # t => thr'[u] = [thr[u] EXCEPT !.at = "gone"]
  BY <1>5, <1>6
<1>8. \A u \in Threads : u # t =>
        /\ thr'[u].at = "gone" /\ thr'[u].obj = thr[u].obj /\ thr'[u].ctx = thr[u].ctx
        /\ thr'[u].tasks = thr[u].tasks /\ thr'[u].keeps = thr[u].keeps
        /\ thr'[u].owned = thr[u].owned
  <2> SUFFICES ASSUME NEW u \in Threads, u # t
               PROVE  /\ thr'[u].at = "gone" /\ thr'[u].obj = thr[u].obj
                      /\ thr'[u].ctx = thr[u].ctx /\ thr'[u].tasks = thr[u].tasks
                      /\ thr'[u].keeps = thr[u].keeps /\ thr'[u].owned = thr[u].owned
    OBVIOUS
  <2>1. PICK a, b : /\ a \in Activity /\ a = thr[u]
                    /\ b = thr'[u] /\ b = [a EXCEPT !.at = "gone"]
    BY <1>1, <1>7
  <2>2. /\ b.at = "gone" /\ b.obj = a.obj /\ b.ctx = a.ctx
        /\ b.tasks = a.tasks /\ b.keeps = a.keeps /\ b.owned = a.owned
    BY <2>1, GoneIs
  <2> QED
    BY <2>1, <2>2
<1>9. \A u \in Threads : Proper(thr'[u])
  BY <1>6, <1>8 DEF Proper, ReleaseSteps, FinalSteps
<1> QED
  BY <1>2, <1>6, <1>8, <1>9

\* Interceptor o alone changes.
ObjectChanges(o, at, refs, pending) ==
  /\ obj' \in [Objects -> Interceptor]
  /\ obj'[o].at = at /\ obj'[o].refs = refs /\ obj'[o].pending = pending
  /\ \A p \in Objects : p # o => obj'[p] = obj[p]

LEMMA ObjectsAre ==
  ASSUME LifecycleTypeOK, NEW o \in Objects
  PROVE  /\ obj[o] \in Interceptor
         /\ obj[o].at \in {"new", "live", "freed"} /\ obj[o].refs \in Int
         /\ obj[o].pending \in SUBSET Ctxs
  BY DEF LifecycleTypeOK, Interceptor

LEMMA RefsChange ==
  ASSUME LifecycleTypeOK, NEW o \in Objects, NEW n \in Int, obj' = [obj EXCEPT ![o].refs = n]
  PROVE  ObjectChanges(o, obj[o].at, n, obj[o].pending)
<1>1. obj'[o] = [obj[o] EXCEPT !.refs = n] /\ obj \in [Objects -> Interceptor]
  BY DEF LifecycleTypeOK
<1>2. obj'[o] \in Interceptor
  BY <1>1, ObjectsAre DEF Interceptor
<1> QED
  BY <1>1, <1>2, ObjectsAre DEF ObjectChanges, Interceptor

LEMMA PendingChanges ==
  ASSUME LifecycleTypeOK, NEW o \in Objects, NEW S \in SUBSET Ctxs,
         obj' = [obj EXCEPT ![o].pending = S]
  PROVE  ObjectChanges(o, obj[o].at, obj[o].refs, S)
<1>1. obj'[o] = [obj[o] EXCEPT !.pending = S] /\ obj \in [Objects -> Interceptor]
  BY DEF LifecycleTypeOK
<1>2. obj'[o] \in Interceptor
  BY <1>1, ObjectsAre DEF Interceptor
<1> QED
  BY <1>1, <1>2, ObjectsAre DEF ObjectChanges, Interceptor

\* The actions that change an interceptor.
LEMMA ObtainChanges ==
  ASSUME TypeInv, NEW t \in Threads, Obtain(t)
  PROVE  IF the # None
         THEN ObjectChanges(the, obj[the].at, obj[the].refs + 1, obj[the].pending) /\ the' = the
         ELSE \E o \in Objects :
                /\ obj[o].at = "new" /\ the' = o
                /\ ObjectChanges(o, "live", 1, obj[o].pending)
<1>1. LifecycleTypeOK /\ the \in Objects \cup {None} /\ obj \in [Objects -> Interceptor]
  BY DEF TypeInv, LifecycleTypeOK
<1>2. CASE the # None
  <2>1. obj' = [obj EXCEPT ![the].refs = obj[the].refs + 1] /\ the' = the
    BY <1>2 DEF Obtain
  <2>2. the \in Objects /\ obj[the].refs + 1 \in Int
    BY <1>1, <1>2, ObjectsAre
  <2>3. ObjectChanges(the, obj[the].at, obj[the].refs + 1, obj[the].pending)
    BY <1>1, <2>1, <2>2, RefsChange
  <2> QED
    BY <1>2, <2>1, <2>3
<1>3. CASE the = None
  <2>1. PICK o \in Objects : /\ obj[o].at = "new" /\ the' = o
                             /\ obj' = [obj EXCEPT ![o].at = "live", ![o].refs = 1]
    BY <1>3 DEF Obtain, NewInterceptor
  <2>2. obj'[o] = [obj[o] EXCEPT !.at = "live", !.refs = 1]
    BY <1>1, <2>1
  <2>3. obj[o] \in Interceptor /\ 1 \in Int
    BY <1>1
  <2>5. obj'[o] \in Interceptor
    BY <2>2, <2>3 DEF Interceptor
  <2>4. ObjectChanges(o, "live", 1, obj[o].pending)
    BY <1>1, <2>1, <2>2, <2>3, <2>5 DEF ObjectChanges, Interceptor
  <2> QED
    BY <1>3, <2>1, <2>4
<1> QED
  BY <1>2, <1>3

LEMMA DestroyChanges ==
  ASSUME TypeInv, NEW t \in Threads, Destroy(t)
  PROVE  /\ thr[t].obj \in Objects
         /\ ObjectChanges(thr[t].obj, "freed", obj[thr[t].obj].refs, {})
<1>1. /\ LifecycleTypeOK /\ obj \in [Objects -> Interceptor] /\ thr[t] \in Activity
      /\ Proper(thr[t])
  BY DEF TypeInv, LifecycleTypeOK
<1>2. thr[t].at = "destroy"
  BY DEF Destroy, At
<1>3. thr[t].obj \in Objects
  BY <1>1, <1>2 DEF Activity, Proper, FinalSteps
<1> DEFINE o == thr[t].obj
<1>4. obj' = [obj EXCEPT ![o].at = "freed", ![o].pending = {}]
  BY DEF Destroy
<1>. HIDE DEF o
<1>5. o \in Objects
  BY <1>3 DEF o
<1>6. obj'[o] = [obj[o] EXCEPT !.at = "freed", !.pending = {}]
  BY <1>1, <1>4, <1>5
<1>7. obj'[o] \in Interceptor
  BY <1>1, <1>5, <1>6, ObjectsAre DEF Interceptor
<1>8. ObjectChanges(o, "freed", obj[o].refs, {})
  BY <1>1, <1>4, <1>5, <1>6, <1>7, ObjectsAre DEF ObjectChanges, Interceptor
<1> QED
  BY <1>3, <1>8 DEF o

LEMMA DisposeChanges ==
  ASSUME TypeInv, NEW t \in Threads, Dispose(t)
  PROVE  /\ thr[t].obj \in Objects
         /\ ObjectChanges(thr[t].obj, obj[thr[t].obj].at, obj[thr[t].obj].refs, {})
<1>1. LifecycleTypeOK /\ thr[t] \in Activity /\ Proper(thr[t])
  BY DEF TypeInv, LifecycleTypeOK
<1>2. thr[t].at = "dispose" /\ obj' = [obj EXCEPT ![thr[t].obj].pending = {}]
  BY DEF Dispose, At
<1>3. thr[t].obj \in Objects
  BY <1>1, <1>2 DEF Activity, Proper, FinalSteps
<1> QED
  BY <1>1, <1>2, <1>3, PendingChanges

LEMMA ReleasersAre ==
  ASSUME TypeInv, NEW t \in Threads, thr[t].at \in ReleaseSteps \cup FinalSteps
  PROVE  thr[t].obj \in Objects
  BY DEF TypeInv, LifecycleTypeOK, Activity, Proper

LEMMA PinChanges ==
  ASSUME TypeInv, NEW t \in Threads, Pin(t)
  PROVE  IF the = None THEN obj' = obj
         ELSE /\ the \in Objects
              /\ ObjectChanges(the, obj[the].at, obj[the].refs + 1, obj[the].pending)
<1>1. LifecycleTypeOK /\ the \in Objects \cup {None}
  BY DEF TypeInv, LifecycleTypeOK
<1>2. CASE the = None
  BY <1>2 DEF Pin, Pinned
<1>3. CASE the # None
  <2>1. the \in Objects /\ obj' = [obj EXCEPT ![the].refs = obj[the].refs + 1]
    BY <1>1, <1>3 DEF Pin, Pinned
  <2>2. obj[the].refs + 1 \in Int
    BY <1>1, <2>1, ObjectsAre
  <2> QED
    BY <1>1, <1>3, <2>1, <2>2, RefsChange
<1> QED
  BY <1>2, <1>3

LEMMA UnpinChanges ==
  ASSUME TypeInv, NEW t, NEW threads, NEW o \in Objects \cup {None}, DropPin(t, o, threads)
  PROVE  IF o = None THEN obj' = obj
         ELSE ObjectChanges(o, obj[o].at, obj[o].refs - 1, obj[o].pending)
<1>1. LifecycleTypeOK
  BY DEF TypeInv
<1>2. CASE o = None
  BY <1>2 DEF DropPin
<1>3. CASE o # None
  <2>1. o \in Objects /\ obj' = [obj EXCEPT ![o].refs = obj[o].refs - 1]
    BY <1>3 DEF DropPin
  <2>2. obj[o].refs - 1 \in Int
    BY <1>1, <2>1, ObjectsAre
  <2> QED
    BY <1>1, <1>3, <2>1, <2>2, RefsChange
<1> QED
  BY <1>2, <1>3

PostponeChanges(t) ==
  \E c \in thr[t].tasks :
    /\ c \in Ctxs /\ fc[c].counter # 0 /\ thr'[t].tasks = thr[t].tasks \ {c}
    /\ thr[t].obj \in Objects
    /\ ObjectChanges(thr[t].obj, obj[thr[t].obj].at, obj[thr[t].obj].refs,
                     obj[thr[t].obj].pending \cup {c})

LEMMA PostponeIs ==
  ASSUME TypeInv, NEW t \in Threads, Postpone(t)
  PROVE  PostponeChanges(t)
<1>1. PICK c \in thr[t].tasks :
        /\ thr[t].at = "release" /\ fc[c].counter # 0 /\ thr'[t].tasks = thr[t].tasks \ {c}
        /\ obj' = [obj EXCEPT ![thr[t].obj].pending = @ \cup {c}]
  BY PostponeMoves
<1>2. thr[t].tasks \in SUBSET Ctxs /\ LifecycleTypeOK
  BY DEF TypeInv, LifecycleTypeOK, Activity
<1>3. thr[t].obj \in Objects
  BY <1>1, ReleasersAre DEF ReleaseSteps
<1>4. obj[thr[t].obj].pending \cup {c} \in SUBSET Ctxs
  BY <1>1, <1>2, <1>3, ObjectsAre
<1>5. obj' = [obj EXCEPT ![thr[t].obj].pending = obj[thr[t].obj].pending \cup {c}]
  BY <1>1
<1>6. ObjectChanges(thr[t].obj, obj[thr[t].obj].at, obj[thr[t].obj].refs,
                    obj[thr[t].obj].pending \cup {c})
  BY <1>2, <1>3, <1>4, <1>5, PendingChanges
<1> QED
  BY <1>1, <1>2, <1>3, <1>6 DEF PostponeChanges

LEMMA UnlockedTyped ==
  ASSUME LifecycleTypeOK, NEW o \in Objects \cup {None}
  PROVE  Unlocked(o) \in [Objects -> [owner : Threads \cup {None}, depth : Int]]
<1>1. CASE o \in Objects
  <2>1. PICK t : t \in Threads \/ Threads = {}
    OBVIOUS
  <2>2. mutex \in [Objects -> [owner : Threads \cup {None}, depth : Int]]
    BY DEF LifecycleTypeOK
  <2>3. mutex[o].depth - 1 \in Int
    BY <1>1, <2>2
  <2> QED
    BY <1>1, <2>2, <2>3 DEF Unlocked
<1>2. CASE o = None
  <2>1. mutex \in [Objects -> [owner : Threads \cup {None}, depth : Int]] /\ None \notin Objects
    BY ConstantsAssumption DEF LifecycleTypeOK
  <2>2. Unlocked(o) = mutex
    BY <1>2, <2>1 DEF Unlocked
  <2> QED
    BY <2>1, <2>2
<1> QED
  BY <1>1, <1>2

\* The counter of one function context changes.
CounterChange(c, n) ==
  /\ fc' \in [Ctxs -> FunctionContext]
  /\ fc'[c].at = fc[c].at /\ fc'[c].of = fc[c].of /\ fc'[c].counter = n
  /\ \A d \in Ctxs : d # c => fc'[d] = fc[d]

LEMMA CounterChanges ==
  ASSUME LifecycleTypeOK, NEW c \in Ctxs, NEW n \in Int, fc' = [fc EXCEPT ![c].counter = n]
  PROVE  CounterChange(c, n)
<1>1. fc \in [Ctxs -> FunctionContext] /\ fc[c] \in FunctionContext
  BY DEF LifecycleTypeOK
<1>2. fc'[c] = [fc[c] EXCEPT !.counter = n]
  BY <1>1
<1>3. fc'[c] \in FunctionContext
  BY <1>1, <1>2 DEF FunctionContext
<1> QED
  BY <1>1, <1>2, <1>3 DEF CounterChange, FunctionContext

\* The stack of one thread changes.
StackChange(t, stack) ==
  /\ context' \in [Threads -> ThreadContext \cup {None}]
  /\ context'[t] # None /\ context'[t].stack = stack
  /\ context'[t].generation = context[t].generation
  /\ \A u \in Threads : u # t => context'[u] = context[u]

LEMMA StackChanges ==
  ASSUME LifecycleTypeOK, NEW t \in Threads, context[t] # None, NEW stack \in Seq(Ctxs),
         context' = [context EXCEPT ![t].stack = stack]
  PROVE  StackChange(t, stack)
<1>1. context \in [Threads -> ThreadContext \cup {None}] /\ context[t] \in ThreadContext
  BY DEF LifecycleTypeOK
<1>2. context'[t] = [context[t] EXCEPT !.stack = stack]
  BY <1>1
<1>3. context'[t] \in ThreadContext
  BY <1>1, <1>2 DEF ThreadContext
<1>4. context'[t] # None
  BY <1>3, ConstantsAssumption DEF ThreadContext
<1> QED
  BY <1>1, <1>2, <1>3, <1>4 DEF StackChange, ThreadContext

LEMMA PushIs ==
  ASSUME TypeInv, NEW t \in Threads, Push(t)
  PROVE  /\ context[t] # None /\ context[t].stack \in Seq(Ctxs) /\ thr[t].ctx \in Ctxs
         /\ StackChange(t, Append(context[t].stack, thr[t].ctx))
<1>1. context[t] # None /\ thr[t].at = "entering"
  BY DEF Push, Fresh, At
<1>2. context[t].stack \in Seq(Ctxs)
  BY <1>1 DEF TypeInv, LifecycleTypeOK, ThreadContext
<1>3. thr[t] \in Activity /\ Proper(thr[t]) /\ LifecycleTypeOK
  BY DEF TypeInv, LifecycleTypeOK
<1>4. thr[t].ctx \in Ctxs
  BY <1>1, <1>3 DEF Activity, Proper
<1>5. Append(context[t].stack, thr[t].ctx) \in Seq(Ctxs)
  BY <1>2, <1>4
<1>6. context' = [context EXCEPT ![t].stack = Append(context[t].stack, thr[t].ctx)]
  BY DEF Push
<1> QED
  BY <1>1, <1>2, <1>3, <1>4, <1>5, <1>6, StackChanges

LEMMA CallEndsIs ==
  ASSUME TypeInv, NEW t \in Threads, CallEnds(t)
  PROVE  LET s == context[t].stack
             c == s[Len(s)] IN
         /\ thr[t].at = "idle" /\ context[t] # None
         /\ s \in Seq(Ctxs) /\ Len(s) > 0 /\ c \in Ctxs
         /\ StackChange(t, SubSeq(s, 1, Len(s) - 1))
         /\ CounterChange(c, fc[c].counter - 1)
<1> DEFINE s == context[t].stack
           c == s[Len(s)]
<1>1. context[t] # None /\ EntriesOf(t) = s
  <2>1. Len(EntriesOf(t)) > 0
    BY DEF CallEnds
  <2>2. Len(<<>>) = 0
    OBVIOUS
  <2> QED
    BY <2>1, <2>2 DEF EntriesOf
<1>2. s \in Seq(Ctxs)
  BY <1>1 DEF TypeInv, LifecycleTypeOK, ThreadContext
<1>3. /\ Len(s) > 0 /\ thr[t].at = "idle"
      /\ fc' = [fc EXCEPT ![c].counter = @ - 1]
      /\ context' = [context EXCEPT ![t].stack = SubSeq(@, 1, Len(s) - 1)]
  BY <1>1 DEF CallEnds, At
<1>4. context' = [context EXCEPT ![t].stack = SubSeq(s, 1, Len(s) - 1)]
  BY <1>3
<1>. HIDE DEF s
<1>5. Len(s) \in Nat /\ SubSeq(s, 1, Len(s) - 1) \in Seq(Ctxs) /\ s[Len(s)] \in Ctxs
  BY <1>2, <1>3
<1>6. StackChange(t, SubSeq(s, 1, Len(s) - 1))
  BY <1>1, <1>4, <1>5, StackChanges DEF TypeInv
<1>7. fc[c].counter - 1 \in Int /\ c \in Ctxs
  BY <1>5 DEF TypeInv, LifecycleTypeOK, FunctionContext
<1>8. CounterChange(c, fc[c].counter - 1)
  BY <1>3, <1>7, CounterChanges DEF TypeInv
<1> QED
  BY <1>1, <1>2, <1>3, <1>6, <1>7, <1>8 DEF s

LEMMA RecountedAre ==
  ASSUME TypeInv, NEW t \in Threads, RecoverInChild(t)
  PROVE  /\ fc' \in [Ctxs -> FunctionContext]
         /\ \A c \in Ctxs : fc'[c].at = fc[c].at /\ fc'[c].of = fc[c].of
         /\ \A c \in Ctxs : /\ prepared # None
                             /\ \/ fc[c].at = "hooked" /\ fc[c].of = prepared
                                \/ c \in obj[prepared].pending
              => fc'[c].counter = TimesIn({t}, c)
<1> DEFINE S == IF registry = None THEN {} ELSE registry \ {t}
<1>1. S \in SUBSET Threads /\ LifecycleTypeOK
  BY DEF TypeInv, LifecycleTypeOK
<1>2. fc' = Recounted(t, Released(S))
  BY DEF RecoverInChild
<1>. HIDE DEF S
<1>3. /\ Released(S) \in [Ctxs -> FunctionContext]
      /\ \A c \in Ctxs : Released(S)[c].at = fc[c].at /\ Released(S)[c].of = fc[c].of
  BY <1>1, ReleasedAre
<1> DEFINE pruned == Released(S)
<1>. HIDE DEF pruned
<1>4. /\ pruned \in [Ctxs -> FunctionContext] /\ fc' = Recounted(t, pruned)
      /\ \A c \in Ctxs : pruned[c].at = fc[c].at /\ pruned[c].of = fc[c].of
  BY <1>2, <1>3 DEF pruned
<1>5. \A c \in Ctxs : TimesIn({t}, c) \in Nat
  BY <1>1, PlacesAre
<1>6. \A c \in Ctxs : [pruned[c] EXCEPT !.counter = TimesIn({t}, c)] \in FunctionContext
  BY <1>4, <1>5 DEF FunctionContext
<1>7. \A c \in Ctxs : LET new == [pruned[c] EXCEPT !.counter = TimesIn({t}, c)] IN
        new.at = fc[c].at /\ new.of = fc[c].of /\ new.counter = TimesIn({t}, c)
  BY <1>4 DEF FunctionContext
<1>8. CASE prepared = None
  BY <1>4, <1>8 DEF Recounted
<1>9. CASE prepared # None
  <2> DEFINE own == EntriesOf(t)
             counted == ContextsAt(prepared, "hooked") \cup obj[prepared].pending
                          \cup {own[i] : i \in DOMAIN own}
  <2>1. fc' = [c \in Ctxs |-> IF c \in counted
                              THEN [pruned[c] EXCEPT !.counter = TimesIn({t}, c)]
                              ELSE pruned[c]]
    BY <1>4, <1>9 DEF Recounted
  <2>2. \A c \in Ctxs :
          (fc[c].at = "hooked" /\ fc[c].of = prepared) \/ c \in obj[prepared].pending
          => c \in counted
    BY DEF ContextsAt
  <2>. HIDE DEF counted
  <2>3. \A c \in Ctxs : fc'[c] = IF c \in counted
                                 THEN [pruned[c] EXCEPT !.counter = TimesIn({t}, c)]
                                 ELSE pruned[c]
    BY <2>1
  <2>4. fc' \in [Ctxs -> FunctionContext]
    BY <1>4, <1>6, <2>1
  <2> QED
    BY <1>4, <1>7, <2>2, <2>3, <2>4
<1> QED
  BY <1>8, <1>9

-----------------------------------------------------------------------------
(* Typing is invariant *)

Step(t) ==
  \/ LibraryInit(t) \/ LibraryDeinit(t)
  \/ Obtain(t) \/ Unref(t) \/ Dispose(t) \/ ClearSingleton(t) \/ Destroy(t)
  \/ Hook(t) \/ Unhook(t)
  \/ Postpone(t) \/ ReleaseStarts(t) \/ ReleaseEnds(t) \/ TransactionEnds(t)
  \/ HoldLock(t) \/ YieldLock(t)
  \/ CallBegins(t) \/ MakeContext(t) \/ AddContext(t) \/ Push(t) \/ CallEnds(t)
  \/ ExitThread(t)
  \/ PrepareToFork(t) \/ Pin(t) \/ LockPinned(t) \/ Freeze(t) \/ TryAgain(t)
  \/ RecoverInParent(t) \/ RecoverInChild(t) \/ Recovered(t)

\* The threads.
LEMMA ThreadsTyped ==
  ASSUME TypeInv, NEW t \in Threads, Step(t)
  PROVE  thr' \in [Threads -> Activity] /\ \A u \in Threads : Proper(thr'[u])
<1>1. thr \in [Threads -> Activity] /\ \A u \in Threads : Proper(thr[u])
  BY DEF TypeInv, LifecycleTypeOK
<1>2. CASE OneMoves(t)
  BY <1>1, <1>2 DEF OneMoves
<1>3. CASE UNCHANGED thr
  BY <1>1, <1>3
<1>4. CASE RecoverInChild(t)
  BY <1>4, RecoverInChildMoves
<1>5. OneMoves(t) \/ UNCHANGED thr \/ RecoverInChild(t)
  <2>1. LibraryInit(t) \/ LibraryDeinit(t) \/ Hook(t) \/ CallEnds(t) \/ ExitThread(t)
        => UNCHANGED thr
    BY DEF LibraryInit, LibraryDeinit, Hook, CallEnds, ExitThread
  <2>2. \/ Unref(t) \/ Dispose(t) \/ ClearSingleton(t) \/ Destroy(t)
        \/ Unhook(t) \/ Postpone(t) \/ ReleaseStarts(t) \/ ReleaseEnds(t)
      => OneMoves(t)
    <3>1. Unref(t) => OneMoves(t)
      BY UnrefMoves
    <3>2. Dispose(t) => OneMoves(t)
      BY DisposeMoves
    <3>3. ClearSingleton(t) => OneMoves(t)
      BY ClearSingletonMoves
    <3>4. Destroy(t) => OneMoves(t)
      BY DestroyMoves
    <3>5. Unhook(t) => OneMoves(t)
      BY UnhookMoves
    <3>6. Postpone(t) => OneMoves(t)
      BY PostponeMoves
    <3>7. ReleaseStarts(t) => OneMoves(t)
      BY ReleaseStartsMoves
    <3>8. ReleaseEnds(t) => OneMoves(t)
      BY ReleaseEndsMoves
    <3> QED
      BY <3>1, <3>2, <3>3, <3>4, <3>5, <3>6, <3>7, <3>8
  <2>3. \/ TransactionEnds(t) \/ HoldLock(t) \/ YieldLock(t) \/ CallBegins(t)
        \/ MakeContext(t) \/ AddContext(t) \/ Push(t) \/ Obtain(t)
      => OneMoves(t)
    <3>1. TransactionEnds(t) => OneMoves(t)
      BY TransactionEndsMoves
    <3>2. HoldLock(t) => OneMoves(t)
      BY HoldLockMoves
    <3>3. YieldLock(t) => OneMoves(t)
      BY YieldLockMoves
    <3>4. CallBegins(t) => OneMoves(t)
      BY CallBeginsMoves
    <3>5. MakeContext(t) => OneMoves(t)
      BY MakeContextMoves
    <3>6. AddContext(t) => OneMoves(t)
      BY AddContextMoves
    <3>7. Push(t) => OneMoves(t)
      BY PushMoves
    <3>8. Obtain(t) => OneMoves(t)
      BY ObtainMoves
    <3> QED
      BY <3>1, <3>2, <3>3, <3>4, <3>5, <3>6, <3>7, <3>8
  <2>4. \/ PrepareToFork(t) \/ Pin(t) \/ LockPinned(t) \/ Freeze(t)
        \/ TryAgain(t) \/ RecoverInParent(t) \/ Recovered(t)
      => OneMoves(t)
    <3>1. PrepareToFork(t) => OneMoves(t)
      BY PrepareToForkMoves
    <3>2. Pin(t) => OneMoves(t)
      BY PinMoves
    <3>3. LockPinned(t) => OneMoves(t)
      BY LockPinnedMoves
    <3>4. Freeze(t) => OneMoves(t)
      BY FreezeMoves
    <3>5. TryAgain(t) => OneMoves(t)
      BY TryAgainMoves
    <3>6. RecoverInParent(t) => OneMoves(t)
      BY RecoverInParentMoves
    <3>7. Recovered(t) => OneMoves(t)
      BY RecoveredMoves
    <3> QED
      BY <3>1, <3>2, <3>3, <3>4, <3>5, <3>6, <3>7
  <2> QED
    BY <2>1, <2>2, <2>3, <2>4 DEF Step
<1> QED
  BY <1>2, <1>3, <1>4, <1>5

\* The interceptors.
LEMMA ObjectsTyped ==
  ASSUME TypeInv, NEW t \in Threads, Step(t)
  PROVE  obj' \in [Objects -> Interceptor]
<1>1. CASE Obtain(t)
  BY <1>1, ObtainChanges DEF ObjectChanges
<1>2. CASE Unref(t)
  <2>1. PICK o \in Objects : obj' = [obj EXCEPT ![o].refs = @ - 1]
    BY <1>2, UnrefMoves
  <2>2. obj[o].refs - 1 \in Int
    BY ObjectsAre DEF TypeInv
  <2> QED
    BY <2>1, <2>2, RefsChange DEF TypeInv, ObjectChanges
<1>3. CASE Dispose(t)
  BY <1>3, DisposeChanges DEF ObjectChanges
<1>4. CASE Destroy(t)
  BY <1>4, DestroyChanges DEF ObjectChanges
<1>5. CASE Unhook(t)
  <2>1. PICK o \in Objects : obj' = [obj EXCEPT ![o].pending = {}]
    BY <1>5, UnhookMoves
  <2>2. {} \in SUBSET Ctxs
    OBVIOUS
  <2>3. ObjectChanges(o, obj[o].at, obj[o].refs, {})
    BY <2>1, <2>2, PendingChanges DEF TypeInv
  <2> QED
    BY <2>3 DEF ObjectChanges
<1>6. CASE Postpone(t)
  <2>1. PostponeChanges(t)
    BY <1>6, PostponeIs
  <2> QED
    BY <2>1 DEF PostponeChanges, ObjectChanges
<1>7. CASE Pin(t)
  BY <1>7, PinChanges DEF ObjectChanges, TypeInv, LifecycleTypeOK
<1>8. CASE TryAgain(t)
  <2>1. thr[t].obj \in Objects \cup {None}
    BY DEF TypeInv, LifecycleTypeOK, Activity
  <2>2. CASE thr[t].obj = None
    BY <1>8, <2>2, TryAgainMoves DEF TypeInv, LifecycleTypeOK
  <2>3. CASE thr[t].obj # None
    <3>1. obj' = [obj EXCEPT ![thr[t].obj].refs = @ - 1] /\ thr[t].obj \in Objects
      BY <1>8, <2>1, <2>3, TryAgainMoves
    <3>2. obj[thr[t].obj].refs - 1 \in Int
      BY <3>1, ObjectsAre DEF TypeInv
    <3> QED
      BY <3>1, <3>2, RefsChange DEF TypeInv, ObjectChanges
  <2> QED
    BY <2>2, <2>3
<1>9. CASE RecoverInParent(t) \/ RecoverInChild(t)
  <2>1. \E threads : DropPin(t, prepared, threads)
    BY <1>9 DEF RecoverInParent, RecoverInChild
  <2>2. obj \in [Objects -> Interceptor] /\ prepared \in Objects \cup {None}
    BY DEF TypeInv, LifecycleTypeOK
  <2> QED
    BY <2>1, <2>2, UnpinChanges DEF ObjectChanges
<1>10. CASE 
         \/ LibraryInit(t) \/ LibraryDeinit(t) \/ ClearSingleton(t) \/ Hook(t)
         \/ ReleaseStarts(t) \/ ReleaseEnds(t) \/ TransactionEnds(t) \/ HoldLock(t)
  BY <1>10 DEF LibraryInit, LibraryDeinit, ClearSingleton, Hook, ReleaseStarts, ReleaseEnds,
         TransactionEnds, HoldLock, TypeInv, LifecycleTypeOK, library, calls
<1>11. CASE 
         \/ YieldLock(t) \/ CallBegins(t) \/ MakeContext(t) \/ AddContext(t)
         \/ Push(t) \/ CallEnds(t) \/ ExitThread(t) \/ PrepareToFork(t)
  BY <1>11 DEF YieldLock, CallBegins, MakeContext, AddContext, Push, CallEnds, ExitThread,
         PrepareToFork, TypeInv, LifecycleTypeOK, library, calls
<1>12. CASE LockPinned(t) \/ Freeze(t) \/ Recovered(t)
  BY <1>12 DEF LockPinned, Freeze, Recovered, TypeInv, LifecycleTypeOK, library, calls
<1> QED
  BY <1>1, <1>2, <1>3, <1>4, <1>5, <1>6, <1>7, <1>8, <1>9, <1>10, <1>11, <1>12 DEF Step

\* The locks of the interceptors.
LEMMA MutexTyped ==
  ASSUME TypeInv, NEW t \in Threads, Step(t)
  PROVE  mutex' \in [Objects -> [owner : Threads \cup {None}, depth : Int]]
<1>1. CASE Dispose(t) \/ ReleaseStarts(t) \/ ReleaseEnds(t) \/ TransactionEnds(t)
  <2>1. thr[t].obj \in Objects
    BY <1>1, ReleasersAre DEF Dispose, ReleaseStarts, ReleaseEnds, TransactionEnds, At,
          ReleaseSteps, FinalSteps
  <2>2. mutex' \in {Locked(t, thr[t].obj), Unlocked(thr[t].obj)}
    BY <1>1 DEF Dispose, ReleaseStarts, ReleaseEnds, TransactionEnds
  <2> QED
    BY <2>1, <2>2, MutexAre DEF TypeInv
<1>2. CASE Unhook(t)
  BY <1>2, UnhookMoves, MutexAre DEF TypeInv
<1>3. CASE HoldLock(t)
  <2>1. mutex' = Locked(t, the) /\ the \in Objects
    BY <1>3 DEF HoldLock, TypeInv, LifecycleTypeOK
  <2> QED
    BY <2>1, MutexAre DEF TypeInv
<1>4. CASE YieldLock(t)
  <2>1. mutex' = Unlocked(the) /\ the \in Objects \cup {None}
    BY <1>4 DEF YieldLock, TypeInv, LifecycleTypeOK
  <2> QED
    BY <2>1, UnlockedTyped DEF TypeInv
<1>5. CASE LockPinned(t)
  <2>1. mutex' = Locked(t, thr[t].obj) /\ thr[t].obj \in Objects
    BY <1>5 DEF LockPinned, At, TypeInv, LifecycleTypeOK, Activity, Proper
  <2> QED
    BY <2>1, MutexAre DEF TypeInv
<1>6. CASE TryAgain(t)
  <2>1. mutex' \in {mutex, Unlocked(thr[t].obj)} /\ thr[t].obj \in Objects \cup {None}
    BY <1>6, TryAgainMoves DEF TypeInv, LifecycleTypeOK, Activity
  <2> QED
    BY <2>1, UnlockedTyped DEF TypeInv, LifecycleTypeOK
<1>7. CASE RecoverInParent(t)
  <2>1. mutex' \in {mutex, Unlocked(prepared)} /\ prepared \in Objects \cup {None}
    BY <1>7 DEF RecoverInParent, TypeInv, LifecycleTypeOK
  <2> QED
    BY <2>1, UnlockedTyped DEF TypeInv, LifecycleTypeOK
<1>8. CASE RecoverInChild(t)
  <2>1. mutex' = MutexReplaced(prepared)
    BY <1>8 DEF RecoverInChild
  <2>2. [owner |-> None, depth |-> 0] \in [owner : Threads \cup {None}, depth : Int]
    OBVIOUS
  <2> QED
    BY <2>1, <2>2 DEF MutexReplaced, TypeInv, LifecycleTypeOK
<1>9. CASE 
         \/ LibraryInit(t) \/ LibraryDeinit(t) \/ Obtain(t) \/ Unref(t)
         \/ ClearSingleton(t) \/ Destroy(t) \/ Hook(t) \/ Postpone(t)
  BY <1>9 DEF LibraryInit, LibraryDeinit, Obtain, Unref, ClearSingleton, Destroy, Hook, Postpone,
         TypeInv, LifecycleTypeOK, library, calls
<1>10. CASE 
         \/ CallBegins(t) \/ MakeContext(t) \/ AddContext(t) \/ Push(t)
         \/ CallEnds(t) \/ ExitThread(t) \/ PrepareToFork(t) \/ Pin(t)
  BY <1>10 DEF CallBegins, MakeContext, AddContext, Push, CallEnds, ExitThread, PrepareToFork,
         Pin, TypeInv, LifecycleTypeOK, library, calls
<1>11. CASE Freeze(t) \/ Recovered(t)
  BY <1>11 DEF Freeze, Recovered, TypeInv, LifecycleTypeOK, library, calls
<1> QED
  BY <1>1, <1>2, <1>3, <1>4, <1>5, <1>6, <1>7, <1>8, <1>9, <1>10, <1>11 DEF Step

\* The function contexts.
LEMMA ContextsTyped ==
  ASSUME TypeInv, NEW t \in Threads, Step(t)
  PROVE  fc' \in [Ctxs -> FunctionContext]
<1>1. CASE LibraryDeinit(t) \/ MakeContext(t) \/ ExitThread(t)
  <2>1. fc' \in {fc, Released({t})}
    BY <1>1 DEF LibraryDeinit, MakeContext, ExitThread
  <2> QED
    BY <2>1, ReleasedAre DEF TypeInv, LifecycleTypeOK
<1>2. CASE Dispose(t) \/ Destroy(t) \/ Unhook(t) \/ ReleaseEnds(t)
  <2>1. \E S : \E where \in {"unhooked", "freed"} : fc' = InState(S, where)
    BY <1>2, UnhookMoves DEF Dispose, Destroy, ReleaseEnds
  <2> QED
    BY <2>1, InStateAre DEF TypeInv
<1>3. CASE Hook(t)
  <2>1. PICK o \in Objects, c \in Ctxs :
          fc' = [fc EXCEPT ![c] = [of |-> o, at |-> "hooked", counter |-> 0]]
    BY <1>3 DEF Hook
  <2>2. [of |-> o, at |-> "hooked", counter |-> 0] \in FunctionContext
    BY DEF FunctionContext
  <2> QED
    BY <2>1, <2>2 DEF TypeInv, LifecycleTypeOK
<1>4. CASE CallBegins(t)
  <2>1. PICK c \in Ctxs : fc' = [fc EXCEPT ![c].counter = @ + 1]
    BY <1>4, CallBeginsMoves
  <2>2. fc[c].counter + 1 \in Int /\ fc' = [fc EXCEPT ![c].counter = fc[c].counter + 1]
    BY <2>1 DEF TypeInv, LifecycleTypeOK, FunctionContext
  <2>3. CounterChange(c, fc[c].counter + 1)
    BY <2>2, CounterChanges DEF TypeInv
  <2> QED
    BY <2>3 DEF CounterChange
<1>5. CASE CallEnds(t)
  BY <1>5, CallEndsIs DEF CounterChange
<1>6. CASE RecoverInChild(t)
  BY <1>6, RecountedAre DEF RecoverInChild
<1>7. CASE 
         \/ LibraryInit(t) \/ Obtain(t) \/ Unref(t) \/ ClearSingleton(t)
         \/ Postpone(t) \/ ReleaseStarts(t) \/ TransactionEnds(t) \/ HoldLock(t)
  BY <1>7 DEF LibraryInit, Obtain, Unref, ClearSingleton, Postpone, ReleaseStarts,
         TransactionEnds, HoldLock, TypeInv, LifecycleTypeOK, library, calls
<1>8. CASE 
         \/ YieldLock(t) \/ AddContext(t) \/ Push(t) \/ PrepareToFork(t)
         \/ Pin(t) \/ LockPinned(t) \/ Freeze(t) \/ TryAgain(t)
  BY <1>8 DEF YieldLock, AddContext, Push, PrepareToFork, Pin, LockPinned, Freeze, TryAgain,
         TypeInv, LifecycleTypeOK, library, calls
<1>9. CASE RecoverInParent(t) \/ Recovered(t)
  BY <1>9 DEF RecoverInParent, Recovered, TypeInv, LifecycleTypeOK, library, calls
<1> QED
  BY <1>1, <1>2, <1>3, <1>4, <1>5, <1>6, <1>7, <1>8, <1>9 DEF Step

\* The contexts of the threads.
LEMMA StacksTyped ==
  ASSUME TypeInv, NEW t \in Threads, Step(t)
  PROVE  context' \in [Threads -> ThreadContext \cup {None}]
<1>1. CASE LibraryDeinit(t) \/ MakeContext(t) \/ ExitThread(t) \/ RecoverInChild(t)
  BY <1>1 DEF LibraryDeinit, MakeContext, ExitThread, RecoverInChild, TypeInv, LifecycleTypeOK
<1>2. CASE AddContext(t)
  <2>1. thr[t].gen \in Nat
    BY DEF TypeInv, LifecycleTypeOK, Activity
  <2>2. [generation |-> thr[t].gen, stack |-> <<>>] \in ThreadContext
    BY <2>1 DEF ThreadContext
  <2> QED
    BY <1>2, <2>2 DEF AddContext, TypeInv, LifecycleTypeOK
<1>3. CASE Push(t)
  BY <1>3, PushIs DEF StackChange
<1>4. CASE CallEnds(t)
  BY <1>4, CallEndsIs DEF StackChange
<1>5. CASE 
         \/ LibraryInit(t) \/ Obtain(t) \/ Unref(t) \/ Dispose(t)
         \/ ClearSingleton(t) \/ Destroy(t) \/ Hook(t) \/ Unhook(t)
  BY <1>5 DEF LibraryInit, Obtain, Unref, Dispose, ClearSingleton, Destroy, Hook, Unhook,
         TypeInv, LifecycleTypeOK, library, calls
<1>6. CASE 
         \/ Postpone(t) \/ ReleaseStarts(t) \/ ReleaseEnds(t) \/ TransactionEnds(t)
         \/ HoldLock(t) \/ YieldLock(t) \/ CallBegins(t) \/ PrepareToFork(t)
  BY <1>6 DEF Postpone, ReleaseStarts, ReleaseEnds, TransactionEnds, HoldLock, YieldLock,
         CallBegins, PrepareToFork, TypeInv, LifecycleTypeOK, library, calls
<1>7. CASE 
         \/ Pin(t) \/ LockPinned(t) \/ Freeze(t) \/ TryAgain(t)
         \/ RecoverInParent(t) \/ Recovered(t)
  BY <1>7 DEF Pin, LockPinned, Freeze, TryAgain, RecoverInParent, Recovered, TypeInv,
         LifecycleTypeOK, library, calls
<1> QED
  BY <1>1, <1>2, <1>3, <1>4, <1>5, <1>6, <1>7 DEF Step

\* Everything else.
LEMMA OthersTyped ==
  ASSUME TypeInv, NEW t \in Threads, Step(t)
  PROVE  /\ inits' \in Nat /\ generation' \in Nat
         /\ locks' \in [lifecycle : Threads \cup {None}, global : Threads \cup {None},
                        spin : Threads \cup {None}]
         /\ the' \in Objects \cup {None} /\ prepared' \in Objects \cup {None}
         /\ registry' # None => registry' \subseteq Threads
         /\ liberties' \in Programs /\ inChild' \in BOOLEAN
<1>1. CASE LibraryInit(t)
  BY <1>1 DEF LibraryInit, TypeInv, LifecycleTypeOK
<1>2. CASE LibraryDeinit(t)
  <2>1. inits \in Nat /\ inits > 0 /\ inits' = inits - 1
    BY <1>2 DEF LibraryDeinit, TypeInv, LifecycleTypeOK
  <2>2. inits' \in Nat
    BY <2>1
  <2>3. registry' \in {None, registry}
    BY <1>2 DEF LibraryDeinit
  <2> QED
    BY <1>2, <2>2, <2>3 DEF LibraryDeinit, TypeInv, LifecycleTypeOK
<1>3. CASE Obtain(t)
  BY <1>3 DEF Obtain, NewInterceptor, library, calls, TypeInv, LifecycleTypeOK
<1>4. CASE PrepareToFork(t)
  BY <1>4 DEF PrepareToFork, library, calls, TypeInv, LifecycleTypeOK
<1>5. CASE Freeze(t)
  BY <1>5 DEF Freeze, library, calls, TypeInv, LifecycleTypeOK
<1>6. CASE RecoverInParent(t)
  BY <1>6 DEF RecoverInParent, library, calls, TypeInv, LifecycleTypeOK
<1>7. CASE RecoverInChild(t)
  BY <1>7 DEF RecoverInChild, library, calls, TypeInv, LifecycleTypeOK
<1>8. CASE Recovered(t)
  BY <1>8 DEF Recovered, library, calls, TypeInv, LifecycleTypeOK
<1>9. CASE 
         \/ Unref(t) \/ Dispose(t) \/ ClearSingleton(t) \/ Destroy(t)
         \/ Hook(t) \/ Unhook(t) \/ Postpone(t) \/ ReleaseStarts(t)
  BY <1>9 DEF Unref, Dispose, ClearSingleton, Destroy, Hook, Unhook, Postpone, ReleaseStarts,
         TypeInv, LifecycleTypeOK, library, calls
<1>10. CASE 
         \/ ReleaseEnds(t) \/ TransactionEnds(t) \/ HoldLock(t) \/ YieldLock(t)
         \/ CallBegins(t) \/ MakeContext(t) \/ AddContext(t) \/ Push(t)
  BY <1>10 DEF ReleaseEnds, TransactionEnds, HoldLock, YieldLock, CallBegins, MakeContext,
         AddContext, Push, TypeInv, LifecycleTypeOK, library, calls
<1>11. CASE 
         \/ CallEnds(t) \/ ExitThread(t) \/ Pin(t) \/ LockPinned(t)
         \/ TryAgain(t)
  BY <1>11 DEF CallEnds, ExitThread, Pin, LockPinned, TryAgain, TypeInv, LifecycleTypeOK,
        library,
         calls
<1> QED
  BY <1>1, <1>2, <1>3, <1>4, <1>5, <1>6, <1>7, <1>8, <1>9, <1>10, <1>11 DEF Step

LEMMA InitTypes == Init => TypeInv
<1> SUFFICES ASSUME Init PROVE TypeInv
  OBVIOUS
<1>1. [o \in Objects |-> 0] \in [Objects -> Nat]
  OBVIOUS
<1>2. Resting \in Activity
  BY <1>1 DEF Resting, Activity
<1>3. thr \in [Threads -> Activity] /\ \A t \in Threads : Proper(thr[t])
  BY <1>2 DEF Init, Resting, Proper, ReleaseSteps, FinalSteps
<1>4. obj \in [Objects -> Interceptor] /\ fc \in [Ctxs -> FunctionContext]
  BY DEF Init, Interceptor, FunctionContext
<1>5. /\ mutex \in [Objects -> [owner : Threads \cup {None}, depth : Int]]
      /\ context \in [Threads -> ThreadContext \cup {None}]
  BY DEF Init
<1>6. /\ liberties \in Programs /\ inChild \in BOOLEAN
      /\ inits \in Nat /\ generation \in Nat
      /\ locks \in [lifecycle : Threads \cup {None}, global : Threads \cup {None},
                    spin : Threads \cup {None}]
      /\ the \in Objects \cup {None} /\ prepared \in Objects \cup {None}
      /\ registry # None => registry \subseteq Threads
  BY DEF Init
<1> QED
  BY <1>3, <1>4, <1>5, <1>6 DEF TypeInv, LifecycleTypeOK

LEMMA NextTypes == TypeInv /\ [Next]_vars => TypeInv'
<1> SUFFICES ASSUME TypeInv, [Next]_vars PROVE TypeInv'
  OBVIOUS
<1>1. CASE UNCHANGED vars
  BY <1>1 DEF vars, TypeInv, LifecycleTypeOK
<1>2. CASE Next
  <2>1. PICK t \in Threads : Step(t)
    BY <1>2 DEF Next, Step
  <2>2. thr' \in [Threads -> Activity] /\ \A u \in Threads : Proper(thr'[u])
    BY <2>1, ThreadsTyped
  <2>3. obj' \in [Objects -> Interceptor]
    BY <2>1, ObjectsTyped
  <2>4. mutex' \in [Objects -> [owner : Threads \cup {None}, depth : Int]]
    BY <2>1, MutexTyped
  <2>5. fc' \in [Ctxs -> FunctionContext]
    BY <2>1, ContextsTyped
  <2>6. context' \in [Threads -> ThreadContext \cup {None}]
    BY <2>1, StacksTyped
  <2>7. /\ inits' \in Nat /\ generation' \in Nat
        /\ locks' \in [lifecycle : Threads \cup {None}, global : Threads \cup {None},
                       spin : Threads \cup {None}]
        /\ the' \in Objects \cup {None} /\ prepared' \in Objects \cup {None}
        /\ registry' # None => registry' \subseteq Threads
        /\ liberties' \in Programs /\ inChild' \in BOOLEAN
    BY <2>1, OthersTyped
  <2> QED
    BY <2>2, <2>3, <2>4, <2>5, <2>6, <2>7 DEF TypeInv, LifecycleTypeOK
<1> QED
  BY <1>1, <1>2

\* Every variable has its type, and a thread works on what its position says.
THEOREM LifecycleTyped == Spec => []TypeInv
  BY InitTypes, NextTypes, PTL DEF Spec

-----------------------------------------------------------------------------
(* fork *)

\* As far as fork goes, a thread is where it was.
ForkQuiet(a, b) ==
  /\ InFork(b) <=> InFork(a)
  /\ b.at = "prepared" <=> a.at = "prepared"
  /\ a.at = "prepared" => b.obj = a.obj

LEMMA ForkStays ==
  ASSUME TypeInv, ForkInv, \A u \in Threads : ForkQuiet(thr[u], thr'[u]),
         locks' = locks, prepared' = prepared, locks.global # None => the' = the
  PROVE  ForkInv'
<1>1. /\ locks.lifecycle \in Threads \cup {None} /\ locks.global \in Threads \cup {None}
      /\ locks.spin \in Threads \cup {None}
  BY DEF TypeInv, LifecycleTypeOK
<1>2. None \notin Threads
  BY ConstantsAssumption
<1> QED
  BY <1>1, <1>2 DEF ForkInv, ForkQuiet, At

LEMMA ForkQuietMoves ==
  ASSUME TypeInv, ForkInv, NEW t \in Threads, Step(t),
         ~(PrepareToFork(t) \/ Freeze(t) \/ RecoverInParent(t) \/ RecoverInChild(t)
             \/ Recovered(t))
  PROVE  \A u \in Threads : ForkQuiet(thr[u], thr'[u])
<1>1. CASE \/ LibraryInit(t) \/ LibraryDeinit(t) \/ Hook(t) \/ CallEnds(t) \/ ExitThread(t)
  <2>1. thr' = thr
    BY <1>1 DEF LibraryInit, LibraryDeinit, Hook, CallEnds, ExitThread
  <2> QED
    BY <2>1 DEF ForkQuiet
<1>2. ASSUME OneMoves(t) /\ ForkQuiet(thr[t], thr'[t])
      PROVE  \A u \in Threads : ForkQuiet(thr[u], thr'[u])
  BY <1>2 DEF OneMoves, ForkQuiet
<1>3. Proper(thr[t])
  BY DEF TypeInv
<1>4. CASE Obtain(t)
  BY <1>2, <1>4, ObtainMoves DEF ForkQuiet, InFork, IsDying
<1>5. CASE Unref(t)
  BY <1>2, <1>5, UnrefMoves DEF ForkQuiet, InFork, IsDying, ForkSteps, ReleaseSteps, FinalSteps
<1>6. CASE Dispose(t)
  BY <1>2, <1>6, DisposeMoves DEF ForkQuiet, InFork, IsDying, ForkSteps, ReleaseSteps, FinalSteps
<1>7. CASE ClearSingleton(t)
  BY <1>2, <1>7, ClearSingletonMoves
     DEF ForkQuiet, InFork, IsDying, ForkSteps, ReleaseSteps, FinalSteps
<1>8. CASE Destroy(t)
  <2>1. thr[t].next \in {"idle", "pin", "unlock"}
    BY DEF TypeInv, LifecycleTypeOK, Activity
  <2> QED
    BY <1>2, <1>8, <2>1, DestroyMoves
       DEF ForkQuiet, InFork, IsDying, ForkSteps, ReleaseSteps, FinalSteps
<1>9. CASE Unhook(t)
  BY <1>2, <1>3, <1>9, UnhookMoves
     DEF Proper, ForkQuiet, InFork, IsDying, ForkSteps, ReleaseSteps, FinalSteps
<1>10. CASE Postpone(t)
  BY <1>2, <1>10, PostponeMoves DEF ForkQuiet, InFork, IsDying, ForkSteps, ReleaseSteps,
        FinalSteps
<1>11. CASE ReleaseStarts(t)
  BY <1>2, <1>11, ReleaseStartsMoves
     DEF ForkQuiet, InFork, IsDying, ForkSteps, ReleaseSteps, FinalSteps
<1>12. CASE ReleaseEnds(t)
  BY <1>2, <1>12, ReleaseEndsMoves
     DEF ForkQuiet, InFork, IsDying, ForkSteps, ReleaseSteps, FinalSteps
<1>13. CASE TransactionEnds(t)
  BY <1>2, <1>13, TransactionEndsMoves
     DEF ForkQuiet, InFork, IsDying, ForkSteps, ReleaseSteps, FinalSteps
<1>14. CASE HoldLock(t)
  BY <1>2, <1>14, HoldLockMoves DEF ForkQuiet, InFork, IsDying
<1>15. CASE YieldLock(t)
  BY <1>2, <1>15, YieldLockMoves DEF ForkQuiet, InFork, IsDying
<1>16. CASE CallBegins(t)
  BY <1>2, <1>16, CallBeginsMoves DEF ForkQuiet, InFork, IsDying, ForkSteps, ReleaseSteps,
        FinalSteps
<1>17. CASE MakeContext(t)
  BY <1>2, <1>17, MakeContextMoves
     DEF ForkQuiet, InFork, IsDying, ForkSteps, ReleaseSteps, FinalSteps
<1>18. CASE AddContext(t)
  BY <1>2, <1>18, AddContextMoves DEF ForkQuiet, InFork, IsDying, ForkSteps, ReleaseSteps,
        FinalSteps
<1>19. CASE Push(t)
  BY <1>2, <1>19, PushMoves DEF ForkQuiet, InFork, IsDying, ForkSteps, ReleaseSteps, FinalSteps
<1>20. CASE Pin(t)
  BY <1>2, <1>20, PinMoves DEF ForkQuiet, InFork, ForkSteps
<1>21. CASE LockPinned(t)
  BY <1>2, <1>21, LockPinnedMoves DEF ForkQuiet, InFork, ForkSteps
<1>22. CASE TryAgain(t)
  <2>1. CASE thr[t].obj = None
    BY <1>2, <1>22, <2>1, TryAgainMoves DEF ForkQuiet, InFork, ForkSteps
  <2>2. CASE thr[t].obj # None
    <3>1. thr[t].at = "locked"
      BY <1>22, TryAgainMoves
    <3>2. thr'[t].at \in {"dispose", "pin"} /\ thr'[t].next = "pin"
      <4>1. thr[t].obj \in Objects /\ Unreferenced(t, thr[t].obj, "pin")
        BY <1>22, <2>2 DEF TryAgain, TypeInv, LifecycleTypeOK, Activity
      <4> QED
        BY <3>1, <4>1, UnreferencedMoves
    <3> QED
      BY <1>2, <1>22, <3>1, <3>2, TryAgainMoves DEF ForkQuiet, InFork, ForkSteps, IsDying,
            FinalSteps
  <2> QED
    BY <2>1, <2>2
<1> QED
  BY <1>1, <1>4, <1>5, <1>6, <1>7, <1>8, <1>9, <1>10, <1>11, <1>12, <1>13, <1>14, <1>15,
     <1>16, <1>17, <1>18, <1>19, <1>20, <1>21, <1>22 DEF Step

LEMMA ForkQuietRest ==
  ASSUME TypeInv, NEW t \in Threads, Step(t),
         ~(PrepareToFork(t) \/ Freeze(t) \/ RecoverInParent(t) \/ RecoverInChild(t)
             \/ Recovered(t))
  PROVE  /\ locks' = locks /\ prepared' = prepared
         /\ locks.global # None => the' = the
<1>1. CASE LibraryInit(t) \/ LibraryDeinit(t) \/ Obtain(t) \/ Unref(t) \/ Dispose(t)
           \/ ClearSingleton(t) \/ Destroy(t) \/ Hook(t) \/ Unhook(t)
  BY <1>1 DEF LibraryInit, LibraryDeinit, Obtain, Unref, Dispose, ClearSingleton, Destroy,
              Hook, Unhook
<1>2. CASE Postpone(t) \/ ReleaseStarts(t) \/ ReleaseEnds(t) \/ TransactionEnds(t)
           \/ HoldLock(t) \/ YieldLock(t) \/ CallBegins(t) \/ MakeContext(t)
  BY <1>2 DEF Postpone, ReleaseStarts, ReleaseEnds, TransactionEnds, HoldLock, YieldLock,
              CallBegins, MakeContext
<1>3. CASE AddContext(t) \/ Push(t) \/ CallEnds(t) \/ ExitThread(t) \/ Pin(t)
           \/ LockPinned(t) \/ TryAgain(t)
  BY <1>3 DEF AddContext, Push, CallEnds, ExitThread, Pin, LockPinned, TryAgain
<1> QED
  BY <1>1, <1>2, <1>3 DEF Step

\* What a step of the protocol itself does to the locks.
LEMMA ForkLocks ==
  ASSUME TypeInv
  PROVE  /\ locks.lifecycle \in Threads \cup {None} /\ locks.global \in Threads \cup {None}
         /\ locks.spin \in Threads \cup {None} /\ None \notin Threads
         /\ \A t : LET l == [locks EXCEPT !.lifecycle = t] IN
              l.lifecycle = t /\ l.global = locks.global /\ l.spin = locks.spin
         /\ \A t : LET l == [locks EXCEPT !.global = t, !.spin = t] IN
              l.lifecycle = locks.lifecycle /\ l.global = t /\ l.spin = t
  BY ConstantsAssumption DEF TypeInv, LifecycleTypeOK

LEMMA ForkStep ==
  ASSUME TypeInv, ForkInv, NEW t \in Threads, Step(t)
  PROVE  ForkInv'
<1>1. CASE ~(PrepareToFork(t) \/ Freeze(t) \/ RecoverInParent(t) \/ RecoverInChild(t)
               \/ Recovered(t))
  BY <1>1, ForkQuietMoves, ForkQuietRest, ForkStays
<1>2. CASE PrepareToFork(t)
  <2>1. /\ locks.lifecycle = None /\ locks' = [locks EXCEPT !.lifecycle = t]
        /\ the' = the /\ prepared' = prepared
    BY <1>2 DEF PrepareToFork
  <2>2. InFork(thr'[t]) /\ thr'[t].at = "pin" /\ thr[t].at = "idle" /\ OneMoves(t)
    BY <1>2, PrepareToForkMoves DEF InFork, ForkSteps
  <2> QED
    BY <2>1, <2>2, ForkLocks DEF ForkInv, OneMoves, At
<1>3. CASE Freeze(t)
  <2>1. /\ locks.global = None /\ the = thr[t].obj
        /\ locks' = [locks EXCEPT !.global = t, !.spin = t]
        /\ the' = the /\ prepared' = the
    BY <1>3 DEF Freeze
  <2>2. /\ InFork(thr'[t]) /\ thr'[t].at = "prepared" /\ OneMoves(t) /\ InFork(thr[t])
        /\ thr'[t].obj = thr[t].obj
    BY <1>3, FreezeMoves DEF InFork, ForkSteps
  <2> QED
    BY <2>1, <2>2, ForkLocks DEF ForkInv, OneMoves, At
<1>4. CASE RecoverInParent(t)
  <2>1. locks' = [locks EXCEPT !.global = None, !.spin = None]
    BY <1>4 DEF RecoverInParent
  <2>2. /\ InFork(thr'[t]) /\ thr'[t].at # "prepared" /\ OneMoves(t)
        /\ InFork(thr[t]) /\ thr[t].at = "prepared"
    BY <1>4, RecoverInParentMoves DEF InFork, ForkSteps, IsDying, FinalSteps
  <2> QED
    BY <2>1, <2>2, ForkLocks DEF ForkInv, OneMoves, At, InFork, ForkSteps
<1>5. CASE RecoverInChild(t)
  <2>1. locks' = [locks EXCEPT !.global = None, !.spin = None]
    BY <1>5 DEF RecoverInChild
  <2>2. /\ InFork(thr'[t]) /\ thr'[t].at # "prepared" /\ InFork(thr[t])
        /\ \A u \in Threads : u # t => ~InFork(thr'[u]) /\ thr'[u].at # "prepared"
    BY <1>5, RecoverInChildMoves DEF InFork, ForkSteps, IsDying, FinalSteps, ReleaseSteps
  <2> QED
    BY <2>1, <2>2, ForkLocks DEF ForkInv, At
<1>6. CASE Recovered(t)
  <2>1. /\ locks' = [locks EXCEPT !.lifecycle = None]
        /\ the' = the /\ prepared' = prepared
    BY <1>6 DEF Recovered
  <2>2. /\ InFork(thr[t]) /\ thr[t].at = "unlock" /\ thr'[t].at = "idle" /\ ~InFork(thr'[t])
        /\ OneMoves(t)
    BY <1>6, RecoveredMoves DEF InFork, ForkSteps, IsDying, FinalSteps, ReleaseSteps
  <2> QED
    BY <2>1, <2>2, ForkLocks DEF ForkInv, OneMoves, At
<1> QED
  BY <1>1, <1>2, <1>3, <1>4, <1>5, <1>6

-----------------------------------------------------------------------------
(* References *)

\* What has not been created has no references and no tasks.
CreatedInv ==
  /\ \A o \in Objects : obj[o].at = "new" => obj[o].refs = 0 /\ obj[o].pending = {}
  /\ the # None => obj[the].at # "new"
  /\ \A t \in Threads : thr[t].obj # None => obj[thr[t].obj].at # "new"
CountInv == TypeInv /\ ForkInv /\ RefsInv /\ CreatedInv

LEMMA ReferencesAre ==
  ASSUME NEW o
  PROVE  /\ References(o) \subseteq Threads \X Nat
         /\ \A u \in Threads, k \in Nat :
              <<u, k>> \in References(o)
                <=> IF k = 0 THEN Pins(thr[u], o) ELSE k <= thr[u].owned[o]
  BY DEF References

LEMMA ReferencesBecome ==
  ASSUME NEW o
  PROVE  /\ References(o)' \subseteq Threads \X Nat
         /\ \A u \in Threads, k \in Nat :
              <<u, k>> \in References(o)'
                <=> IF k = 0 THEN Pins(thr'[u], o) ELSE k <= thr'[u].owned[o]
  BY DEF References, Pins

\* Of the references of an activity.
SameRefs(a, b) == b.owned = a.owned /\ \A o \in Objects : Pins(b, o) <=> Pins(a, o)

LEMMA ReferencesKept ==
  ASSUME NEW o \in Objects,
         \A u \in Threads : /\ thr'[u].owned[o] = thr[u].owned[o]
                            /\ Pins(thr'[u], o) <=> Pins(thr[u], o)
  PROVE  References(o)' = References(o)
<1>1. References(o)' \subseteq Threads \X Nat /\ References(o) \subseteq Threads \X Nat
  BY ReferencesAre, ReferencesBecome
<1>2. \A u \in Threads, k \in Nat : <<u, k>> \in References(o)' <=> <<u, k>> \in References(o)
  BY ReferencesAre, ReferencesBecome
<1> QED
  BY <1>1, <1>2

LEMMA RefsKept ==
  ASSUME RefsInv, \A u \in Threads : SameRefs(thr[u], thr'[u]),
         \A o \in Objects : obj'[o].refs = obj[o].refs
  PROVE  RefsInv'
<1>1. \A o \in Objects : References(o)' = References(o)
  BY ReferencesKept DEF SameRefs
<1> QED
  BY <1>1 DEF RefsInv

LEMMA Referenced ==
  ASSUME RefsInv, NEW o \in Objects
  PROVE  /\ obj[o].refs \in Nat
         /\ obj[o].refs = 0 <=> References(o) = {}
         /\ \A t \in Threads : Pins(thr[t], o) => obj[o].refs # 0
         /\ \A t \in Threads : thr[t].owned[o] \in Nat /\ thr[t].owned[o] > 0 => obj[o].refs # 0
<1>1. obj[o].refs \in Nat
  BY FS_CardinalityType DEF RefsInv
<1>2. obj[o].refs = 0 <=> References(o) = {}
  BY FS_EmptySet DEF RefsInv
<1>3. ASSUME NEW t \in Threads, Pins(thr[t], o)
      PROVE  <<t, 0>> \in References(o)
  BY <1>3, ReferencesAre
<1>4. ASSUME NEW t \in Threads, thr[t].owned[o] \in Nat, thr[t].owned[o] > 0
      PROVE  <<t, 1>> \in References(o)
  BY <1>4, ReferencesAre
<1> QED
  BY <1>1, <1>2, <1>3, <1>4

LEMMA RefAdded ==
  ASSUME RefsInv, NEW o \in Objects, NEW r, r \notin References(o),
         References(o)' = References(o) \cup {r},
         \A p \in Objects : p # o => References(p)' = References(p),
         obj'[o].refs = obj[o].refs + 1, \A p \in Objects : p # o => obj'[p] = obj[p]
  PROVE  RefsInv'
<1>1. IsFiniteSet(References(o)) /\ obj[o].refs = Cardinality(References(o))
  BY DEF RefsInv
<1>2. /\ IsFiniteSet(References(o) \cup {r})
      /\ Cardinality(References(o) \cup {r}) = Cardinality(References(o)) + 1
  BY <1>1, FS_AddElement
<1>3. IsFiniteSet(References(o)') /\ obj'[o].refs = Cardinality(References(o)')
  BY <1>1, <1>2
<1>4. \A p \in Objects : p # o =>
        IsFiniteSet(References(p)') /\ obj'[p].refs = Cardinality(References(p)')
  BY DEF RefsInv
<1> QED
  BY <1>3, <1>4 DEF RefsInv

LEMMA RefDropped ==
  ASSUME RefsInv, NEW o \in Objects, NEW r, r \in References(o),
         References(o)' = References(o) \ {r},
         \A p \in Objects : p # o => References(p)' = References(p),
         obj'[o].refs = obj[o].refs - 1, \A p \in Objects : p # o => obj'[p] = obj[p]
  PROVE  RefsInv'
<1>1. IsFiniteSet(References(o)) /\ obj[o].refs = Cardinality(References(o))
  BY DEF RefsInv
<1>2. /\ IsFiniteSet(References(o) \ {r})
      /\ Cardinality(References(o) \ {r}) = Cardinality(References(o)) - 1
  BY <1>1, FS_RemoveElement
<1>3. IsFiniteSet(References(o)') /\ obj'[o].refs = Cardinality(References(o)')
  BY <1>1, <1>2
<1>4. \A p \in Objects : p # o =>
        IsFiniteSet(References(p)') /\ obj'[p].refs = Cardinality(References(p)')
  BY DEF RefsInv
<1> QED
  BY <1>3, <1>4 DEF RefsInv

\* A thread that owns n references of o comes to own one more.
LEMMA OwnsMore ==
  ASSUME TypeInv, NEW t \in Threads, NEW o \in Objects, NEW n \in Nat, n = thr[t].owned[o],
         OneMoves(t), \A p \in Objects : Pins(thr'[t], p) <=> Pins(thr[t], p),
         thr'[t].owned = [thr[t].owned EXCEPT ![o] = n + 1]
  PROVE  /\ <<t, n + 1>> \notin References(o)
         /\ References(o)' = References(o) \cup {<<t, n + 1>>}
         /\ \A p \in Objects : p # o => References(p)' = References(p)
<1>1. thr[t].owned \in [Objects -> Nat] /\ \A u \in Threads : u # t => thr'[u] = thr[u]
  BY DEF TypeInv, LifecycleTypeOK, Activity, OneMoves
<1>2. thr'[t].owned[o] = n + 1 /\ \A p \in Objects : p # o => thr'[t].owned[p] = thr[t].owned[p]
  BY <1>1
<1>3. \A p \in Objects : p # o => References(p)' = References(p)
  BY <1>1, <1>2, ReferencesKept
<1>4. \A k \in Nat : k <= n + 1 <=> k <= n \/ k = n + 1
  OBVIOUS
<1>5. n + 1 \in Nat /\ n + 1 # 0 /\ ~(n + 1 <= n)
  OBVIOUS
<1>6. <<t, n + 1>> \notin References(o)
  BY <1>5, ReferencesAre
<1>7. \A u \in Threads, k \in Nat :
        <<u, k>> \in References(o)' <=> <<u, k>> \in References(o) \/ (u = t /\ k = n + 1)
  <2> SUFFICES ASSUME NEW u \in Threads, NEW k \in Nat
               PROVE  <<u, k>> \in References(o)'
                        <=> <<u, k>> \in References(o) \/ (u = t /\ k = n + 1)
    OBVIOUS
  <2>1. <<u, k>> \in References(o) <=> IF k = 0 THEN Pins(thr[u], o) ELSE k <= thr[u].owned[o]
    BY ReferencesAre
  <2>2. <<u, k>> \in References(o)'
          <=> IF k = 0 THEN Pins(thr'[u], o) ELSE k <= thr'[u].owned[o]
    BY ReferencesBecome
  <2>3. CASE u # t
    BY <1>1, <2>1, <2>2, <2>3
  <2>4. CASE u = t /\ k = 0
    BY <1>5, <2>1, <2>2, <2>4
  <2>5. CASE u = t /\ k # 0
    <3>1. <<u, k>> \in References(o) <=> k <= n
      BY <2>1, <2>5
    <3>2. <<u, k>> \in References(o)' <=> k <= n + 1
      BY <1>2, <2>2, <2>5
    <3> QED
      BY <1>4, <2>5, <3>1, <3>2
  <2> QED
    BY <2>3, <2>4, <2>5
<1>8. References(o)' \subseteq Threads \X Nat /\ References(o) \subseteq Threads \X Nat
  BY ReferencesAre, ReferencesBecome
<1>9. References(o)' = References(o) \cup {<<t, n + 1>>}
  BY <1>5, <1>7, <1>8
<1> QED
  BY <1>3, <1>6, <1>9

LEMMA OwnsLess ==
  ASSUME TypeInv, NEW t \in Threads, NEW o \in Objects, NEW n \in Nat, n = thr[t].owned[o],
         n > 0,
         OneMoves(t), \A p \in Objects : Pins(thr'[t], p) <=> Pins(thr[t], p),
         thr'[t].owned = [thr[t].owned EXCEPT ![o] = n - 1]
  PROVE  /\ <<t, n>> \in References(o)
         /\ References(o)' = References(o) \ {<<t, n>>}
         /\ \A p \in Objects : p # o => References(p)' = References(p)
<1>1. thr[t].owned \in [Objects -> Nat] /\ \A u \in Threads : u # t => thr'[u] = thr[u]
  BY DEF TypeInv, LifecycleTypeOK, Activity, OneMoves
<1>2. thr'[t].owned[o] = n - 1 /\ \A p \in Objects : p # o => thr'[t].owned[p] = thr[t].owned[p]
  BY <1>1
<1>3. \A p \in Objects : p # o => References(p)' = References(p)
  BY <1>1, <1>2, ReferencesKept
<1>4. \A k \in Nat : k <= n - 1 <=> k <= n /\ k # n
  OBVIOUS
<1>5. n # 0 /\ n <= n
  OBVIOUS
<1>6. <<t, n>> \in References(o)
  BY <1>5, ReferencesAre
<1>7. \A u \in Threads, k \in Nat :
        <<u, k>> \in References(o)' <=> <<u, k>> \in References(o) /\ ~(u = t /\ k = n)
  <2> SUFFICES ASSUME NEW u \in Threads, NEW k \in Nat
               PROVE  <<u, k>> \in References(o)'
                        <=> <<u, k>> \in References(o) /\ ~(u = t /\ k = n)
    OBVIOUS
  <2>1. <<u, k>> \in References(o) <=> IF k = 0 THEN Pins(thr[u], o) ELSE k <= thr[u].owned[o]
    BY ReferencesAre
  <2>2. <<u, k>> \in References(o)'
          <=> IF k = 0 THEN Pins(thr'[u], o) ELSE k <= thr'[u].owned[o]
    BY ReferencesBecome
  <2>3. CASE u # t
    BY <1>1, <2>1, <2>2, <2>3
  <2>4. CASE u = t /\ k = 0
    BY <1>5, <2>1, <2>2, <2>4
  <2>5. CASE u = t /\ k # 0
    <3>1. <<u, k>> \in References(o) <=> k <= n
      BY <2>1, <2>5
    <3>2. <<u, k>> \in References(o)' <=> k <= n - 1
      BY <1>2, <2>2, <2>5
    <3> QED
      BY <1>4, <2>5, <3>1, <3>2
  <2> QED
    BY <2>3, <2>4, <2>5
<1>8. References(o)' \subseteq Threads \X Nat /\ References(o) \subseteq Threads \X Nat
  BY ReferencesAre, ReferencesBecome
<1>9. References(o)' = References(o) \ {<<t, n>>}
  BY <1>7, <1>8
<1> QED
  BY <1>3, <1>6, <1>9

\* A thread pins an interceptor, or no longer does.
LEMMA PinTaken ==
  ASSUME NEW t \in Threads, NEW o \in Objects,
         \A u \in Threads : u # t => SameRefs(thr[u], thr'[u]), thr'[t].owned = thr[t].owned,
         Pins(thr'[t], o), \A p \in Objects : ~Pins(thr[t], p)
  PROVE  /\ <<t, 0>> \notin References(o)
         /\ References(o)' = References(o) \cup {<<t, 0>>}
         /\ \A p \in Objects : p # o => References(p)' = References(p)
<1>1. \A p \in Objects : p # o => ~Pins(thr'[t], p)
  BY DEF Pins
<1>2. \A p \in Objects : p # o => References(p)' = References(p)
  BY <1>1, ReferencesKept DEF SameRefs
<1>3. <<t, 0>> \notin References(o)
  BY ReferencesAre
<1>4. \A u \in Threads, k \in Nat :
        <<u, k>> \in References(o)' <=> <<u, k>> \in References(o) \/ (u = t /\ k = 0)
  BY ReferencesAre, ReferencesBecome DEF SameRefs
<1>5. References(o)' \subseteq Threads \X Nat /\ References(o) \subseteq Threads \X Nat
  BY ReferencesAre, ReferencesBecome
<1>6. References(o)' = References(o) \cup {<<t, 0>>}
  BY <1>4, <1>5
<1> QED
  BY <1>2, <1>3, <1>6

LEMMA PinDropped ==
  ASSUME NEW t \in Threads, NEW o \in Objects,
         \A u \in Threads : u # t => SameRefs(thr[u], thr'[u]), thr'[t].owned = thr[t].owned,
         Pins(thr[t], o), \A p \in Objects : ~Pins(thr'[t], p)
  PROVE  /\ <<t, 0>> \in References(o)
         /\ References(o)' = References(o) \ {<<t, 0>>}
         /\ \A p \in Objects : p # o => References(p)' = References(p)
<1>1. \A p \in Objects : p # o => ~Pins(thr[t], p)
  BY DEF Pins
<1>2. \A p \in Objects : p # o => References(p)' = References(p)
  BY <1>1, ReferencesKept DEF SameRefs
<1>3. <<t, 0>> \in References(o)
  BY ReferencesAre
<1>4. \A u \in Threads, k \in Nat :
        <<u, k>> \in References(o)' <=> <<u, k>> \in References(o) /\ ~(u = t /\ k = 0)
  BY ReferencesAre, ReferencesBecome DEF SameRefs
<1>5. References(o)' \subseteq Threads \X Nat /\ References(o) \subseteq Threads \X Nat
  BY ReferencesAre, ReferencesBecome
<1>6. References(o)' = References(o) \ {<<t, 0>>}
  BY <1>4, <1>5
<1> QED
  BY <1>2, <1>3, <1>6

LEMMA Positions ==
  ASSUME TypeInv, NEW t \in Threads
  PROVE  /\ thr[t] \in Activity /\ thr[t].obj \in Objects \cup {None}
         /\ thr[t].next \in {"idle", "pin", "unlock"}
         /\ thr[t].owned \in [Objects -> Nat] /\ thr[t].tasks \in SUBSET Ctxs
         /\ thr[t].ctx \in Ctxs \cup {None}
  BY DEF TypeInv, LifecycleTypeOK, Activity

LEMMA NoneIsNoObject == None \notin Objects /\ None \notin Threads /\ None \notin Ctxs
  BY ConstantsAssumption

\* The actions that neither take nor drop a reference.
LEMMA SameRefsMoves ==
  ASSUME TypeInv, NEW t \in Threads, Step(t),
         ~(Obtain(t) \/ Unref(t) \/ Pin(t) \/ TryAgain(t) \/ RecoverInParent(t)
             \/ RecoverInChild(t))
  PROVE  \A u \in Threads : SameRefs(thr[u], thr'[u])
<1>1. CASE \/ LibraryInit(t) \/ LibraryDeinit(t) \/ Hook(t) \/ CallEnds(t) \/ ExitThread(t)
  <2>1. thr' = thr
    BY <1>1 DEF LibraryInit, LibraryDeinit, Hook, CallEnds, ExitThread
  <2> QED
    BY <2>1 DEF SameRefs
<1>2. ASSUME OneMoves(t), SameRefs(thr[t], thr'[t])
      PROVE  \A u \in Threads : SameRefs(thr[u], thr'[u])
  BY <1>2 DEF OneMoves, SameRefs
<1>3. ASSUME OneMoves(t), thr'[t].owned = thr[t].owned,
             thr[t].at \notin PinSteps, thr'[t].at \notin PinSteps
      PROVE  \A u \in Threads : SameRefs(thr[u], thr'[u])
  BY <1>2, <1>3 DEF SameRefs, Pins
<1>4. CASE Dispose(t)
  BY <1>3, <1>4, DisposeMoves DEF PinSteps
<1>5. CASE ClearSingleton(t)
  BY <1>3, <1>5, ClearSingletonMoves DEF PinSteps
<1>6. CASE Destroy(t)
  BY <1>3, <1>6, Positions, DestroyMoves DEF PinSteps
<1>7. CASE Unhook(t)
  BY <1>3, <1>7, UnhookMoves DEF PinSteps
<1>8. CASE Postpone(t)
  BY <1>3, <1>8, PostponeMoves DEF PinSteps
<1>9. CASE ReleaseStarts(t)
  BY <1>3, <1>9, ReleaseStartsMoves DEF PinSteps
<1>10. CASE ReleaseEnds(t)
  BY <1>3, <1>10, ReleaseEndsMoves DEF PinSteps
<1>11. CASE TransactionEnds(t)
  BY <1>3, <1>11, TransactionEndsMoves DEF PinSteps
<1>12. CASE HoldLock(t)
  BY <1>3, <1>12, HoldLockMoves DEF PinSteps
<1>13. CASE YieldLock(t)
  BY <1>3, <1>13, YieldLockMoves DEF PinSteps
<1>14. CASE CallBegins(t)
  BY <1>3, <1>14, CallBeginsMoves DEF PinSteps
<1>15. CASE MakeContext(t)
  BY <1>3, <1>15, MakeContextMoves DEF PinSteps
<1>16. CASE AddContext(t)
  BY <1>3, <1>16, AddContextMoves DEF PinSteps
<1>17. CASE Push(t)
  BY <1>3, <1>17, PushMoves DEF PinSteps
<1>18. CASE PrepareToFork(t)
  BY <1>3, <1>18, PrepareToForkMoves DEF PinSteps
<1>19. CASE Recovered(t)
  BY <1>3, <1>19, RecoveredMoves DEF PinSteps
<1>20. CASE LockPinned(t)
  BY <1>2, <1>20, LockPinnedMoves DEF PinSteps, SameRefs, Pins
<1>21. CASE Freeze(t)
  BY <1>2, <1>21, FreezeMoves DEF PinSteps, SameRefs, Pins
<1> QED
  BY <1>1, <1>4, <1>5, <1>6, <1>7, <1>8, <1>9, <1>10, <1>11, <1>12, <1>13, <1>14, <1>15,
     <1>16, <1>17, <1>18, <1>19, <1>20, <1>21 DEF Step

\* What these do to the interceptors.
LEMMA UnhookChanges ==
  ASSUME TypeInv, NEW t \in Threads, Unhook(t)
  PROVE  \E o \in Objects : /\ thr[t].owned[o] > 0
                            /\ ObjectChanges(o, obj[o].at, obj[o].refs, {})
<1>1. PICK o \in Objects : thr[t].owned[o] > 0 /\ obj' = [obj EXCEPT ![o].pending = {}]
  BY UnhookMoves
<1>2. {} \in SUBSET Ctxs
  OBVIOUS
<1>3. ObjectChanges(o, obj[o].at, obj[o].refs, {})
  BY <1>1, <1>2, PendingChanges DEF TypeInv
<1> QED
  BY <1>1, <1>3

LEMMA UnrefChanges ==
  ASSUME TypeInv, NEW t \in Threads, NEW o \in Objects,
         obj' = [obj EXCEPT ![o].refs = @ - 1]
  PROVE  ObjectChanges(o, obj[o].at, obj[o].refs - 1, obj[o].pending)
<1>1. obj[o].refs - 1 \in Int /\ obj' = [obj EXCEPT ![o].refs = obj[o].refs - 1]
  BY ObjectsAre DEF TypeInv
<1> QED
  BY <1>1, RefsChange DEF TypeInv

LEMMA ObjectsSame ==
  ASSUME TypeInv, NEW t \in Threads, Step(t),
         ~(Obtain(t) \/ Unref(t) \/ Dispose(t) \/ Destroy(t) \/ Unhook(t) \/ Postpone(t)
             \/ Pin(t) \/ TryAgain(t) \/ RecoverInParent(t) \/ RecoverInChild(t))
  PROVE  obj' = obj
<1>1. CASE \/ LibraryInit(t) \/ LibraryDeinit(t) \/ ClearSingleton(t) \/ Hook(t)
           \/ ReleaseStarts(t) \/ ReleaseEnds(t) \/ TransactionEnds(t) \/ HoldLock(t)
  BY <1>1 DEF LibraryInit, LibraryDeinit, ClearSingleton, Hook, ReleaseStarts, ReleaseEnds,
              TransactionEnds, HoldLock
<1>2. CASE \/ YieldLock(t) \/ CallBegins(t) \/ MakeContext(t) \/ AddContext(t)
           \/ Push(t) \/ CallEnds(t) \/ ExitThread(t) \/ PrepareToFork(t)
           \/ LockPinned(t) \/ Freeze(t) \/ Recovered(t)
  BY <1>2 DEF YieldLock, CallBegins, MakeContext, AddContext, Push, CallEnds, ExitThread,
              PrepareToFork, LockPinned, Freeze, Recovered
<1> QED
  BY <1>1, <1>2 DEF Step

LEMMA SameRefsObjects ==
  ASSUME TypeInv, NEW t \in Threads, Step(t),
         ~(Obtain(t) \/ Unref(t) \/ Pin(t) \/ TryAgain(t) \/ RecoverInParent(t)
             \/ RecoverInChild(t))
  PROVE  \A o \in Objects : obj'[o].refs = obj[o].refs
<1>1. CASE Dispose(t)
  BY <1>1, DisposeChanges DEF ObjectChanges
<1>2. CASE Destroy(t)
  BY <1>2, DestroyChanges DEF ObjectChanges
<1>3. CASE Unhook(t)
  BY <1>3, UnhookChanges DEF ObjectChanges
<1>4. CASE Postpone(t)
  BY <1>4, PostponeIs DEF PostponeChanges, ObjectChanges
<1>5. CASE ~(Dispose(t) \/ Destroy(t) \/ Unhook(t) \/ Postpone(t))
  BY <1>5, ObjectsSame
<1> QED
  BY <1>1, <1>2, <1>3, <1>4, <1>5

\* A pin is dropped, or there was nothing to pin.
LEMMA UnpinStep ==
  ASSUME CountInv, NEW t \in Threads, NEW o \in Objects \cup {None},
         thr[t].at \in PinSteps, thr[t].obj = o,
         \A u \in Threads : u # t => SameRefs(thr[u], thr'[u]),
         thr'[t].owned = thr[t].owned, thr'[t].at \notin PinSteps,
         IF o = None THEN obj' = obj
         ELSE ObjectChanges(o, obj[o].at, obj[o].refs - 1, obj[o].pending)
  PROVE  RefsInv'
<1>1. RefsInv
  BY DEF CountInv
<1>2. \A p \in Objects : ~Pins(thr'[t], p)
  BY DEF Pins
<1>3. CASE o = None
  <2>1. \A p \in Objects : ~Pins(thr[t], p)
    BY <1>3, NoneIsNoObject DEF Pins
  <2>2. \A u \in Threads : SameRefs(thr[u], thr'[u])
    BY <1>2, <2>1 DEF SameRefs
  <2> QED
    BY <1>1, <1>3, <2>2, RefsKept
<1>4. CASE o # None
  <2>1. o \in Objects /\ Pins(thr[t], o)
    BY <1>4 DEF Pins
  <2>2. /\ <<t, 0>> \in References(o)
        /\ References(o)' = References(o) \ {<<t, 0>>}
        /\ \A p \in Objects : p # o => References(p)' = References(p)
    BY <1>2, <2>1, PinDropped
  <2>3. obj'[o].refs = obj[o].refs - 1 /\ \A p \in Objects : p # o => obj'[p] = obj[p]
    BY <1>4 DEF ObjectChanges
  <2> QED
    BY <1>1, <2>1, <2>2, <2>3, RefDropped
<1> QED
  BY <1>3, <1>4

LEMMA RefsStep ==
  ASSUME CountInv, NEW t \in Threads, Step(t)
  PROVE  RefsInv'
<1>1. TypeInv /\ ForkInv /\ RefsInv /\ CreatedInv
  BY DEF CountInv
<1>2. CASE ~(Obtain(t) \/ Unref(t) \/ Pin(t) \/ TryAgain(t) \/ RecoverInParent(t)
               \/ RecoverInChild(t))
  BY <1>1, <1>2, SameRefsMoves, SameRefsObjects, RefsKept
<1>3. CASE Obtain(t)
  <2>1. OneMoves(t) /\ \A p \in Objects : Pins(thr'[t], p) <=> Pins(thr[t], p)
    BY <1>1, <1>3, ObtainMoves DEF Pins
  <2>2. CASE the # None
    <3>1. PICK o \in Objects : o = the
      BY <1>1, <2>2 DEF TypeInv, LifecycleTypeOK
    <3>2. PICK n \in Nat : n = thr[t].owned[o]
      BY <1>1, Positions
    <3>3. thr'[t].owned = [thr[t].owned EXCEPT ![o] = n + 1]
      BY <1>1, <1>3, <2>2, <3>1, <3>2, ObtainMoves
    <3>4. obj'[o].refs = obj[o].refs + 1 /\ \A p \in Objects : p # o => obj'[p] = obj[p]
      BY <1>1, <1>3, <2>2, <3>1, ObtainChanges DEF ObjectChanges
    <3>5. /\ <<t, n + 1>> \notin References(o)
          /\ References(o)' = References(o) \cup {<<t, n + 1>>}
          /\ \A p \in Objects : p # o => References(p)' = References(p)
      BY <1>1, <2>1, <3>2, <3>3, OwnsMore
    <3> QED
      BY <1>1, <3>4, <3>5, RefAdded
  <2>3. CASE the = None
    <3>1. PICK o \in Objects : /\ obj[o].at = "new" /\ the' = o
                               /\ ObjectChanges(o, "live", 1, obj[o].pending)
      BY <1>1, <1>3, <2>3, ObtainChanges
    <3>2. obj[o].refs = 0
      BY <1>1, <3>1 DEF CreatedInv
    <3>3. thr[t].owned[o] = 0 /\ thr'[t].owned = [thr[t].owned EXCEPT ![o] = 1]
      <4>1. thr[t].owned[o] \in Nat /\ ~(thr[t].owned[o] > 0)
        BY <1>1, <3>2, Positions, Referenced
      <4>2. thr'[t].owned = [thr[t].owned EXCEPT ![the'] = 1]
        BY <1>1, <1>3, <2>3, ObtainMoves
      <4> QED
        BY <3>1, <4>1, <4>2
    <3>4. /\ <<t, 0 + 1>> \notin References(o)
          /\ References(o)' = References(o) \cup {<<t, 0 + 1>>}
          /\ \A p \in Objects : p # o => References(p)' = References(p)
      <4>1. 0 \in Nat /\ 0 = thr[t].owned[o]
            /\ thr'[t].owned = [thr[t].owned EXCEPT ![o] = 0 + 1]
        BY <3>3
      <4> QED
        BY <1>1, <2>1, <4>1, OwnsMore
    <3>5. obj'[o].refs = obj[o].refs + 1 /\ \A p \in Objects : p # o => obj'[p] = obj[p]
      BY <3>1, <3>2 DEF ObjectChanges
    <3> QED
      BY <1>1, <3>4, <3>5, RefAdded
  <2> QED
    BY <2>2, <2>3
<1>4. CASE Unref(t)
  <2>1. PICK o \in Objects :
          /\ OneMoves(t) /\ thr[t].at = "idle" /\ thr[t].owned[o] > 0
          /\ obj' = [obj EXCEPT ![o].refs = @ - 1]
          /\ thr'[t].at \in {"dispose", "idle"}
          /\ thr'[t].owned = [thr[t].owned EXCEPT ![o] = thr[t].owned[o] - 1]
    BY <1>1, <1>4, UnrefMoves
  <2>2. obj'[o].refs = obj[o].refs - 1 /\ \A p \in Objects : p # o => obj'[p] = obj[p]
    BY <1>1, <2>1, UnrefChanges DEF ObjectChanges
  <2>3. thr[t].owned[o] \in Nat /\ \A p \in Objects : Pins(thr'[t], p) <=> Pins(thr[t], p)
    BY <1>1, <2>1, Positions DEF Pins, PinSteps
  <2>4. PICK n \in Nat : /\ n = thr[t].owned[o] /\ n > 0
                         /\ thr'[t].owned = [thr[t].owned EXCEPT ![o] = n - 1]
    BY <2>1, <2>3
  <2>5. /\ <<t, n>> \in References(o)
        /\ References(o)' = References(o) \ {<<t, n>>}
        /\ \A p \in Objects : p # o => References(p)' = References(p)
    BY <1>1, <2>1, <2>3, <2>4, OwnsLess
  <2> QED
    BY <1>1, <2>2, <2>5, RefDropped
<1>5. CASE Pin(t)
  <2>1. /\ OneMoves(t) /\ thr[t].at = "pin" /\ thr'[t].obj = the
        /\ thr'[t].at = (IF the = None THEN "locked" ELSE "pinned")
        /\ thr'[t].owned = thr[t].owned
    BY <1>1, <1>5, PinMoves
  <2>2. \A u \in Threads : u # t => SameRefs(thr[u], thr'[u])
    BY <2>1 DEF OneMoves, SameRefs
  <2>3. \A p \in Objects : ~Pins(thr[t], p)
    BY <2>1 DEF Pins, PinSteps
  <2>4. CASE the = None
    <3>1. \A p \in Objects : ~Pins(thr'[t], p)
      BY <2>1, <2>4, NoneIsNoObject DEF Pins
    <3>2. \A u \in Threads : SameRefs(thr[u], thr'[u])
      BY <2>1, <2>2, <2>3, <3>1 DEF SameRefs
    <3>3. obj' = obj
      BY <1>1, <1>5, <2>4, PinChanges
    <3> QED
      BY <1>1, <3>2, <3>3, RefsKept
  <2>5. CASE the # None
    <3>1. PICK o \in Objects : o = the
      BY <1>1, <2>5 DEF TypeInv, LifecycleTypeOK
    <3>2. obj'[o].refs = obj[o].refs + 1 /\ \A p \in Objects : p # o => obj'[p] = obj[p]
      BY <1>1, <1>5, <2>5, <3>1, PinChanges DEF ObjectChanges
    <3>3. Pins(thr'[t], o)
      BY <2>1, <2>5, <3>1 DEF Pins, PinSteps
    <3>4. /\ <<t, 0>> \notin References(o)
          /\ References(o)' = References(o) \cup {<<t, 0>>}
          /\ \A p \in Objects : p # o => References(p)' = References(p)
      BY <2>1, <2>2, <2>3, <3>3, PinTaken
    <3> QED
      BY <1>1, <3>2, <3>4, RefAdded
  <2> QED
    BY <2>4, <2>5
<1>6. CASE TryAgain(t)
  <2>1. /\ OneMoves(t) /\ thr[t].at = "locked" /\ thr'[t].owned = thr[t].owned
        /\ thr[t].obj \in Objects \cup {None}
    BY <1>1, <1>6, Positions, TryAgainMoves
  <2>2. \A u \in Threads : u # t => SameRefs(thr[u], thr'[u])
    BY <2>1 DEF OneMoves, SameRefs
  <2>3. IF thr[t].obj = None THEN obj' = obj
        ELSE ObjectChanges(thr[t].obj, obj[thr[t].obj].at, obj[thr[t].obj].refs - 1,
                           obj[thr[t].obj].pending)
    BY <1>1, <1>6, <2>1, TryAgainMoves, UnrefChanges
  <2>4. thr'[t].at \in {"pin", "dispose"}
    <3>1. CASE thr[t].obj = None
      BY <1>1, <1>6, <3>1, TryAgainMoves
    <3>2. CASE thr[t].obj # None
      <4>1. thr[t].obj \in Objects /\ Unreferenced(t, thr[t].obj, "pin")
        BY <1>6, <2>1, <3>2 DEF TryAgain
      <4> QED
        BY <1>1, <2>1, <4>1, UnreferencedMoves
    <3> QED
      BY <3>1, <3>2
  <2> QED
    BY <2>1, <2>2, <2>3, <2>4, UnpinStep DEF PinSteps
<1>7. CASE RecoverInParent(t)
  <2>1. /\ OneMoves(t) /\ thr[t].at = "prepared" /\ thr'[t].owned = thr[t].owned
        /\ thr'[t].at \in {"unlock", "dispose"}
    BY <1>1, <1>7, RecoverInParentMoves
  <2>2. \A u \in Threads : u # t => SameRefs(thr[u], thr'[u])
    BY <2>1 DEF OneMoves, SameRefs
  <2>3. prepared = thr[t].obj /\ prepared \in Objects \cup {None}
    BY <1>1, <2>1 DEF ForkInv, At, TypeInv, LifecycleTypeOK
  <2>4. IF prepared = None THEN obj' = obj
        ELSE ObjectChanges(prepared, obj[prepared].at, obj[prepared].refs - 1,
                           obj[prepared].pending)
    BY <1>1, <1>7, <2>3, UnpinChanges DEF RecoverInParent
  <2> QED
    BY <2>1, <2>2, <2>3, <2>4, UnpinStep DEF PinSteps
<1>8. CASE RecoverInChild(t)
  <2>1. /\ thr[t].at = "prepared" /\ thr'[t].owned = thr[t].owned
        /\ thr'[t].at \in {"unlock", "dispose"}
        /\ \A u \in Threads : u # t => thr'[u].at = "gone" /\ thr'[u].owned = thr[u].owned
    BY <1>1, <1>8, RecoverInChildMoves
  <2>2. \A u \in Threads : u # t => thr[u].at \notin PinSteps
    BY <1>1, <2>1 DEF ForkInv, InFork, ForkSteps, PinSteps
  <2>3. \A u \in Threads : u # t => SameRefs(thr[u], thr'[u])
    BY <2>1, <2>2 DEF SameRefs, Pins, PinSteps
  <2>4. prepared = thr[t].obj /\ prepared \in Objects \cup {None}
    BY <1>1, <2>1 DEF ForkInv, At, TypeInv, LifecycleTypeOK
  <2>5. \E threads : DropPin(t, prepared, threads)
    BY <1>8 DEF RecoverInChild
  <2>6. IF prepared = None THEN obj' = obj
        ELSE ObjectChanges(prepared, obj[prepared].at, obj[prepared].refs - 1,
                           obj[prepared].pending)
    BY <1>1, <2>4, <2>5, UnpinChanges
  <2> QED
    BY <2>1, <2>3, <2>4, <2>6, UnpinStep DEF PinSteps
<1> QED
  BY <1>2, <1>3, <1>4, <1>5, <1>6, <1>7, <1>8

\* What is new was new, and has neither references nor tasks.
NewsKept ==
  \A o \in Objects : obj'[o].at = "new" =>
    obj[o].at = "new" /\ obj'[o].refs = obj[o].refs /\ obj'[o].pending \subseteq obj[o].pending

LEMMA NewsAre ==
  ASSUME NEW o \in Objects, NEW at, NEW refs, NEW pending, ObjectChanges(o, at, refs, pending),
         \/ (obj[o].at # "new" /\ at = obj[o].at)
         \/ at \in {"live", "freed"}
         \/ (at = obj[o].at /\ refs = obj[o].refs /\ pending = {})
  PROVE  NewsKept
  BY DEF ObjectChanges, NewsKept

LEMMA NewsStep ==
  ASSUME CountInv, NEW t \in Threads, Step(t)
  PROVE  NewsKept
<1>1. TypeInv /\ ForkInv /\ RefsInv /\ CreatedInv
  BY DEF CountInv
<1>2. CASE ~(Obtain(t) \/ Unref(t) \/ Dispose(t) \/ Destroy(t) \/ Unhook(t) \/ Postpone(t)
               \/ Pin(t) \/ TryAgain(t) \/ RecoverInParent(t) \/ RecoverInChild(t))
  BY <1>1, <1>2, ObjectsSame DEF NewsKept
<1>3. CASE Obtain(t)
  <2>1. CASE the # None
    <3>1. the \in Objects /\ obj[the].at # "new"
      BY <1>1, <2>1 DEF TypeInv, LifecycleTypeOK, CreatedInv
    <3>2. ObjectChanges(the, obj[the].at, obj[the].refs + 1, obj[the].pending)
      BY <1>1, <1>3, <2>1, ObtainChanges
    <3> QED
      BY <3>1, <3>2, NewsAre
  <2>2. CASE the = None
    BY <1>1, <1>3, <2>2, ObtainChanges, NewsAre
  <2> QED
    BY <2>1, <2>2
<1>4. CASE Unref(t)
  <2>1. PICK o \in Objects : /\ thr[t].owned[o] > 0 /\ obj' = [obj EXCEPT ![o].refs = @ - 1]
    BY <1>1, <1>4, UnrefMoves
  <2>2. obj[o].at # "new"
    BY <1>1, <2>1, Positions, Referenced DEF CreatedInv
  <2>3. ObjectChanges(o, obj[o].at, obj[o].refs - 1, obj[o].pending)
    BY <1>1, <2>1, UnrefChanges
  <2> QED
    BY <2>2, <2>3, NewsAre
<1>5. CASE Dispose(t)
  BY <1>1, <1>5, DisposeChanges, NewsAre
<1>6. CASE Destroy(t)
  BY <1>1, <1>6, DestroyChanges, NewsAre
<1>7. CASE Unhook(t)
  BY <1>1, <1>7, UnhookChanges, NewsAre
<1>8. CASE Postpone(t)
  <2>1. PICK c : /\ thr[t].obj \in Objects
                 /\ ObjectChanges(thr[t].obj, obj[thr[t].obj].at, obj[thr[t].obj].refs,
                                  obj[thr[t].obj].pending \cup {c})
    BY <1>1, <1>8, PostponeIs DEF PostponeChanges
  <2>2. obj[thr[t].obj].at # "new"
    BY <1>1, <2>1, NoneIsNoObject DEF CreatedInv
  <2> QED
    BY <2>1, <2>2, NewsAre
<1>9. CASE Pin(t)
  <2>1. CASE the = None
    BY <1>1, <1>9, <2>1, PinChanges DEF NewsKept
  <2>2. CASE the # None
    <3>1. /\ the \in Objects
          /\ ObjectChanges(the, obj[the].at, obj[the].refs + 1, obj[the].pending)
      BY <1>1, <1>9, <2>2, PinChanges
    <3>2. obj[the].at # "new"
      BY <1>1, <2>2 DEF CreatedInv
    <3> QED
      BY <3>1, <3>2, NewsAre
  <2> QED
    BY <2>1, <2>2
<1>10. ASSUME NEW o \in Objects \cup {None}, thr[t].obj = o,
              IF o = None THEN obj' = obj
              ELSE ObjectChanges(o, obj[o].at, obj[o].refs - 1, obj[o].pending)
       PROVE  NewsKept
  <2>1. CASE o = None
    BY <1>10, <2>1 DEF NewsKept
  <2>2. CASE o # None
    <3>1. o \in Objects /\ obj[o].at # "new"
      BY <1>1, <1>10, <2>2 DEF CreatedInv
    <3> QED
      BY <1>10, <2>2, <3>1, NewsAre
  <2> QED
    BY <2>1, <2>2
<1>11. CASE TryAgain(t)
  <2>1. thr[t].obj \in Objects \cup {None}
    BY <1>1, Positions
  <2>2. IF thr[t].obj = None THEN obj' = obj
        ELSE ObjectChanges(thr[t].obj, obj[thr[t].obj].at, obj[thr[t].obj].refs - 1,
                           obj[thr[t].obj].pending)
    BY <1>1, <1>11, <2>1, TryAgainMoves, UnrefChanges
  <2> QED
    BY <1>10, <2>1, <2>2
<1>12. CASE RecoverInParent(t) \/ RecoverInChild(t)
  <2>1. thr[t].at = "prepared" /\ \E threads : DropPin(t, prepared, threads)
    BY <1>12 DEF RecoverInParent, RecoverInChild, At
  <2>2. prepared = thr[t].obj /\ prepared \in Objects \cup {None}
    BY <1>1, <2>1 DEF ForkInv, At, TypeInv, LifecycleTypeOK
  <2>3. IF prepared = None THEN obj' = obj
        ELSE ObjectChanges(prepared, obj[prepared].at, obj[prepared].refs - 1,
                           obj[prepared].pending)
    BY <1>1, <2>1, <2>2, UnpinChanges
  <2> QED
    BY <1>10, <2>2, <2>3
<1> QED
  BY <1>2, <1>3, <1>4, <1>5, <1>6, <1>7, <1>8, <1>9, <1>11, <1>12

\* The singleton changes by Obtain and ClearSingleton only.
LEMMA SingletonStep ==
  ASSUME TypeInv, NEW t \in Threads, Step(t)
  PROVE  \/ the' = the
         \/ ClearSingleton(t) /\ the = thr[t].obj /\ the' = None
         \/ Obtain(t) /\ the = None /\ the' \in Objects /\ obj[the'].at = "new"
<1>1. CASE Obtain(t) /\ the = None
  BY <1>1, ObtainChanges
<1>2. CASE Obtain(t) /\ the # None
  BY <1>2 DEF Obtain
<1>3. CASE ClearSingleton(t)
  BY <1>3 DEF ClearSingleton
<1>4. CASE \/ LibraryInit(t) \/ LibraryDeinit(t) \/ Unref(t) \/ Dispose(t) \/ Destroy(t)
           \/ Hook(t) \/ Unhook(t) \/ Postpone(t) \/ ReleaseStarts(t) \/ ReleaseEnds(t)
  BY <1>4 DEF LibraryInit, LibraryDeinit, Unref, Dispose, Destroy, Hook, Unhook, Postpone,
              ReleaseStarts, ReleaseEnds
<1>5. CASE \/ TransactionEnds(t) \/ HoldLock(t) \/ YieldLock(t) \/ CallBegins(t)
           \/ MakeContext(t) \/ AddContext(t) \/ Push(t) \/ CallEnds(t) \/ ExitThread(t)
  BY <1>5 DEF TransactionEnds, HoldLock, YieldLock, CallBegins, MakeContext, AddContext,
              Push, CallEnds, ExitThread
<1>6. CASE \/ PrepareToFork(t) \/ Pin(t) \/ LockPinned(t) \/ Freeze(t) \/ TryAgain(t)
           \/ RecoverInParent(t) \/ RecoverInChild(t) \/ Recovered(t)
  BY <1>6 DEF PrepareToFork, Pin, LockPinned, Freeze, TryAgain, RecoverInParent,
              RecoverInChild, Recovered
<1> QED
  BY <1>1, <1>2, <1>3, <1>4, <1>5, <1>6 DEF Step

\* A thread comes to work only on what has been created.
LEMMA WorksOn ==
  ASSUME CountInv, NEW t \in Threads, Step(t), NEW u \in Threads
  PROVE  \/ thr'[u].obj = thr[u].obj
         \/ thr'[u].obj = None
         \/ thr'[u].obj \in Objects /\ obj[thr'[u].obj].at # "new"
<1>1. TypeInv /\ ForkInv /\ RefsInv /\ CreatedInv
  BY DEF CountInv
<1>2. CASE \/ LibraryInit(t) \/ LibraryDeinit(t) \/ Hook(t) \/ CallEnds(t) \/ ExitThread(t)
  BY <1>2 DEF LibraryInit, LibraryDeinit, Hook, CallEnds, ExitThread
<1>3. CASE OneMoves(t) /\ thr'[t].obj \in {thr[t].obj, None}
  BY <1>3 DEF OneMoves
<1>4. CASE OneMoves(t) /\ thr'[t].obj \in Objects /\ obj[thr'[t].obj].at # "new"
  BY <1>4 DEF OneMoves
<1>5. CASE Unref(t)
  <2>1. PICK o \in Objects : /\ OneMoves(t) /\ thr[t].owned[o] > 0
                             /\ thr'[t].obj \in {o, None}
    BY <1>1, <1>5, UnrefMoves
  <2>2. obj[o].at # "new"
    BY <1>1, <2>1, Positions, Referenced DEF CreatedInv
  <2> QED
    BY <1>3, <1>4, <2>1, <2>2
<1>6. CASE Unhook(t)
  <2>1. PICK o \in Objects : /\ OneMoves(t) /\ thr[t].owned[o] > 0
                             /\ thr'[t].obj = o
    BY <1>1, <1>6, UnhookMoves
  <2>2. obj[o].at # "new"
    BY <1>1, <2>1, Positions, Referenced DEF CreatedInv
  <2> QED
    BY <1>4, <2>1, <2>2
<1>7. CASE Pin(t)
  <2>1. OneMoves(t) /\ thr'[t].obj = the
    BY <1>1, <1>7, PinMoves
  <2>2. the = None \/ (the \in Objects /\ obj[the].at # "new")
    BY <1>1 DEF TypeInv, LifecycleTypeOK, CreatedInv
  <2> QED
    BY <1>3, <1>4, <2>1, <2>2
<1>8. CASE TryAgain(t)
  <2>1. OneMoves(t)
    BY <1>1, <1>8, TryAgainMoves
  <2>2. thr'[t].obj \in {thr[t].obj, None}
    <3>1. CASE thr[t].obj = None
      BY <1>1, <1>8, <3>1, TryAgainMoves
    <3>2. CASE thr[t].obj # None
      <4>1. /\ thr[t].obj \in Objects /\ Unreferenced(t, thr[t].obj, "pin")
            /\ thr[t].at = "locked"
        BY <1>1, <1>8, <3>2, Positions DEF TryAgain, At
      <4> QED
        BY <1>1, <4>1, UnreferencedMoves
    <3> QED
      BY <3>1, <3>2
  <2> QED
    BY <1>3, <2>1, <2>2
<1>9. CASE RecoverInParent(t)
  <2>1. /\ OneMoves(t) /\ thr'[t].obj \in {prepared, None} /\ thr[t].at = "prepared"
    BY <1>1, <1>9, RecoverInParentMoves
  <2>2. prepared = thr[t].obj
    BY <1>1, <2>1 DEF ForkInv, At
  <2> QED
    BY <1>3, <2>1, <2>2
<1>10. CASE RecoverInChild(t)
  <2>1. /\ thr'[t].obj \in {prepared, None} /\ thr[t].at = "prepared"
        /\ \A v \in Threads : v # t => thr'[v].obj = thr[v].obj
    BY <1>1, <1>10, RecoverInChildMoves
  <2>2. prepared = thr[t].obj
    BY <1>1, <2>1 DEF ForkInv, At
  <2> QED
    BY <2>1, <2>2
<1>11. CASE \/ Obtain(t) \/ Dispose(t) \/ ClearSingleton(t) \/ Destroy(t) \/ Postpone(t)
            \/ ReleaseStarts(t) \/ ReleaseEnds(t) \/ TransactionEnds(t)
  <2>1. OneMoves(t) /\ thr'[t].obj \in {thr[t].obj, None}
    <3>1. CASE Obtain(t)
      BY <1>1, <3>1, ObtainMoves
    <3>2. CASE Dispose(t)
      BY <1>1, <3>2, DisposeMoves
    <3>3. CASE ClearSingleton(t)
      BY <1>1, <3>3, ClearSingletonMoves
    <3>4. CASE Destroy(t)
      BY <1>1, <3>4, DestroyMoves
    <3>5. CASE Postpone(t)
      BY <1>1, <3>5, PostponeMoves
    <3>6. CASE ReleaseStarts(t)
      BY <1>1, <3>6, ReleaseStartsMoves
    <3>7. CASE ReleaseEnds(t)
      BY <1>1, <3>7, ReleaseEndsMoves
    <3>8. CASE TransactionEnds(t)
      BY <1>1, <3>8, TransactionEndsMoves
    <3> QED
      BY <1>11, <3>1, <3>2, <3>3, <3>4, <3>5, <3>6, <3>7, <3>8
  <2> QED
    BY <1>3, <2>1
<1>12. CASE \/ HoldLock(t) \/ YieldLock(t) \/ CallBegins(t) \/ MakeContext(t)
            \/ AddContext(t) \/ Push(t)
  <2>1. OneMoves(t) /\ thr'[t].obj \in {thr[t].obj, None}
    <3>1. CASE HoldLock(t)
      BY <1>1, <3>1, HoldLockMoves
    <3>2. CASE YieldLock(t)
      BY <1>1, <3>2, YieldLockMoves
    <3>3. CASE CallBegins(t)
      BY <1>1, <3>3, CallBeginsMoves
    <3>4. CASE MakeContext(t)
      BY <1>1, <3>4, MakeContextMoves
    <3>5. CASE AddContext(t)
      BY <1>1, <3>5, AddContextMoves
    <3>6. CASE Push(t)
      BY <1>1, <3>6, PushMoves
    <3> QED
      BY <1>12, <3>1, <3>2, <3>3, <3>4, <3>5, <3>6
  <2> QED
    BY <1>3, <2>1
<1>13. CASE PrepareToFork(t) \/ LockPinned(t) \/ Freeze(t) \/ Recovered(t)
  <2>1. OneMoves(t) /\ thr'[t].obj \in {thr[t].obj, None}
    BY <1>1, <1>13, PrepareToForkMoves, LockPinnedMoves, FreezeMoves, RecoveredMoves
  <2> QED
    BY <1>3, <2>1
<1> QED
  BY <1>2, <1>5, <1>6, <1>7, <1>8, <1>9, <1>10, <1>11, <1>12, <1>13 DEF Step

LEMMA CreatedStep ==
  ASSUME CountInv, NEW t \in Threads, Step(t)
  PROVE  CreatedInv'
<1>1. TypeInv /\ CreatedInv
  BY DEF CountInv
<1>2. NewsKept
  BY NewsStep
<1>3. \A o \in Objects : obj'[o].at = "new" => obj'[o].refs = 0 /\ obj'[o].pending = {}
  BY <1>1, <1>2 DEF CreatedInv, NewsKept
<1>4. the' # None => obj'[the'].at # "new"
  <2>1. CASE the' = the
    BY <1>1, <1>2, <2>1 DEF CreatedInv, NewsKept, TypeInv, LifecycleTypeOK
  <2>2. CASE the' = None
    BY <2>2
  <2>3. CASE Obtain(t) /\ the = None
    BY <1>1, <2>3, ObtainChanges DEF ObjectChanges
  <2> QED
    BY <1>1, <2>1, <2>2, <2>3, SingletonStep
<1>5. \A u \in Threads : thr'[u].obj # None => obj'[thr'[u].obj].at # "new"
  <2> SUFFICES ASSUME NEW u \in Threads, thr'[u].obj # None
               PROVE  obj'[thr'[u].obj].at # "new"
    OBVIOUS
  <2>1. thr'[u].obj \in Objects /\ obj[thr'[u].obj].at # "new"
    BY <1>1, WorksOn, Positions DEF CreatedInv
  <2> QED
    BY <1>2, <2>1 DEF NewsKept
<1> QED
  BY <1>3, <1>4, <1>5 DEF CreatedInv

-----------------------------------------------------------------------------
(* The singleton *)

NotLate == "late obtain" \notin liberties
SingletonInv == CountInv /\ ObjectInv /\ NotLate

\* An activity that finalizes did so before, at the same interceptor.
DyingKept(a, b) ==
  IsDying(b) => /\ IsDying(a) /\ b.obj = a.obj
                /\ b.at = "destroy" <=> a.at = "destroy"

LEMMA DyingMoves ==
  ASSUME TypeInv, NEW t \in Threads, Step(t),
         \/ Obtain(t) \/ Dispose(t) \/ Destroy(t) \/ Unhook(t) \/ Postpone(t) \/ Pin(t)
         \/ ~(Unref(t) \/ ClearSingleton(t) \/ TryAgain(t) \/ RecoverInParent(t)
                \/ RecoverInChild(t))
  PROVE  \A u \in Threads : DyingKept(thr[u], thr'[u])
<1>1. CASE \/ LibraryInit(t) \/ LibraryDeinit(t) \/ Hook(t) \/ CallEnds(t) \/ ExitThread(t)
  <2>1. thr' = thr
    BY <1>1 DEF LibraryInit, LibraryDeinit, Hook, CallEnds, ExitThread
  <2> QED
    BY <2>1 DEF DyingKept
<1>2. ASSUME OneMoves(t), DyingKept(thr[t], thr'[t])
      PROVE  \A u \in Threads : DyingKept(thr[u], thr'[u])
  BY <1>2 DEF OneMoves, DyingKept
<1>3. CASE Obtain(t) \/ Dispose(t) \/ Postpone(t) \/ ReleaseEnds(t)
  <2>1. CASE Obtain(t)
    BY <1>2, <2>1, ObtainMoves DEF DyingKept, IsDying, FinalSteps, ReleaseSteps
  <2>2. CASE Dispose(t)
    BY <1>2, <2>2, DisposeMoves DEF DyingKept, IsDying, FinalSteps, ReleaseSteps
  <2>3. CASE Postpone(t)
    BY <1>2, <2>3, PostponeMoves DEF DyingKept, IsDying, FinalSteps, ReleaseSteps
  <2>4. CASE ReleaseEnds(t)
    BY <1>2, <2>4, ReleaseEndsMoves DEF DyingKept, IsDying, FinalSteps, ReleaseSteps
  <2> QED
    BY <1>3, <2>1, <2>2, <2>3, <2>4
<1>4. CASE Destroy(t)
  BY <1>2, <1>4, Positions, DestroyMoves DEF DyingKept, IsDying, FinalSteps, ReleaseSteps
<1>5. CASE Unhook(t)
  <2>1. /\ OneMoves(t) /\ thr[t].at = "idle" /\ thr'[t].at = "release"
        /\ thr'[t].dying = thr[t].dying
    BY <1>5, UnhookMoves
  <2>2. ~thr[t].dying
    BY <2>1 DEF TypeInv, Proper, ReleaseSteps
  <2> QED
    BY <1>2, <2>1, <2>2 DEF DyingKept, IsDying, FinalSteps, ReleaseSteps
<1>6. CASE ReleaseStarts(t)
  <2>1. /\ OneMoves(t) /\ thr[t].at = "release" /\ thr'[t].at = "notify"
        /\ thr'[t].dying = thr[t].dying /\ thr'[t].obj = thr[t].obj
    BY <1>6, ReleaseStartsMoves
  <2> QED
    BY <1>2, <2>1 DEF DyingKept, IsDying, FinalSteps, ReleaseSteps
<1>7. CASE TransactionEnds(t)
  <2>1. /\ OneMoves(t) /\ thr[t].at = "release"
        /\ thr'[t].at = (IF thr[t].dying THEN "clear" ELSE "idle")
        /\ thr'[t].obj = (IF thr[t].dying THEN thr[t].obj ELSE None)
    BY <1>7, TransactionEndsMoves
  <2> QED
    BY <1>2, <2>1 DEF DyingKept, IsDying, FinalSteps, ReleaseSteps
<1>8. CASE HoldLock(t) \/ YieldLock(t) \/ MakeContext(t) \/ AddContext(t) \/ Push(t)
  <2>1. CASE HoldLock(t)
    BY <1>2, <2>1, HoldLockMoves DEF DyingKept, IsDying, FinalSteps, ReleaseSteps
  <2>2. CASE YieldLock(t)
    BY <1>2, <2>2, YieldLockMoves DEF DyingKept, IsDying, FinalSteps, ReleaseSteps
  <2>3. CASE MakeContext(t)
    BY <1>2, <2>3, MakeContextMoves DEF DyingKept, IsDying, FinalSteps, ReleaseSteps
  <2>4. CASE AddContext(t)
    BY <1>2, <2>4, AddContextMoves DEF DyingKept, IsDying, FinalSteps, ReleaseSteps
  <2>5. CASE Push(t)
    BY <1>2, <2>5, PushMoves DEF DyingKept, IsDying, FinalSteps, ReleaseSteps
  <2> QED
    BY <1>8, <2>1, <2>2, <2>3, <2>4, <2>5
<1>9. CASE CallBegins(t)
  BY <1>2, <1>9, CallBeginsMoves DEF DyingKept, IsDying, FinalSteps, ReleaseSteps
<1>10. CASE PrepareToFork(t) \/ Pin(t) \/ LockPinned(t) \/ Freeze(t) \/ Recovered(t)
  BY <1>2, <1>10, PrepareToForkMoves, PinMoves, LockPinnedMoves, FreezeMoves, RecoveredMoves
     DEF DyingKept, IsDying, FinalSteps, ReleaseSteps
<1> QED
  BY <1>1, <1>3, <1>4, <1>5, <1>6, <1>7, <1>8, <1>9, <1>10 DEF Step

LEMMA DyingObjects ==
  ASSUME TypeInv, NEW t \in Threads, IsDying(thr[t])
  PROVE  thr[t].obj \in Objects
  BY ReleasersAre DEF IsDying

\* The invariant again, at the next state.
LEMMA ObjectInvBecomes ==
  ASSUME \A o \in Objects : obj'[o].refs # 0 => the' = o,
         the' # None => obj'[the'].at = "live",
         \A t \in Threads : IsDying(thr'[t]) =>
           /\ obj'[thr'[t].obj].at = "live" /\ obj'[thr'[t].obj].refs = 0
           /\ the' = thr'[t].obj <=> thr'[t].at # "destroy"
           /\ \A u \in Threads : IsDying(thr'[u]) /\ thr'[u].obj = thr'[t].obj => u = t
  PROVE  ObjectInv'
  BY DEF ObjectInv, IsDying, At

LEMMA SingletonQuiet ==
  ASSUME ObjectInv, TypeInv, the' = the,
         \A o \in Objects : obj'[o].at = obj[o].at /\ obj'[o].refs = obj[o].refs,
         \A u \in Threads : DyingKept(thr[u], thr'[u])
  PROVE  ObjectInv'
<1>1. \A o \in Objects : obj'[o].refs # 0 => the' = o
  BY DEF ObjectInv
<1>2. the' # None => obj'[the'].at = "live"
  BY DEF ObjectInv, TypeInv, LifecycleTypeOK
<1>3. \A t \in Threads : IsDying(thr'[t]) =>
        /\ obj'[thr'[t].obj].at = "live" /\ obj'[thr'[t].obj].refs = 0
        /\ the' = thr'[t].obj <=> thr'[t].at # "destroy"
        /\ \A u \in Threads : IsDying(thr'[u]) /\ thr'[u].obj = thr'[t].obj => u = t
  BY DyingObjects DEF ObjectInv, DyingKept, At
<1> QED
  BY <1>1, <1>2, <1>3, ObjectInvBecomes

\* The singleton gains a reference.
LEMMA SingletonGains ==
  ASSUME ObjectInv, TypeInv, NEW o \in Objects, the = o, the' = the,
         obj[o].refs \in Nat, obj[o].refs # 0,
         ObjectChanges(o, obj[o].at, obj[o].refs + 1, obj[o].pending),
         \A u \in Threads : DyingKept(thr[u], thr'[u])
  PROVE  ObjectInv'
<1>1. \A p \in Objects : obj'[p].refs # 0 => the' = p
  BY DEF ObjectInv, ObjectChanges
<1>2. the' # None => obj'[the'].at = "live"
  BY DEF ObjectInv, ObjectChanges
<1>3. \A u \in Threads : IsDying(thr[u]) => thr[u].obj # o
  BY DEF ObjectInv
<1>4. \A t \in Threads : IsDying(thr'[t]) =>
        /\ obj'[thr'[t].obj].at = "live" /\ obj'[thr'[t].obj].refs = 0
        /\ the' = thr'[t].obj <=> thr'[t].at # "destroy"
        /\ \A u \in Threads : IsDying(thr'[u]) /\ thr'[u].obj = thr'[t].obj => u = t
  BY <1>3, DyingObjects DEF ObjectInv, ObjectChanges, DyingKept, At
<1> QED
  BY <1>1, <1>2, <1>4, ObjectInvBecomes

\* The singleton loses a reference: with the last, it is finalized.
LEMMA SingletonLoses ==
  ASSUME ObjectInv, TypeInv, NEW o \in Objects, NEW t \in Threads, the = o, the' = the,
         obj[o].refs \in Nat, obj[o].refs # 0,
         ObjectChanges(o, obj[o].at, obj[o].refs - 1, obj[o].pending),
         \A u \in Threads : u # t => DyingKept(thr[u], thr'[u]),
         IF obj[o].refs = 1 THEN thr'[t].at = "dispose" /\ thr'[t].obj = o ELSE ~IsDying(thr'[t])
  PROVE  ObjectInv'
<1>1. \A p \in Objects : obj'[p].refs # 0 => the' = p
  BY DEF ObjectInv, ObjectChanges
<1>2. the' # None => obj'[the'].at = "live"
  BY DEF ObjectInv, ObjectChanges
<1>3. \A u \in Threads : IsDying(thr[u]) => thr[u].obj # o /\ thr[u].obj \in Objects
  BY DyingObjects DEF ObjectInv
<1>4. obj[o].refs = 1 => obj[o].refs - 1 = 0
  OBVIOUS
<1>5. ASSUME NEW v \in Threads, IsDying(thr'[v])
      PROVE  /\ obj'[thr'[v].obj].at = "live" /\ obj'[thr'[v].obj].refs = 0
             /\ the' = thr'[v].obj <=> thr'[v].at # "destroy"
             /\ \A u \in Threads : IsDying(thr'[u]) /\ thr'[u].obj = thr'[v].obj => u = v
  <2>1. CASE v = t
    <3>1. obj[o].refs = 1 /\ thr'[v].at = "dispose" /\ thr'[v].obj = o
      BY <1>5, <2>1
    <3>2. obj'[o].at = "live" /\ obj'[o].refs = 0
      BY <1>4, <3>1, NoneIsNoObject DEF ObjectInv, ObjectChanges
    <3>3. \A u \in Threads : IsDying(thr'[u]) /\ thr'[u].obj = o => u = t
      BY <1>3 DEF DyingKept
    <3> QED
      BY <2>1, <3>1, <3>2, <3>3
  <2>2. CASE v # t
    <3>1. /\ IsDying(thr[v]) /\ thr'[v].obj = thr[v].obj /\ thr[v].obj # o
          /\ thr[v].obj \in Objects
          /\ thr'[v].at = "destroy" <=> thr[v].at = "destroy"
      BY <1>3, <1>5, <2>2 DEF DyingKept
    <3>2. obj'[thr[v].obj] = obj[thr[v].obj]
      BY <3>1 DEF ObjectChanges
    <3>3. ASSUME NEW u \in Threads, IsDying(thr'[u]), thr'[u].obj = thr'[v].obj
          PROVE  u = v
      <4>1. u # t
        BY <3>1, <3>3
      <4>2. IsDying(thr[u]) /\ thr[u].obj = thr[v].obj
        BY <3>1, <3>3, <4>1 DEF DyingKept
      <4> QED
        BY <3>1, <4>2 DEF ObjectInv
    <3> QED
      BY <3>1, <3>2, <3>3 DEF ObjectInv, At
  <2> QED
    BY <2>1, <2>2
<1> QED
  BY <1>1, <1>2, <1>5, ObjectInvBecomes

LEMMA SingletonOwned ==
  ASSUME SingletonInv, NEW t \in Threads, NEW o \in Objects,
         thr[t].owned[o] > 0 \/ Pins(thr[t], o)
  PROVE  the = o /\ obj[o].refs \in Nat /\ obj[o].refs # 0 /\ obj[o].at = "live"
<1>1. thr[t].owned[o] \in Nat
  BY Positions DEF SingletonInv, CountInv
<1>2. obj[o].refs \in Nat /\ obj[o].refs # 0
  BY <1>1, Referenced DEF SingletonInv, CountInv
<1> QED
  BY <1>2, NoneIsNoObject DEF SingletonInv, ObjectInv

\* A singleton that is not being finalized has references.
LEMMA SingletonObtainable ==
  ASSUME SingletonInv, the # None, Dying => "late obtain" \in liberties
  PROVE  the \in Objects /\ obj[the].refs \in Nat /\ obj[the].refs # 0
<1>1. the \in Objects /\ obj[the].refs # 0
  BY DEF SingletonInv, CountInv, TypeInv, LifecycleTypeOK, Dying, NotLate
<1> QED
  BY <1>1, Referenced DEF SingletonInv, CountInv

\* Whoever had pinned the singleton finds it again.
LEMMA TriesAgainWithout ==
  ASSUME SingletonInv, NEW t \in Threads, TryAgain(t)
  PROVE  thr[t].obj = None
<1>1. TypeInv
  BY DEF SingletonInv, CountInv
<1>2. thr[t].at = "locked" /\ the # thr[t].obj /\ thr[t].obj \in Objects \cup {None}
  BY <1>1, Positions, TryAgainMoves
<1>3. ASSUME thr[t].obj # None
      PROVE  FALSE
  BY <1>2, <1>3, SingletonOwned DEF Pins, PinSteps
<1> QED
  BY <1>3

LEMMA DyingUnpinned ==
  ASSUME SingletonInv, NEW t \in Threads, NEW threads, thr[t].at = "prepared",
         DropPin(t, prepared, threads), the' = the,
         \A u \in Threads : u # t => DyingKept(thr[u], thr'[u]),
         IF prepared # None /\ obj[prepared].refs = 1
         THEN thr'[t].at = "dispose" /\ thr'[t].obj = prepared
         ELSE thr'[t].at = "unlock"
  PROVE  ObjectInv'
<1>1. TypeInv /\ ForkInv /\ ObjectInv
  BY DEF SingletonInv, CountInv
<1>2. prepared = thr[t].obj /\ prepared \in Objects \cup {None}
  BY <1>1 DEF ForkInv, At, TypeInv, LifecycleTypeOK
<1>3. thr'[t].at = "unlock" => ~IsDying(thr'[t])
  BY DEF IsDying, FinalSteps, ReleaseSteps
<1>4. CASE prepared = None
  <2>1. obj' = obj
    BY <1>1, <1>2, <1>4, UnpinChanges
  <2>2. \A u \in Threads : DyingKept(thr[u], thr'[u])
    BY <1>3, <1>4 DEF DyingKept
  <2> QED
    BY <1>1, <2>1, <2>2, SingletonQuiet
<1>5. CASE prepared # None
  <2>1. PICK o \in Objects : o = prepared
    BY <1>2, <1>5
  <2>2. ObjectChanges(o, obj[o].at, obj[o].refs - 1, obj[o].pending)
    BY <1>1, <1>2, <1>5, <2>1, UnpinChanges
  <2>3. the = o /\ obj[o].refs \in Nat /\ obj[o].refs # 0
    BY <1>2, <2>1, SingletonOwned DEF Pins, PinSteps
  <2>4. IF obj[o].refs = 1 THEN thr'[t].at = "dispose" /\ thr'[t].obj = o ELSE ~IsDying(thr'[t])
    BY <1>3, <1>5, <2>1
  <2> QED
    BY <1>1, <2>2, <2>3, <2>4, SingletonLoses
<1> QED
  BY <1>4, <1>5

LEMMA ObjectStep ==
  ASSUME SingletonInv, NEW t \in Threads, Step(t)
  PROVE  ObjectInv'
<1>1. TypeInv /\ ForkInv /\ RefsInv /\ CreatedInv /\ ObjectInv
  BY DEF SingletonInv, CountInv
<1>2. CASE Obtain(t)
  <2>1. \A u \in Threads : DyingKept(thr[u], thr'[u])
    BY <1>1, <1>2, DyingMoves
  <2>2. CASE the # None
    <3>1. PICK o \in Objects : o = the
      BY <2>2, <1>1 DEF TypeInv, LifecycleTypeOK
    <3>2. obj[o].refs \in Nat /\ obj[o].refs # 0
      BY <1>2, <2>2, <3>1, SingletonObtainable DEF Obtain
    <3>3. ObjectChanges(o, obj[o].at, obj[o].refs + 1, obj[o].pending) /\ the' = the
      BY <1>1, <1>2, <2>2, <3>1, ObtainChanges
    <3> QED
      BY <1>1, <2>1, <3>1, <3>2, <3>3, SingletonGains
  <2>3. CASE the = None
    <3>1. PICK o \in Objects : /\ obj[o].at = "new" /\ the' = o
                               /\ ObjectChanges(o, "live", 1, obj[o].pending)
      BY <1>1, <1>2, <2>3, ObtainChanges
    <3>2. \A p \in Objects : obj'[p].refs # 0 => the' = p
      BY <1>1, <2>3, <3>1, NoneIsNoObject DEF ObjectInv, ObjectChanges
    <3>3. the' # None => obj'[the'].at = "live"
      BY <3>1 DEF ObjectChanges
    <3>4. ASSUME NEW v \in Threads, IsDying(thr'[v])
          PROVE  /\ obj'[thr'[v].obj].at = "live" /\ obj'[thr'[v].obj].refs = 0
                 /\ the' = thr'[v].obj <=> thr'[v].at # "destroy"
                 /\ \A u \in Threads : IsDying(thr'[u]) /\ thr'[u].obj = thr'[v].obj => u = v
      <4>1. /\ IsDying(thr[v]) /\ thr'[v].obj = thr[v].obj /\ thr[v].obj \in Objects
            /\ thr'[v].at = "destroy" <=> thr[v].at = "destroy"
        BY <1>1, <2>1, <3>4, DyingObjects DEF DyingKept
      <4>2. thr[v].obj # o
        BY <1>1, <3>1, <4>1 DEF ObjectInv
      <4>3. obj'[thr[v].obj] = obj[thr[v].obj]
        BY <3>1, <4>1, <4>2 DEF ObjectChanges
      <4>4. thr[v].at = "destroy"
        BY <1>1, <2>3, <4>1, NoneIsNoObject DEF ObjectInv, At
      <4>5. ASSUME NEW u \in Threads, IsDying(thr'[u]), thr'[u].obj = thr'[v].obj
            PROVE  u = v
        BY <1>1, <2>1, <4>1, <4>5 DEF ObjectInv, DyingKept
      <4> QED
        BY <1>1, <3>1, <4>1, <4>2, <4>3, <4>4, <4>5 DEF ObjectInv
    <3> QED
      BY <3>2, <3>3, <3>4, ObjectInvBecomes
  <2> QED
    BY <2>2, <2>3
<1>3. CASE Unref(t)
  <2>1. PICK o \in Objects :
          /\ OneMoves(t) /\ thr[t].at = "idle" /\ thr[t].owned[o] > 0
          /\ obj' = [obj EXCEPT ![o].refs = @ - 1]
          /\ thr'[t].at = (IF obj[o].refs = 1 THEN "dispose" ELSE "idle")
          /\ thr'[t].obj = (IF obj[o].refs = 1 THEN o ELSE None)
    BY <1>1, <1>3, UnrefMoves
  <2>2. the = o /\ obj[o].refs \in Nat /\ obj[o].refs # 0
    BY <2>1, SingletonOwned
  <2>3. ObjectChanges(o, obj[o].at, obj[o].refs - 1, obj[o].pending)
    BY <1>1, <2>1, UnrefChanges
  <2>4. \A u \in Threads : u # t => DyingKept(thr[u], thr'[u])
    BY <2>1 DEF OneMoves, DyingKept
  <2>5. IF obj[o].refs = 1 THEN thr'[t].at = "dispose" /\ thr'[t].obj = o ELSE ~IsDying(thr'[t])
    BY <2>1 DEF IsDying, FinalSteps, ReleaseSteps
  <2>6. the' = the
    BY <1>3 DEF Unref
  <2> QED
    BY <1>1, <2>2, <2>3, <2>4, <2>5, <2>6, SingletonLoses
<1>4. CASE ClearSingleton(t)
  <2>1. /\ OneMoves(t) /\ thr[t].at = "clear" /\ thr'[t].at = "destroy"
        /\ thr'[t].obj = thr[t].obj
    BY <1>1, <1>4, ClearSingletonMoves
  <2>2. IsDying(thr[t]) /\ thr[t].obj \in Objects
    BY <1>1, <2>1, DyingObjects DEF IsDying, FinalSteps
  <2>3. the = thr[t].obj /\ obj[the].refs = 0 /\ the' = None
    BY <1>1, <1>4, <2>1, <2>2 DEF ObjectInv, At, ClearSingleton
  <2>4. obj' = obj
    BY <1>4 DEF ClearSingleton
  <2>5. \A p \in Objects : obj'[p].refs # 0 => the' = p
    BY <1>1, <2>3, <2>4 DEF ObjectInv
  <2>6. ASSUME NEW v \in Threads, IsDying(thr'[v])
        PROVE  /\ obj'[thr'[v].obj].at = "live" /\ obj'[thr'[v].obj].refs = 0
               /\ the' = thr'[v].obj <=> thr'[v].at # "destroy"
               /\ \A u \in Threads : IsDying(thr'[u]) /\ thr'[u].obj = thr'[v].obj => u = v
    <3>1. /\ IsDying(thr[v]) /\ thr'[v].obj = thr[v].obj /\ thr[v].obj \in Objects
          /\ v # t => thr'[v].at = thr[v].at
      BY <1>1, <2>1, <2>2, <2>6, DyingObjects DEF OneMoves
    <3>2. thr'[v].at = "destroy"
      BY <1>1, <2>1, <2>2, <2>3, <3>1 DEF ObjectInv, At
    <3>3. ASSUME NEW u \in Threads, IsDying(thr'[u]), thr'[u].obj = thr'[v].obj
          PROVE  u = v
      <4>1. IsDying(thr[u]) /\ thr[u].obj = thr[v].obj
        BY <2>1, <2>2, <3>1, <3>3 DEF OneMoves
      <4> QED
        BY <1>1, <3>1, <4>1 DEF ObjectInv
    <3> QED
      BY <1>1, <2>3, <2>4, <3>1, <3>2, <3>3, NoneIsNoObject DEF ObjectInv
  <2> QED
    BY <2>3, <2>5, <2>6, ObjectInvBecomes
<1>5. CASE Destroy(t)
  <2>1. \A u \in Threads : DyingKept(thr[u], thr'[u])
    BY <1>1, <1>5, DyingMoves
  <2>2. PICK o \in Objects : o = thr[t].obj
    BY <1>1, <1>5, DestroyChanges
  <2>3. ObjectChanges(o, "freed", obj[o].refs, {})
    BY <1>1, <1>5, <2>2, DestroyChanges
  <2>4. IsDying(thr[t]) /\ thr[t].at = "destroy" /\ ~IsDying(thr'[t])
    BY <1>1, <1>5, Positions, DestroyMoves DEF IsDying, FinalSteps, ReleaseSteps
  <2>5. the # o /\ the' = the
    BY <1>1, <1>5, <2>2, <2>4 DEF ObjectInv, At, Destroy
  <2>6. \A p \in Objects : obj'[p].refs # 0 => the' = p
    BY <1>1, <2>3, <2>5 DEF ObjectInv, ObjectChanges
  <2>7. the' # None => obj'[the'].at = "live"
    BY <1>1, <2>3, <2>5 DEF ObjectInv, ObjectChanges, TypeInv, LifecycleTypeOK
  <2>8. ASSUME NEW v \in Threads, IsDying(thr'[v])
        PROVE  /\ obj'[thr'[v].obj].at = "live" /\ obj'[thr'[v].obj].refs = 0
               /\ the' = thr'[v].obj <=> thr'[v].at # "destroy"
               /\ \A u \in Threads : IsDying(thr'[u]) /\ thr'[u].obj = thr'[v].obj => u = v
    <3>1. /\ IsDying(thr[v]) /\ thr'[v].obj = thr[v].obj /\ thr[v].obj \in Objects
          /\ thr'[v].at = "destroy" <=> thr[v].at = "destroy"
      BY <1>1, <2>1, <2>8, DyingObjects DEF DyingKept
    <3>2. thr[v].obj # o
      BY <1>1, <2>2, <2>4, <2>8, <3>1 DEF ObjectInv
    <3>3. obj'[thr[v].obj] = obj[thr[v].obj]
      BY <2>3, <3>1, <3>2 DEF ObjectChanges
    <3>4. ASSUME NEW u \in Threads, IsDying(thr'[u]), thr'[u].obj = thr'[v].obj
          PROVE  u = v
      BY <1>1, <2>1, <3>1, <3>4 DEF ObjectInv, DyingKept
    <3> QED
      BY <1>1, <2>5, <3>1, <3>3, <3>4 DEF ObjectInv, At
  <2> QED
    BY <2>6, <2>7, <2>8, ObjectInvBecomes
<1>6. CASE Pin(t)
  <2>1. \A u \in Threads : DyingKept(thr[u], thr'[u])
    BY <1>1, <1>6, DyingMoves
  <2>2. the' = the
    BY <1>6 DEF Pin
  <2>3. CASE the # None
    <3>1. PICK o \in Objects : o = the
      BY <2>3, <1>1 DEF TypeInv, LifecycleTypeOK
    <3>2. obj[o].refs \in Nat /\ obj[o].refs # 0
      BY <1>6, <2>3, <3>1, SingletonObtainable DEF Pin
    <3>3. ObjectChanges(o, obj[o].at, obj[o].refs + 1, obj[o].pending)
      BY <1>1, <1>6, <2>3, <3>1, PinChanges
    <3> QED
      BY <1>1, <2>1, <2>2, <3>1, <3>2, <3>3, SingletonGains
  <2>4. CASE the = None
    <3>1. obj' = obj
      BY <1>1, <1>6, <2>4, PinChanges
    <3> QED
      BY <1>1, <2>1, <2>2, <3>1, SingletonQuiet
  <2> QED
    BY <2>3, <2>4
<1>7. CASE TryAgain(t)
  <2>1. /\ OneMoves(t) /\ thr'[t].at = "pin" /\ obj' = obj
    BY <1>1, <1>7, TriesAgainWithout, TryAgainMoves
  <2>2. \A u \in Threads : DyingKept(thr[u], thr'[u])
    BY <2>1 DEF OneMoves, DyingKept, IsDying, FinalSteps, ReleaseSteps
  <2>3. the' = the
    BY <1>7 DEF TryAgain
  <2> QED
    BY <1>1, <2>1, <2>2, <2>3, SingletonQuiet
<1>8. CASE RecoverInParent(t)
  <2>1. /\ OneMoves(t) /\ thr[t].at = "prepared"
        /\ IF prepared # None /\ obj[prepared].refs = 1
           THEN thr'[t].at = "dispose" /\ thr'[t].obj = prepared
           ELSE thr'[t].at = "unlock"
    BY <1>1, <1>8, RecoverInParentMoves
  <2>2. \A u \in Threads : u # t => DyingKept(thr[u], thr'[u])
    BY <2>1 DEF OneMoves, DyingKept
  <2>3. DropPin(t, prepared, thr) /\ the' = the
    BY <1>8 DEF RecoverInParent
  <2> QED
    BY <2>1, <2>2, <2>3, DyingUnpinned
<1>9. CASE RecoverInChild(t)
  <2>1. /\ thr[t].at = "prepared"
        /\ IF prepared # None /\ obj[prepared].refs = 1
           THEN thr'[t].at = "dispose" /\ thr'[t].obj = prepared
           ELSE thr'[t].at = "unlock"
        /\ \A u \in Threads : u # t => thr'[u].at = "gone"
    BY <1>1, <1>9, RecoverInChildMoves
  <2>2. \A u \in Threads : u # t => DyingKept(thr[u], thr'[u])
    BY <2>1 DEF DyingKept, IsDying, FinalSteps, ReleaseSteps
  <2>3. PICK threads : DropPin(t, prepared, threads)
    BY <1>9 DEF RecoverInChild
  <2>4. the' = the
    BY <1>9 DEF RecoverInChild
  <2> QED
    BY <2>1, <2>2, <2>3, <2>4, DyingUnpinned
<1>10. CASE Dispose(t) \/ Unhook(t) \/ Postpone(t)
  <2>1. \A u \in Threads : DyingKept(thr[u], thr'[u])
    BY <1>1, <1>10, DyingMoves
  <2>2. \A o \in Objects : obj'[o].at = obj[o].at /\ obj'[o].refs = obj[o].refs
    BY <1>1, <1>10, DisposeChanges, UnhookChanges, PostponeIs DEF ObjectChanges, PostponeChanges
  <2>3. the' = the
    BY <1>10 DEF Dispose, Unhook, Postpone
  <2> QED
    BY <1>1, <2>1, <2>2, <2>3, SingletonQuiet
<1>11. CASE ~(Obtain(t) \/ Unref(t) \/ ClearSingleton(t) \/ Dispose(t) \/ Destroy(t)
               \/ Unhook(t) \/ Postpone(t) \/ Pin(t) \/ TryAgain(t) \/ RecoverInParent(t)
               \/ RecoverInChild(t))
  <2>1. \A u \in Threads : DyingKept(thr[u], thr'[u])
    BY <1>1, <1>11, DyingMoves
  <2>2. obj' = obj
    BY <1>1, <1>11, ObjectsSame
  <2>3. the' = the
    BY <1>1, <1>11, SingletonStep
  <2> QED
    BY <1>1, <2>1, <2>2, <2>3, SingletonQuiet
<1> QED
  BY <1>2, <1>3, <1>4, <1>5, <1>6, <1>7, <1>8, <1>9, <1>10, <1>11

-----------------------------------------------------------------------------
(* Hooks and tasks *)

\* The tasks a thread is about to run, or to put off.
Held(a) ==
  IF a.at = "release" THEN a.tasks ELSE IF a.at = "notify" THEN a.tasks \cup {a.ctx} ELSE {}

\* The interceptor a thread finalizes has been emptied of hooks.
Emptied(a) == IsDying(a) /\ a.at # "dispose"

\* Only functions of the singleton are hooked.
HooksInv ==
  /\ \A c \in Ctxs : fc[c].at = "new" => fc[c].of = None
  /\ \A c \in Ctxs : fc[c].at # "new" => fc[c].of \in Objects /\ obj[fc[c].of].at # "new"
  /\ \A c \in Ctxs : fc[c].at = "hooked" => the = fc[c].of
  /\ \A t \in Threads, c \in Ctxs :
       Emptied(thr[t]) /\ fc[c].at = "hooked" => fc[c].of # thr[t].obj

\* A function context that awaits its release is in the pending tasks of its
\* interceptor or held by one thread that works on that.
TasksInv ==
  /\ \A o \in Objects : obj[o].at # "live" => obj[o].pending = {}
  /\ \A o \in Objects : \A c \in obj[o].pending : fc[c].at = "unhooked" /\ fc[c].of = o
  /\ \A t \in Threads : \A c \in Held(thr[t]) :
       /\ c \in Ctxs /\ fc[c].at = "unhooked" /\ fc[c].of = thr[t].obj
       /\ c \notin obj[thr[t].obj].pending
       /\ \A u \in Threads : c \in Held(thr[u]) => u = t
  /\ \A t \in Threads : At(t, "notify") => thr[t].ctx \notin thr[t].tasks
  /\ ~inChild => \A c \in Ctxs : fc[c].at = "unhooked" =>
       c \in obj[fc[c].of].pending \/ \E t \in Threads : c \in Held(thr[t])

ReleaseInv == SingletonInv /\ HooksInv /\ TasksInv

\* The counters apart, the function contexts are as they were.
SameContexts == \A c \in Ctxs : fc'[c].at = fc[c].at /\ fc'[c].of = fc[c].of

LEMMA SameContextsStep ==
  ASSUME TypeInv, NEW t \in Threads, Step(t),
         ~(Dispose(t) \/ Destroy(t) \/ Hook(t) \/ Unhook(t) \/ ReleaseEnds(t))
  PROVE  SameContexts
<1>1. LifecycleTypeOK /\ {t} \in SUBSET Threads
  BY DEF TypeInv
<1>2. CASE LibraryDeinit(t) \/ MakeContext(t) \/ ExitThread(t)
  <2>1. fc' \in {fc, Released({t})}
    BY <1>2 DEF LibraryDeinit, MakeContext, ExitThread
  <2> QED
    BY <1>1, <2>1, ReleasedAre DEF SameContexts
<1>3. CASE CallBegins(t)
  <2>1. PICK c \in Ctxs : fc' = [fc EXCEPT ![c].counter = @ + 1]
    BY <1>3, CallBeginsMoves
  <2>2. fc[c].counter + 1 \in Int /\ fc' = [fc EXCEPT ![c].counter = fc[c].counter + 1]
    BY <1>1, <2>1 DEF LifecycleTypeOK, FunctionContext
  <2>3. CounterChange(c, fc[c].counter + 1)
    BY <1>1, <2>2, CounterChanges
  <2> QED
    BY <2>3 DEF CounterChange, SameContexts
<1>4. CASE CallEnds(t)
  BY <1>4, CallEndsIs DEF CounterChange, SameContexts
<1>5. CASE RecoverInChild(t)
  BY <1>5, RecountedAre DEF SameContexts
<1>6. CASE \/ LibraryInit(t) \/ Obtain(t) \/ Unref(t) \/ ClearSingleton(t)
           \/ Postpone(t) \/ ReleaseStarts(t) \/ TransactionEnds(t) \/ HoldLock(t)
  BY <1>6 DEF LibraryInit, Obtain, Unref, ClearSingleton, Postpone, ReleaseStarts,
              TransactionEnds, HoldLock, SameContexts
<1>7. CASE \/ YieldLock(t) \/ AddContext(t) \/ Push(t) \/ PrepareToFork(t)
           \/ Pin(t) \/ LockPinned(t) \/ Freeze(t) \/ TryAgain(t) \/ RecoverInParent(t)
           \/ Recovered(t)
  BY <1>7 DEF YieldLock, AddContext, Push, PrepareToFork, Pin, LockPinned, Freeze, TryAgain,
              RecoverInParent, Recovered, SameContexts
<1> QED
  BY <1>2, <1>3, <1>4, <1>5, <1>6, <1>7 DEF Step

\* Of an activity whose interceptor has been emptied.
EmptiedKept(a, b) == Emptied(b) => Emptied(a) /\ b.obj = a.obj

LEMMA EmptiedMoves ==
  ASSUME SingletonInv, NEW t \in Threads, Step(t), ~Dispose(t)
  PROVE  \A u \in Threads : EmptiedKept(thr[u], thr'[u])
<1>1. TypeInv
  BY DEF SingletonInv, CountInv
<1>2. CASE \/ LibraryInit(t) \/ LibraryDeinit(t) \/ Hook(t) \/ CallEnds(t) \/ ExitThread(t)
  <2>1. thr' = thr
    BY <1>2 DEF LibraryInit, LibraryDeinit, Hook, CallEnds, ExitThread
  <2> QED
    BY <2>1 DEF EmptiedKept
<1>3. ASSUME OneMoves(t), EmptiedKept(thr[t], thr'[t])
      PROVE  \A u \in Threads : EmptiedKept(thr[u], thr'[u])
  BY <1>3 DEF OneMoves, EmptiedKept
<1>4. ASSUME OneMoves(t), thr'[t].at \notin {"clear", "destroy", "release", "notify"}
      PROVE  \A u \in Threads : EmptiedKept(thr[u], thr'[u])
  BY <1>3, <1>4 DEF EmptiedKept, Emptied, IsDying, FinalSteps, ReleaseSteps
<1>5. CASE Obtain(t) \/ Unref(t) \/ Destroy(t)
  <2>1. OneMoves(t) /\ thr'[t].at \notin {"clear", "destroy", "release", "notify"}
    BY <1>1, <1>5, Positions, ObtainMoves, UnrefMoves, DestroyMoves
  <2> QED
    BY <1>4, <2>1
<1>6. CASE HoldLock(t) \/ YieldLock(t) \/ CallBegins(t) \/ MakeContext(t) \/ AddContext(t)
             \/ Push(t)
  <2>1. OneMoves(t) /\ thr'[t].at \notin {"clear", "destroy", "release", "notify"}
    <3>1. CASE HoldLock(t)
      BY <1>1, <3>1, HoldLockMoves
    <3>2. CASE YieldLock(t)
      BY <1>1, <3>2, YieldLockMoves
    <3>3. CASE CallBegins(t)
      BY <1>1, <3>3, CallBeginsMoves
    <3>4. CASE MakeContext(t)
      BY <1>1, <3>4, MakeContextMoves
    <3>5. CASE AddContext(t)
      BY <1>1, <3>5, AddContextMoves
    <3>6. CASE Push(t)
      BY <1>1, <3>6, PushMoves
    <3> QED
      BY <1>6, <3>1, <3>2, <3>3, <3>4, <3>5, <3>6
  <2> QED
    BY <1>4, <2>1
<1>7. CASE \/ PrepareToFork(t) \/ Pin(t) \/ LockPinned(t) \/ Freeze(t)
           \/ RecoverInParent(t) \/ Recovered(t)
  <2>1. OneMoves(t) /\ thr'[t].at \notin {"clear", "destroy", "release", "notify"}
    BY <1>1, <1>7, PrepareToForkMoves, PinMoves, LockPinnedMoves, FreezeMoves,
       RecoverInParentMoves, RecoveredMoves
  <2> QED
    BY <1>4, <2>1
<1>8. CASE TryAgain(t)
  <2>1. OneMoves(t) /\ thr'[t].at \notin {"clear", "destroy", "release", "notify"}
    BY <1>1, <1>8, TriesAgainWithout, TryAgainMoves
  <2> QED
    BY <1>4, <2>1
<1>9. CASE ClearSingleton(t)
  BY <1>1, <1>3, <1>9, ClearSingletonMoves DEF EmptiedKept, Emptied, IsDying, FinalSteps
<1>10. CASE Unhook(t)
  <2>1. /\ OneMoves(t) /\ thr[t].at = "idle" /\ thr'[t].at = "release"
        /\ thr'[t].dying = thr[t].dying
    BY <1>1, <1>10, UnhookMoves
  <2>2. ~thr[t].dying
    BY <1>1, <2>1 DEF TypeInv, Proper, ReleaseSteps
  <2> QED
    BY <1>3, <2>1, <2>2 DEF EmptiedKept, Emptied, IsDying, FinalSteps
<1>11. CASE Postpone(t)
  <2>1. /\ OneMoves(t) /\ thr[t].at = "release" /\ thr'[t].at = "release"
        /\ thr'[t].dying = thr[t].dying /\ thr'[t].obj = thr[t].obj
    BY <1>1, <1>11, PostponeMoves
  <2> QED
    BY <1>3, <2>1 DEF EmptiedKept, Emptied, IsDying, FinalSteps, ReleaseSteps
<1>12. CASE ReleaseStarts(t)
  <2>1. /\ OneMoves(t) /\ thr[t].at = "release" /\ thr'[t].at = "notify"
        /\ thr'[t].dying = thr[t].dying /\ thr'[t].obj = thr[t].obj
    BY <1>1, <1>12, ReleaseStartsMoves
  <2> QED
    BY <1>3, <2>1 DEF EmptiedKept, Emptied, IsDying, FinalSteps, ReleaseSteps
<1>13. CASE ReleaseEnds(t)
  <2>1. /\ OneMoves(t) /\ thr[t].at = "notify" /\ thr'[t].at = "release"
        /\ thr'[t].dying = thr[t].dying /\ thr'[t].obj = thr[t].obj
    BY <1>1, <1>13, ReleaseEndsMoves
  <2> QED
    BY <1>3, <2>1 DEF EmptiedKept, Emptied, IsDying, FinalSteps, ReleaseSteps
<1>14. CASE TransactionEnds(t)
  <2>1. /\ OneMoves(t) /\ thr[t].at = "release"
        /\ thr'[t].at = (IF thr[t].dying THEN "clear" ELSE "idle")
        /\ thr'[t].obj = (IF thr[t].dying THEN thr[t].obj ELSE None)
    BY <1>1, <1>14, TransactionEndsMoves
  <2> QED
    BY <1>3, <2>1 DEF EmptiedKept, Emptied, IsDying, FinalSteps, ReleaseSteps
<1>15. CASE RecoverInChild(t)
  <2>1. \A u \in Threads : thr'[u].at \in {"gone", "dispose", "unlock"}
    BY <1>1, <1>15, RecoverInChildMoves
  <2> QED
    BY <2>1 DEF EmptiedKept, Emptied, IsDying, FinalSteps, ReleaseSteps
<1> QED
  BY <1>2, <1>5, <1>6, <1>7, <1>8, <1>9, <1>10, <1>11, <1>12, <1>13, <1>14, <1>15 DEF Step

\* Of what an activity holds.
HeldKept(a, b) ==
  /\ Held(b) = Held(a) /\ (Held(a) # {} => b.obj = a.obj)
  /\ b.at = "notify" => b.ctx \notin b.tasks \/ (a.at = "notify" /\ b.ctx = a.ctx
                                                   /\ b.tasks = a.tasks)

LEMMA HeldMoves ==
  ASSUME SingletonInv, NEW t \in Threads, Step(t),
         ~(Dispose(t) \/ Unhook(t) \/ Postpone(t) \/ ReleaseEnds(t) \/ RecoverInChild(t))
  PROVE  \A u \in Threads : HeldKept(thr[u], thr'[u])
<1>1. TypeInv
  BY DEF SingletonInv, CountInv
<1>2. CASE \/ LibraryInit(t) \/ LibraryDeinit(t) \/ Hook(t) \/ CallEnds(t) \/ ExitThread(t)
  <2>1. thr' = thr
    BY <1>2 DEF LibraryInit, LibraryDeinit, Hook, CallEnds, ExitThread
  <2> QED
    BY <2>1 DEF HeldKept
<1>3. ASSUME OneMoves(t), HeldKept(thr[t], thr'[t])
      PROVE  \A u \in Threads : HeldKept(thr[u], thr'[u])
  BY <1>3 DEF OneMoves, HeldKept
<1>4. ASSUME OneMoves(t), thr[t].at \notin ReleaseSteps, thr'[t].at \notin ReleaseSteps
      PROVE  \A u \in Threads : HeldKept(thr[u], thr'[u])
  BY <1>3, <1>4 DEF HeldKept, Held, ReleaseSteps
<1>5. CASE Obtain(t) \/ Unref(t) \/ Destroy(t) \/ ClearSingleton(t)
  <2>1. OneMoves(t) /\ thr[t].at \notin ReleaseSteps /\ thr'[t].at \notin ReleaseSteps
    BY <1>1, <1>5, Positions, ObtainMoves, UnrefMoves, DestroyMoves, ClearSingletonMoves
       DEF ReleaseSteps
  <2> QED
    BY <1>4, <2>1
<1>6. CASE HoldLock(t) \/ YieldLock(t) \/ CallBegins(t) \/ MakeContext(t) \/ AddContext(t)
             \/ Push(t)
  <2>1. OneMoves(t) /\ thr[t].at \notin ReleaseSteps /\ thr'[t].at \notin ReleaseSteps
    <3>1. CASE HoldLock(t)
      BY <1>1, <3>1, HoldLockMoves DEF ReleaseSteps
    <3>2. CASE YieldLock(t)
      BY <1>1, <3>2, YieldLockMoves DEF ReleaseSteps
    <3>3. CASE CallBegins(t)
      BY <1>1, <3>3, CallBeginsMoves DEF ReleaseSteps
    <3>4. CASE MakeContext(t)
      BY <1>1, <3>4, MakeContextMoves DEF ReleaseSteps
    <3>5. CASE AddContext(t)
      BY <1>1, <3>5, AddContextMoves DEF ReleaseSteps
    <3>6. CASE Push(t)
      BY <1>1, <3>6, PushMoves DEF ReleaseSteps
    <3> QED
      BY <1>6, <3>1, <3>2, <3>3, <3>4, <3>5, <3>6
  <2> QED
    BY <1>4, <2>1
<1>7. CASE \/ PrepareToFork(t) \/ Pin(t) \/ LockPinned(t) \/ Freeze(t)
           \/ RecoverInParent(t) \/ Recovered(t)
  <2>1. OneMoves(t) /\ thr[t].at \notin ReleaseSteps /\ thr'[t].at \notin ReleaseSteps
    BY <1>1, <1>7, PrepareToForkMoves, PinMoves, LockPinnedMoves, FreezeMoves,
       RecoverInParentMoves, RecoveredMoves DEF ReleaseSteps
  <2> QED
    BY <1>4, <2>1
<1>8. CASE TryAgain(t)
  <2>1. OneMoves(t) /\ thr[t].at \notin ReleaseSteps /\ thr'[t].at \notin ReleaseSteps
    BY <1>1, <1>8, TriesAgainWithout, TryAgainMoves DEF ReleaseSteps
  <2> QED
    BY <1>4, <2>1
<1>9. CASE ReleaseStarts(t)
  <2>1. PICK c \in thr[t].tasks :
          /\ OneMoves(t) /\ thr[t].at = "release" /\ thr'[t].tasks = thr[t].tasks \ {c}
          /\ thr'[t].ctx = c /\ thr'[t].at = "notify" /\ thr'[t].obj = thr[t].obj
    BY <1>1, <1>9, ReleaseStartsMoves
  <2> QED
    BY <1>3, <2>1 DEF HeldKept, Held
<1>10. CASE TransactionEnds(t)
  <2>1. /\ OneMoves(t) /\ thr[t].at = "release" /\ thr[t].tasks = {}
        /\ thr'[t].at \in {"clear", "idle"}
    BY <1>1, <1>10, TransactionEndsMoves
  <2> QED
    BY <1>3, <2>1 DEF HeldKept, Held
<1> QED
  BY <1>2, <1>5, <1>6, <1>7, <1>8, <1>9, <1>10 DEF Step

LEMMA Workers ==
  ASSUME SingletonInv, NEW t \in Threads, thr[t].at \in ReleaseSteps \cup FinalSteps
  PROVE  thr[t].obj \in Objects /\ obj[thr[t].obj].at = "live"
<1>1. TypeInv /\ ObjectInv /\ Proper(thr[t])
  BY DEF SingletonInv, CountInv, TypeInv
<1>2. thr[t].obj \in Objects
  BY <1>1, ReleasersAre
<1>3. CASE IsDying(thr[t])
  BY <1>1, <1>2, <1>3 DEF ObjectInv
<1>4. CASE ~IsDying(thr[t])
  <2>1. thr[t].owned[thr[t].obj] > 0
    BY <1>1, <1>4 DEF IsDying, Proper
  <2> QED
    BY <1>2, <2>1, SingletonOwned
<1> QED
  BY <1>2, <1>3, <1>4

\* The program and the side of the fork one is on.
LEMMA LibertiesStep ==
  ASSUME NEW t \in Threads, Step(t)
  PROVE  liberties' = liberties /\ (inChild' = inChild \/ RecoverInChild(t))
<1>1. CASE \/ LibraryInit(t) \/ LibraryDeinit(t) \/ Obtain(t) \/ Unref(t) \/ Dispose(t)
           \/ ClearSingleton(t) \/ Destroy(t) \/ Hook(t) \/ Unhook(t) \/ Postpone(t)
  BY <1>1 DEF LibraryInit, LibraryDeinit, Obtain, Unref, Dispose, ClearSingleton, Destroy,
              Hook, Unhook, Postpone, library
<1>2. CASE \/ ReleaseStarts(t) \/ ReleaseEnds(t) \/ TransactionEnds(t) \/ HoldLock(t)
           \/ YieldLock(t) \/ CallBegins(t) \/ MakeContext(t) \/ AddContext(t) \/ Push(t)
           \/ CallEnds(t) \/ ExitThread(t)
  BY <1>2 DEF ReleaseStarts, ReleaseEnds, TransactionEnds, HoldLock, YieldLock, CallBegins,
              MakeContext, AddContext, Push, CallEnds, ExitThread, library
<1>3. CASE \/ PrepareToFork(t) \/ Pin(t) \/ LockPinned(t) \/ Freeze(t) \/ TryAgain(t)
           \/ RecoverInParent(t) \/ RecoverInChild(t) \/ Recovered(t)
  BY <1>3 DEF PrepareToFork, Pin, LockPinned, Freeze, TryAgain, RecoverInParent,
              RecoverInChild, Recovered, library
<1> QED
  BY <1>1, <1>2, <1>3 DEF Step

\* Function contexts move on from where they were.
LEMMA HooksShrink ==
  ASSUME HooksInv, NewsKept, the' = the,
         \A c \in Ctxs : /\ fc'[c].of = fc[c].of
                         /\ \/ fc'[c].at = fc[c].at
                            \/ fc[c].at # "new" /\ fc'[c].at \in {"unhooked", "freed"},
         \A u \in Threads, c \in Ctxs :
           Emptied(thr'[u]) /\ fc'[c].at = "hooked" => fc[c].of # thr'[u].obj
  PROVE  HooksInv'
<1>1. \A c \in Ctxs : fc'[c].at = "new" => fc'[c].of = None
  BY DEF HooksInv
<1>2. \A c \in Ctxs : fc'[c].at # "new" => fc'[c].of \in Objects /\ obj'[fc'[c].of].at # "new"
  BY DEF HooksInv, NewsKept
<1>3. \A c \in Ctxs : fc'[c].at = "hooked" => the' = fc'[c].of
  BY DEF HooksInv
<1>4. \A u \in Threads, c \in Ctxs :
        Emptied(thr'[u]) /\ fc'[c].at = "hooked" => fc'[c].of # thr'[u].obj
  OBVIOUS
<1> QED
  BY <1>1, <1>2, <1>3, <1>4 DEF HooksInv, Emptied, IsDying

LEMMA HooksStep ==
  ASSUME ReleaseInv, NEW t \in Threads, Step(t)
  PROVE  HooksInv'
<1>1. /\ SingletonInv /\ CountInv /\ TypeInv /\ LifecycleTypeOK /\ CreatedInv /\ ObjectInv
      /\ HooksInv /\ TasksInv
  BY DEF ReleaseInv, SingletonInv, CountInv, TypeInv
<1>2. NewsKept
  BY <1>1, NewsStep
<1>3. CASE ~(Dispose(t) \/ Destroy(t) \/ Hook(t) \/ Unhook(t) \/ ReleaseEnds(t))
  <2>1. SameContexts /\ \A u \in Threads : EmptiedKept(thr[u], thr'[u])
    BY <1>1, <1>3, SameContextsStep, EmptiedMoves
  <2>2. \A c \in Ctxs : fc'[c].at = "new" => fc'[c].of = None
    BY <1>1, <2>1 DEF HooksInv, SameContexts
  <2>3. \A c \in Ctxs : fc'[c].at # "new" => fc'[c].of \in Objects /\ obj'[fc'[c].of].at # "new"
    BY <1>1, <1>2, <2>1 DEF HooksInv, NewsKept, SameContexts
  <2>4. \A c \in Ctxs : fc'[c].at = "hooked" => the' = fc'[c].of
    <3> SUFFICES ASSUME NEW c \in Ctxs, fc'[c].at = "hooked"
                 PROVE  the' = fc'[c].of
      OBVIOUS
    <3>1. fc[c].at = "hooked" /\ the = fc[c].of /\ fc'[c].of = fc[c].of /\ fc[c].of \in Objects
      BY <1>1, <2>1 DEF HooksInv, SameContexts
    <3>2. CASE ClearSingleton(t) /\ the = thr[t].obj
      <4>1. Emptied(thr[t])
        BY <1>1, <3>2, ClearSingletonMoves DEF Emptied, IsDying, FinalSteps
      <4> QED
        BY <1>1, <3>1, <3>2, <4>1 DEF HooksInv
    <3>3. CASE the = None
      BY <3>1, <3>3, NoneIsNoObject
    <3> QED
      BY <1>1, <3>1, <3>2, <3>3, SingletonStep
  <2>5. \A u \in Threads, c \in Ctxs :
          Emptied(thr'[u]) /\ fc'[c].at = "hooked" => fc'[c].of # thr'[u].obj
    BY <1>1, <2>1 DEF HooksInv, SameContexts, EmptiedKept
  <2> QED
    BY <2>2, <2>3, <2>4, <2>5 DEF HooksInv, Emptied, IsDying
<1>4. CASE Dispose(t)
  <2>1. /\ fc' = InState(ContextsAt(thr[t].obj, "hooked"), "unhooked") /\ the' = the
        /\ OneMoves(t) /\ thr'[t].obj = thr[t].obj
    BY <1>1, <1>4, DisposeMoves DEF Dispose
  <2>2. \A c \in Ctxs : /\ fc'[c].of = fc[c].of
                        /\ fc'[c].at = IF c \in ContextsAt(thr[t].obj, "hooked") THEN "unhooked"
                                       ELSE fc[c].at
    BY <1>1, <2>1, InStateAre
  <2>3. \A c \in Ctxs : \/ fc'[c].at = fc[c].at
                        \/ fc[c].at # "new" /\ fc'[c].at \in {"unhooked", "freed"}
    BY <2>2 DEF ContextsAt
  <2>4. \A u \in Threads, c \in Ctxs :
          Emptied(thr'[u]) /\ fc'[c].at = "hooked" => fc[c].of # thr'[u].obj
    <3> SUFFICES ASSUME NEW u \in Threads, NEW c \in Ctxs, Emptied(thr'[u]), fc'[c].at = "hooked"
                 PROVE  fc[c].of # thr'[u].obj
      OBVIOUS
    <3>1. fc[c].at = "hooked" /\ fc[c].of # thr[t].obj
      BY <2>2 DEF ContextsAt
    <3>2. CASE u = t
      BY <2>1, <3>1, <3>2
    <3>3. CASE u # t
      BY <1>1, <2>1, <3>1, <3>3 DEF HooksInv, OneMoves
    <3> QED
      BY <3>2, <3>3
  <2> QED
    BY <1>1, <1>2, <2>1, <2>2, <2>3, <2>4, HooksShrink
<1>5. ASSUME ~Dispose(t), the' = the,
             NEW S, NEW where \in {"unhooked", "freed"}, fc' = InState(S, where),
             \A c \in Ctxs : c \in S => fc[c].at # "new"
      PROVE  HooksInv'
  <2>1. \A c \in Ctxs : /\ fc'[c].of = fc[c].of
                        /\ fc'[c].at = IF c \in S THEN where ELSE fc[c].at
    BY <1>1, <1>5, InStateAre
  <2>2. \A u \in Threads : EmptiedKept(thr[u], thr'[u])
    BY <1>1, <1>5, EmptiedMoves
  <2>3. \A u \in Threads, c \in Ctxs :
          Emptied(thr'[u]) /\ fc'[c].at = "hooked" => fc[c].of # thr'[u].obj
    BY <1>1, <1>5, <2>1, <2>2 DEF HooksInv, EmptiedKept
  <2> QED
    BY <1>1, <1>2, <1>5, <2>1, <2>3, HooksShrink
<1>6. CASE Destroy(t)
  <2>1. fc' = InState(RemainingTasks(t), "freed") /\ the' = the /\ ~Dispose(t)
    BY <1>6 DEF Destroy, Dispose, At
  <2>2. \A c \in Ctxs : c \in RemainingTasks(t) => fc[c].at # "new"
    BY <1>1, <1>6, DestroyChanges DEF RemainingTasks, TasksInv
  <2> QED
    BY <1>5, <2>1, <2>2
<1>7. CASE Unhook(t)
  <2>1. PICK o \in Objects, S \in SUBSET Ctxs :
          S \subseteq ContextsAt(o, "hooked") /\ fc' = InState(S, "unhooked")
    BY <1>1, <1>7, UnhookMoves
  <2>2. the' = the /\ ~Dispose(t)
    BY <1>7 DEF Unhook, Dispose, At
  <2>3. \A c \in Ctxs : c \in S => fc[c].at # "new"
    BY <2>1 DEF ContextsAt
  <2> QED
    BY <1>5, <2>1, <2>2, <2>3
<1>8. CASE ReleaseEnds(t)
  <2>1. fc' = InState({thr[t].ctx}, "freed") /\ the' = the /\ ~Dispose(t)
    BY <1>8 DEF ReleaseEnds, Dispose, At
  <2>2. thr[t].ctx \in Held(thr[t])
    BY <1>1, <1>8, ReleaseEndsMoves DEF Held
  <2>3. \A c \in Ctxs : c \in {thr[t].ctx} => fc[c].at # "new"
    BY <1>1, <2>2 DEF TasksInv
  <2> QED
    BY <1>5, <2>1, <2>2, <2>3
<1>9. CASE Hook(t)
  <2>1. PICK o \in Objects, c \in Ctxs :
          /\ thr[t].owned[o] > 0 /\ fc[c].at = "new"
          /\ fc' = [fc EXCEPT ![c] = [of |-> o, at |-> "hooked", counter |-> 0]]
    BY <1>9 DEF Hook
  <2>2. /\ fc'[c].of = o /\ fc'[c].at = "hooked"
        /\ \A d \in Ctxs : d # c => fc'[d] = fc[d]
    BY <1>1, <2>1 DEF LifecycleTypeOK
  <2>3. the = o /\ obj[o].refs # 0 /\ obj[o].at = "live"
    BY <1>1, <2>1, SingletonOwned
  <2>4. the' = the /\ thr' = thr /\ obj' = obj
    BY <1>9 DEF Hook
  <2>5. \A u \in Threads : Emptied(thr[u]) => thr[u].obj # o
    BY <1>1, <2>3 DEF ObjectInv, Emptied
  <2>6. \A d \in Ctxs : fc'[d].at = "new" => fc'[d].of = None
    BY <1>1, <2>2 DEF HooksInv
  <2>7. \A d \in Ctxs : fc'[d].at # "new" => fc'[d].of \in Objects /\ obj'[fc'[d].of].at # "new"
    BY <1>1, <2>2, <2>3, <2>4 DEF HooksInv
  <2>8. \A d \in Ctxs : fc'[d].at = "hooked" => the' = fc'[d].of
    BY <1>1, <2>2, <2>3, <2>4 DEF HooksInv
  <2>9. \A u \in Threads, d \in Ctxs :
          Emptied(thr'[u]) /\ fc'[d].at = "hooked" => fc'[d].of # thr'[u].obj
    BY <1>1, <2>2, <2>4, <2>5 DEF HooksInv
  <2> QED
    BY <2>6, <2>7, <2>8, <2>9 DEF HooksInv, Emptied, IsDying
<1> QED
  BY <1>3, <1>4, <1>6, <1>7, <1>8, <1>9

\* The invariant again, at the next state.
LEMMA TasksInvBecomes ==
  ASSUME \A o \in Objects : obj'[o].at # "live" => obj'[o].pending = {},
         \A o \in Objects : \A c \in obj'[o].pending : fc'[c].at = "unhooked" /\ fc'[c].of = o,
         \A t \in Threads : \A c \in Held(thr'[t]) :
           /\ c \in Ctxs /\ fc'[c].at = "unhooked" /\ fc'[c].of = thr'[t].obj
           /\ c \notin obj'[thr'[t].obj].pending
           /\ \A u \in Threads : c \in Held(thr'[u]) => u = t,
         \A t \in Threads : thr'[t].at = "notify" => thr'[t].ctx \notin thr'[t].tasks,
         ~inChild' => \A c \in Ctxs : fc'[c].at = "unhooked" =>
           c \in obj'[fc'[c].of].pending \/ \E t \in Threads : c \in Held(thr'[t])
  PROVE  TasksInv'
  BY DEF TasksInv, Held, At

LEMMA TasksQuiet ==
  ASSUME TasksInv, TypeInv, SameContexts, \A u \in Threads : HeldKept(thr[u], thr'[u]),
         \A o \in Objects : /\ obj'[o].pending = obj[o].pending
                            /\ obj[o].at = "live" => obj'[o].at = "live",
         inChild' = inChild,
         \A c \in Ctxs : fc[c].at = "unhooked" => fc[c].of \in Objects
  PROVE  TasksInv'
<1>1. \A o \in Objects : obj'[o].at # "live" => obj'[o].pending = {}
  BY DEF TasksInv
<1>2. \A o \in Objects : obj[o].pending \subseteq Ctxs
  BY DEF TypeInv, LifecycleTypeOK, Interceptor
<1>3. \A o \in Objects : \A c \in obj'[o].pending : fc'[c].at = "unhooked" /\ fc'[c].of = o
  BY <1>2 DEF TasksInv, SameContexts
<1>4. ASSUME NEW t \in Threads, NEW c \in Held(thr'[t])
      PROVE  /\ c \in Ctxs /\ fc'[c].at = "unhooked" /\ fc'[c].of = thr'[t].obj
             /\ c \notin obj'[thr'[t].obj].pending
             /\ \A u \in Threads : c \in Held(thr'[u]) => u = t
  <2>1. c \in Held(thr[t]) /\ thr'[t].obj = thr[t].obj
    BY <1>4 DEF HeldKept
  <2>2. /\ c \in Ctxs /\ fc[c].at = "unhooked" /\ fc[c].of = thr[t].obj
        /\ c \notin obj[thr[t].obj].pending
    BY <2>1 DEF TasksInv
  <2>3. \A u \in Threads : c \in Held(thr'[u]) => u = t
    BY <2>1 DEF TasksInv, HeldKept
  <2>4. thr[t].obj \in Objects
    BY <2>2
  <2> QED
    BY <2>1, <2>2, <2>3, <2>4 DEF SameContexts
<1>5. \A t \in Threads : thr'[t].at = "notify" => thr'[t].ctx \notin thr'[t].tasks
  BY DEF TasksInv, HeldKept, At
<1>6. ~inChild' => \A c \in Ctxs : fc'[c].at = "unhooked" =>
        c \in obj'[fc'[c].of].pending \/ \E t \in Threads : c \in Held(thr'[t])
  BY DEF TasksInv, HeldKept, SameContexts
<1> QED
  BY <1>1, <1>3, <1>4, <1>5, <1>6, TasksInvBecomes

\* A thread takes the pending tasks, and those of the contexts it unhooks.
LEMMA TasksTaken ==
  ASSUME ReleaseInv, NEW t \in Threads, NEW o \in Objects, NEW S \in SUBSET Ctxs,
         S \subseteq ContextsAt(o, "hooked"), fc' = InState(S, "unhooked"),
         ObjectChanges(o, obj[o].at, obj[o].refs, {}), inChild' = inChild,
         OneMoves(t), thr[t].at \notin ReleaseSteps, thr'[t].at = "release", thr'[t].obj = o,
         thr'[t].tasks = obj[o].pending \cup S
  PROVE  TasksInv'
<1>1. TypeInv /\ LifecycleTypeOK /\ TasksInv /\ HooksInv
  BY DEF ReleaseInv, SingletonInv, CountInv, TypeInv
<1>2. \A c \in Ctxs : /\ fc'[c].of = fc[c].of
                      /\ fc'[c].at = IF c \in S THEN "unhooked" ELSE fc[c].at
  BY <1>1, InStateAre
<1>3. \A c \in S : c \in Ctxs /\ fc[c].at = "hooked" /\ fc[c].of = o
  BY DEF ContextsAt
<1>4. Held(thr[t]) = {} /\ Held(thr'[t]) = obj[o].pending \cup S
  BY DEF Held, ReleaseSteps
<1>5. \A u \in Threads : u # t => thr'[u] = thr[u]
  BY DEF OneMoves
<1>6. \A p \in Objects : obj[p].pending \subseteq Ctxs
  BY <1>1 DEF LifecycleTypeOK, Interceptor
<1>7. obj'[o].pending = {} /\ \A p \in Objects : p # o => obj'[p] = obj[p]
  BY DEF ObjectChanges
<1>8. \A p \in Objects : obj'[p].at # "live" => obj'[p].pending = {}
  BY <1>1, <1>7 DEF TasksInv
<1>9. \A p \in Objects : \A c \in obj'[p].pending : fc'[c].at = "unhooked" /\ fc'[c].of = p
  BY <1>1, <1>2, <1>6, <1>7 DEF TasksInv
\* Nobody held what t takes.
<1>10. ASSUME NEW u \in Threads, NEW c \in Held(thr[u])
       PROVE  u # t /\ c \notin Held(thr'[t]) /\ c \in Ctxs /\ thr[u].obj \in Objects
  <2>1. c \in Ctxs /\ fc[c].at = "unhooked" /\ fc[c].of = thr[u].obj
        /\ c \notin obj[thr[u].obj].pending
    BY <1>1, <1>10 DEF TasksInv
  <2>2. thr[u].obj \in Objects
    BY <1>1, <2>1 DEF HooksInv
  <2>3. c \notin S
    BY <1>3, <2>1
  <2>4. c \notin obj[o].pending
    BY <1>1, <2>1 DEF TasksInv
  <2> QED
    BY <1>4, <1>10, <2>1, <2>2, <2>3, <2>4
<1>11. ASSUME NEW v \in Threads, NEW c \in Held(thr'[v])
       PROVE  /\ c \in Ctxs /\ fc'[c].at = "unhooked" /\ fc'[c].of = thr'[v].obj
              /\ c \notin obj'[thr'[v].obj].pending
              /\ \A u \in Threads : c \in Held(thr'[u]) => u = v
  <2>1. CASE v = t
    <3>1. c \in Ctxs /\ fc'[c].at = "unhooked" /\ fc'[c].of = o
      BY <1>1, <1>2, <1>3, <1>4, <1>6, <1>11, <2>1 DEF TasksInv
    <3>2. \A u \in Threads : c \in Held(thr'[u]) => u = t
      BY <1>5, <1>10, <1>11, <2>1
    <3> QED
      BY <1>7, <2>1, <3>1, <3>2
  <2>2. CASE v # t
    <3>1. c \in Held(thr[v]) /\ thr'[v].obj = thr[v].obj
      BY <1>5, <1>11, <2>2
    <3>2. /\ c \in Ctxs /\ fc[c].at = "unhooked" /\ fc[c].of = thr[v].obj
          /\ c \notin obj[thr[v].obj].pending
          /\ \A u \in Threads : c \in Held(thr[u]) => u = v
      BY <1>1, <3>1 DEF TasksInv
    <3>3. c \notin Held(thr'[t]) /\ thr[v].obj \in Objects
      BY <1>10, <3>1
    <3>4. fc'[c].at = "unhooked" /\ fc'[c].of = thr[v].obj
      BY <1>2, <3>2
    <3>5. c \notin obj'[thr[v].obj].pending
      BY <1>7, <3>2, <3>3
    <3>6. \A u \in Threads : c \in Held(thr'[u]) => u = v
      BY <1>5, <3>2, <3>3
    <3> QED
      BY <3>1, <3>2, <3>4, <3>5, <3>6
  <2> QED
    BY <2>1, <2>2
<1>12. \A v \in Threads : thr'[v].at = "notify" => thr'[v].ctx \notin thr'[v].tasks
  BY <1>1, <1>5 DEF TasksInv, At
<1>13. ~inChild' => \A c \in Ctxs : fc'[c].at = "unhooked" =>
         c \in obj'[fc'[c].of].pending \/ \E v \in Threads : c \in Held(thr'[v])
  <2> SUFFICES ASSUME ~inChild', NEW c \in Ctxs, fc'[c].at = "unhooked",
                      c \notin Held(thr'[t])
               PROVE  \/ c \in obj'[fc'[c].of].pending
                      \/ \E v \in Threads : c \in Held(thr'[v])
    OBVIOUS
  <2>1. c \notin S /\ c \notin obj[o].pending /\ fc[c].at = "unhooked" /\ fc'[c].of = fc[c].of
    BY <1>2, <1>4
  <2>2. CASE c \in obj[fc[c].of].pending
    <3>1. fc[c].of # o /\ fc[c].of \in Objects
      BY <1>1, <2>1, <2>2 DEF HooksInv
    <3> QED
      BY <1>7, <2>1, <2>2, <3>1
  <2>3. CASE \E v \in Threads : c \in Held(thr[v])
    BY <1>4, <1>5, <2>3
  <2> QED
    BY <1>1, <2>1, <2>2, <2>3 DEF TasksInv
<1> QED
  BY <1>8, <1>9, <1>11, <1>12, <1>13, TasksInvBecomes

LEMMA TasksStep ==
  ASSUME ReleaseInv, NEW t \in Threads, Step(t)
  PROVE  TasksInv'
<1>1. /\ SingletonInv /\ CountInv /\ TypeInv /\ LifecycleTypeOK /\ CreatedInv /\ ObjectInv
      /\ HooksInv /\ TasksInv
  BY DEF ReleaseInv, SingletonInv, CountInv, TypeInv
<1>2. \A c \in Ctxs : fc[c].at = "unhooked" => fc[c].of \in Objects
  BY <1>1 DEF HooksInv
<1>3. \A p \in Objects : obj[p].pending \subseteq Ctxs
  BY <1>1 DEF LifecycleTypeOK, Interceptor
<1>4. CASE Dispose(t)
  <2>1. /\ OneMoves(t) /\ thr[t].at = "dispose" /\ thr'[t].at = "release"
        /\ thr'[t].tasks = obj[thr[t].obj].pending \cup ContextsAt(thr[t].obj, "hooked")
        /\ thr'[t].obj = thr[t].obj
    BY <1>1, <1>4, DisposeMoves
  <2>2. /\ thr[t].obj \in Objects
        /\ ObjectChanges(thr[t].obj, obj[thr[t].obj].at, obj[thr[t].obj].refs, {})
    BY <1>1, <1>4, DisposeChanges
  <2>3. /\ fc' = InState(ContextsAt(thr[t].obj, "hooked"), "unhooked") /\ inChild' = inChild
    BY <1>4 DEF Dispose, library
  <2>4. PICK o \in Objects : o = thr[t].obj
    BY <2>2
  <2>5. PICK S \in SUBSET Ctxs : S = ContextsAt(o, "hooked")
    BY DEF ContextsAt
  <2>6. thr[t].at \notin ReleaseSteps
    BY <2>1 DEF ReleaseSteps
  <2>7. /\ S \subseteq ContextsAt(o, "hooked") /\ fc' = InState(S, "unhooked")
        /\ ObjectChanges(o, obj[o].at, obj[o].refs, {}) /\ thr'[t].obj = o
        /\ thr'[t].tasks = obj[o].pending \cup S
    BY <2>1, <2>2, <2>3, <2>4, <2>5
  <2> QED
    BY <2>1, <2>3, <2>6, <2>7, TasksTaken
<1>5. CASE Unhook(t)
  <2>1. PICK o \in Objects, S \in SUBSET Ctxs :
          /\ OneMoves(t) /\ thr[t].at = "idle" /\ S \subseteq ContextsAt(o, "hooked")
          /\ fc' = InState(S, "unhooked") /\ obj' = [obj EXCEPT ![o].pending = {}]
          /\ thr'[t].at = "release" /\ thr'[t].obj = o /\ thr'[t].tasks = obj[o].pending \cup S
    BY <1>1, <1>5, UnhookMoves
  <2>2. {} \in SUBSET Ctxs
    OBVIOUS
  <2>3. ObjectChanges(o, obj[o].at, obj[o].refs, {})
    BY <1>1, <2>1, <2>2, PendingChanges
  <2>4. inChild' = inChild /\ thr[t].at \notin ReleaseSteps
    BY <1>5, <2>1 DEF Unhook, library, ReleaseSteps
  <2> QED
    BY <2>1, <2>3, <2>4, TasksTaken
<1>6. CASE Postpone(t)
  <2>1. PICK c \in thr[t].tasks :
          /\ c \in Ctxs /\ thr'[t].tasks = thr[t].tasks \ {c}
          /\ thr[t].obj \in Objects
          /\ ObjectChanges(thr[t].obj, obj[thr[t].obj].at, obj[thr[t].obj].refs,
                           obj[thr[t].obj].pending \cup {c})
    BY <1>1, <1>6, PostponeIs DEF PostponeChanges
  <2>2. /\ OneMoves(t) /\ thr[t].at = "release" /\ thr'[t].at = "release"
        /\ thr'[t].obj = thr[t].obj
    BY <1>1, <1>6, PostponeMoves
  <2>3. SameContexts /\ inChild' = inChild
    <3>1. fc' = fc /\ inChild' = inChild
      BY <1>6 DEF Postpone, library
    <3> QED
      BY <3>1 DEF SameContexts
  <2>4. PICK o \in Objects : o = thr[t].obj
    BY <2>1
  <2>5. /\ obj[o].at = "live" /\ obj'[o].at = "live" /\ obj'[o].pending = obj[o].pending \cup {c}
        /\ \A p \in Objects : p # o => obj'[p] = obj[p]
    BY <1>1, <2>1, <2>2, <2>4, Workers DEF ObjectChanges, ReleaseSteps
  <2>6. Held(thr[t]) = thr[t].tasks /\ Held(thr'[t]) = thr[t].tasks \ {c}
    BY <2>1, <2>2 DEF Held
  <2>7. /\ fc[c].at = "unhooked" /\ fc[c].of = o
        /\ \A u \in Threads : c \in Held(thr[u]) => u = t
    BY <1>1, <2>1, <2>4, <2>6 DEF TasksInv
  <2>8. \A u \in Threads : u # t => thr'[u] = thr[u]
    BY <2>2 DEF OneMoves
  <2>9. \A p \in Objects : obj'[p].at # "live" => obj'[p].pending = {}
    BY <1>1, <2>5 DEF TasksInv
  <2>10. \A p \in Objects : \A d \in obj'[p].pending : fc'[d].at = "unhooked" /\ fc'[d].of = p
    BY <1>1, <1>3, <2>1, <2>3, <2>5, <2>7 DEF TasksInv, SameContexts
  <2>11. ASSUME NEW v \in Threads, NEW d \in Held(thr'[v])
         PROVE  /\ d \in Ctxs /\ fc'[d].at = "unhooked" /\ fc'[d].of = thr'[v].obj
                /\ d \notin obj'[thr'[v].obj].pending
                /\ \A u \in Threads : d \in Held(thr'[u]) => u = v
    <3>1. d # c /\ d \in Held(thr[v]) /\ thr'[v].obj = thr[v].obj
      BY <2>2, <2>6, <2>7, <2>8, <2>11
    <3>2. /\ d \in Ctxs /\ fc[d].at = "unhooked" /\ fc[d].of = thr[v].obj
          /\ d \notin obj[thr[v].obj].pending
          /\ \A u \in Threads : d \in Held(thr[u]) => u = v
      BY <1>1, <3>1 DEF TasksInv
    <3>3. thr[v].obj \in Objects
      BY <1>2, <3>2
    <3>4. d \notin obj'[thr[v].obj].pending
      BY <2>5, <3>1, <3>2, <3>3
    <3>5. \A u \in Threads : d \in Held(thr'[u]) => u = v
      BY <2>6, <2>8, <3>2
    <3> QED
      BY <2>3, <3>1, <3>2, <3>4, <3>5 DEF SameContexts
  <2>12. \A v \in Threads : thr'[v].at = "notify" => thr'[v].ctx \notin thr'[v].tasks
    BY <1>1, <2>2, <2>8 DEF TasksInv, At
  <2>13. ~inChild' => \A d \in Ctxs : fc'[d].at = "unhooked" =>
           d \in obj'[fc'[d].of].pending \/ \E v \in Threads : d \in Held(thr'[v])
    <3> SUFFICES ASSUME ~inChild', NEW d \in Ctxs, fc'[d].at = "unhooked"
                 PROVE  \/ d \in obj'[fc'[d].of].pending
                        \/ \E v \in Threads : d \in Held(thr'[v])
      OBVIOUS
    <3>1. fc[d].at = "unhooked" /\ fc'[d].of = fc[d].of /\ fc[d].of \in Objects /\ ~inChild
      BY <1>2, <2>3 DEF SameContexts
    <3>2. CASE d = c
      BY <2>5, <2>7, <3>1, <3>2
    <3>3. CASE d # c /\ d \in obj[fc[d].of].pending
      BY <2>5, <3>1, <3>3
    <3>4. CASE d # c /\ \E v \in Threads : d \in Held(thr[v])
      BY <2>6, <2>8, <3>4
    <3> QED
      BY <1>1, <3>1, <3>2, <3>3, <3>4 DEF TasksInv
  <2> QED
    BY <2>9, <2>10, <2>11, <2>12, <2>13, TasksInvBecomes
<1>7. CASE ReleaseEnds(t)
  <2>1. /\ OneMoves(t) /\ thr[t].at = "notify" /\ thr'[t].at = "release"
        /\ thr'[t].obj = thr[t].obj /\ thr'[t].tasks = thr[t].tasks
    BY <1>1, <1>7, ReleaseEndsMoves
  <2>2. /\ fc' = InState({thr[t].ctx}, "freed") /\ obj' = obj /\ inChild' = inChild
    BY <1>7 DEF ReleaseEnds, library
  <2>3. PICK c : c = thr[t].ctx
    OBVIOUS
  <2>4. \A d \in Ctxs : /\ fc'[d].of = fc[d].of
                        /\ fc'[d].at = IF d = c THEN "freed" ELSE fc[d].at
    BY <1>1, <2>2, <2>3, InStateAre
  <2>5. /\ Held(thr[t]) = thr[t].tasks \cup {c} /\ Held(thr'[t]) = thr[t].tasks
        /\ c \notin thr[t].tasks
    BY <1>1, <2>1, <2>3 DEF Held, TasksInv, At
  <2>6. /\ c \in Ctxs /\ fc[c].of = thr[t].obj /\ c \notin obj[thr[t].obj].pending
        /\ \A u \in Threads : c \in Held(thr[u]) => u = t
    BY <1>1, <2>5 DEF TasksInv
  <2>7. \A u \in Threads : u # t => thr'[u] = thr[u]
    BY <2>1 DEF OneMoves
  <2>8. \A u \in Threads : Held(thr'[u]) = Held(thr[u]) \ {c} /\ thr'[u].obj = thr[u].obj
    BY <2>1, <2>5, <2>6, <2>7
  <2>9. \A p \in Objects : obj'[p].at # "live" => obj'[p].pending = {}
    BY <1>1, <2>2 DEF TasksInv
  <2>10. \A p \in Objects : \A d \in obj'[p].pending : fc'[d].at = "unhooked" /\ fc'[d].of = p
    <3>1. \A p \in Objects : c \notin obj[p].pending
      BY <1>1, <2>6 DEF TasksInv
    <3> SUFFICES ASSUME NEW p \in Objects, NEW d \in obj'[p].pending
                 PROVE  fc'[d].at = "unhooked" /\ fc'[d].of = p
      OBVIOUS
    <3>2. d \in obj[p].pending /\ d \in Ctxs /\ d # c
      BY <1>3, <2>2, <3>1
    <3>3. fc[d].at = "unhooked" /\ fc[d].of = p
      BY <1>1, <3>2 DEF TasksInv
    <3> QED
      BY <2>4, <3>2, <3>3
  <2>11. ASSUME NEW v \in Threads, NEW d \in Held(thr'[v])
         PROVE  /\ d \in Ctxs /\ fc'[d].at = "unhooked" /\ fc'[d].of = thr'[v].obj
                /\ d \notin obj'[thr'[v].obj].pending
                /\ \A u \in Threads : d \in Held(thr'[u]) => u = v
    <3>1. d # c /\ d \in Held(thr[v]) /\ thr'[v].obj = thr[v].obj
      BY <2>8, <2>11
    <3>2. /\ d \in Ctxs /\ fc[d].at = "unhooked" /\ fc[d].of = thr[v].obj
          /\ d \notin obj[thr[v].obj].pending
          /\ \A u \in Threads : d \in Held(thr[u]) => u = v
      BY <1>1, <3>1 DEF TasksInv
    <3>3. \A u \in Threads : d \in Held(thr'[u]) => u = v
      BY <2>8, <3>2
    <3>4. fc'[d].at = "unhooked" /\ fc'[d].of = fc[d].of
      BY <2>4, <3>1, <3>2
    <3>5. d \notin obj'[thr'[v].obj].pending
      BY <2>2, <3>1, <3>2
    <3> QED
      BY <3>1, <3>2, <3>3, <3>4, <3>5
  <2>12. \A v \in Threads : thr'[v].at = "notify" => thr'[v].ctx \notin thr'[v].tasks
    BY <1>1, <2>1, <2>7 DEF TasksInv, At
  <2>13. ~inChild' => \A d \in Ctxs : fc'[d].at = "unhooked" =>
           d \in obj'[fc'[d].of].pending \/ \E v \in Threads : d \in Held(thr'[v])
    <3> SUFFICES ASSUME ~inChild', NEW d \in Ctxs, fc'[d].at = "unhooked"
                 PROVE  \/ d \in obj'[fc'[d].of].pending
                        \/ \E v \in Threads : d \in Held(thr'[v])
      OBVIOUS
    <3>1. fc[d].at = "unhooked" /\ fc'[d].of = fc[d].of /\ ~inChild /\ d # c
      BY <2>2, <2>4
    <3>2. CASE d \in obj[fc[d].of].pending
      BY <2>2, <3>1, <3>2
    <3>3. CASE \E v \in Threads : d \in Held(thr[v])
      BY <2>8, <3>1, <3>3
    <3> QED
      BY <1>1, <3>1, <3>2, <3>3 DEF TasksInv
  <2> QED
    BY <2>9, <2>10, <2>11, <2>12, <2>13, TasksInvBecomes
<1>8. CASE Destroy(t)
  <2>1. \A u \in Threads : HeldKept(thr[u], thr'[u])
    <3>1. ~(Dispose(t) \/ Unhook(t) \/ Postpone(t) \/ ReleaseEnds(t) \/ RecoverInChild(t))
      BY <1>8 DEF Destroy, Dispose, Unhook, Postpone, ReleaseEnds, RecoverInChild, At
    <3> QED
      BY <1>1, <3>1, HeldMoves
  <2>2. PICK o \in Objects : o = thr[t].obj /\ ObjectChanges(o, "freed", obj[o].refs, {})
    BY <1>1, <1>8, DestroyChanges
  <2>3. fc' = InState(obj[o].pending, "freed") /\ inChild' = inChild
    BY <1>8, <2>2 DEF Destroy, RemainingTasks, library
  <2>4. \A d \in Ctxs : /\ fc'[d].of = fc[d].of
                        /\ fc'[d].at = IF d \in obj[o].pending THEN "freed" ELSE fc[d].at
    BY <1>1, <2>3, InStateAre
  <2>5. obj'[o].pending = {} /\ \A p \in Objects : p # o => obj'[p] = obj[p]
    BY <2>2 DEF ObjectChanges
  <2>6. \A d \in Ctxs : d \in obj[o].pending => fc[d].of = o
    BY <1>1 DEF TasksInv
  <2>7. \A p \in Objects : obj'[p].at # "live" => obj'[p].pending = {}
    BY <1>1, <2>5 DEF TasksInv
  <2>8. \A p \in Objects : \A d \in obj'[p].pending : fc'[d].at = "unhooked" /\ fc'[d].of = p
    BY <1>1, <1>3, <2>4, <2>5, <2>6 DEF TasksInv
  <2>9. ASSUME NEW v \in Threads, NEW d \in Held(thr'[v])
        PROVE  /\ d \in Ctxs /\ fc'[d].at = "unhooked" /\ fc'[d].of = thr'[v].obj
               /\ d \notin obj'[thr'[v].obj].pending
               /\ \A u \in Threads : d \in Held(thr'[u]) => u = v
    <3>1. d \in Held(thr[v]) /\ thr'[v].obj = thr[v].obj
      BY <2>1, <2>9 DEF HeldKept
    <3>2. /\ d \in Ctxs /\ fc[d].at = "unhooked" /\ fc[d].of = thr[v].obj
          /\ d \notin obj[thr[v].obj].pending
          /\ \A u \in Threads : d \in Held(thr[u]) => u = v
      BY <1>1, <3>1 DEF TasksInv
    <3>3. thr[v].obj \in Objects /\ d \notin obj[o].pending
      BY <1>2, <2>6, <3>2
    <3>4. d \notin obj'[thr[v].obj].pending
      BY <2>5, <3>2, <3>3
    <3>5. \A u \in Threads : d \in Held(thr'[u]) => u = v
      BY <2>1, <3>2 DEF HeldKept
    <3> QED
      BY <2>4, <3>1, <3>2, <3>3, <3>4, <3>5
  <2>10. \A v \in Threads : thr'[v].at = "notify" => thr'[v].ctx \notin thr'[v].tasks
    BY <1>1, <2>1 DEF TasksInv, HeldKept, At
  <2>11. ~inChild' => \A d \in Ctxs : fc'[d].at = "unhooked" =>
           d \in obj'[fc'[d].of].pending \/ \E v \in Threads : d \in Held(thr'[v])
    <3> SUFFICES ASSUME ~inChild', NEW d \in Ctxs, fc'[d].at = "unhooked"
                 PROVE  \/ d \in obj'[fc'[d].of].pending
                        \/ \E v \in Threads : d \in Held(thr'[v])
      OBVIOUS
    <3>1. /\ fc[d].at = "unhooked" /\ fc'[d].of = fc[d].of /\ fc[d].of \in Objects /\ ~inChild
          /\ d \notin obj[o].pending
      BY <1>2, <2>3, <2>4
    <3>2. CASE d \in obj[fc[d].of].pending
      BY <2>5, <3>1, <3>2
    <3>3. CASE \E v \in Threads : d \in Held(thr[v])
      BY <2>1, <3>3 DEF HeldKept
    <3> QED
      BY <1>1, <3>1, <3>2, <3>3 DEF TasksInv
  <2> QED
    BY <2>7, <2>8, <2>9, <2>10, <2>11, TasksInvBecomes
<1>9. CASE Hook(t)
  <2>1. PICK c \in Ctxs :
          /\ fc[c].at = "new"
          /\ \E o \in Objects :
               fc' = [fc EXCEPT ![c] = [of |-> o, at |-> "hooked", counter |-> 0]]
    BY <1>9 DEF Hook
  <2>2. fc'[c].at = "hooked" /\ \A d \in Ctxs : d # c => fc'[d] = fc[d]
    BY <1>1, <2>1 DEF LifecycleTypeOK
  <2>3. thr' = thr /\ obj' = obj /\ inChild' = inChild
    BY <1>9 DEF Hook, library
  <2>4. \A p \in Objects : \A d \in obj'[p].pending : fc'[d].at = "unhooked" /\ fc'[d].of = p
    BY <1>1, <1>3, <2>1, <2>2, <2>3 DEF TasksInv
  <2>5. \A v \in Threads : \A d \in Held(thr[v]) : d # c
    BY <1>1, <2>1 DEF TasksInv
  <2>6. \A v \in Threads : \A d \in Held(thr'[v]) :
          /\ d \in Ctxs /\ fc'[d].at = "unhooked" /\ fc'[d].of = thr'[v].obj
          /\ d \notin obj'[thr'[v].obj].pending
          /\ \A u \in Threads : d \in Held(thr'[u]) => u = v
    BY <1>1, <2>2, <2>3, <2>5 DEF TasksInv
  <2>7. ~inChild' => \A d \in Ctxs : fc'[d].at = "unhooked" =>
          d \in obj'[fc'[d].of].pending \/ \E v \in Threads : d \in Held(thr'[v])
    BY <1>1, <2>2, <2>3 DEF TasksInv
  <2> QED
    BY <1>1, <2>3, <2>4, <2>6, <2>7, TasksInvBecomes DEF TasksInv, At
<1>10. CASE RecoverInChild(t)
  <2>1. SameContexts
    BY <1>10, RecountedAre, <1>1 DEF SameContexts
  <2>2. \A u \in Threads : thr'[u].at \in {"gone", "dispose", "unlock"}
    BY <1>1, <1>10, RecoverInChildMoves
  <2>3. \A u \in Threads : Held(thr'[u]) = {}
    BY <2>2 DEF Held
  <2>4. \A p \in Objects : /\ obj'[p].pending = obj[p].pending /\ obj'[p].at = obj[p].at
    <3>1. thr[t].at = "prepared" /\ \E threads : DropPin(t, prepared, threads)
      BY <1>10 DEF RecoverInChild, At
    <3>2. prepared \in Objects \cup {None}
      BY <1>1 DEF LifecycleTypeOK
    <3> QED
      BY <1>1, <3>1, <3>2, UnpinChanges DEF ObjectChanges
  <2>5. inChild'
    BY <1>10 DEF RecoverInChild
  <2>6. \A p \in Objects : obj'[p].at # "live" => obj'[p].pending = {}
    BY <1>1, <2>4 DEF TasksInv
  <2>7. \A p \in Objects : \A d \in obj'[p].pending : fc'[d].at = "unhooked" /\ fc'[d].of = p
    BY <1>1, <1>3, <2>1, <2>4 DEF TasksInv, SameContexts
  <2> QED
    BY <2>2, <2>3, <2>5, <2>6, <2>7, TasksInvBecomes
<1>11. CASE ~(Dispose(t) \/ Destroy(t) \/ Hook(t) \/ Unhook(t) \/ ReleaseEnds(t)
                \/ Postpone(t) \/ RecoverInChild(t))
  <2>1. SameContexts
    BY <1>1, <1>11, SameContextsStep
  <2>2. \A u \in Threads : HeldKept(thr[u], thr'[u])
    BY <1>1, <1>11, HeldMoves
  <2>3. inChild' = inChild
    BY <1>11, LibertiesStep
  <2>4. \A p \in Objects : /\ obj'[p].pending = obj[p].pending
                           /\ obj[p].at = "live" => obj'[p].at = "live"
    <3>1. CASE Obtain(t)
      <4>1. CASE the # None
        BY <1>1, <3>1, <4>1, ObtainChanges DEF ObjectChanges
      <4>2. CASE the = None
        BY <1>1, <3>1, <4>2, ObtainChanges DEF ObjectChanges
      <4> QED
        BY <4>1, <4>2
    <3>2. CASE Unref(t)
      <4>1. PICK o \in Objects : obj' = [obj EXCEPT ![o].refs = @ - 1]
        BY <1>1, <3>2, UnrefMoves
      <4> QED
        BY <1>1, <4>1, UnrefChanges DEF ObjectChanges
    <3>3. CASE Pin(t)
      BY <1>1, <3>3, PinChanges DEF ObjectChanges
    <3>4. CASE TryAgain(t)
      BY <1>1, <3>4, TriesAgainWithout, TryAgainMoves
    <3>5. CASE RecoverInParent(t)
      <4>1. thr[t].at = "prepared" /\ DropPin(t, prepared, thr)
        BY <3>5 DEF RecoverInParent, At
      <4>2. prepared \in Objects \cup {None}
        BY <1>1 DEF LifecycleTypeOK
      <4> QED
        BY <1>1, <4>1, <4>2, UnpinChanges DEF ObjectChanges
    <3>6. CASE ~(Obtain(t) \/ Unref(t) \/ Pin(t) \/ TryAgain(t) \/ RecoverInParent(t))
      <4>1. obj' = obj
        BY <1>1, <1>11, <3>6, ObjectsSame
      <4> QED
        BY <4>1
    <3> QED
      BY <3>1, <3>2, <3>3, <3>4, <3>5, <3>6
  <2> QED
    BY <1>1, <1>2, <2>1, <2>2, <2>3, <2>4, TasksQuiet
<1> QED
  BY <1>4, <1>5, <1>6, <1>7, <1>8, <1>9, <1>10, <1>11

-----------------------------------------------------------------------------
(* Nothing an interceptor hooked outlives it *)

\* The program does not obtain the singleton while its last reference is being
\* dropped, nor fork then.
ObtainsInTime == \A p \in Programs : "late obtain" \notin p

LEMMA InitCounts == Init => CountInv /\ ObjectInv /\ HooksInv /\ TasksInv
<1> SUFFICES ASSUME Init PROVE CountInv /\ ObjectInv /\ HooksInv /\ TasksInv
  OBVIOUS
<1>1. TypeInv
  BY InitTypes
<1>2. /\ the = None /\ prepared = None
      /\ \A t \in Threads : thr[t] = Resting
      /\ \A o \in Objects : obj[o] = [at |-> "new", refs |-> 0, pending |-> {}]
      /\ \A c \in Ctxs : fc[c] = [of |-> None, at |-> "new", counter |-> 0]
      /\ locks = [lifecycle |-> None, global |-> None, spin |-> None]
  BY DEF Init
<1>3. /\ \A t \in Threads : ~InFork(thr[t]) /\ ~IsDying(thr[t]) /\ thr[t].at = "idle"
      /\ \A t \in Threads : thr[t].obj = None /\ Held(thr[t]) = {}
      /\ \A t \in Threads : thr[t].owned = [o \in Objects |-> 0]
  BY <1>2 DEF Resting, InFork, IsDying, ForkSteps, FinalSteps, ReleaseSteps, Held
<1>4. ForkInv
  BY <1>2, <1>3 DEF ForkInv, At
<1>5. ASSUME NEW o \in Objects
      PROVE  References(o) = {}
  <2>1. \A u \in Threads, k \in Nat : <<u, k>> \notin References(o)
    <3> SUFFICES ASSUME NEW u \in Threads, NEW k \in Nat
                 PROVE  <<u, k>> \notin References(o)
      OBVIOUS
    <3>1. ~Pins(thr[u], o)
      BY <1>3 DEF Pins, PinSteps
    <3>2. thr[u].owned[o] = 0
      BY <1>3
    <3>3. k # 0 => ~(k <= 0)
      OBVIOUS
    <3> QED
      BY <3>1, <3>2, <3>3, ReferencesAre
  <2> QED
    BY <2>1, ReferencesAre
<1>6. RefsInv
  <2> SUFFICES ASSUME NEW o \in Objects
               PROVE  IsFiniteSet(References(o)) /\ obj[o].refs = Cardinality(References(o))
    BY DEF RefsInv
  <2>1. obj[o].refs = 0 /\ References(o) = {}
    BY <1>2, <1>5
  <2> QED
    BY <2>1, FS_EmptySet
<1>7. CreatedInv
  BY <1>2, <1>3 DEF CreatedInv
<1>8. ObjectInv
  BY <1>2, <1>3 DEF ObjectInv
<1>9. HooksInv
  BY <1>2, <1>3 DEF HooksInv, Emptied
<1>10. TasksInv
  BY <1>2, <1>3 DEF TasksInv, At
<1> QED
  BY <1>1, <1>4, <1>6, <1>7, <1>8, <1>9, <1>10 DEF CountInv

LEMMA NextCounts == CountInv /\ [Next]_vars => CountInv'
<1> SUFFICES ASSUME CountInv, [Next]_vars PROVE CountInv'
  OBVIOUS
<1>1. TypeInv /\ ForkInv /\ RefsInv /\ CreatedInv
  BY DEF CountInv
<1>2. TypeInv'
  BY <1>1, NextTypes
<1>3. CASE UNCHANGED vars
  <2>1. thr' = thr /\ obj' = obj /\ locks' = locks /\ the' = the /\ prepared' = prepared
    BY <1>3 DEF vars
  <2>2. ForkInv'
    BY <1>1, <2>1 DEF ForkInv, At, InFork, IsDying
  <2>3. RefsInv'
    BY <1>1, <2>1, RefsKept DEF SameRefs
  <2>4. CreatedInv'
    BY <1>1, <2>1 DEF CreatedInv
  <2> QED
    BY <1>2, <2>2, <2>3, <2>4 DEF CountInv
<1>4. CASE Next
  <2>1. PICK t \in Threads : Step(t)
    BY <1>4 DEF Next, Step
  <2> QED
    BY <1>1, <1>2, <2>1, ForkStep, RefsStep, CreatedStep DEF CountInv
<1> QED
  BY <1>3, <1>4

LEMMA NextReleases == ReleaseInv /\ [Next]_vars => ReleaseInv'
<1> SUFFICES ASSUME ReleaseInv, [Next]_vars PROVE ReleaseInv'
  OBVIOUS
<1>1. SingletonInv /\ CountInv /\ TypeInv /\ ObjectInv /\ NotLate /\ HooksInv /\ TasksInv
  BY DEF ReleaseInv, SingletonInv, CountInv
<1>2. CountInv'
  BY <1>1, NextCounts
<1>3. CASE UNCHANGED vars
  <2>1. /\ thr' = thr /\ obj' = obj /\ the' = the /\ fc' = fc /\ inChild' = inChild
        /\ liberties' = liberties
    BY <1>3 DEF vars
  <2>2. ObjectInv'
    BY <1>1, <2>1 DEF ObjectInv, IsDying, At
  <2>3. HooksInv'
    BY <1>1, <2>1 DEF HooksInv, Emptied, IsDying
  <2>4. TasksInv'
    BY <1>1, <2>1 DEF TasksInv, Held, At
  <2> QED
    BY <1>1, <1>2, <2>1, <2>2, <2>3, <2>4 DEF ReleaseInv, SingletonInv, NotLate
<1>4. CASE Next
  <2>1. PICK t \in Threads : Step(t)
    BY <1>4 DEF Next, Step
  <2>2. ObjectInv' /\ HooksInv' /\ TasksInv'
    BY <1>1, <2>1, ObjectStep, HooksStep, TasksStep
  <2>3. NotLate'
    BY <1>1, <2>1, LibertiesStep DEF NotLate
  <2> QED
    BY <1>2, <2>2, <2>3 DEF ReleaseInv, SingletonInv
<1> QED
  BY <1>3, <1>4

LEMMA ReleasedAtTheEnd == ReleaseInv => FinalizeReleasesAll
<1> SUFFICES ASSUME ReleaseInv, NEW c \in Ctxs, fc[c].of # None,
                    obj[fc[c].of].at = "freed", ~inChild
             PROVE  fc[c].at = "freed"
  BY DEF FinalizeReleasesAll
<1>1. SingletonInv /\ TypeInv /\ ObjectInv /\ HooksInv /\ TasksInv
  BY DEF ReleaseInv, SingletonInv, CountInv
<1>2. fc[c].at \in {"new", "hooked", "unhooked", "freed"}
  BY <1>1 DEF TypeInv, LifecycleTypeOK, FunctionContext
<1>3. fc[c].at # "new"
  BY <1>1 DEF HooksInv
<1>4. fc[c].of \in Objects
  BY <1>1, <1>3 DEF HooksInv
<1>5. fc[c].at # "hooked"
  BY <1>1, <1>4, NoneIsNoObject DEF HooksInv, ObjectInv
<1>6. ASSUME NEW t \in Threads, c \in Held(thr[t])
      PROVE  FALSE
  <2>1. thr[t].at \in ReleaseSteps
    BY <1>6 DEF Held, ReleaseSteps
  <2>2. fc[c].of = thr[t].obj
    BY <1>1, <1>6 DEF TasksInv
  <2> QED
    BY <1>1, <2>1, <2>2, Workers
<1>7. c \notin obj[fc[c].of].pending
  BY <1>1, <1>4 DEF TasksInv
<1> QED
  BY <1>1, <1>2, <1>3, <1>5, <1>6, <1>7 DEF TasksInv

\* The references of an interceptor are those the threads own, and the pin of
\* one that forks; what was never created has none.
THEOREM ReferencesAreCounted == Spec => []CountInv
  BY InitCounts, NextCounts, PTL DEF Spec

\* Unless the program obtains the singleton too late, an interceptor that is gone
\* has released every function context it ever hooked.
THEOREM EverythingIsReleased == ObtainsInTime => (Spec => []FinalizeReleasesAll)
<1> SUFFICES ASSUME ObtainsInTime PROVE Spec => []FinalizeReleasesAll
  OBVIOUS
<1>1. Init => ReleaseInv
  <2>1. Init => NotLate
    BY DEF Init, NotLate, ObtainsInTime
  <2> QED
    BY <2>1, InitCounts DEF ReleaseInv, SingletonInv
<1> QED
  BY <1>1, NextReleases, ReleasedAtTheEnd, PTL DEF Spec

-----------------------------------------------------------------------------
(* The locks of interceptors *)

\* A program that does not fork with the lock held.
NotHeld == "held fork" \notin liberties

\* Whoever keeps the lock from call to call owns a reference of the singleton s,
\* and is not on its way through a fork or a finalization.
KeepsAt(a, s) ==
  /\ a.at \in {"idle", "entering", "adding"} \cup ReleaseSteps /\ ~IsDying(a)
  /\ s # None /\ a.owned[s] > 0
KeepingInv == \A t \in Threads : thr[t].keeps => KeepsAt(thr[t], the)

\* How often an activity has locked interceptor o, s being the singleton.
LockedSteps == {"release", "locked", "prepared"}
Kept(a, s, o) == IF a.keeps /\ s = o THEN 1 ELSE 0
Inside(a, o) == IF a.at \in LockedSteps /\ a.obj = o THEN 1 ELSE 0
Depth(a, s, o) == Kept(a, s, o) + Inside(a, o)

\* The depth of a lock is how often its owner has locked it; nobody else has.
MutexInv ==
  \A o \in Objects :
    /\ mutex[o].owner = None => mutex[o].depth = 0
    /\ \A t \in Threads :
         IF mutex[o].owner = t
         THEN Depth(thr[t], the, o) > 0 /\ mutex[o].depth = Depth(thr[t], the, o)
         ELSE Depth(thr[t], the, o) = 0
LockInv == SingletonInv /\ NotHeld /\ KeepingInv /\ MutexInv

LEMMA DepthsAre ==
  ASSUME NEW a, NEW s, NEW o
  PROVE  Depth(a, s, o) \in Nat /\ Kept(a, s, o) \in {0, 1} /\ Inside(a, o) \in {0, 1}
BY DEF Depth, Kept, Inside

\* The depths of o in thread t change by n, no others do.
DepthChanges(t, o, n) ==
  \A u \in Threads, p \in Objects :
    Depth(thr'[u], the', p) = Depth(thr[u], the, p) + (IF u = t /\ p = o THEN n ELSE 0)

LEMMA MutexInvBecomes ==
  ASSUME \A o \in Objects :
           /\ mutex'[o].owner = None => mutex'[o].depth = 0
           /\ \A t \in Threads :
                IF mutex'[o].owner = t
                THEN Depth(thr'[t], the', o) > 0 /\ mutex'[o].depth = Depth(thr'[t], the', o)
                ELSE Depth(thr'[t], the', o) = 0
  PROVE  MutexInv'
BY DEF MutexInv

LEMMA LockTaken ==
  ASSUME TypeInv, MutexInv, NEW t \in Threads, NEW o \in Objects, CanLock(t, o),
         mutex' = Locked(t, o), DepthChanges(t, o, 1)
  PROVE  MutexInv'
<1>1. mutex \in [Objects -> [owner : Threads \cup {None}, depth : Int]] /\ None \notin Threads
  BY ConstantsAssumption DEF TypeInv, LifecycleTypeOK
<1>2. \A p \in Objects : mutex'[p] = IF p = o THEN [owner |-> t, depth |-> mutex[o].depth + 1]
                                     ELSE mutex[p]
  BY <1>1 DEF Locked
<1>3. \A u \in Threads, p \in Objects : Depth(thr[u], the, p) \in Nat
  BY DepthsAre
<1> SUFFICES ASSUME NEW p \in Objects
             PROVE  /\ mutex'[p].owner = None => mutex'[p].depth = 0
                    /\ \A u \in Threads :
                         IF mutex'[p].owner = u
                         THEN /\ Depth(thr'[u], the', p) > 0
                              /\ mutex'[p].depth = Depth(thr'[u], the', p)
                         ELSE Depth(thr'[u], the', p) = 0
  BY MutexInvBecomes
<1>4. CASE p # o
  BY <1>1, <1>2, <1>3, <1>4 DEF DepthChanges, MutexInv
<1>5. CASE p = o
  <2>1. mutex'[o].owner = t /\ mutex'[o].depth = mutex[o].depth + 1
    BY <1>2
  <2>2. mutex[o].depth = Depth(thr[t], the, o)
    BY <1>1 DEF CanLock, MutexInv
  <2>3. Depth(thr'[t], the', o) = Depth(thr[t], the, o) + 1 /\ Depth(thr[t], the, o) \in Nat
    BY <1>3 DEF DepthChanges
  <2>4. ASSUME NEW u \in Threads, u # t PROVE Depth(thr'[u], the', o) = 0
    <3>1. Depth(thr'[u], the', o) = Depth(thr[u], the, o) + 0 /\ Depth(thr[u], the, o) \in Nat
      BY <1>3, <2>4 DEF DepthChanges
    <3>2. Depth(thr[u], the, o) = 0
      BY <1>1, <2>4 DEF CanLock, MutexInv
    <3> QED
      BY <3>1, <3>2
  <2> HIDE DEF Depth
  <2> QED
    BY <1>1, <1>5, <2>1, <2>2, <2>3, <2>4
<1> QED
  BY <1>4, <1>5

LEMMA LockGiven ==
  ASSUME TypeInv, MutexInv, NEW t \in Threads, NEW o \in Objects,
         Depth(thr[t], the, o) > 0, mutex' = Unlocked(o), DepthChanges(t, o, -1)
  PROVE  MutexInv'
<1>1. mutex \in [Objects -> [owner : Threads \cup {None}, depth : Int]] /\ None \notin Threads
  BY ConstantsAssumption DEF TypeInv, LifecycleTypeOK
<1>2. \A p \in Objects :
        mutex'[p] = IF p = o
                    THEN [owner |-> IF mutex[o].depth = 1 THEN None ELSE mutex[o].owner,
                          depth |-> mutex[o].depth - 1]
                    ELSE mutex[p]
  BY <1>1 DEF Unlocked
<1>3. \A u \in Threads, p \in Objects : Depth(thr[u], the, p) \in Nat
  BY DepthsAre
<1> SUFFICES ASSUME NEW p \in Objects
             PROVE  /\ mutex'[p].owner = None => mutex'[p].depth = 0
                    /\ \A u \in Threads :
                         IF mutex'[p].owner = u
                         THEN /\ Depth(thr'[u], the', p) > 0
                              /\ mutex'[p].depth = Depth(thr'[u], the', p)
                         ELSE Depth(thr'[u], the', p) = 0
  BY MutexInvBecomes
<1>4. CASE p # o
  BY <1>1, <1>2, <1>3, <1>4 DEF DepthChanges, MutexInv
<1>5. CASE p = o
  <2>1. /\ mutex'[o].owner = IF mutex[o].depth = 1 THEN None ELSE mutex[o].owner
        /\ mutex'[o].depth = mutex[o].depth - 1
    BY <1>2
  <2>2. mutex[o].owner = t /\ mutex[o].depth = Depth(thr[t], the, o)
    <3>1. Depth(thr[t], the, o) # 0
      BY <1>3
    <3> QED
      BY <3>1 DEF MutexInv
  <2>3. Depth(thr'[t], the', o) = Depth(thr[t], the, o) + (-1) /\ Depth(thr[t], the, o) \in Nat
    BY <1>3 DEF DepthChanges
  <2>4. ASSUME NEW u \in Threads, u # t PROVE Depth(thr'[u], the', o) = 0
    <3>1. Depth(thr'[u], the', o) = Depth(thr[u], the, o) + 0 /\ Depth(thr[u], the, o) \in Nat
      BY <1>3, <2>4 DEF DepthChanges
    <3>2. Depth(thr[u], the, o) = 0
      BY <2>2, <2>4 DEF MutexInv
    <3> QED
      BY <3>1, <3>2
  <2> QED
    BY <1>1, <1>5, <2>1, <2>2, <2>3, <2>4
<1> QED
  BY <1>4, <1>5

LEMMA LockLeft ==
  ASSUME MutexInv, mutex' = mutex,
         \A u \in Threads, p \in Objects : Depth(thr'[u], the', p) = Depth(thr[u], the, p)
  PROVE  MutexInv'
BY MutexInvBecomes DEF MutexInv

\* But for HoldLock and YieldLock, who keeps the lock stays the same.
LEMMA KeepersStay ==
  ASSUME TypeInv, NEW t \in Threads, Step(t), ~HoldLock(t), ~YieldLock(t), NEW u \in Threads
  PROVE  thr'[u].keeps = thr[u].keeps
<1>1. CASE \/ LibraryInit(t) \/ LibraryDeinit(t) \/ Hook(t) \/ CallEnds(t) \/ ExitThread(t)
  BY <1>1 DEF LibraryInit, LibraryDeinit, Hook, CallEnds, ExitThread
<1>2. CASE RecoverInChild(t)
  BY <1>2, RecoverInChildMoves
<1>3. ASSUME OneMoves(t) /\ thr'[t].keeps = thr[t].keeps
      PROVE  thr'[u].keeps = thr[u].keeps
  BY <1>3 DEF OneMoves
<1>4. CASE Obtain(t) \/ Unref(t) \/ Dispose(t) \/ ClearSingleton(t) \/ Destroy(t) \/ Unhook(t)
  <2>1. CASE Obtain(t)
    BY <1>3, <2>1, ObtainMoves
  <2>2. CASE Unref(t)
    BY <1>3, <2>2, UnrefMoves
  <2>3. CASE Dispose(t)
    BY <1>3, <2>3, DisposeMoves
  <2>4. CASE ClearSingleton(t)
    BY <1>3, <2>4, ClearSingletonMoves
  <2>5. CASE Destroy(t)
    BY <1>3, <2>5, DestroyMoves
  <2>6. CASE Unhook(t)
    BY <1>3, <2>6, UnhookMoves
  <2> QED
    BY <1>4, <2>1, <2>2, <2>3, <2>4, <2>5, <2>6
<1>5. CASE \/ Postpone(t) \/ ReleaseStarts(t) \/ ReleaseEnds(t) \/ TransactionEnds(t)
           \/ CallBegins(t)
  <2>1. CASE Postpone(t)
    BY <1>3, <2>1, PostponeMoves
  <2>2. CASE ReleaseStarts(t)
    BY <1>3, <2>2, ReleaseStartsMoves
  <2>3. CASE ReleaseEnds(t)
    BY <1>3, <2>3, ReleaseEndsMoves
  <2>4. CASE TransactionEnds(t)
    BY <1>3, <2>4, TransactionEndsMoves
  <2>5. CASE CallBegins(t)
    BY <1>3, <2>5, CallBeginsMoves
  <2> QED
    BY <1>5, <2>1, <2>2, <2>3, <2>4, <2>5
<1>6. CASE MakeContext(t) \/ AddContext(t) \/ Push(t)
  BY <1>3, <1>6, MakeContextMoves, AddContextMoves, PushMoves
<1>7. CASE \/ PrepareToFork(t) \/ Pin(t) \/ LockPinned(t) \/ Freeze(t) \/ TryAgain(t)
           \/ RecoverInParent(t) \/ Recovered(t)
  <2>1. CASE PrepareToFork(t)
    BY <1>3, <2>1, PrepareToForkMoves
  <2>2. CASE Pin(t)
    BY <1>3, <2>2, PinMoves
  <2>3. CASE LockPinned(t)
    BY <1>3, <2>3, LockPinnedMoves
  <2>4. CASE Freeze(t)
    BY <1>3, <2>4, FreezeMoves
  <2>5. CASE TryAgain(t)
    BY <1>3, <2>5, TryAgainMoves
  <2>6. CASE RecoverInParent(t)
    BY <1>3, <2>6, RecoverInParentMoves
  <2>7. CASE Recovered(t)
    BY <1>3, <2>7, RecoveredMoves
  <2> QED
    BY <1>7, <2>1, <2>2, <2>3, <2>4, <2>5, <2>6, <2>7
<1> QED
  BY <1>1, <1>2, <1>4, <1>5, <1>6, <1>7 DEF Step

\* The singleton does not change while somebody keeps its lock.
LEMMA KeptStays ==
  ASSUME LockInv, NEW t \in Threads, Step(t), NEW u \in Threads, thr[u].keeps
  PROVE  the' = the /\ the \in Objects
<1>1. /\ TypeInv /\ CountInv /\ SingletonInv /\ ObjectInv
      /\ the # None /\ thr[u].owned[the] > 0
  BY DEF LockInv, SingletonInv, CountInv, KeepingInv, KeepsAt
<1>2. PICK o \in Objects : o = the
  BY <1>1 DEF TypeInv, LifecycleTypeOK
<1>3. obj[o].refs # 0
  BY <1>1, <1>2, SingletonOwned
<1>4. ~(ClearSingleton(t) /\ the = thr[t].obj)
  <2> SUFFICES ASSUME ClearSingleton(t), o = thr[t].obj PROVE FALSE
    BY <1>2
  <2>1. IsDying(thr[t])
    BY <1>1, ClearSingletonMoves DEF IsDying, FinalSteps
  <2> QED
    BY <1>1, <1>3, <2>1 DEF ObjectInv
<1> QED
  BY <1>1, <1>2, <1>4, SingletonStep

LEMMA KeptSame ==
  ASSUME LockInv, NEW t \in Threads, Step(t), NEW u \in Threads, thr'[u].keeps = thr[u].keeps
  PROVE  \A p \in Objects : Kept(thr'[u], the', p) = Kept(thr[u], the, p)
BY KeptStays DEF Kept


LEMMA OneMovesOrNone ==
  ASSUME TypeInv, NEW t \in Threads, Step(t), ~RecoverInChild(t)
  PROVE  OneMoves(t) \/ thr' = thr
<1>1. CASE \/ LibraryInit(t) \/ LibraryDeinit(t) \/ Hook(t) \/ CallEnds(t) \/ ExitThread(t)
  BY <1>1 DEF LibraryInit, LibraryDeinit, Hook, CallEnds, ExitThread
<1>2. CASE Obtain(t) \/ Unref(t) \/ Dispose(t) \/ ClearSingleton(t) \/ Destroy(t) \/ Unhook(t)
  BY <1>2, ObtainMoves, UnrefMoves, DisposeMoves, ClearSingletonMoves, DestroyMoves, UnhookMoves
<1>3. CASE \/ Postpone(t) \/ ReleaseStarts(t) \/ ReleaseEnds(t) \/ TransactionEnds(t)
           \/ HoldLock(t) \/ YieldLock(t) \/ CallBegins(t)
  BY <1>3, PostponeMoves, ReleaseStartsMoves, ReleaseEndsMoves, TransactionEndsMoves,
     HoldLockMoves, YieldLockMoves, CallBeginsMoves
<1>4. CASE MakeContext(t) \/ AddContext(t) \/ Push(t)
  BY <1>4, MakeContextMoves, AddContextMoves, PushMoves
<1>5. CASE \/ PrepareToFork(t) \/ Pin(t) \/ LockPinned(t) \/ Freeze(t) \/ TryAgain(t)
           \/ RecoverInParent(t) \/ Recovered(t)
  BY <1>5, PrepareToForkMoves, PinMoves, LockPinnedMoves, FreezeMoves, TryAgainMoves,
     RecoverInParentMoves, RecoveredMoves
<1> QED
  BY <1>1, <1>2, <1>3, <1>4, <1>5 DEF Step

\* What a thread that keeps the lock from call to call may do, and what not.
MayKeep(a) ==
  a.at \in {"idle", "entering", "adding"} \cup ReleaseSteps /\ ~IsDying(a)

LEMMA KeeperMoves ==
  ASSUME TypeInv, NotHeld, NEW t \in Threads, Step(t), ~RecoverInChild(t),
         thr[t].keeps, MayKeep(thr[t])
  PROVE  MayKeep(thr'[t])
<1>1. CASE \/ LibraryInit(t) \/ LibraryDeinit(t) \/ Hook(t) \/ CallEnds(t) \/ ExitThread(t)
  BY <1>1 DEF LibraryInit, LibraryDeinit, Hook, CallEnds, ExitThread
<1>2. CASE Obtain(t) \/ HoldLock(t) \/ YieldLock(t)
  BY <1>2, ObtainMoves, HoldLockMoves, YieldLockMoves DEF MayKeep, IsDying
<1>3. CASE Unref(t)
  BY <1>3 DEF Unref
<1>4. CASE Dispose(t) \/ ClearSingleton(t) \/ Destroy(t)
  BY <1>4, DisposeMoves, ClearSingletonMoves, DestroyMoves
     DEF MayKeep, IsDying, FinalSteps, ReleaseSteps
<1>5. CASE Unhook(t)
  <2>1. thr[t].at = "idle" /\ thr'[t].at = "release" /\ thr'[t].dying = thr[t].dying
    BY <1>5, UnhookMoves
  <2>2. ~thr[t].dying
    BY <2>1 DEF TypeInv, Proper, ReleaseSteps
  <2> QED
    BY <2>1, <2>2 DEF MayKeep, IsDying, FinalSteps, ReleaseSteps
<1>6. CASE Postpone(t) \/ ReleaseStarts(t) \/ ReleaseEnds(t)
  BY <1>6, PostponeMoves, ReleaseStartsMoves, ReleaseEndsMoves
     DEF MayKeep, IsDying, FinalSteps, ReleaseSteps
<1>7. CASE TransactionEnds(t)
  <2>1. /\ thr[t].at = "release"
        /\ thr'[t].at = (IF thr[t].dying THEN "clear" ELSE "idle")
    BY <1>7, TransactionEndsMoves
  <2> QED
    BY <2>1 DEF MayKeep, IsDying, FinalSteps, ReleaseSteps
<1>8. CASE CallBegins(t) \/ MakeContext(t) \/ AddContext(t) \/ Push(t)
  <2>1. CASE CallBegins(t)
    BY <2>1, CallBeginsMoves DEF MayKeep, IsDying, FinalSteps, ReleaseSteps
  <2>2. CASE MakeContext(t)
    BY <2>2, MakeContextMoves DEF MayKeep, IsDying, FinalSteps, ReleaseSteps
  <2>3. CASE AddContext(t)
    BY <2>3, AddContextMoves DEF MayKeep, IsDying, FinalSteps, ReleaseSteps
  <2>4. CASE Push(t)
    BY <2>4, PushMoves DEF MayKeep, IsDying, FinalSteps, ReleaseSteps
  <2> QED
    BY <1>8, <2>1, <2>2, <2>3, <2>4
<1>9. CASE PrepareToFork(t)
  BY <1>9 DEF PrepareToFork, NotHeld
<1>10. CASE Pin(t) \/ LockPinned(t) \/ Freeze(t) \/ TryAgain(t) \/ RecoverInParent(t)
            \/ Recovered(t)
  <2>1. CASE Pin(t)
    BY <2>1, PinMoves DEF MayKeep, ReleaseSteps
  <2>2. CASE LockPinned(t)
    BY <2>2, LockPinnedMoves DEF MayKeep, ReleaseSteps
  <2>3. CASE Freeze(t)
    BY <2>3, FreezeMoves DEF MayKeep, ReleaseSteps
  <2>4. CASE TryAgain(t)
    BY <2>4, TryAgainMoves DEF MayKeep, ReleaseSteps
  <2>5. CASE RecoverInParent(t)
    BY <2>5, RecoverInParentMoves DEF MayKeep, ReleaseSteps
  <2>6. CASE Recovered(t)
    BY <2>6, RecoveredMoves DEF MayKeep, ReleaseSteps
  <2> QED
    BY <1>10, <2>1, <2>2, <2>3, <2>4, <2>5, <2>6
<1> QED
  BY <1>1, <1>2, <1>3, <1>4, <1>5, <1>6, <1>7, <1>8, <1>9, <1>10 DEF Step

LEMMA KeeperOwns ==
  ASSUME TypeInv, NEW t \in Threads, Step(t), ~RecoverInChild(t), thr[t].keeps,
         NEW o \in Objects, thr[t].owned[o] > 0
  PROVE  thr'[t].owned[o] > 0
<1>1. thr[t].owned \in [Objects -> Nat]
  BY Positions
<1>2. CASE \/ LibraryInit(t) \/ LibraryDeinit(t) \/ Hook(t) \/ CallEnds(t) \/ ExitThread(t)
  BY <1>2 DEF LibraryInit, LibraryDeinit, Hook, CallEnds, ExitThread
<1>3. CASE Obtain(t)
  <2>1. IF the # None
        THEN thr'[t].owned = [thr[t].owned EXCEPT ![the] = thr[t].owned[the] + 1]
        ELSE thr'[t].owned = [thr[t].owned EXCEPT ![the'] = 1]
    BY <1>3, ObtainMoves
  <2>2. CASE the # None
    <3>1. the \in Objects
      BY <2>2 DEF TypeInv, LifecycleTypeOK
    <3> QED
      BY <1>1, <2>1, <2>2, <3>1
  <2>3. CASE the = None
    BY <1>1, <2>1, <2>3
  <2> QED
    BY <2>2, <2>3
<1>4. CASE Unref(t)
  BY <1>4 DEF Unref
<1>5. CASE Dispose(t) \/ ClearSingleton(t) \/ Destroy(t) \/ Unhook(t)
  BY <1>5, DisposeMoves, ClearSingletonMoves, DestroyMoves, UnhookMoves
<1>6. CASE Postpone(t) \/ ReleaseStarts(t) \/ ReleaseEnds(t) \/ TransactionEnds(t)
  BY <1>6, PostponeMoves, ReleaseStartsMoves, ReleaseEndsMoves, TransactionEndsMoves
<1>9. CASE HoldLock(t) \/ YieldLock(t) \/ CallBegins(t)
  BY <1>9, HoldLockMoves, YieldLockMoves, CallBeginsMoves
<1>7. CASE MakeContext(t) \/ AddContext(t) \/ Push(t)
  BY <1>7, MakeContextMoves, AddContextMoves, PushMoves
<1>8. CASE \/ PrepareToFork(t) \/ Pin(t) \/ LockPinned(t) \/ Freeze(t) \/ TryAgain(t)
           \/ RecoverInParent(t) \/ Recovered(t)
  <2>1. CASE PrepareToFork(t)
    BY <2>1, PrepareToForkMoves
  <2>2. CASE Pin(t)
    BY <2>2, PinMoves
  <2>3. CASE LockPinned(t)
    BY <2>3, LockPinnedMoves
  <2>4. CASE Freeze(t)
    BY <2>4, FreezeMoves
  <2>5. CASE TryAgain(t)
    BY <2>5, TryAgainMoves
  <2>6. CASE RecoverInParent(t)
    BY <2>6, RecoverInParentMoves
  <2>7. CASE Recovered(t)
    BY <2>7, RecoveredMoves
  <2> QED
    BY <1>8, <2>1, <2>2, <2>3, <2>4, <2>5, <2>6, <2>7
<1> QED
  BY <1>2, <1>3, <1>4, <1>5, <1>6, <1>7, <1>8, <1>9 DEF Step

\* Whoever is inside a lock works on the singleton, also as it is finalized.
LEMMA InsideSingleton ==
  ASSUME SingletonInv, NEW t \in Threads, NEW o \in Objects, Depth(thr[t], the, o) > 0
  PROVE  the = o
<1>1. TypeInv /\ ObjectInv
  BY DEF SingletonInv, CountInv
<1>2. CASE thr[t].keeps /\ the = o
  BY <1>2
<1>3. CASE thr[t].at \in LockedSteps /\ thr[t].obj = o
  <2>1. CASE thr[t].at = "release" /\ ~thr[t].dying
    <3>1. thr[t].owned[thr[t].obj] > 0
      BY <1>1, <2>1 DEF TypeInv, Proper, ReleaseSteps
    <3> QED
      BY <1>3, <3>1, SingletonOwned
  <2>2. CASE thr[t].at = "release" /\ thr[t].dying
    <3>1. IsDying(thr[t]) /\ ~At(t, "destroy")
      BY <2>2 DEF IsDying, ReleaseSteps, At
    <3> QED
      BY <1>1, <1>3, <3>1 DEF ObjectInv
  <2>3. CASE thr[t].at \in {"locked", "prepared"}
    <3>1. Pins(thr[t], o)
      BY <1>3, <2>3 DEF Pins, PinSteps
    <3> QED
      BY <3>1, SingletonOwned
  <2>4. thr[t].dying \in BOOLEAN
    BY <1>1 DEF TypeInv, LifecycleTypeOK, Activity
  <2> QED
    BY <1>3, <2>1, <2>2, <2>3, <2>4 DEF LockedSteps
<1> QED
  BY <1>2, <1>3 DEF Depth, Kept, Inside

\* A forking thread that is prepared is the only one inside a lock.
LEMMA AloneInside ==
  ASSUME LockInv, ForkInv, NEW t \in Threads, thr[t].at = "prepared", NEW u \in Threads, u # t
  PROVE  /\ ~thr[u].keeps
         /\ \A o \in Objects : Depth(thr[u], the, o) = 0
         /\ \A o \in Objects : o # prepared => mutex[o].owner = None
<1>1. TypeInv /\ SingletonInv /\ KeepingInv /\ MutexInv /\ ConstantsAssumption
  BY ConstantsAssumption DEF LockInv, SingletonInv, CountInv
<1>2. the = prepared /\ prepared = thr[t].obj /\ the \in Objects \cup {None}
  BY <1>1 DEF ForkInv, At, TypeInv, LifecycleTypeOK
<1>3. ASSUME NEW o \in Objects, o = the
      PROVE  Depth(thr[u], the, o) = 0
  <2>1. Inside(thr[t], o) = 1
    BY <1>2, <1>3 DEF Inside, LockedSteps
  <2>2. Depth(thr[t], the, o) # 0
    BY <2>1 DEF Depth, Kept
  <2>3. mutex[o].owner = t
    BY <1>1, <2>2 DEF MutexInv
  <2> QED
    BY <1>1, <2>3 DEF MutexInv
<1>4. \A w \in Threads, o \in Objects : o # the => Depth(thr[w], the, o) = 0
  <2> SUFFICES ASSUME NEW w \in Threads, NEW o \in Objects, o # the
               PROVE  Depth(thr[w], the, o) = 0
    OBVIOUS
  <2>1. Depth(thr[w], the, o) \in Nat
    BY DepthsAre
  <2>2. ~(Depth(thr[w], the, o) > 0)
    BY <1>1, InsideSingleton
  <2> QED
    BY <2>1, <2>2
<1>5. \A o \in Objects : Depth(thr[u], the, o) = 0
  BY <1>3, <1>4
<1>6. ~thr[u].keeps
  <2> SUFFICES ASSUME thr[u].keeps PROVE FALSE
    OBVIOUS
  <2>1. the # None
    BY <1>1 DEF KeepingInv, KeepsAt
  <2>2. PICK o \in Objects : o = the
    BY <1>2, <2>1
  <2>3. Depth(thr[u], the, o) # 0
    BY <2>2 DEF Depth, Kept, Inside
  <2> QED
    BY <1>5, <2>3
<1>7. \A o \in Objects : o # prepared => mutex[o].owner = None
  <2> SUFFICES ASSUME NEW o \in Objects, o # prepared, mutex[o].owner # None PROVE FALSE
    OBVIOUS
  <2>1. mutex[o].owner \in Threads
    BY <1>1 DEF TypeInv, LifecycleTypeOK
  <2>2. Depth(thr[mutex[o].owner], the, o) > 0
    BY <1>1, <2>1 DEF MutexInv
  <2>3. Depth(thr[mutex[o].owner], the, o) = 0
    BY <1>2, <1>4, <2>1
  <2> QED
    BY <2>2, <2>3
<1> QED
  BY <1>5, <1>6, <1>7

LEMMA KeepingStep ==
  ASSUME LockInv, NEW t \in Threads, Step(t)
  PROVE  KeepingInv'
<1>1. /\ TypeInv /\ CountInv /\ SingletonInv /\ KeepingInv /\ NotHeld /\ ForkInv
  BY DEF LockInv, SingletonInv, CountInv
<1> SUFFICES ASSUME NEW u \in Threads, thr'[u].keeps
             PROVE  KeepsAt(thr'[u], the')
  BY DEF KeepingInv
<1>2. CASE RecoverInChild(t)
  <2>1. thr[t].at = "prepared" /\ thr[u].keeps
    BY <1>1, <1>2, RecoverInChildMoves
  <2>2. u = t
    BY <1>1, <2>1, AloneInside
  <2> QED
    BY <1>1, <2>1, <2>2 DEF KeepingInv, KeepsAt, ReleaseSteps
<1>3. CASE HoldLock(t) /\ u = t
  <2>1. the # None /\ thr[t].owned[the] > 0 /\ the' = the
    BY <1>3 DEF HoldLock
  <2>2. thr'[t].at = "idle" /\ thr'[t].owned = thr[t].owned
    BY <1>1, <1>3, HoldLockMoves
  <2> QED
    BY <1>3, <2>1, <2>2 DEF KeepsAt, IsDying, FinalSteps, ReleaseSteps
<1>4. CASE ~RecoverInChild(t) /\ thr[u].keeps
  <2>1. KeepsAt(thr[u], the) /\ the' = the /\ the \in Objects
    BY <1>1, <1>4, KeptStays DEF KeepingInv
  <2>2. CASE thr'[u] = thr[u]
    BY <2>1, <2>2
  <2>3. CASE u = t
    <3>1. MayKeep(thr[t])
      BY <2>1, <2>3 DEF KeepsAt, MayKeep
    <3>2. MayKeep(thr'[t])
      BY <1>1, <1>4, <2>3, <3>1, KeeperMoves
    <3>3. PICK o \in Objects : o = the
      BY <2>1
    <3>4. thr'[t].owned[o] > 0
      BY <1>1, <1>4, <2>1, <2>3, <3>3, KeeperOwns DEF KeepsAt
    <3> QED
      BY <2>1, <2>3, <3>2, <3>3, <3>4 DEF KeepsAt, MayKeep
  <2> QED
    BY <1>1, <1>4, <2>2, <2>3, OneMovesOrNone DEF OneMoves
<1>5. CASE ~RecoverInChild(t) /\ ~thr[u].keeps
  <2>1. HoldLock(t) \/ YieldLock(t)
    BY <1>1, <1>5, KeepersStay
  <2>2. u = t
    BY <1>1, <1>5, <2>1, HoldLockMoves, YieldLockMoves DEF OneMoves
  <2> QED
    BY <1>1, <1>3, <2>1, <2>2, YieldLockMoves
<1> QED
  BY <1>2, <1>4, <1>5

LEMMA DepthsFollow ==
  ASSUME LockInv, NEW t \in Threads, Step(t),
         ~(RecoverInChild(t) \/ HoldLock(t) \/ YieldLock(t)),
         NEW o \in Objects, NEW n \in Int,
         \A p \in Objects : Inside(thr'[t], p) = Inside(thr[t], p) + (IF p = o THEN n ELSE 0)
  PROVE  DepthChanges(t, o, n)
<1>1. TypeInv
  BY DEF LockInv, SingletonInv, CountInv
<1> SUFFICES ASSUME NEW u \in Threads, NEW p \in Objects
             PROVE  Depth(thr'[u], the', p)
                      = Depth(thr[u], the, p) + (IF u = t /\ p = o THEN n ELSE 0)
  BY DEF DepthChanges
<1>2. Kept(thr'[u], the', p) = Kept(thr[u], the, p)
  BY <1>1, KeepersStay, KeptSame
<1>3. Inside(thr'[u], p) = Inside(thr[u], p) + (IF u = t /\ p = o THEN n ELSE 0)
  <2>1. CASE u = t
    BY <2>1
  <2>2. CASE u # t
    <3>1. thr'[u] = thr[u]
      BY <1>1, <2>2, OneMovesOrNone DEF OneMoves
    <3> QED
      BY <2>2, <3>1, DepthsAre
  <2> QED
    BY <2>1, <2>2
<1> QED
  BY <1>2, <1>3, DepthsAre DEF Depth

LEMMA DepthsStay ==
  ASSUME LockInv, NEW t \in Threads, Step(t),
         ~(RecoverInChild(t) \/ HoldLock(t) \/ YieldLock(t)),
         \A p \in Objects : Inside(thr'[t], p) = Inside(thr[t], p)
  PROVE  \A u \in Threads, p \in Objects : Depth(thr'[u], the', p) = Depth(thr[u], the, p)
<1>1. TypeInv
  BY DEF LockInv, SingletonInv, CountInv
<1> SUFFICES ASSUME NEW u \in Threads, NEW p \in Objects
             PROVE  Depth(thr'[u], the', p) = Depth(thr[u], the, p)
  OBVIOUS
<1>2. Kept(thr'[u], the', p) = Kept(thr[u], the, p)
  BY <1>1, KeepersStay, KeptSame
<1>3. Inside(thr'[u], p) = Inside(thr[u], p)
  BY <1>1, OneMovesOrNone DEF OneMoves
<1> QED
  BY <1>2, <1>3 DEF Depth

LEMMA HolderDepths ==
  ASSUME LockInv, NEW t \in Threads, HoldLock(t) \/ YieldLock(t), NEW o \in Objects, o = the
  PROVE  DepthChanges(t, o, IF HoldLock(t) THEN 1 ELSE -1)
<1>1. TypeInv
  BY DEF LockInv, SingletonInv, CountInv
<1>2. the' = the /\ OneMoves(t) /\ thr'[t].at = thr[t].at /\ thr'[t].obj = thr[t].obj
  BY <1>1, HoldLockMoves, YieldLockMoves DEF HoldLock, YieldLock
<1>3. IF HoldLock(t) THEN ~thr[t].keeps /\ thr'[t].keeps ELSE thr[t].keeps /\ ~thr'[t].keeps
  BY <1>1, HoldLockMoves, YieldLockMoves DEF HoldLock, YieldLock
<1> SUFFICES ASSUME NEW u \in Threads, NEW p \in Objects
             PROVE  Depth(thr'[u], the', p)
                      = Depth(thr[u], the, p)
                          + (IF u = t /\ p = o THEN (IF HoldLock(t) THEN 1 ELSE -1) ELSE 0)
  BY DEF DepthChanges
<1>4. Inside(thr'[u], p) = Inside(thr[u], p)
  BY <1>2 DEF Inside, OneMoves
<1>5. Kept(thr'[u], the', p)
        = Kept(thr[u], the, p)
            + (IF u = t /\ p = o THEN (IF HoldLock(t) THEN 1 ELSE -1) ELSE 0)
  <2>1. CASE u = t /\ p = o
    BY <1>2, <1>3, <2>1 DEF Kept
  <2>2. CASE u = t /\ p # o
    BY <1>2, <2>2 DEF Kept
  <2>3. CASE u # t
    BY <1>2, <2>3, DepthsAre DEF OneMoves
  <2> QED
    BY <2>1, <2>2, <2>3
<1> QED
  BY <1>4, <1>5, DepthsAre DEF Depth

\* In the child only the forking thread is left to hold a lock, and the one it
\* holds is made new.
LEMMA ChildLocks ==
  ASSUME LockInv, NEW t \in Threads, RecoverInChild(t)
  PROVE  MutexInv'
<1>1. /\ TypeInv /\ CountInv /\ SingletonInv /\ KeepingInv /\ NotHeld /\ ForkInv /\ MutexInv
      /\ None \notin Threads
  BY ConstantsAssumption DEF LockInv, SingletonInv, CountInv
<1>2. /\ thr[t].at = "prepared"
      /\ \A u \in Threads : u # t => thr'[u].at = "gone" /\ thr'[u].keeps = thr[u].keeps
      /\ IF prepared # None /\ obj[prepared].refs = 1
         THEN thr'[t].at = "dispose" ELSE thr'[t].at = "unlock"
      /\ thr'[t].keeps = thr[t].keeps
  BY <1>1, RecoverInChildMoves
<1>3. \A u \in Threads : ~thr'[u].keeps
  <2>1. ~thr[t].keeps
    BY <1>1, <1>2 DEF KeepingInv, KeepsAt, ReleaseSteps
  <2>2. \A u \in Threads : u # t => ~thr[u].keeps
    BY <1>1, <1>2, AloneInside
  <2> QED
    BY <1>2, <2>1, <2>2
<1>4. \A u \in Threads : thr'[u].at \notin LockedSteps
  BY <1>2 DEF LockedSteps
<1>5. \A u \in Threads, p \in Objects : Depth(thr'[u], the', p) = 0
  BY <1>3, <1>4 DEF Depth, Kept, Inside
<1>6. \A p \in Objects : p # prepared => mutex[p].owner = None
  <2> SUFFICES ASSUME NEW p \in Objects, p # prepared, mutex[p].owner # None PROVE FALSE
    OBVIOUS
  <2>1. mutex[p].owner \in Threads
    BY <1>1 DEF TypeInv, LifecycleTypeOK
  <2>2. Depth(thr[mutex[p].owner], the, p) > 0
    BY <1>1, <2>1 DEF MutexInv
  <2>3. the = p
    BY <1>1, <2>1, <2>2, InsideSingleton
  <2> QED
    BY <1>1, <1>2, <2>3 DEF ForkInv, At
<1>7. \A p \in Objects : mutex'[p].owner = None /\ mutex'[p].depth = 0
  <2>1. /\ mutex' = MutexReplaced(prepared)
        /\ mutex \in [Objects -> [owner : Threads \cup {None}, depth : Int]]
    BY <1>1 DEF RecoverInChild, TypeInv, LifecycleTypeOK
  <2>2. prepared \in Objects \cup {None}
    BY <1>1 DEF TypeInv, LifecycleTypeOK
  <2>3. \A p \in Objects : p # prepared => mutex'[p] = mutex[p]
    BY <2>1, <2>2 DEF MutexReplaced
  <2>4. prepared # None => mutex'[prepared].owner = None /\ mutex'[prepared].depth = 0
    BY <2>1, <2>2 DEF MutexReplaced
  <2> QED
    BY <1>1, <1>6, <2>3, <2>4, NoneIsNoObject DEF MutexInv
<1> QED
  BY <1>1, <1>5, <1>7, MutexInvBecomes

LEMMA InsideIs ==
  ASSUME NEW a, NEW o \in Objects
  PROVE  /\ a.at \notin LockedSteps => \A p \in Objects : Inside(a, p) = 0
         /\ a.obj = None => \A p \in Objects : Inside(a, p) = 0
         /\ a.at \in LockedSteps /\ a.obj = o
              => \A p \in Objects : Inside(a, p) = 0 + (IF p = o THEN 1 ELSE 0)
BY NoneIsNoObject DEF Inside

LEMMA MutexStep ==
  ASSUME LockInv, NEW t \in Threads, Step(t)
  PROVE  MutexInv'
<1>1. /\ TypeInv /\ CountInv /\ SingletonInv /\ KeepingInv /\ NotHeld /\ ForkInv /\ MutexInv
      /\ None \notin Threads
  BY ConstantsAssumption DEF LockInv, SingletonInv, CountInv
<1>2. CASE RecoverInChild(t)
  BY <1>2, ChildLocks
<1>3. CASE HoldLock(t) \/ YieldLock(t)
  <2>1. thr[t].keeps \/ HoldLock(t)
    BY <1>3 DEF YieldLock
  <2>2. the # None
    BY <1>1, <2>1 DEF HoldLock, KeepingInv, KeepsAt
  <2>3. PICK o \in Objects : o = the
    BY <1>1, <2>2 DEF TypeInv, LifecycleTypeOK
  <2>4. CASE HoldLock(t)
    <3>1. CanLock(t, o) /\ mutex' = Locked(t, o)
      BY <2>3, <2>4 DEF HoldLock
    <3>2. DepthChanges(t, o, 1)
      BY <2>3, <2>4, HolderDepths
    <3> QED
      BY <1>1, <3>1, <3>2, LockTaken
  <2>5. CASE YieldLock(t) /\ ~HoldLock(t)
    <3>1. mutex' = Unlocked(o) /\ thr[t].keeps
      BY <2>3, <2>5 DEF YieldLock
    <3>2. DepthChanges(t, o, -1)
      BY <2>3, <2>5, HolderDepths
    <3>3. Depth(thr[t], the, o) > 0
      BY <2>3, <3>1 DEF Depth, Kept, Inside
    <3> QED
      BY <1>1, <3>1, <3>2, <3>3, LockGiven
  <2> QED
    BY <1>3, <2>4, <2>5
<1>4. CASE ~(RecoverInChild(t) \/ HoldLock(t) \/ YieldLock(t))
  <2>1. ASSUME mutex' = mutex, \A p \in Objects : Inside(thr'[t], p) = Inside(thr[t], p)
        PROVE  MutexInv'
    BY <1>1, <1>4, <2>1, DepthsStay, LockLeft
  <2>2. ASSUME NEW o \in Objects, CanLock(t, o), mutex' = Locked(t, o),
               thr[t].at \notin LockedSteps, thr'[t].at \in LockedSteps, thr'[t].obj = o
        PROVE  MutexInv'
    <3>1. \A p \in Objects : Inside(thr'[t], p) = Inside(thr[t], p) + (IF p = o THEN 1 ELSE 0)
      BY <2>2, InsideIs
    <3>2. DepthChanges(t, o, 1)
      BY <1>4, <3>1, DepthsFollow
    <3> QED
      BY <1>1, <2>2, <3>2, LockTaken
  <2>3. ASSUME NEW o \in Objects, mutex' = Unlocked(o),
               thr[t].at \in LockedSteps, thr[t].obj = o, thr'[t].at \notin LockedSteps
        PROVE  MutexInv'
    <3>1. \A p \in Objects : Inside(thr'[t], p) = Inside(thr[t], p) + (IF p = o THEN -1 ELSE 0)
      BY <2>3, InsideIs
    <3>2. DepthChanges(t, o, -1)
      BY <1>4, <3>1, DepthsFollow
    <3>3. Depth(thr[t], the, o) > 0
      BY <2>3 DEF Depth, Kept, Inside
    <3> QED
      BY <1>1, <2>3, <3>2, <3>3, LockGiven
  <2>4. ASSUME mutex' = mutex, thr[t].at \notin LockedSteps \/ thr[t].obj = None,
               thr'[t].at \notin LockedSteps \/ thr'[t].obj = None
        PROVE  MutexInv'
    BY <2>1, <2>4, InsideIs
  <2>5. CASE \/ LibraryInit(t) \/ LibraryDeinit(t) \/ Hook(t) \/ CallEnds(t) \/ ExitThread(t)
    BY <2>1, <2>5 DEF LibraryInit, LibraryDeinit, Hook, CallEnds, ExitThread
  <2>6. CASE Obtain(t)
    BY <1>1, <2>4, <2>6, ObtainMoves DEF LockedSteps, Obtain
  <2>7. CASE Unref(t)
    BY <1>1, <2>4, <2>7, UnrefMoves DEF LockedSteps, Unref
  <2>8. CASE Dispose(t)
    <3>1. thr[t].obj \in Objects
      BY <1>1, <2>8, Workers, DisposeMoves DEF FinalSteps
    <3>2. CanLock(t, thr[t].obj) /\ mutex' = Locked(t, thr[t].obj)
      BY <2>8 DEF Dispose
    <3> QED
      BY <1>1, <2>2, <2>8, <3>1, <3>2, DisposeMoves DEF LockedSteps
  <2>9. CASE ClearSingleton(t)
    BY <1>1, <2>4, <2>9, ClearSingletonMoves DEF LockedSteps, ClearSingleton
  <2>10. CASE Destroy(t)
    BY <1>1, <2>4, <2>10, DestroyMoves DEF LockedSteps, Destroy
  <2>11. CASE Unhook(t)
    BY <1>1, <2>2, <2>11, UnhookMoves DEF LockedSteps
  <2>12. CASE Postpone(t)
    <3>1. thr'[t].at = thr[t].at /\ thr'[t].obj = thr[t].obj /\ mutex' = mutex
      BY <1>1, <2>12, PostponeMoves DEF Postpone
    <3> QED
      BY <2>1, <3>1 DEF Inside
  <2>13. CASE ReleaseStarts(t)
    <3>1. thr[t].at = "release" /\ thr'[t].at = "notify"
      BY <1>1, <2>13, ReleaseStartsMoves
    <3>2. thr[t].obj \in Objects
      BY <1>1, <3>1, Workers DEF ReleaseSteps
    <3>3. mutex' = Unlocked(thr[t].obj)
      BY <2>13 DEF ReleaseStarts
    <3> QED
      BY <2>3, <3>1, <3>2, <3>3 DEF LockedSteps
  <2>14. CASE ReleaseEnds(t)
    <3>1. thr[t].obj \in Objects
      BY <1>1, <2>14, Workers, ReleaseEndsMoves DEF ReleaseSteps
    <3>2. CanLock(t, thr[t].obj) /\ mutex' = Locked(t, thr[t].obj)
      BY <2>14 DEF ReleaseEnds
    <3> QED
      BY <1>1, <2>2, <2>14, <3>1, <3>2, ReleaseEndsMoves DEF LockedSteps
  <2>15. CASE TransactionEnds(t)
    <3>1. thr[t].at = "release" /\ thr'[t].at = (IF thr[t].dying THEN "clear" ELSE "idle")
      BY <1>1, <2>15, TransactionEndsMoves
    <3>2. thr[t].obj \in Objects
      BY <1>1, <3>1, Workers DEF ReleaseSteps
    <3>3. mutex' = Unlocked(thr[t].obj)
      BY <2>15 DEF TransactionEnds
    <3> QED
      BY <2>3, <3>1, <3>2, <3>3 DEF LockedSteps
  <2>16. CASE CallBegins(t)
    BY <1>1, <2>4, <2>16, CallBeginsMoves DEF LockedSteps, CallBegins
  <2>17. CASE MakeContext(t) \/ AddContext(t) \/ Push(t)
    BY <1>1, <2>4, <2>17, MakeContextMoves, AddContextMoves, PushMoves
       DEF LockedSteps, MakeContext, AddContext, Push
  <2>18. CASE PrepareToFork(t)
    BY <1>1, <2>4, <2>18, PrepareToForkMoves DEF LockedSteps, PrepareToFork
  <2>19. CASE Pin(t)
    <3>1. /\ thr[t].at = "pin" /\ thr'[t].at = (IF the = None THEN "locked" ELSE "pinned")
          /\ thr'[t].obj = the
      BY <1>1, <2>19, PinMoves
    <3>2. mutex' = mutex
      BY <2>19 DEF Pin
    <3> QED
      BY <2>4, <3>1, <3>2 DEF LockedSteps
  <2>20. CASE LockPinned(t)
    <3>1. thr[t].obj \in Objects
      BY <1>1, <2>20, Positions, LockPinnedMoves DEF TypeInv, Proper
    <3>2. CanLock(t, thr[t].obj) /\ mutex' = Locked(t, thr[t].obj)
      BY <2>20 DEF LockPinned
    <3> QED
      BY <1>1, <2>2, <2>20, <3>1, <3>2, LockPinnedMoves DEF LockedSteps
  <2>21. CASE Freeze(t)
    <3>1. /\ thr[t].at = "locked" /\ thr'[t].at = "prepared" /\ thr'[t].obj = thr[t].obj
          /\ mutex' = mutex
      BY <1>1, <2>21, FreezeMoves DEF Freeze
    <3> QED
      BY <2>1, <3>1 DEF Inside, LockedSteps
  <2>22. CASE TryAgain(t)
    <3>1. thr[t].obj = None
      BY <1>1, <2>22, TriesAgainWithout
    <3>2. mutex' = mutex /\ thr'[t].obj = None
      BY <1>1, <2>22, <3>1, TryAgainMoves
    <3> QED
      BY <2>4, <3>1, <3>2
  <2>23. CASE RecoverInParent(t)
    <3>1. /\ thr[t].at = "prepared" /\ thr'[t].at \notin LockedSteps
          /\ prepared = thr[t].obj /\ prepared \in Objects \cup {None}
      BY <1>1, <2>23, Positions, RecoverInParentMoves DEF LockedSteps, ForkInv, At
    <3>2. mutex' = IF prepared = None THEN mutex ELSE Unlocked(prepared)
      BY <2>23 DEF RecoverInParent
    <3> QED
      BY <2>3, <2>4, <3>1, <3>2 DEF LockedSteps
  <2>24. CASE Recovered(t)
    BY <1>1, <2>4, <2>24, RecoveredMoves DEF LockedSteps, Recovered
  <2> QED
    BY <1>4, <2>5, <2>6, <2>7, <2>8, <2>9, <2>10, <2>11, <2>12, <2>13, <2>14, <2>15, <2>16,
       <2>17, <2>18, <2>19, <2>20, <2>21, <2>22, <2>23, <2>24 DEF Step
<1> QED
  BY <1>2, <1>3, <1>4

LEMMA NextLocks == LockInv /\ [Next]_vars => LockInv'
<1> SUFFICES ASSUME LockInv, [Next]_vars PROVE LockInv'
  OBVIOUS
<1>1. SingletonInv /\ CountInv /\ NotLate /\ NotHeld
  BY DEF LockInv, SingletonInv
<1>2. CASE UNCHANGED vars
  <2>1. CountInv'
    BY <1>1, NextCounts, <1>2
  <2> QED
    BY <1>2, <2>1 DEF LockInv, SingletonInv, vars, ObjectInv, NotLate, NotHeld, KeepingInv,
                      MutexInv, At
<1>3. CASE Next
  <2>1. PICK t \in Threads : Step(t)
    BY <1>3 DEF Next, Step
  <2>2. CountInv'
    BY <1>1, <1>3, NextCounts
  <2>3. ObjectInv' /\ KeepingInv' /\ MutexInv'
    BY <1>1, <2>1, ObjectStep, KeepingStep, MutexStep
  <2>4. NotLate' /\ NotHeld'
    BY <1>1, <2>1, LibertiesStep DEF NotLate, NotHeld
  <2> QED
    BY <2>2, <2>3, <2>4 DEF LockInv, SingletonInv
<1> QED
  BY <1>2, <1>3

LEMMA LocksHaveHolders == LockInv => NoOrphanedLock
<1> SUFFICES ASSUME LockInv PROVE NoOrphanedLock
  OBVIOUS
<1>1. /\ SingletonInv /\ CountInv /\ TypeInv /\ ForkInv /\ KeepingInv /\ MutexInv
      /\ None \notin Threads
  BY ConstantsAssumption DEF LockInv, SingletonInv, CountInv
<1>2. locks.global # None => At(locks.global, "prepared")
  BY <1>1 DEF ForkInv
<1>3. locks.spin # None => At(locks.spin, "prepared")
  BY <1>1 DEF ForkInv
<1>4. locks.lifecycle # None => ~At(locks.lifecycle, "idle") /\ ~At(locks.lifecycle, "gone")
  BY <1>1 DEF ForkInv, InFork, IsDying, ForkSteps, FinalSteps, ReleaseSteps, At
<1>5. ASSUME the # None, mutex[the].owner # None
      PROVE  HoldsMutex(mutex[the].owner, the) /\ ~At(mutex[the].owner, "gone")
  <2>1. PICK o \in Objects : o = the
    BY <1>1, <1>5 DEF TypeInv, LifecycleTypeOK
  <2>2. mutex[o].owner \in Threads
    BY <1>1, <1>5, <2>1 DEF TypeInv, LifecycleTypeOK
  <2>3. PICK u \in Threads : u = mutex[o].owner
    BY <2>2
  <2>4. Depth(thr[u], the, o) > 0
    BY <1>1, <2>3 DEF MutexInv
  <2>5. \/ thr[u].keeps
        \/ thr[u].at \in LockedSteps /\ thr[u].obj = o
    BY <2>4 DEF Depth, Kept, Inside
  <2>6. thr[u].at # "gone"
    BY <1>1, <2>5 DEF KeepingInv, KeepsAt, LockedSteps, ReleaseSteps
  <2> QED
    BY <2>1, <2>3, <2>5, <2>6 DEF HoldsMutex, At, LockedSteps
<1>6. ASSUME NEW t \in Threads, thr[t].keeps, ~At(t, "gone")
      PROVE  mutex[the].owner = t
  <2>1. the # None
    BY <1>1, <1>6 DEF KeepingInv, KeepsAt
  <2>2. PICK o \in Objects : o = the
    BY <1>1, <2>1 DEF TypeInv, LifecycleTypeOK
  <2>3. Depth(thr[t], the, o) # 0
    BY <1>6, <2>2 DEF Depth, Kept, Inside
  <2> QED
    BY <1>1, <2>2, <2>3 DEF MutexInv
<1> QED
  BY <1>2, <1>3, <1>4, <1>5, <1>6 DEF NoOrphanedLock

LocksNotKept == \A p \in Programs : "held fork" \notin p

\* If the program does not fork with the lock held, nor obtain the singleton too
\* late, every lock has a holder that exists and will give it up, in parent and
\* child, and a thread that keeps the lock has it.
THEOREM NoLockIsOrphaned == ObtainsInTime /\ LocksNotKept => (Spec => []NoOrphanedLock)
<1> SUFFICES ASSUME ObtainsInTime, LocksNotKept PROVE Spec => []NoOrphanedLock
  OBVIOUS
<1>1. Init => LockInv
  <2> SUFFICES ASSUME Init PROVE LockInv
    OBVIOUS
  <2>1. NotLate /\ NotHeld
    BY DEF Init, NotLate, NotHeld, ObtainsInTime, LocksNotKept
  <2>2. CountInv /\ ObjectInv
    BY InitCounts
  <2>3. \A t \in Threads : thr[t] = Resting
    BY DEF Init
  <2>4. \A t \in Threads : ~thr[t].keeps /\ thr[t].at = "idle"
    BY <2>3 DEF Resting
  <2>5. \A t \in Threads, o \in Objects : Depth(thr[t], the, o) = 0
    BY <2>4 DEF Depth, Kept, Inside, LockedSteps
  <2>6. \A o \in Objects : mutex[o].owner = None /\ mutex[o].depth = 0
    BY DEF Init
  <2>7. KeepingInv
    BY <2>4 DEF KeepingInv
  <2>8. MutexInv
    BY <2>5, <2>6, NoneIsNoObject DEF MutexInv
  <2> QED
    BY <2>1, <2>2, <2>7, <2>8 DEF LockInv, SingletonInv
<1> QED
  BY <1>1, NextLocks, LocksHaveHolders, PTL DEF Spec

-----------------------------------------------------------------------------
(* Calls and counters *)

EnteringSteps == {"entering", "adding"}

\* The entries of a thread's context, and whether it is of generation g.
Stack(x) == IF x = None THEN <<>> ELSE x.stack
FreshAs(x, g) == x # None /\ x.generation = g

\* A thread that enters or is inside a hooked function keeps the library up, and
\* the context it has entries in is of this generation.
CallsInv ==
  /\ registry = None <=> inits = 0
  /\ \A t \in Threads :
       thr[t].at \in EnteringSteps \/ Stack(context[t]) # <<>> => inits > 0
  /\ \A t \in Threads : Stack(context[t]) # <<>> => FreshAs(context[t], generation)
  /\ \A t \in Threads :
       thr[t].at = "adding" => thr[t].gen = generation /\ Stack(context[t]) = <<>>
  /\ registry # None => \A t \in registry : FreshAs(context[t], generation)

\* A function context that is being entered, or that has an entry.
UsedBy(a, x, c) ==
  \/ a.at \in EnteringSteps /\ a.ctx = c
  \/ \E i \in DOMAIN Stack(x) : Stack(x)[i] = c
IsUsed(c) == \E t \in Threads : UsedBy(thr[t], context[t], c)

\* One in use is there, and somebody owns its interceptor; so a finalized
\* interceptor finds all its tasks done.
UsedInv ==
  /\ \A c \in Ctxs :
       IsUsed(c) => fc[c].at \in {"hooked", "unhooked"} /\ Owners(fc[c].of) # {}
  /\ \A t \in Threads : thr[t].at = "notify" => ~IsUsed(thr[t].ctx)
  /\ \A t \in Threads : Emptied(thr[t]) => obj[thr[t].obj].pending = {}
  /\ \A o \in Objects : obj[o].pending # {} => the = o

\* The counter of one that may still be released counts its uses: the entries, from 1,
\* of the threads' contexts, and the calls on their way there.
IsCounted(c) ==
  \/ fc[c].at = "hooked"
  \/ \E o \in Objects : c \in obj[o].pending
  \/ \E t \in Threads : c \in Held(thr[t])
UseAt(a, x, k, c) ==
  IF k = 0 THEN a.at \in EnteringSteps /\ a.ctx = c
  ELSE k \in DOMAIN Stack(x) /\ Stack(x)[k] = c
Uses(c) == {r \in Threads \X Nat : UseAt(thr[r[1]], context[r[1]], r[2], c)}
ExactInv ==
  \A c \in Ctxs :
    IsCounted(c) => IsFiniteSet(Uses(c)) /\ fc[c].counter = Cardinality(Uses(c))

CarefulInv == ReleaseInv /\ Careful /\ CallsInv /\ UsedInv /\ ExactInv

LEMMA EntriesAreStacks == \A t \in Threads : EntriesOf(t) = Stack(context[t])
BY DEF EntriesOf, Stack

LEMMA StacksAre ==
  ASSUME TypeInv, NEW t \in Threads
  PROVE  /\ Stack(context[t]) \in Seq(Ctxs)
         /\ DOMAIN Stack(context[t]) = 1 .. Len(Stack(context[t]))
         /\ Len(Stack(context[t])) \in Nat
         /\ Stack(context[t]) = <<>> <=> Len(Stack(context[t])) = 0
<1>1. Stack(context[t]) \in Seq(Ctxs)
  BY EntriesAre, EntriesAreStacks DEF TypeInv
<1> QED
  BY <1>1, EmptySeq

\* Neither its calls nor the library change for a thread.
SameCalls ==
  /\ registry' = registry /\ context' = context /\ inits' = inits /\ generation' = generation
  /\ \A u \in Threads :
       \/ thr'[u] = thr[u]
       \/ thr[u].at \notin EnteringSteps /\ thr'[u].at \notin EnteringSteps

LEMMA CallsQuiet ==
  ASSUME TypeInv, NEW t \in Threads, Step(t),
         ~(LibraryInit(t) \/ LibraryDeinit(t) \/ CallBegins(t) \/ MakeContext(t)
             \/ AddContext(t) \/ Push(t) \/ CallEnds(t) \/ ExitThread(t) \/ RecoverInChild(t))
  PROVE  SameCalls
<1>1. ASSUME OneMoves(t), thr[t].at \notin EnteringSteps, thr'[t].at \notin EnteringSteps
      PROVE  \A u \in Threads :
               \/ thr'[u] = thr[u]
               \/ thr[u].at \notin EnteringSteps /\ thr'[u].at \notin EnteringSteps
  BY <1>1 DEF OneMoves
<1>2. \A u \in Threads :
        \/ thr'[u] = thr[u]
        \/ thr[u].at \notin EnteringSteps /\ thr'[u].at \notin EnteringSteps
  <2>1. CASE Hook(t)
    BY <2>1 DEF Hook
  <2>2. CASE Obtain(t)
    BY <1>1, <2>2, ObtainMoves DEF EnteringSteps
  <2>3. CASE Unref(t)
    BY <1>1, <2>3, UnrefMoves DEF EnteringSteps
  <2>4. CASE Dispose(t) \/ ClearSingleton(t)
    BY <1>1, <2>4, DisposeMoves, ClearSingletonMoves DEF EnteringSteps
  <2>5. CASE Destroy(t)
    BY <1>1, <2>5, Positions, DestroyMoves DEF EnteringSteps
  <2>6. CASE Unhook(t)
    BY <1>1, <2>6, UnhookMoves DEF EnteringSteps
  <2>7. CASE Postpone(t)
    BY <1>1, <2>7, PostponeMoves DEF EnteringSteps
  <2>8. CASE ReleaseStarts(t)
    BY <1>1, <2>8, ReleaseStartsMoves DEF EnteringSteps
  <2>9. CASE ReleaseEnds(t)
    BY <1>1, <2>9, ReleaseEndsMoves DEF EnteringSteps
  <2>10. CASE TransactionEnds(t)
    BY <1>1, <2>10, TransactionEndsMoves DEF EnteringSteps
  <2>11. CASE HoldLock(t) \/ YieldLock(t)
    BY <1>1, <2>11, HoldLockMoves, YieldLockMoves DEF EnteringSteps
  <2>12. CASE PrepareToFork(t) \/ Recovered(t)
    BY <1>1, <2>12, PrepareToForkMoves, RecoveredMoves DEF EnteringSteps
  <2>13. CASE Pin(t) \/ LockPinned(t) \/ Freeze(t)
    BY <1>1, <2>13, PinMoves, LockPinnedMoves, FreezeMoves DEF EnteringSteps
  <2>14. CASE TryAgain(t)
    <3>1. OneMoves(t) /\ thr[t].at = "locked"
      BY <2>14, TryAgainMoves
    <3>2. CASE thr[t].obj = None
      BY <1>1, <2>14, <3>1, <3>2, TryAgainMoves DEF EnteringSteps
    <3>3. CASE thr[t].obj # None
      <4>1. thr[t].obj \in Objects /\ Unreferenced(t, thr[t].obj, "pin")
        BY <2>14, <3>3 DEF TryAgain, TypeInv, LifecycleTypeOK, Activity
      <4>2. thr'[t].at \in {"dispose", "pin"}
        BY <3>1, <4>1, UnreferencedMoves
      <4> QED
        BY <1>1, <3>1, <4>2 DEF EnteringSteps
    <3> QED
      BY <3>2, <3>3
  <2>15. CASE RecoverInParent(t)
    BY <1>1, <2>15, RecoverInParentMoves DEF EnteringSteps
  <2> QED
    BY <2>1, <2>2, <2>3, <2>4, <2>5, <2>6, <2>7, <2>8, <2>9, <2>10, <2>11, <2>12, <2>13,
       <2>14, <2>15 DEF Step
<1>3. CASE Obtain(t) \/ Unref(t) \/ Dispose(t) \/ ClearSingleton(t) \/ Destroy(t) \/ Hook(t)
           \/ Unhook(t) \/ Postpone(t) \/ ReleaseStarts(t) \/ ReleaseEnds(t)
  BY <1>2, <1>3 DEF Obtain, Unref, Dispose, ClearSingleton, Destroy, Hook, Unhook, Postpone,
                    ReleaseStarts, ReleaseEnds, library, calls, SameCalls
<1>4. CASE TransactionEnds(t) \/ HoldLock(t) \/ YieldLock(t) \/ PrepareToFork(t) \/ Pin(t)
           \/ LockPinned(t) \/ Freeze(t) \/ TryAgain(t) \/ RecoverInParent(t) \/ Recovered(t)
  BY <1>2, <1>4 DEF TransactionEnds, HoldLock, YieldLock, PrepareToFork, Pin, LockPinned,
                    Freeze, TryAgain, RecoverInParent, Recovered, library, calls, SameCalls
<1> QED
  BY <1>3, <1>4 DEF Step

LEMMA CallsInvBecomes ==
  ASSUME registry' = None <=> inits' = 0,
         \A u \in Threads :
           thr'[u].at \in EnteringSteps \/ Stack(context'[u]) # <<>> => inits' > 0,
         \A u \in Threads : Stack(context'[u]) # <<>> => FreshAs(context'[u], generation'),
         \A u \in Threads :
           thr'[u].at = "adding" => thr'[u].gen = generation' /\ Stack(context'[u]) = <<>>,
         registry' # None => \A u \in registry' : FreshAs(context'[u], generation')
  PROVE  CallsInv'
BY DEF CallsInv

\* One thread's context, and how far it is with a call, change.
LEMMA CallsOne ==
  ASSUME CallsInv, NEW t \in Threads, generation' = generation, inits' = inits,
         OneMoves(t) \/ thr' = thr, \A u \in Threads : u # t => context'[u] = context[u],
         registry' = None <=> registry = None,
         registry' # None => \A u \in registry' : u = t \/ (u \in registry /\ u \in Threads),
         thr'[t].at \in EnteringSteps \/ Stack(context'[t]) # <<>> => inits > 0,
         Stack(context'[t]) # <<>> => FreshAs(context'[t], generation),
         thr'[t].at = "adding" => thr'[t].gen = generation /\ Stack(context'[t]) = <<>>,
         registry' # None /\ t \in registry' => FreshAs(context'[t], generation)
  PROVE  CallsInv'
<1>1. \A u \in Threads : u # t => thr'[u] = thr[u]
  BY DEF OneMoves
<1>2. \A u \in Threads :
        thr'[u].at \in EnteringSteps \/ Stack(context'[u]) # <<>> => inits' > 0
  BY <1>1 DEF CallsInv
<1>3. \A u \in Threads : Stack(context'[u]) # <<>> => FreshAs(context'[u], generation')
  BY DEF CallsInv
<1>4. \A u \in Threads :
        thr'[u].at = "adding" => thr'[u].gen = generation' /\ Stack(context'[u]) = <<>>
  BY <1>1 DEF CallsInv
<1>5. registry' # None => \A u \in registry' : FreshAs(context'[u], generation')
  BY DEF CallsInv
<1>6. registry' = None <=> inits' = 0
  BY DEF CallsInv
<1> QED
  BY <1>2, <1>3, <1>4, <1>5, <1>6, CallsInvBecomes

LEMMA CallsStep ==
  ASSUME TypeInv, Careful, CallsInv, NEW t \in Threads, Step(t)
  PROVE  CallsInv'
<1>1. /\ LifecycleTypeOK /\ inits \in Nat /\ generation \in Nat
      /\ \A u \in Threads : EntriesOf(u) = Stack(context[u])
      /\ registry # None => registry \subseteq Threads
      /\ context \in [Threads -> ThreadContext \cup {None}]
      /\ \A S \in SUBSET Threads : S # None
  BY EntriesAreStacks, ConstantsAssumption DEF TypeInv, LifecycleTypeOK
<1>2. Stack(None) = <<>> /\ \A g : ~FreshAs(None, g)
  BY DEF Stack, FreshAs
<1>3. CASE SameCalls
  <2>1. \A u \in Threads :
          thr'[u].at \in EnteringSteps => thr'[u] = thr[u]
    BY <1>3 DEF SameCalls
  <2>2. \A u \in Threads : thr'[u].at = "adding" => thr'[u] = thr[u]
    BY <2>1 DEF EnteringSteps
  <2> QED
    BY <1>3, <2>1, <2>2, CallsInvBecomes DEF SameCalls, CallsInv
<1>4. CASE LibraryInit(t)
  <2>1. inits' = inits + 1 /\ context' = context /\ thr' = thr
    BY <1>4 DEF LibraryInit
  <2>2. CASE inits = 0
    <3>1. registry' = {}
      BY <1>4, <2>2 DEF LibraryInit
    <3>2. \A u \in Threads : thr[u].at \notin EnteringSteps /\ Stack(context[u]) = <<>>
      BY <2>2 DEF CallsInv
    <3>3. \A u \in Threads : thr'[u].at # "adding"
      BY <2>1, <3>2 DEF EnteringSteps
    <3>4. registry' # None /\ inits' # 0
      BY <1>1, <2>1, <2>2, <3>1
    <3> QED
      BY <2>1, <3>1, <3>2, <3>3, <3>4, CallsInvBecomes
  <2>3. CASE inits # 0
    <3>1. registry' = registry /\ generation' = generation
      BY <1>4, <2>3 DEF LibraryInit
    <3>2. inits' > 0 /\ inits' # 0
      BY <1>1, <2>1
    <3> QED
      BY <2>1, <2>3, <3>1, <3>2, CallsInvBecomes DEF CallsInv
  <2> QED
    BY <2>2, <2>3
<1>5. CASE LibraryDeinit(t)
  <2>1. inits > 0 /\ inits' = inits - 1 /\ generation' = generation /\ thr' = thr
    BY <1>5 DEF LibraryDeinit
  <2>2. CASE inits = 1
    <3>1. registry' = None /\ context' = [context EXCEPT ![t] = None] /\ Calling = {}
      BY <1>5, <2>2 DEF LibraryDeinit, Careful
    <3>2. \A u \in Threads : thr[u].at \notin EnteringSteps /\ Stack(context[u]) = <<>>
      BY <1>1, <3>1 DEF Calling, At, EnteringSteps
    <3>3. \A u \in Threads : Stack(context'[u]) = <<>>
      BY <1>1, <1>2, <3>1, <3>2
    <3>4. \A u \in Threads : thr'[u].at # "adding" /\ thr'[u].at \notin EnteringSteps
      BY <2>1, <3>2 DEF EnteringSteps
    <3>5. inits' = 0
      BY <2>1, <2>2
    <3> QED
      BY <3>1, <3>3, <3>4, <3>5, CallsInvBecomes
  <2>3. CASE inits # 1
    <3>1. registry' = registry /\ context' = context
      BY <1>5, <2>3 DEF LibraryDeinit
    <3>2. inits' > 0 /\ inits' # 0 /\ inits # 0
      BY <1>1, <2>1, <2>3
    <3> QED
      BY <2>1, <3>1, <3>2, CallsInvBecomes DEF CallsInv
  <2> QED
    BY <2>2, <2>3
<1>6. CASE CallBegins(t)
  <2>1. /\ OneMoves(t) /\ thr'[t].at = "entering"
        /\ "early unref" \in liberties \/ inits > 0
    BY <1>6, CallBeginsMoves DEF TypeInv
  <2>2. registry' = registry /\ context' = context /\ inits' = inits /\ generation' = generation
    BY <1>6 DEF CallBegins, calls, library
  <2> QED
    BY <1>1, <2>1, <2>2, CallsOne DEF Careful, CallsInv
<1>7. CASE MakeContext(t)
  <2>1. /\ OneMoves(t) /\ thr[t].at = "entering" /\ thr'[t].at = "adding"
        /\ thr'[t].gen = generation
    BY <1>7, MakeContextMoves
  <2>2. /\ registry' = registry /\ context' = [context EXCEPT ![t] = None]
        /\ inits' = inits /\ generation' = generation /\ ~Fresh(t)
    BY <1>7 DEF MakeContext, library
  <2>3. context'[t] = None /\ \A u \in Threads : u # t => context'[u] = context[u]
    BY <1>1, <2>2
  <2>4. registry # None => t \notin registry
    BY <2>2 DEF CallsInv, Fresh, FreshAs
  <2>5. inits > 0
    BY <2>1 DEF CallsInv, EnteringSteps
  <2> QED
    BY <1>1, <1>2, <2>1, <2>2, <2>3, <2>4, <2>5, CallsOne
<1>8. CASE AddContext(t)
  <2>1. OneMoves(t) /\ thr[t].at = "adding" /\ thr'[t].at = "entering"
    BY <1>8, AddContextMoves
  <2>2. /\ registry # None /\ registry' = registry \cup {t}
        /\ context' = [context EXCEPT ![t] = [generation |-> thr[t].gen, stack |-> <<>>]]
        /\ inits' = inits /\ generation' = generation
    BY <1>8 DEF AddContext, library
  <2>3. /\ context'[t] = [generation |-> thr[t].gen, stack |-> <<>>]
        /\ \A u \in Threads : u # t => context'[u] = context[u]
    BY <1>1, <2>2
  <2>4. inits > 0 /\ thr[t].gen = generation
    BY <2>1 DEF CallsInv, EnteringSteps
  <2>5. [generation |-> generation, stack |-> <<>>] # None
    <3>1. [generation |-> generation, stack |-> <<>>] \in [generation : Nat, stack : Seq(Ctxs)]
      BY <1>1
    <3> QED
      BY <3>1, ConstantsAssumption
  <2>6. FreshAs(context'[t], generation) /\ Stack(context'[t]) = <<>>
    BY <2>3, <2>4, <2>5 DEF FreshAs, Stack
  <2>7. registry' # None
    BY <1>1, <2>2
  <2> QED
    BY <1>1, <2>1, <2>2, <2>3, <2>4, <2>6, <2>7, CallsOne
<1>9. CASE Push(t)
  <2>1. OneMoves(t) /\ thr[t].at = "entering" /\ thr'[t].at = "idle"
    BY <1>9, PushMoves
  <2>2. StackChange(t, Append(context[t].stack, thr[t].ctx))
    BY <1>9, PushIs
  <2>3. /\ registry' = registry /\ inits' = inits /\ generation' = generation
        /\ FreshAs(context[t], generation)
    BY <1>9 DEF Push, library, Fresh, FreshAs
  <2>4. inits > 0 /\ FreshAs(context'[t], generation)
    BY <2>1, <2>2, <2>3 DEF CallsInv, EnteringSteps, StackChange, FreshAs
  <2> QED
    BY <1>1, <2>1, <2>2, <2>3, <2>4, CallsOne DEF StackChange
<1>10. CASE CallEnds(t)
  <2>1. /\ thr[t].at = "idle" /\ context[t] # None
        /\ context[t].stack \in Seq(Ctxs) /\ Len(context[t].stack) > 0
        /\ StackChange(t, SubSeq(context[t].stack, 1, Len(context[t].stack) - 1))
    BY <1>10, CallEndsIs
  <2>2. /\ registry' = registry /\ inits' = inits /\ generation' = generation /\ thr' = thr
    BY <1>10 DEF CallEnds, library
  <2>3. Stack(context[t]) # <<>>
    BY <2>1, EmptySeq DEF Stack
  <2>4. inits > 0 /\ FreshAs(context[t], generation)
    BY <2>3 DEF CallsInv
  <2>5. FreshAs(context'[t], generation)
    BY <2>1, <2>4 DEF StackChange, FreshAs
  <2> QED
    BY <1>1, <2>1, <2>2, <2>4, <2>5, CallsOne DEF StackChange
<1>11. CASE ExitThread(t)
  <2>1. /\ context' = [context EXCEPT ![t] = None] /\ thr[t].at = "idle"
        /\ registry' = (IF registry = None THEN None ELSE registry \ {t})
        /\ inits' = inits /\ generation' = generation /\ thr' = thr
    BY <1>11 DEF ExitThread, library, At
  <2>2. context'[t] = None /\ \A u \in Threads : u # t => context'[u] = context[u]
    BY <1>1, <2>1
  <2>3. registry' = None <=> registry = None
    BY <1>1, <2>1
  <2> QED
    BY <1>1, <1>2, <2>1, <2>2, <2>3, CallsOne DEF EnteringSteps
<1>12. CASE RecoverInChild(t)
  <2>1. \A u \in Threads : thr'[u].at \notin EnteringSteps /\ thr'[u].at # "adding"
    BY <1>12, RecoverInChildMoves DEF EnteringSteps
  <2>2. /\ inits' = inits /\ generation' = generation
        /\ context' = [u \in Threads |-> IF u = t THEN context[t] ELSE None]
        /\ registry' = IF registry = None THEN None ELSE registry \ (registry \ {t})
    BY <1>12 DEF RecoverInChild
  <2>3. \A u \in Threads : context'[u] \in {context[u], None}
    BY <2>2
  <2>4. context'[t] = context[t]
    BY <2>2
  <2>5. registry' = None <=> registry = None
    BY <1>1, <2>2
  <2>6. registry' # None => \A u \in registry' : u = t /\ u \in registry
    BY <2>2
  <2> QED
    BY <1>2, <2>1, <2>2, <2>3, <2>4, <2>5, <2>6, CallsInvBecomes DEF CallsInv
<1> QED
  BY <1>3, <1>4, <1>5, <1>6, <1>7, <1>8, <1>9, <1>10, <1>11, <1>12, CallsQuiet

\* Only a call that begins brings a function context into use.
LEMMA UseShrinks ==
  ASSUME TypeInv, NEW t \in Threads, Step(t), ~CallBegins(t), NEW u \in Threads, NEW c,
         UsedBy(thr'[u], context'[u], c)
  PROVE  UsedBy(thr[u], context[u], c)
<1>1. /\ context \in [Threads -> ThreadContext \cup {None}]
      /\ EntriesOf(t) = Stack(context[t])
  BY EntriesAreStacks DEF TypeInv, LifecycleTypeOK
<1>2. Stack(None) = <<>> /\ DOMAIN <<>> = {}
  BY DEF Stack
<1>3. ASSUME context'[u] \in {context[u], None},
             thr'[u].at \in EnteringSteps =>
               thr[u].at \in EnteringSteps /\ thr'[u].ctx = thr[u].ctx
      PROVE  UsedBy(thr[u], context[u], c)
  BY <1>2, <1>3 DEF UsedBy
<1>4. CASE SameCalls
  BY <1>3, <1>4 DEF SameCalls
<1>5. CASE LibraryInit(t)
  BY <1>3, <1>5 DEF LibraryInit
<1>6. CASE LibraryDeinit(t) \/ ExitThread(t)
  <2>1. thr' = thr /\ (context' = context \/ context' = [context EXCEPT ![t] = None])
    BY <1>6 DEF LibraryDeinit, ExitThread
  <2> QED
    BY <1>1, <1>3, <2>1
<1>7. CASE MakeContext(t)
  <2>1. OneMoves(t) /\ thr[t].at = "entering" /\ thr'[t].ctx = thr[t].ctx
    BY <1>7, MakeContextMoves
  <2>2. context' = [context EXCEPT ![t] = None]
    BY <1>7 DEF MakeContext
  <2> QED
    BY <1>1, <1>3, <2>1, <2>2 DEF OneMoves, EnteringSteps
<1>8. CASE AddContext(t)
  <2>1. OneMoves(t) /\ thr[t].at = "adding" /\ thr'[t].ctx = thr[t].ctx
    BY <1>8, AddContextMoves
  <2>2. context' = [context EXCEPT ![t] = [generation |-> thr[t].gen, stack |-> <<>>]]
    BY <1>8 DEF AddContext
  <2>3. CASE u = t
    <3>1. Stack(context'[t]) = <<>>
      BY <1>1, <2>2 DEF Stack
    <3> QED
      BY <1>2, <2>1, <2>3, <3>1 DEF UsedBy, EnteringSteps
  <2>4. CASE u # t
    BY <1>1, <1>3, <2>1, <2>2, <2>4 DEF OneMoves
  <2> QED
    BY <2>3, <2>4
<1>9. CASE Push(t)
  <2>1. OneMoves(t) /\ thr[t].at = "entering" /\ thr'[t].at = "idle"
    BY <1>9, PushMoves
  <2>2. /\ context[t] # None /\ context[t].stack \in Seq(Ctxs) /\ thr[t].ctx \in Ctxs
        /\ StackChange(t, Append(context[t].stack, thr[t].ctx))
    BY <1>9, PushIs
  <2>3. CASE u = t
    <3>1. /\ Stack(context[t]) = context[t].stack
          /\ Stack(context'[t]) = Append(context[t].stack, thr[t].ctx)
      BY <2>2 DEF Stack, StackChange
    <3>2. thr'[t].at \notin EnteringSteps /\ thr[t].at \in EnteringSteps
      BY <2>1 DEF EnteringSteps
    <3>3. PICK i \in DOMAIN Stack(context'[t]) : Stack(context'[t])[i] = c
      BY <2>3, <3>2 DEF UsedBy
    <3> DEFINE s == context[t].stack
    <3>4. i \in 1 .. Len(s) + 1 /\ Append(s, thr[t].ctx)[i] = c
      BY <2>2, <3>1, <3>3
    <3>5. CASE i = Len(s) + 1
      <4>1. thr[t].ctx = c
        BY <2>2, <3>4, <3>5
      <4> QED
        BY <2>3, <3>2, <4>1 DEF UsedBy
    <3>6. CASE i \in 1 .. Len(s)
      <4>1. i \in DOMAIN Stack(context[t]) /\ Stack(context[t])[i] = c
        BY <2>2, <3>1, <3>4, <3>6
      <4> QED
        BY <2>3, <4>1 DEF UsedBy
    <3>7. Len(s) \in Nat
      BY <2>2
    <3> QED
      BY <3>4, <3>5, <3>6, <3>7
  <2>4. CASE u # t
    BY <1>3, <2>1, <2>2, <2>4 DEF OneMoves, StackChange
  <2> QED
    BY <2>3, <2>4
<1>10. CASE CallEnds(t)
  <2>1. thr' = thr
    BY <1>10 DEF CallEnds
  <2>2. /\ thr[t].at = "idle" /\ context[t] # None
        /\ context[t].stack \in Seq(Ctxs) /\ Len(context[t].stack) > 0
        /\ StackChange(t, SubSeq(context[t].stack, 1, Len(context[t].stack) - 1))
    BY <1>10, CallEndsIs
  <2>3. CASE u = t
    <3> DEFINE s == context[t].stack
    <3>1. Stack(context[t]) = s /\ Stack(context'[t]) = SubSeq(s, 1, Len(s) - 1)
      BY <2>2 DEF Stack, StackChange
    <3>2. thr'[t].at \notin EnteringSteps
      BY <2>1, <2>2 DEF EnteringSteps
    <3>3. PICK i \in DOMAIN Stack(context'[t]) : Stack(context'[t])[i] = c
      BY <2>3, <3>2 DEF UsedBy
    <3>4. i \in DOMAIN s /\ s[i] = c
      BY <2>2, <3>1, <3>3
    <3> QED
      BY <2>3, <3>1, <3>4 DEF UsedBy
  <2>4. CASE u # t
    BY <1>3, <2>1, <2>2, <2>4 DEF StackChange
  <2> QED
    BY <2>3, <2>4
<1>11. CASE RecoverInChild(t)
  <2>1. thr'[u].at \notin EnteringSteps
    BY <1>11, RecoverInChildMoves DEF EnteringSteps
  <2>2. context'[u] \in {context[u], None}
    BY <1>11 DEF RecoverInChild
  <2> QED
    BY <1>3, <2>1, <2>2
<1> QED
  BY <1>4, <1>5, <1>6, <1>7, <1>8, <1>9, <1>10, <1>11, CallsQuiet

\* While functions are called, an interceptor somebody owns stays owned.
LEMMA OwnersStay ==
  ASSUME TypeInv, Careful, NEW t \in Threads, Step(t), Calling # {},
         NEW o \in Objects, NEW w \in Threads, thr[w].owned[o] > 0
  PROVE  \E u \in Threads : thr'[u].owned[o] > 0
<1>1. \A u \in Threads : thr[u].owned \in [Objects -> Nat]
  BY Positions
<1>2. CASE Unref(t)
  <2>1. PICK p \in Objects :
          /\ OneMoves(t)
          /\ Owners(p) = {t} /\ thr[t].owned[p] = 1
               => "early unref" \in liberties \/ Calling = {}
          /\ thr'[t].owned = [thr[t].owned EXCEPT ![p] = thr[t].owned[p] - 1]
    BY <1>2, UnrefMoves
  <2>2. CASE w # t
    BY <2>1, <2>2 DEF OneMoves
  <2>3. CASE w = t /\ p # o
    BY <1>1, <2>1, <2>3
  <2>4. CASE w = t /\ p = o
    <3>1. thr'[t].owned[o] = thr[t].owned[o] - 1 /\ thr[t].owned[o] \in Nat
      BY <1>1, <2>1, <2>4
    <3>2. CASE thr[t].owned[o] # 1
      BY <2>4, <3>1, <3>2
    <3>3. CASE thr[t].owned[o] = 1
      <4>1. Owners(o) # {t} /\ t \in Owners(o)
        BY <2>1, <2>4, <3>3 DEF Careful, Owners
      <4>2. PICK u \in Threads : u # t /\ thr[u].owned[o] > 0
        BY <4>1 DEF Owners
      <4> QED
        BY <2>1, <4>2 DEF OneMoves
    <3> QED
      BY <3>2, <3>3
  <2> QED
    BY <2>2, <2>3, <2>4
<1>3. CASE Obtain(t)
  <2>1. /\ OneMoves(t)
        /\ IF the # None
           THEN thr'[t].owned = [thr[t].owned EXCEPT ![the] = thr[t].owned[the] + 1]
           ELSE thr'[t].owned = [thr[t].owned EXCEPT ![the'] = 1]
    BY <1>3, ObtainMoves
  <2>2. the # None => the \in Objects /\ thr[t].owned[the] \in Nat
    BY <1>1 DEF TypeInv, LifecycleTypeOK
  <2>3. CASE w # t
    BY <2>1, <2>3 DEF OneMoves
  <2>4. CASE w = t
    <3>1. thr'[t].owned[o] >= thr[t].owned[o] \/ thr'[t].owned[o] = 1
      <4>1. CASE the # None
        BY <1>1, <2>1, <2>2, <4>1
      <4>2. CASE the = None
        BY <1>1, <2>1, <4>2
      <4> QED
        BY <4>1, <4>2
    <3>2. thr'[t].owned[o] \in Nat /\ thr[t].owned[o] \in Nat
      BY <1>1, <2>1 DEF OneMoves, Activity
    <3> QED
      BY <2>4, <3>1, <3>2
  <2> QED
    BY <2>3, <2>4
<1>4. CASE Pin(t) \/ TryAgain(t) \/ RecoverInParent(t)
  <2>1. OneMoves(t) /\ thr'[t].owned = thr[t].owned
    <3>1. CASE Pin(t)
      BY <3>1, PinMoves
    <3>2. CASE TryAgain(t)
      BY <3>2, TryAgainMoves
    <3>3. CASE RecoverInParent(t)
      BY <3>3, RecoverInParentMoves
    <3> QED
      BY <1>4, <3>1, <3>2, <3>3
  <2>2. thr'[w].owned = thr[w].owned
    BY <2>1 DEF OneMoves
  <2> QED
    BY <1>1, <2>2
<1>5. CASE RecoverInChild(t)
  BY <1>5, RecoverInChildMoves
<1>6. CASE ~(Obtain(t) \/ Unref(t) \/ Pin(t) \/ TryAgain(t) \/ RecoverInParent(t)
             \/ RecoverInChild(t))
  <2>1. SameRefs(thr[w], thr'[w])
    BY <1>6, SameRefsMoves
  <2> QED
    BY <2>1 DEF SameRefs
<1> QED
  BY <1>2, <1>3, <1>4, <1>5, <1>6

LEMMA UsedIsCalling ==
  ASSUME TypeInv, NEW c, IsUsed(c)
  PROVE  Calling # {}
<1>1. PICK u \in Threads : UsedBy(thr[u], context[u], c)
  BY DEF IsUsed
<1>2. EntriesOf(u) = Stack(context[u]) /\ DOMAIN <<>> = {}
  BY EntriesAreStacks
<1> QED
  BY <1>1, <1>2 DEF UsedBy, Calling, At, EnteringSteps

\* A function context in use stays where it is, or is unhooked.
LEMMA UsedStays ==
  ASSUME TypeInv, UsedInv, NEW t \in Threads, Step(t), NEW c \in Ctxs, IsUsed(c)
  PROVE  fc'[c].of = fc[c].of /\ fc'[c].at \in {"hooked", "unhooked"}
<1>1. LifecycleTypeOK /\ fc[c].at \in {"hooked", "unhooked"} /\ fc \in [Ctxs -> FunctionContext]
  BY DEF UsedInv, TypeInv, LifecycleTypeOK
<1>2. CASE Dispose(t)
  <2>1. fc' = InState(ContextsAt(thr[t].obj, "hooked"), "unhooked")
    BY <1>2 DEF Dispose
  <2>2. /\ InState(ContextsAt(thr[t].obj, "hooked"), "unhooked")[c].of = fc[c].of
        /\ InState(ContextsAt(thr[t].obj, "hooked"), "unhooked")[c].at \in {"unhooked", fc[c].at}
    BY <1>1, InStateAre
  <2> QED
    BY <1>1, <2>1, <2>2
<1>3. CASE Destroy(t)
  <2>1. fc' = InState(obj[thr[t].obj].pending, "freed") /\ thr[t].at = "destroy"
    BY <1>3 DEF Destroy, RemainingTasks, At
  <2>2. obj[thr[t].obj].pending = {}
    BY <2>1 DEF UsedInv, Emptied, IsDying, FinalSteps
  <2>3. InState({}, "freed")[c].of = fc[c].of /\ InState({}, "freed")[c].at = fc[c].at
    BY <1>1, InStateAre
  <2> QED
    BY <1>1, <2>1, <2>2, <2>3
<1>4. CASE Hook(t)
  <2>1. PICK o \in Objects, d \in Ctxs :
          /\ fc[d].at = "new"
          /\ fc' = [fc EXCEPT ![d] = [of |-> o, at |-> "hooked", counter |-> 0]]
    BY <1>4 DEF Hook
  <2> QED
    BY <1>1, <2>1
<1>5. CASE Unhook(t)
  <2>1. PICK S \in SUBSET Ctxs : fc' = InState(S, "unhooked")
    BY <1>5, UnhookMoves
  <2>2. /\ InState(S, "unhooked")[c].of = fc[c].of
        /\ InState(S, "unhooked")[c].at \in {"unhooked", fc[c].at}
    BY <1>1, InStateAre
  <2> QED
    BY <1>1, <2>1, <2>2
<1>6. CASE ReleaseEnds(t)
  <2>1. fc' = InState({thr[t].ctx}, "freed") /\ thr[t].at = "notify"
    BY <1>6 DEF ReleaseEnds, At
  <2>2. c # thr[t].ctx
    BY <2>1 DEF UsedInv
  <2>3. /\ InState({thr[t].ctx}, "freed")[c].of = fc[c].of
        /\ InState({thr[t].ctx}, "freed")[c].at = fc[c].at
    BY <1>1, <2>2, InStateAre
  <2> QED
    BY <1>1, <2>1, <2>3
<1>7. CASE ~(Dispose(t) \/ Destroy(t) \/ Hook(t) \/ Unhook(t) \/ ReleaseEnds(t))
  BY <1>1, <1>7, SameContextsStep DEF SameContexts
<1> QED
  BY <1>2, <1>3, <1>4, <1>5, <1>6, <1>7
LEMMA UsesAre ==
  ASSUME NEW c
  PROVE  /\ Uses(c) \subseteq Threads \X Nat
         /\ \A u \in Threads, k \in Nat :
              <<u, k>> \in Uses(c) <=> UseAt(thr[u], context[u], k, c)
BY DEF Uses

LEMMA UsesBecome ==
  ASSUME NEW c
  PROVE  /\ Uses(c)' \subseteq Threads \X Nat
         /\ \A u \in Threads, k \in Nat :
              <<u, k>> \in Uses(c)' <=> UseAt(thr'[u], context'[u], k, c)
BY DEF Uses, UseAt, Stack

LEMMA UnusedHasNone ==
  ASSUME TypeInv, NEW c \in Ctxs
  PROVE  Uses(c) = {} <=> ~IsUsed(c)
<1>1. ASSUME NEW r \in Uses(c)
      PROVE  IsUsed(c)
  <2>1. PICK u \in Threads, k \in Nat : UseAt(thr[u], context[u], k, c)
    BY UsesAre
  <2> QED
    BY <2>1 DEF UseAt, UsedBy, IsUsed
<1>2. ASSUME NEW u \in Threads, UsedBy(thr[u], context[u], c)
      PROVE  Uses(c) # {}
  <2>1. CASE thr[u].at \in EnteringSteps /\ thr[u].ctx = c
    <3>1. UseAt(thr[u], context[u], 0, c)
      BY <2>1 DEF UseAt
    <3> QED
      BY <3>1, UsesAre
  <2>2. CASE \E i \in DOMAIN Stack(context[u]) : Stack(context[u])[i] = c
    <3>1. PICK i \in DOMAIN Stack(context[u]) : Stack(context[u])[i] = c
      BY <2>2
    <3>2. i \in Nat /\ i # 0
      BY StacksAre
    <3>3. UseAt(thr[u], context[u], i, c)
      BY <3>1, <3>2 DEF UseAt
    <3> QED
      BY <3>2, <3>3, UsesAre
  <2> QED
    BY <1>2, <2>1, <2>2 DEF UsedBy
<1> QED
  BY <1>1, <1>2 DEF IsUsed

LEMMA CountedUse ==
  ASSUME TypeInv, ExactInv, NEW c \in Ctxs, IsCounted(c)
  PROVE  fc[c].counter = 0 <=> ~IsUsed(c)
BY UnusedHasNone, FS_EmptySet DEF ExactInv

\* Tasks become pending by Postpone only.
LEMMA PendingStays ==
  ASSUME TypeInv, NEW t \in Threads, Step(t), ~Postpone(t), NEW o \in Objects
  PROVE  obj'[o].pending \subseteq obj[o].pending
<1>1. ASSUME NEW p \in Objects, NEW at, NEW refs, NEW S,
             ObjectChanges(p, at, refs, S), S \subseteq obj[p].pending
      PROVE  obj'[o].pending \subseteq obj[o].pending
  BY <1>1 DEF ObjectChanges
<1>2. CASE Obtain(t)
  <2>1. the # None => the \in Objects
    BY DEF TypeInv, LifecycleTypeOK
  <2> QED
    BY <1>1, <1>2, <2>1, ObtainChanges
<1>3. CASE Unref(t)
  <2>1. PICK p \in Objects : obj' = [obj EXCEPT ![p].refs = @ - 1]
    BY <1>3, UnrefMoves
  <2> QED
    BY <1>1, <2>1, UnrefChanges
<1>4. CASE Dispose(t) \/ Destroy(t)
  BY <1>1, <1>4, DisposeChanges, DestroyChanges
<1>5. CASE Unhook(t)
  BY <1>1, <1>5, UnhookChanges
<1>6. CASE Pin(t)
  BY <1>1, <1>6, PinChanges
<1>7. CASE TryAgain(t)
  <2>1. CASE thr[t].obj = None
    BY <1>7, <2>1, TryAgainMoves
  <2>2. CASE thr[t].obj # None
    <3>1. PICK p \in Objects : p = thr[t].obj
      BY <2>2, Positions
    <3>2. obj' = [obj EXCEPT ![p].refs = @ - 1]
      BY <1>7, <2>2, <3>1, TryAgainMoves
    <3> QED
      BY <1>1, <3>2, UnrefChanges
  <2> QED
    BY <2>1, <2>2
<1>8. CASE RecoverInParent(t) \/ RecoverInChild(t)
  <2>1. PICK p \in Objects \cup {None} : p = prepared
    BY DEF TypeInv, LifecycleTypeOK
  <2>2. \E threads : DropPin(t, p, threads)
    BY <1>8, <2>1 DEF RecoverInParent, RecoverInChild
  <2>3. IF p = None THEN obj' = obj
        ELSE ObjectChanges(p, obj[p].at, obj[p].refs - 1, obj[p].pending)
    BY <2>2, UnpinChanges
  <2> QED
    BY <1>1, <2>3
<1>9. CASE ~(Obtain(t) \/ Unref(t) \/ Dispose(t) \/ Destroy(t) \/ Unhook(t) \/ Postpone(t)
             \/ Pin(t) \/ TryAgain(t) \/ RecoverInParent(t) \/ RecoverInChild(t))
  BY <1>9, ObjectsSame
<1> QED
  BY <1>2, <1>3, <1>4, <1>5, <1>6, <1>7, <1>8, <1>9

\* Only ReleaseStarts brings a thread to a notify.
LEMMA NotifyStays ==
  ASSUME TypeInv, NEW t \in Threads, Step(t), ~ReleaseStarts(t),
         NEW u \in Threads, thr'[u].at = "notify"
  PROVE  thr'[u] = thr[u]
<1>1. ASSUME OneMoves(t), thr'[t].at # "notify"
      PROVE  thr'[u] = thr[u]
  BY <1>1 DEF OneMoves
<1>2. CASE Obtain(t) \/ HoldLock(t) \/ YieldLock(t) \/ Postpone(t)
  BY <1>1, <1>2, ObtainMoves, HoldLockMoves, YieldLockMoves, PostponeMoves
<1>3. CASE Unref(t) \/ Dispose(t) \/ ClearSingleton(t) \/ Unhook(t)
  BY <1>1, <1>3, UnrefMoves, DisposeMoves, ClearSingletonMoves, UnhookMoves
<1>4. CASE Destroy(t)
  BY <1>1, <1>4, Positions, DestroyMoves
<1>5. CASE ReleaseEnds(t) \/ TransactionEnds(t) \/ CallBegins(t) \/ MakeContext(t)
  BY <1>1, <1>5, ReleaseEndsMoves, TransactionEndsMoves, CallBeginsMoves, MakeContextMoves
<1>6. CASE AddContext(t) \/ Push(t) \/ PrepareToFork(t) \/ Pin(t)
  BY <1>1, <1>6, AddContextMoves, PushMoves, PrepareToForkMoves, PinMoves
<1>7. CASE LockPinned(t) \/ Freeze(t) \/ Recovered(t) \/ RecoverInParent(t)
  BY <1>1, <1>7, LockPinnedMoves, FreezeMoves, RecoveredMoves, RecoverInParentMoves
<1>8. CASE TryAgain(t)
  <2>1. OneMoves(t) /\ thr[t].at = "locked"
    BY <1>8, TryAgainMoves
  <2>2. CASE thr[t].obj = None
    BY <1>1, <1>8, <2>1, <2>2, TryAgainMoves
  <2>3. CASE thr[t].obj # None
    <3>1. thr[t].obj \in Objects /\ Unreferenced(t, thr[t].obj, "pin")
      BY <1>8, <2>3 DEF TryAgain, TypeInv, LifecycleTypeOK, Activity
    <3>2. thr'[t].at \in {"dispose", "pin"}
      BY <2>1, <3>1, UnreferencedMoves
    <3> QED
      BY <1>1, <2>1, <3>2
  <2> QED
    BY <2>2, <2>3
<1>9. CASE RecoverInChild(t)
  BY <1>9, RecoverInChildMoves
<1>10. CASE LibraryInit(t) \/ LibraryDeinit(t) \/ Hook(t) \/ CallEnds(t) \/ ExitThread(t)
  BY <1>10 DEF LibraryInit, LibraryDeinit, Hook, CallEnds, ExitThread
<1> QED
  BY <1>2, <1>3, <1>4, <1>5, <1>6, <1>7, <1>8, <1>9, <1>10 DEF Step

LEMMA UsedInvBecomes ==
  ASSUME \A c \in Ctxs : \A u \in Threads : UsedBy(thr'[u], context'[u], c) =>
           /\ fc'[c].at \in {"hooked", "unhooked"}
           /\ \E w \in Threads : thr'[w].owned[fc'[c].of] > 0,
         \A u, w \in Threads :
           thr'[u].at = "notify" => ~UsedBy(thr'[w], context'[w], thr'[u].ctx),
         \A u \in Threads : Emptied(thr'[u]) => obj'[thr'[u].obj].pending = {},
         \A o \in Objects : obj'[o].pending # {} => the' = o
  PROVE  UsedInv'
<1>1. ASSUME NEW c \in Ctxs, \E u \in Threads : UsedBy(thr'[u], context'[u], c)
      PROVE  fc'[c].at \in {"hooked", "unhooked"} /\ Owners(fc[c].of)' # {}
  BY <1>1 DEF Owners
<1>2. \A c \in Ctxs : IsUsed(c)' <=> \E u \in Threads : UsedBy(thr'[u], context'[u], c)
  BY DEF IsUsed, UsedBy
<1>3. \A u \in Threads :
        IsUsed(thr[u].ctx)' <=> \E w \in Threads : UsedBy(thr'[w], context'[w], thr'[u].ctx)
  BY DEF IsUsed, UsedBy
<1> QED
  BY <1>1, <1>2, <1>3 DEF UsedInv, Emptied, IsDying
\* The function context whose call begins.
LEMMA CallBeginsUses ==
  ASSUME TypeInv, Careful, NEW t \in Threads, CallBegins(t)
  PROVE  \E d \in Ctxs :
           /\ OneMoves(t) /\ thr[t].at = "idle" /\ thr'[t].at = "entering" /\ thr'[t].ctx = d
           /\ fc[d].at = "hooked" /\ Owners(fc[d].of) # {}
           /\ CounterChange(d, fc[d].counter + 1)
           /\ context' = context /\ \A w \in Threads : thr'[w].owned = thr[w].owned
           /\ \A u \in Threads : \A c :
                UsedBy(thr'[u], context'[u], c) => UsedBy(thr[u], context[u], c) \/ c = d
<1>1. PICK d \in Ctxs :
        /\ OneMoves(t)
        /\ thr[t].at = "idle"
        /\ fc[d].at = "hooked"
        /\ "early unref" \in liberties \/ (inits > 0 /\ Owners(fc[d].of) # {})
        /\ fc' = [fc EXCEPT ![d].counter = @ + 1]
        /\ thr'[t].at = "entering"
        /\ thr'[t].ctx = d
        /\ thr'[t].obj = thr[t].obj /\ thr'[t].tasks = thr[t].tasks
        /\ thr'[t].dying = thr[t].dying
        /\ thr'[t].next = thr[t].next /\ thr'[t].gen = thr[t].gen
        /\ thr'[t].keeps = thr[t].keeps
        /\ thr'[t].owned = thr[t].owned
  BY CallBeginsMoves, Zenon
<1>2. context' = context
  BY DEF CallBegins, calls
<1>3. \A w \in Threads : thr'[w].owned = thr[w].owned
  BY <1>1 DEF OneMoves
<1>4. ASSUME NEW u \in Threads, NEW c, UsedBy(thr'[u], context'[u], c), c # d
      PROVE  UsedBy(thr[u], context[u], c)
  BY <1>1, <1>2, <1>4 DEF OneMoves, UsedBy
<1>5. LifecycleTypeOK /\ fc[d].counter + 1 \in Int
  BY DEF TypeInv, LifecycleTypeOK, FunctionContext
<1>6. CounterChange(d, fc[d].counter + 1)
  <2>1. fc' = [fc EXCEPT ![d].counter = fc[d].counter + 1]
    BY <1>1
  <2> QED
    BY <1>5, <2>1, CounterChanges
<1> QED
  BY <1>1, <1>2, <1>3, <1>4, <1>6 DEF Careful

LEMMA UsedOwned ==
  ASSUME CarefulInv, NEW t \in Threads, Step(t), NEW c \in Ctxs, NEW u \in Threads,
         UsedBy(thr'[u], context'[u], c)
  PROVE  /\ fc'[c].at \in {"hooked", "unhooked"}
         /\ \E w \in Threads : thr'[w].owned[fc'[c].of] > 0
<1>1. TypeInv /\ Careful /\ UsedInv /\ HooksInv
  BY DEF CarefulInv, ReleaseInv, SingletonInv, CountInv
<1>2. CASE UsedBy(thr[u], context[u], c)
  <2>1. IsUsed(c)
    BY <1>2 DEF IsUsed
  <2>2. fc'[c].of = fc[c].of /\ fc'[c].at \in {"hooked", "unhooked"}
    BY <1>1, <2>1, UsedStays
  <2>3. fc[c].at # "new" /\ Owners(fc[c].of) # {}
    BY <1>1, <2>1 DEF UsedInv
  <2>4. PICK o \in Objects : o = fc[c].of
    BY <1>1, <2>3 DEF HooksInv
  <2>5. PICK w \in Threads : thr[w].owned[o] > 0
    BY <2>3, <2>4 DEF Owners
  <2>6. \E v \in Threads : thr'[v].owned[o] > 0
    BY <1>1, <2>1, <2>5, UsedIsCalling, OwnersStay
  <2> QED
    BY <2>2, <2>4, <2>6
<1>3. CASE ~UsedBy(thr[u], context[u], c)
  <2>1. CallBegins(t)
    BY <1>1, <1>3, UseShrinks
  <2>2. /\ fc[c].at = "hooked" /\ Owners(fc[c].of) # {}
        /\ CounterChange(c, fc[c].counter + 1)
        /\ \A w \in Threads : thr'[w].owned = thr[w].owned
    BY <1>1, <1>3, <2>1, CallBeginsUses
  <2>3. fc'[c].at = "hooked" /\ fc'[c].of = fc[c].of
    BY <2>2 DEF CounterChange
  <2> QED
    BY <2>2, <2>3 DEF Owners
<1> QED
  BY <1>2, <1>3

LEMMA NotifiedUnused ==
  ASSUME CarefulInv, NEW t \in Threads, Step(t), NEW u \in Threads, thr'[u].at = "notify",
         NEW w \in Threads
  PROVE  ~UsedBy(thr'[w], context'[w], thr'[u].ctx)
<1>1. TypeInv /\ Careful /\ UsedInv /\ TasksInv /\ ExactInv
  BY DEF CarefulInv, ReleaseInv, SingletonInv, CountInv
<1>2. ASSUME ~IsUsed(thr'[u].ctx), ~CallBegins(t)
      PROVE  ~UsedBy(thr'[w], context'[w], thr'[u].ctx)
  BY <1>1, <1>2, UseShrinks DEF IsUsed
<1>3. CASE thr'[u] = thr[u]
  <2>1. thr[u].at = "notify" /\ ~IsUsed(thr[u].ctx)
    BY <1>1, <1>3 DEF UsedInv
  <2>2. CASE CallBegins(t)
    <3>1. PICK d \in Ctxs :
            /\ fc[d].at = "hooked"
            /\ \A v \in Threads : \A c :
                 UsedBy(thr'[v], context'[v], c) => UsedBy(thr[v], context[v], c) \/ c = d
      BY <1>1, <2>2, CallBeginsUses
    <3>2. thr[u].ctx \in Held(thr[u])
      BY <2>1 DEF Held
    <3>3. fc[thr[u].ctx].at = "unhooked"
      BY <1>1, <3>2 DEF TasksInv
    <3> QED
      BY <1>3, <2>1, <3>1, <3>3 DEF IsUsed
  <2> QED
    BY <1>2, <1>3, <2>1, <2>2
<1>4. CASE thr'[u] # thr[u]
  <2>1. ReleaseStarts(t)
    BY <1>1, <1>4, NotifyStays
  <2>2. PICK c \in thr[t].tasks :
          OneMoves(t) /\ thr[t].at = "release" /\ fc[c].counter = 0 /\ thr'[t].ctx = c
    BY <1>1, <2>1, ReleaseStartsMoves
  <2>3. u = t /\ thr[t].at # "idle"
    BY <1>4, <2>2 DEF OneMoves
  <2>4. c \in Held(thr[t]) /\ c \in Ctxs
    BY <1>1, <2>2, Positions DEF Held
  <2>5. ~IsUsed(c)
    BY <1>1, <2>2, <2>4, CountedUse DEF IsCounted
  <2>6. ~CallBegins(t)
    BY <2>3 DEF CallBegins, At
  <2> QED
    BY <1>2, <2>2, <2>3, <2>5, <2>6
<1> QED
  BY <1>3, <1>4

\* Nothing is put off while its interceptor is finalized: it would be in use, so
\* that somebody owned a reference.
LEMMA PostponedAtWork ==
  ASSUME CarefulInv, NEW t \in Threads, Postpone(t)
  PROVE  /\ thr[t].obj \in Objects /\ the = thr[t].obj /\ obj[thr[t].obj].refs # 0
         /\ \A o \in Objects : o # thr[t].obj => obj'[o] = obj[o]
<1>1. /\ TypeInv /\ RefsInv /\ ObjectInv /\ HooksInv /\ TasksInv /\ UsedInv /\ ExactInv
      /\ SingletonInv
  BY DEF CarefulInv, ReleaseInv, SingletonInv, CountInv
<1>2. PICK c \in thr[t].tasks :
        /\ c \in Ctxs /\ fc[c].counter # 0 /\ thr[t].obj \in Objects
        /\ ObjectChanges(thr[t].obj, obj[thr[t].obj].at, obj[thr[t].obj].refs,
                         obj[thr[t].obj].pending \cup {c})
  BY <1>1, PostponeIs DEF PostponeChanges
<1>3. c \in Held(thr[t]) /\ thr[t].at = "release"
  BY DEF Postpone, At, Held
<1>4. IsUsed(c) /\ fc[c].of = thr[t].obj
  BY <1>1, <1>2, <1>3, CountedUse DEF IsCounted, TasksInv
<1>5. PICK o \in Objects : o = thr[t].obj
  BY <1>2
<1>6. PICK w \in Threads : thr[w].owned[o] > 0
  BY <1>1, <1>2, <1>4, <1>5 DEF UsedInv, Owners
<1>7. the = o /\ obj[o].refs # 0
  BY <1>1, <1>6, SingletonOwned
<1> QED
  BY <1>2, <1>5, <1>7 DEF ObjectChanges

LEMMA EmptiedStays ==
  ASSUME CarefulInv, NEW t \in Threads, Step(t), NEW u \in Threads, Emptied(thr'[u])
  PROVE  obj'[thr'[u].obj].pending = {}
<1>1. TypeInv /\ ObjectInv /\ UsedInv /\ SingletonInv
  BY DEF CarefulInv, ReleaseInv, SingletonInv, CountInv
<1>2. ASSUME Emptied(thr[u]), thr'[u].obj = thr[u].obj
      PROVE  obj'[thr'[u].obj].pending = {}
  <2>1. PICK o \in Objects : o = thr[u].obj
    BY <1>1, <1>2, DyingObjects DEF Emptied
  <2>2. obj[o].pending = {} /\ obj[o].refs = 0
    BY <1>1, <1>2, <2>1 DEF UsedInv, ObjectInv, Emptied
  <2>3. CASE Postpone(t)
    BY <1>2, <2>1, <2>2, <2>3, PostponedAtWork
  <2>4. CASE ~Postpone(t)
    BY <1>1, <1>2, <2>1, <2>2, <2>4, PendingStays
  <2> QED
    BY <2>3, <2>4
<1>3. CASE Dispose(t)
  <2>1. OneMoves(t) /\ thr'[t].obj = thr[t].obj
    BY <1>1, <1>3, DisposeMoves
  <2>2. CASE u = t
    <3>1. PICK o \in Objects : o = thr[t].obj /\ ObjectChanges(o, obj[o].at, obj[o].refs, {})
      BY <1>1, <1>3, DisposeChanges
    <3> QED
      BY <2>1, <2>2, <3>1 DEF ObjectChanges
  <2>3. CASE u # t
    BY <1>2, <2>1, <2>3 DEF OneMoves
  <2> QED
    BY <2>2, <2>3
<1>4. CASE ~Dispose(t)
  BY <1>1, <1>2, <1>4, EmptiedMoves DEF EmptiedKept
<1> QED
  BY <1>3, <1>4

LEMMA PendingOfSingleton ==
  ASSUME CarefulInv, NEW t \in Threads, Step(t), NEW o \in Objects, obj'[o].pending # {}
  PROVE  the' = o
<1>1. TypeInv /\ ObjectInv /\ UsedInv
  BY DEF CarefulInv, ReleaseInv, SingletonInv, CountInv
<1>2. the = o
  <2>1. CASE Postpone(t)
    <3>1. CASE o = thr[t].obj
      BY <2>1, <3>1, PostponedAtWork
    <3>2. CASE o # thr[t].obj
      BY <1>1, <2>1, <3>2, PostponedAtWork DEF UsedInv
    <3> QED
      BY <3>1, <3>2
  <2>2. CASE ~Postpone(t)
    <3>1. obj[o].pending # {}
      BY <1>1, <2>2, PendingStays
    <3> QED
      BY <1>1, <3>1 DEF UsedInv
  <2> QED
    BY <2>1, <2>2
<1>3. CASE the' = the
  BY <1>2, <1>3
<1>4. CASE ClearSingleton(t) /\ the = thr[t].obj
  <2>1. thr[t].at = "clear" /\ obj' = obj
    BY <1>4 DEF ClearSingleton, At
  <2>2. obj[thr[t].obj].pending = {}
    BY <1>1, <2>1 DEF UsedInv, Emptied, IsDying, FinalSteps
  <2> QED
    BY <1>2, <1>4, <2>1, <2>2
<1>5. CASE the = None
  BY <1>2, <1>5, NoneIsNoObject
<1> QED
  BY <1>1, <1>3, <1>4, <1>5, SingletonStep

LEMMA UsedStep ==
  ASSUME CarefulInv, NEW t \in Threads, Step(t)
  PROVE  UsedInv'
<1>1. \A c \in Ctxs : \A u \in Threads : UsedBy(thr'[u], context'[u], c) =>
        /\ fc'[c].at \in {"hooked", "unhooked"}
        /\ \E w \in Threads : thr'[w].owned[fc'[c].of] > 0
  BY UsedOwned
<1>2. \A u, w \in Threads :
        thr'[u].at = "notify" => ~UsedBy(thr'[w], context'[w], thr'[u].ctx)
  BY NotifiedUnused
<1>3. \A u \in Threads : Emptied(thr'[u]) => obj'[thr'[u].obj].pending = {}
  BY EmptiedStays
<1>4. \A o \in Objects : obj'[o].pending # {} => the' = o
  BY PendingOfSingleton
<1> QED
  BY <1>1, <1>2, <1>3, <1>4, UsedInvBecomes
\* But for Hook, no function context comes to be counted.
LEMMA CountedBefore ==
  ASSUME SingletonInv, NEW t \in Threads, Step(t), ~Hook(t), NEW c \in Ctxs,
         \/ fc'[c].at = "hooked"
         \/ \E o \in Objects : c \in obj'[o].pending
         \/ \E u \in Threads : c \in Held(thr'[u])
  PROVE  IsCounted(c)
<1>1. TypeInv /\ LifecycleTypeOK
  BY DEF SingletonInv, CountInv, TypeInv
<1>2. CASE fc'[c].at = "hooked"
  <2>1. ASSUME NEW S, NEW where \in {"unhooked", "freed"}, fc' = InState(S, where)
        PROVE  fc[c].at = "hooked"
    <3>1. InState(S, where)[c].at = IF c \in S THEN where ELSE fc[c].at
      BY <1>1, <2>1, InStateAre
    <3> QED
      BY <1>2, <2>1, <3>1
  <2>2. CASE Dispose(t) \/ Destroy(t) \/ ReleaseEnds(t)
    BY <2>1, <2>2 DEF Dispose, Destroy, ReleaseEnds, IsCounted
  <2>3. CASE Unhook(t)
    BY <1>1, <2>1, <2>3, UnhookMoves DEF IsCounted
  <2>4. CASE ~(Dispose(t) \/ Destroy(t) \/ Hook(t) \/ Unhook(t) \/ ReleaseEnds(t))
    BY <1>1, <1>2, <2>4, SameContextsStep DEF SameContexts, IsCounted
  <2> QED
    BY <2>2, <2>3, <2>4
<1>3. ASSUME NEW o \in Objects, c \in obj'[o].pending
      PROVE  IsCounted(c)
  <2>1. CASE Postpone(t)
    <3>1. thr[t].at = "release"
      BY <2>1 DEF Postpone, At
    <3>2. PICK d \in thr[t].tasks : ObjectChanges(thr[t].obj, obj[thr[t].obj].at,
                                       obj[thr[t].obj].refs, obj[thr[t].obj].pending \cup {d})
      BY <1>1, <2>1, PostponeIs DEF PostponeChanges
    <3>3. c \in obj[o].pending \/ c \in Held(thr[t])
      BY <1>3, <3>1, <3>2 DEF ObjectChanges, Held
    <3> QED
      BY <3>3 DEF IsCounted
  <2>2. CASE ~Postpone(t)
    BY <1>1, <1>3, <2>2, PendingStays DEF IsCounted
  <2> QED
    BY <2>1, <2>2
<1>4. ASSUME NEW u \in Threads, c \in Held(thr'[u])
      PROVE  IsCounted(c)
  <2>1. ASSUME OneMoves(t), c \in Held(thr'[t]) => IsCounted(c)
        PROVE  IsCounted(c)
    BY <1>4, <2>1 DEF OneMoves, IsCounted
  <2>2. CASE Dispose(t)
    <3>1. /\ OneMoves(t) /\ thr[t].at = "dispose" /\ thr'[t].at = "release"
          /\ thr'[t].tasks = obj[thr[t].obj].pending \cup ContextsAt(thr[t].obj, "hooked")
      BY <1>1, <2>2, DisposeMoves
    <3>2. thr[t].obj \in Objects
      BY <1>1, <3>1, ReleasersAre DEF FinalSteps
    <3> QED
      BY <2>1, <3>1, <3>2 DEF Held, ContextsAt, IsCounted
  <2>3. CASE Unhook(t)
    <3>1. PICK o \in Objects, S \in SUBSET Ctxs :
            /\ OneMoves(t) /\ S \subseteq ContextsAt(o, "hooked") /\ thr'[t].at = "release"
            /\ thr'[t].tasks = obj[o].pending \cup S
      BY <1>1, <2>3, UnhookMoves
    <3> QED
      BY <2>1, <3>1 DEF Held, ContextsAt, IsCounted
  <2>4. CASE Postpone(t)
    <3>1. PICK d \in thr[t].tasks :
            /\ OneMoves(t) /\ thr[t].at = "release" /\ thr'[t].at = thr[t].at
            /\ thr'[t].tasks = thr[t].tasks \ {d}
      BY <1>1, <2>4, PostponeMoves
    <3> QED
      BY <2>1, <3>1 DEF Held, IsCounted
  <2>5. CASE ReleaseEnds(t)
    <3>1. /\ OneMoves(t) /\ thr[t].at = "notify" /\ thr'[t].at = "release"
          /\ thr'[t].tasks = thr[t].tasks
      BY <1>1, <2>5, ReleaseEndsMoves
    <3> QED
      BY <2>1, <3>1 DEF Held, IsCounted
  <2>6. CASE RecoverInChild(t)
    <3>1. thr'[u].at \in {"gone", "unlock", "dispose"}
      BY <1>1, <2>6, RecoverInChildMoves
    <3> QED
      BY <1>4, <3>1 DEF Held
  <2>7. CASE ~(Dispose(t) \/ Unhook(t) \/ Postpone(t) \/ ReleaseEnds(t) \/ RecoverInChild(t))
    BY <1>4, <2>7, HeldMoves DEF HeldKept, IsCounted
  <2> QED
    BY <2>2, <2>3, <2>4, <2>5, <2>6, <2>7
<1> QED
  BY <1>2, <1>3, <1>4

\* The counters change as calls do.
LEMMA CountersStay ==
  ASSUME TypeInv, NEW t \in Threads, Step(t), NEW c \in Ctxs,
         ~(LibraryDeinit(t) \/ Hook(t) \/ CallBegins(t) \/ MakeContext(t) \/ CallEnds(t)
             \/ ExitThread(t) \/ RecoverInChild(t))
  PROVE  fc'[c].counter = fc[c].counter
<1>1. LifecycleTypeOK
  BY DEF TypeInv
<1>2. ASSUME NEW S, NEW where \in {"unhooked", "freed"}, fc' = InState(S, where)
      PROVE  fc'[c].counter = fc[c].counter
  BY <1>1, <1>2, InStateAre
<1>3. CASE Dispose(t) \/ Destroy(t) \/ ReleaseEnds(t)
  BY <1>2, <1>3 DEF Dispose, Destroy, ReleaseEnds
<1>4. CASE Unhook(t)
  BY <1>2, <1>4, UnhookMoves
<1>5. CASE LibraryInit(t) \/ Obtain(t) \/ Unref(t) \/ ClearSingleton(t) \/ Postpone(t)
           \/ ReleaseStarts(t) \/ TransactionEnds(t) \/ HoldLock(t) \/ YieldLock(t)
  BY <1>5 DEF LibraryInit, Obtain, Unref, ClearSingleton, Postpone, ReleaseStarts,
              TransactionEnds, HoldLock, YieldLock
<1>6. CASE AddContext(t) \/ Push(t) \/ PrepareToFork(t) \/ Pin(t) \/ LockPinned(t) \/ Freeze(t)
           \/ TryAgain(t) \/ RecoverInParent(t) \/ Recovered(t)
  BY <1>6 DEF AddContext, Push, PrepareToFork, Pin, LockPinned, Freeze, TryAgain,
              RecoverInParent, Recovered
<1> QED
  BY <1>3, <1>4, <1>5, <1>6 DEF Step

\* The invariant again, at the next state.
Exact(c) == IsFiniteSet(Uses(c)) /\ fc[c].counter = Cardinality(Uses(c))
LEMMA ExactInvBecomes ==
  ASSUME \A c \in Ctxs :
           \/ fc'[c].at = "hooked"
           \/ \E o \in Objects : c \in obj'[o].pending
           \/ \E u \in Threads : c \in Held(thr'[u])
           => IsFiniteSet(Uses(c)') /\ fc'[c].counter = Cardinality(Uses(c)')
  PROVE  ExactInv'
BY DEF ExactInv, IsCounted, Held

LEMMA UsesStay ==
  ASSUME NEW c, Exact(c), fc'[c].counter = fc[c].counter,
         \A u \in Threads, k \in Nat :
           UseAt(thr'[u], context'[u], k, c) <=> UseAt(thr[u], context[u], k, c)
  PROVE  Uses(c)' = Uses(c) /\ IsFiniteSet(Uses(c)') /\ fc'[c].counter = Cardinality(Uses(c)')
<1>1. Uses(c)' = Uses(c)
  BY UsesAre, UsesBecome
<1> QED
  BY <1>1 DEF Exact
LEMMA UsesAreThese ==
  ASSUME NEW c, NEW S \in SUBSET (Threads \X Nat),
         \A u \in Threads, k \in Nat : UseAt(thr'[u], context'[u], k, c) <=> <<u, k>> \in S
  PROVE  Uses(c)' = S
<1>1. Uses(c)' \subseteq Threads \X Nat /\ S \subseteq Threads \X Nat
  BY UsesBecome
<1>2. \A u \in Threads, k \in Nat : <<u, k>> \in Uses(c)' <=> <<u, k>> \in S
  BY UsesBecome
<1> QED
  BY <1>1, <1>2

\* The uses of a function context, less some and with some more.
LEMMA UsesChange ==
  ASSUME NEW c, NEW A, NEW B \in SUBSET (Threads \X Nat),
         \A u \in Threads, k \in Nat :
           UseAt(thr'[u], context'[u], k, c)
             <=> (UseAt(thr[u], context[u], k, c) /\ <<u, k>> \notin A) \/ <<u, k>> \in B
  PROVE  Uses(c)' = (Uses(c) \ A) \cup B
<1>1. /\ Uses(c) \subseteq Threads \X Nat /\ Uses(c)' \subseteq Threads \X Nat
      /\ B \subseteq Threads \X Nat
  BY UsesAre, UsesBecome
<1>2. \A u \in Threads, k \in Nat :
        <<u, k>> \in Uses(c)' <=> (<<u, k>> \in Uses(c) /\ <<u, k>> \notin A) \/ <<u, k>> \in B
  BY UsesAre, UsesBecome
<1> QED
  BY <1>1, <1>2

\* A thread's entries.
LEMMA PlacesOfOne ==
  ASSUME TypeInv, NEW t \in Threads, NEW c
  PROVE  /\ Places({t}, c) = {t} \X {i \in DOMAIN Stack(context[t]) : Stack(context[t])[i] = c}
         /\ Places({t}, c) \subseteq Threads \X Nat
         /\ IsFiniteSet(Places({t}, c)) /\ TimesIn({t}, c) = Cardinality(Places({t}, c))
         /\ TimesIn({t}, c) \in Nat
         /\ \A u \in Threads, k \in Nat :
              <<u, k>> \in Places({t}, c) <=> u = t /\ k # 0 /\ UseAt(thr[t], context[t], k, c)
<1>1. EntriesOf(t) = Stack(context[t])
  BY EntriesAreStacks
<1>2. Places({t}, c) = {t} \X {i \in DOMAIN Stack(context[t]) : Stack(context[t])[i] = c}
  <2>1. Places({t}, c) = UNION {{u} \X {i \in DOMAIN EntriesOf(u) : EntriesOf(u)[i] = c} :
                                u \in {t}}
    BY DEF Places
  <2> DEFINE P(u) == {u} \X {i \in DOMAIN EntriesOf(u) : EntriesOf(u)[i] = c}
  <2>2. UNION {P(u) : u \in {t}} = P(t)
    <3> HIDE DEF P
    <3> QED
      OBVIOUS
  <2> QED
    BY <1>1, <2>1, <2>2
<1>3. IsFiniteSet(Places({t}, c)) /\ TimesIn({t}, c) \in Nat
  BY PlacesAre DEF TypeInv
<1>4. DOMAIN Stack(context[t]) \subseteq Nat /\ 0 \notin DOMAIN Stack(context[t])
  BY StacksAre
<1>5. \A u \in Threads, k \in Nat :
        <<u, k>> \in Places({t}, c) <=> u = t /\ k # 0 /\ UseAt(thr[t], context[t], k, c)
  BY <1>2, <1>4 DEF UseAt
<1> QED
  BY <1>2, <1>3, <1>4, <1>5, SMTT(30) DEF TimesIn

LEMMA ExactCallBegins ==
  ASSUME TypeInv, Careful, NEW t \in Threads, CallBegins(t), NEW c \in Ctxs, Exact(c)
  PROVE  IsFiniteSet(Uses(c)') /\ fc'[c].counter = Cardinality(Uses(c)')
<1>1. PICK d \in Ctxs :
        /\ OneMoves(t) /\ thr[t].at = "idle" /\ thr'[t].at = "entering" /\ thr'[t].ctx = d
        /\ CounterChange(d, fc[d].counter + 1) /\ context' = context
  BY CallBeginsUses
<1>2. \A u \in Threads : u # t => thr'[u] = thr[u]
  BY <1>1 DEF OneMoves
<1>3. thr[t].at \notin EnteringSteps /\ thr'[t].at \in EnteringSteps
  BY <1>1 DEF EnteringSteps
<1>4. CASE c = d
  <2> DEFINE B == {<<t, 0>>}
  <2>1. Uses(c)' = Uses(c) \cup B
    <3>1. \A u \in Threads, k \in Nat :
            UseAt(thr'[u], context'[u], k, c)
              <=> (UseAt(thr[u], context[u], k, c) /\ <<u, k>> \notin {}) \/ <<u, k>> \in B
      BY <1>1, <1>2, <1>3, <1>4 DEF UseAt
    <3>2. B \in SUBSET (Threads \X Nat)
      OBVIOUS
    <3>. HIDE DEF B
    <3>3. Uses(c)' = (Uses(c) \ {}) \cup B
      BY <3>1, <3>2, UsesChange
    <3> QED
      BY <3>3
  <2>2. <<t, 0>> \notin Uses(c)
    BY <1>3, UsesAre DEF UseAt
  <2>3. Uses(c)' = Uses(c) \cup {<<t, 0>>}
    BY <2>1
  <2>4. /\ IsFiniteSet(Uses(c) \cup {<<t, 0>>})
        /\ Cardinality(Uses(c) \cup {<<t, 0>>}) = Cardinality(Uses(c)) + 1
    BY <2>2, FS_AddElement DEF Exact
  <2>5. fc'[c].counter = fc[c].counter + 1 /\ fc[c].counter = Cardinality(Uses(c))
    BY <1>1, <1>4 DEF CounterChange, Exact
  <2> QED
    BY <2>3, <2>4, <2>5
<1>5. CASE c # d
  <2>1. fc'[c].counter = fc[c].counter
    BY <1>1, <1>5 DEF CounterChange
  <2>2. \A u \in Threads, k \in Nat :
          UseAt(thr'[u], context'[u], k, c) <=> UseAt(thr[u], context[u], k, c)
    BY <1>1, <1>2, <1>3, <1>5 DEF UseAt
  <2> QED
    BY <2>1, <2>2, UsesStay
<1> QED
  BY <1>4, <1>5

LEMMA ExactPush ==
  ASSUME TypeInv, NEW t \in Threads, Push(t), NEW c \in Ctxs, Exact(c)
  PROVE  IsFiniteSet(Uses(c)') /\ fc'[c].counter = Cardinality(Uses(c)')
<1> DEFINE n == Len(Stack(context[t])) + 1
<1>1. /\ OneMoves(t) /\ thr[t].at = "entering" /\ thr'[t].at = "idle" /\ thr[t].ctx \in Ctxs
      /\ context[t] # None /\ context[t].stack \in Seq(Ctxs)
      /\ StackChange(t, Append(context[t].stack, thr[t].ctx))
  BY PushMoves, PushIs
<1>2. /\ fc'[c].counter = fc[c].counter
      /\ \A u \in Threads : u # t => thr'[u] = thr[u] /\ context'[u] = context[u]
  BY <1>1 DEF Push, OneMoves, StackChange
<1>3. thr[t].at \in EnteringSteps /\ thr'[t].at \notin EnteringSteps
  BY <1>1 DEF EnteringSteps
<1>4. /\ Stack(context'[t]) = Append(Stack(context[t]), thr[t].ctx)
      /\ Stack(context[t]) \in Seq(Ctxs)
  BY <1>1 DEF Stack, StackChange
<1>5. /\ n \in Nat \ {0} /\ DOMAIN Stack(context'[t]) = DOMAIN Stack(context[t]) \cup {n}
      /\ n \notin DOMAIN Stack(context[t]) /\ Stack(context'[t])[n] = thr[t].ctx
      /\ \A i \in DOMAIN Stack(context[t]) : Stack(context'[t])[i] = Stack(context[t])[i]
  BY <1>1, <1>4
<1>. HIDE DEF n
<1>6. CASE c = thr[t].ctx
  <2> DEFINE B == {<<t, n>>}
             A == {<<t, 0>>}
  <2>1. Uses(c)' = (Uses(c) \ A) \cup B
    <3>1. \A u \in Threads, k \in Nat :
            UseAt(thr'[u], context'[u], k, c)
              <=> (UseAt(thr[u], context[u], k, c) /\ <<u, k>> \notin A) \/ <<u, k>> \in B
      BY <1>2, <1>3, <1>5, <1>6 DEF UseAt
    <3>2. B \in SUBSET (Threads \X Nat)
      BY <1>5
    <3>. HIDE DEF A, B
    <3> QED
      BY <3>1, <3>2, UsesChange
  <2>2. <<t, 0>> \in Uses(c) /\ <<t, n>> \notin Uses(c)
    BY <1>3, <1>5, <1>6, UsesAre DEF UseAt
  <2> DEFINE S == Uses(c) \ {<<t, 0>>}
  <2>3. IsFiniteSet(S) /\ Cardinality(S) = Cardinality(Uses(c)) - 1 /\ <<t, n>> \notin S
    BY <2>2, FS_RemoveElement DEF Exact
  <2>. HIDE DEF S
  <2>4. IsFiniteSet(S \cup {<<t, n>>}) /\ Cardinality(S \cup {<<t, n>>}) = Cardinality(S) + 1
    BY <2>3, FS_AddElement
  <2>5. Cardinality(Uses(c)) \in Nat /\ fc[c].counter = Cardinality(Uses(c))
    BY FS_CardinalityType DEF Exact
  <2>6. Uses(c)' = S \cup {<<t, n>>}
    BY <2>1 DEF S
  <2> QED
    BY <1>2, <2>3, <2>4, <2>5, <2>6
<1>7. CASE c # thr[t].ctx
  <2>1. \A u \in Threads, k \in Nat :
          UseAt(thr'[u], context'[u], k, c) <=> UseAt(thr[u], context[u], k, c)
    BY <1>2, <1>3, <1>5, <1>7 DEF UseAt
  <2> QED
    BY <1>2, <2>1, UsesStay
<1> QED
  BY <1>6, <1>7

LEMMA ExactCallEnds ==
  ASSUME TypeInv, NEW t \in Threads, CallEnds(t), NEW c \in Ctxs, Exact(c)
  PROVE  IsFiniteSet(Uses(c)') /\ fc'[c].counter = Cardinality(Uses(c)')
<1> DEFINE s == context[t].stack
           n == Len(s)
           d == s[n]
<1>1. /\ context[t] # None /\ s \in Seq(Ctxs) /\ Len(s) > 0 /\ d \in Ctxs
      /\ StackChange(t, SubSeq(s, 1, Len(s) - 1))
      /\ CounterChange(d, fc[d].counter - 1)
  BY CallEndsIs
<1>2. thr' = thr /\ \A u \in Threads : u # t => context'[u] = context[u]
  BY <1>1 DEF CallEnds, StackChange
<1>3. Stack(context[t]) = s /\ Stack(context'[t]) = SubSeq(s, 1, Len(s) - 1)
  BY <1>1 DEF Stack, StackChange
<1>4. /\ n \in Nat \ {0} /\ DOMAIN Stack(context[t]) = DOMAIN Stack(context'[t]) \cup {n}
      /\ n \notin DOMAIN Stack(context'[t]) /\ Stack(context[t])[n] = d
      /\ \A i \in DOMAIN Stack(context'[t]) : Stack(context'[t])[i] = Stack(context[t])[i]
  <2>1. n \in Nat \ {0} /\ DOMAIN s = 1 .. n
    BY <1>1
  <2>2. PICK r : r = SubSeq(s, 1, n - 1)
    OBVIOUS
  <2>3. DOMAIN r = 1 .. n - 1 /\ \A i \in 1 .. n - 1 : r[i] = s[i]
    BY <1>1, <2>1, <2>2
  <2>4. Stack(context[t]) = s /\ Stack(context'[t]) = r
    BY <1>3, <2>2
  <2> HIDE DEF s, n
  <2>5. 1 .. n = (1 .. n - 1) \cup {n} /\ n \notin 1 .. n - 1
    BY <2>1
  <2> QED
    BY <2>1, <2>3, <2>4, <2>5
<1>. HIDE DEF n, d
<1>5. CASE c = d
  <2>1. Uses(c)' = (Uses(c) \ {<<t, n>>}) \cup {}
    <3>1. \A u \in Threads, k \in Nat :
            UseAt(thr'[u], context'[u], k, c)
              <=> (UseAt(thr[u], context[u], k, c) /\ <<u, k>> \notin {<<t, n>>})
                     \/ <<u, k>> \in {}
      BY <1>2, <1>4, <1>5 DEF UseAt
    <3> QED
      BY <3>1, UsesChange
  <2>2. <<t, n>> \in Uses(c)
    BY <1>4, <1>5, UsesAre DEF UseAt
  <2>3. Uses(c)' = Uses(c) \ {<<t, n>>}
    BY <2>1
  <2>4. /\ IsFiniteSet(Uses(c) \ {<<t, n>>})
        /\ Cardinality(Uses(c) \ {<<t, n>>}) = Cardinality(Uses(c)) - 1
    BY <2>2, FS_RemoveElement DEF Exact
  <2>5. fc'[c].counter = fc[c].counter - 1 /\ fc[c].counter = Cardinality(Uses(c))
    BY <1>1, <1>5 DEF CounterChange, Exact
  <2> QED
    BY <2>3, <2>4, <2>5
<1>6. CASE c # d
  <2>1. fc'[c].counter = fc[c].counter
    BY <1>1, <1>6 DEF CounterChange
  <2>2. \A u \in Threads, k \in Nat :
          UseAt(thr'[u], context'[u], k, c) <=> UseAt(thr[u], context[u], k, c)
    BY <1>2, <1>4, <1>6 DEF UseAt
  <2> QED
    BY <2>1, <2>2, UsesStay
<1> QED
  BY <1>5, <1>6

\* A thread's context is destroyed.
LEMMA ExactCleared ==
  ASSUME TypeInv, NEW t \in Threads, fc' = Released({t}),
         context' = [context EXCEPT ![t] = None],
         NEW c \in Ctxs, Exact(c),
         \A u \in Threads : UseAt(thr'[u], None, 0, c) <=> UseAt(thr[u], None, 0, c)
  PROVE  IsFiniteSet(Uses(c)') /\ fc'[c].counter = Cardinality(Uses(c)')
<1> DEFINE P == Places({t}, c)
<1>1. /\ IsFiniteSet(P) /\ TimesIn({t}, c) = Cardinality(P)
      /\ P \subseteq Threads \X Nat
      /\ \A u \in Threads, k \in Nat :
           <<u, k>> \in P <=> u = t /\ k # 0 /\ UseAt(thr[t], context[t], k, c)
  BY PlacesOfOne
<1>. HIDE DEF P
<1>2. \A u \in Threads : context'[u] = IF u = t THEN None ELSE context[u]
  BY DEF TypeInv, LifecycleTypeOK
<1>3. DOMAIN Stack(None) = {}
  BY DEF Stack
<1>4. \A u \in Threads, k \in Nat :
        UseAt(thr'[u], context'[u], k, c)
          <=> (UseAt(thr[u], context[u], k, c) /\ <<u, k>> \notin P) \/ <<u, k>> \in {}
  BY <1>1, <1>2, <1>3 DEF UseAt
<1>5. Uses(c)' = Uses(c) \ P
  <2>1. Uses(c)' = (Uses(c) \ P) \cup {}
    BY <1>4, UsesChange
  <2> QED
    BY <2>1
<1>6. P \subseteq Uses(c)
  BY <1>1, UsesAre
<1>7. /\ IsFiniteSet(Uses(c) \ P)
      /\ Cardinality(Uses(c) \ P) = Cardinality(Uses(c)) - Cardinality(P)
  <2>1. Uses(c) \cap P = P
    BY <1>6
  <2>2. /\ IsFiniteSet(Uses(c) \ P)
        /\ Cardinality(Uses(c) \ P) = Cardinality(Uses(c)) - Cardinality(Uses(c) \cap P)
    <3>1. IsFiniteSet(Uses(c))
      BY DEF Exact
    <3> QED
      BY <3>1, FS_Difference
  <2> QED
    BY <2>1, <2>2
<1>8. fc'[c].counter = fc[c].counter - TimesIn({t}, c)
  <2>1. Released({t})[c].counter = fc[c].counter - TimesIn({t}, c)
    BY ReleasedAre DEF TypeInv
  <2> QED
    BY <2>1
<1> QED
  BY <1>1, <1>5, <1>7, <1>8 DEF Exact
\* The calls go on as they were.
LEMMA ExactQuiet ==
  ASSUME TypeInv, CallsInv, NEW t \in Threads, Step(t), NEW c \in Ctxs, Exact(c),
         ~(LibraryDeinit(t) \/ Hook(t) \/ CallBegins(t) \/ MakeContext(t) \/ Push(t)
             \/ CallEnds(t) \/ ExitThread(t) \/ RecoverInChild(t))
  PROVE  IsFiniteSet(Uses(c)') /\ fc'[c].counter = Cardinality(Uses(c)')
<1>1. fc'[c].counter = fc[c].counter
  BY CountersStay
<1>2. \A u \in Threads, k \in Nat :
        UseAt(thr'[u], context'[u], k, c) <=> UseAt(thr[u], context[u], k, c)
  <2>1. CASE LibraryInit(t)
    BY <2>1 DEF LibraryInit
  <2>2. CASE AddContext(t)
    <3>1. /\ OneMoves(t) /\ thr[t].at = "adding" /\ thr'[t].at = "entering"
          /\ thr'[t].ctx = thr[t].ctx
      BY <2>2, AddContextMoves
    <3>2. context' = [context EXCEPT ![t] = [generation |-> thr[t].gen, stack |-> <<>>]]
      BY <2>2 DEF AddContext
    <3>3. /\ context'[t] = [generation |-> thr[t].gen, stack |-> <<>>]
          /\ \A u \in Threads : u # t => context'[u] = context[u]
      BY <3>2 DEF TypeInv, LifecycleTypeOK
    <3>4. Stack(context[t]) = <<>> /\ Stack(context'[t]) = <<>>
      BY <3>1, <3>3 DEF CallsInv, Stack
    <3> QED
      BY <3>1, <3>3, <3>4 DEF OneMoves, UseAt, EnteringSteps
  <2>3. CASE SameCalls
    BY <2>3 DEF SameCalls, UseAt
  <2> QED
    BY <2>1, <2>2, <2>3, CallsQuiet
<1> QED
  BY <1>1, <1>2, UsesStay

\* The child counts anew what may still be released there.
LEMMA ExactRecover ==
  ASSUME CarefulInv, NEW t \in Threads, RecoverInChild(t), NEW c \in Ctxs,
         \/ fc'[c].at = "hooked"
         \/ \E o \in Objects : c \in obj'[o].pending
         \/ \E u \in Threads : c \in Held(thr'[u])
  PROVE  IsFiniteSet(Uses(c)') /\ fc'[c].counter = Cardinality(Uses(c)')
<1>1. TypeInv /\ ForkInv /\ HooksInv /\ UsedInv
  BY DEF CarefulInv, ReleaseInv, SingletonInv, CountInv
<1>2. /\ \A u \in Threads : thr'[u].at \in {"gone", "unlock", "dispose"}
      /\ thr[t].at = "prepared"
  BY <1>1, RecoverInChildMoves
<1>3. the = prepared
  BY <1>1, <1>2 DEF ForkInv, At
<1>4. Step(t) /\ ~Postpone(t)
  BY <1>2 DEF Step, Postpone, At
<1>5. /\ prepared # None
      /\ \/ fc[c].at = "hooked" /\ fc[c].of = prepared
         \/ c \in obj[prepared].pending
  <2>1. ~\E u \in Threads : c \in Held(thr'[u])
    BY <1>2 DEF Held
  <2>2. CASE fc'[c].at = "hooked"
    <3>1. fc[c].at = "hooked"
      BY <1>1, <2>2, RecountedAre
    <3> QED
      BY <1>1, <1>3, <3>1, NoneIsNoObject DEF HooksInv
  <2>3. CASE \E o \in Objects : c \in obj'[o].pending
    <3>1. PICK o \in Objects : c \in obj[o].pending
      BY <1>1, <1>4, <2>3, PendingStays
    <3>2. the = o
      BY <1>1, <3>1 DEF UsedInv
    <3> QED
      BY <1>3, <3>1, <3>2, NoneIsNoObject
  <2> QED
    BY <2>1, <2>2, <2>3
<1>6. fc'[c].counter = TimesIn({t}, c)
  BY <1>1, <1>5, RecountedAre
<1> DEFINE P == Places({t}, c)
<1>7. /\ IsFiniteSet(P) /\ TimesIn({t}, c) = Cardinality(P)
      /\ P \subseteq Threads \X Nat
      /\ \A u \in Threads, k \in Nat :
           <<u, k>> \in P <=> u = t /\ k # 0 /\ UseAt(thr[t], context[t], k, c)
  BY <1>1, PlacesOfOne
<1>. HIDE DEF P
<1>8. Uses(c)' = P
  <2>1. context' = [u \in Threads |-> IF u = t THEN context[t] ELSE None]
    BY DEF RecoverInChild
  <2>2. \A u \in Threads : context'[u] = IF u = t THEN context[t] ELSE None
    BY <2>1
  <2>3. DOMAIN Stack(None) = {}
    BY DEF Stack
  <2>4. \A u \in Threads, k \in Nat :
          UseAt(thr'[u], context'[u], k, c) <=> u = t /\ k # 0 /\ UseAt(thr[t], context[t], k, c)
    BY <1>2, <2>2, <2>3 DEF UseAt, EnteringSteps
  <2>5. \A u \in Threads, k \in Nat : UseAt(thr'[u], context'[u], k, c) <=> <<u, k>> \in P
    BY <1>7, <2>4
  <2>6. P \in SUBSET (Threads \X Nat)
    BY <1>7
  <2> QED
    BY <2>5, <2>6, UsesAreThese
<1> QED
  BY <1>6, <1>7, <1>8

LEMMA ExactStep ==
  ASSUME CarefulInv, NEW t \in Threads, Step(t)
  PROVE  ExactInv'
<1>1. /\ TypeInv /\ Careful /\ CallsInv /\ UsedInv /\ ExactInv /\ SingletonInv
      /\ HooksInv /\ LifecycleTypeOK
  BY DEF CarefulInv, ReleaseInv, SingletonInv, CountInv, TypeInv
<1>2. SUFFICES ASSUME NEW c \in Ctxs,
                      \/ fc'[c].at = "hooked"
                      \/ \E o \in Objects : c \in obj'[o].pending
                      \/ \E u \in Threads : c \in Held(thr'[u])
               PROVE  IsFiniteSet(Uses(c)') /\ fc'[c].counter = Cardinality(Uses(c)')
  BY ExactInvBecomes
<1>3. CASE Hook(t)
  <2>1. PICK o \in Objects, d \in Ctxs :
          /\ fc[d].at = "new"
          /\ fc' = [fc EXCEPT ![d] = [of |-> o, at |-> "hooked", counter |-> 0]]
    BY <1>3 DEF Hook
  <2>2. obj' = obj /\ thr' = thr /\ context' = context
    BY <1>3 DEF Hook, calls
  <2>3. Uses(c)' = Uses(c)
    <3>1. \A u \in Threads, k \in Nat :
            UseAt(thr'[u], context'[u], k, c) <=> <<u, k>> \in Uses(c)
      BY <2>2, UsesAre
    <3>2. Uses(c) \in SUBSET (Threads \X Nat)
      BY UsesAre
    <3> QED
      BY <3>1, <3>2, UsesAreThese
  <2>4. CASE c = d
    <3>1. ~IsUsed(c)
      BY <1>1, <2>1, <2>4 DEF UsedInv
    <3>2. Uses(c) = {}
      BY <1>1, <3>1, UnusedHasNone
    <3>3. fc'[c].counter = 0
      BY <1>1, <2>1, <2>4 DEF LifecycleTypeOK
    <3> QED
      BY <2>3, <3>2, <3>3, FS_EmptySet
  <2>5. CASE c # d
    <3>1. fc'[c] = fc[c]
      BY <1>1, <2>1, <2>5 DEF LifecycleTypeOK
    <3>2. IsCounted(c)
      BY <1>2, <2>2, <3>1 DEF IsCounted
    <3> QED
      BY <1>1, <2>3, <3>1, <3>2 DEF ExactInv
  <2> QED
    BY <2>4, <2>5
<1>4. CASE RecoverInChild(t)
  BY <1>2, <1>4, ExactRecover
<1>5. CASE ~Hook(t) /\ ~RecoverInChild(t)
  <2>1. IsCounted(c)
    BY <1>1, <1>2, <1>5, CountedBefore
  <2>2. Exact(c)
    BY <1>1, <2>1 DEF ExactInv, Exact
  <2>3. ASSUME thr' = thr
        PROVE  \A u \in Threads : UseAt(thr'[u], None, 0, c) <=> UseAt(thr[u], None, 0, c)
    BY <2>3
  <2>4. CASE LibraryDeinit(t)
    <3>1. CASE inits = 1
      BY <1>1, <2>2, <2>3, <2>4, <3>1, ExactCleared DEF LibraryDeinit
    <3>2. CASE inits # 1
      <4>1. fc' = fc /\ thr' = thr /\ context' = context
        BY <2>4, <3>2 DEF LibraryDeinit
      <4> QED
        BY <2>2, <4>1, UsesStay
    <3> QED
      BY <3>1, <3>2
  <2>5. CASE ExitThread(t)
    BY <1>1, <2>2, <2>3, <2>5, ExactCleared DEF ExitThread
  <2>6. CASE MakeContext(t)
    <3>1. /\ OneMoves(t) /\ thr[t].at = "entering" /\ thr'[t].at = "adding"
          /\ thr'[t].ctx = thr[t].ctx
      BY <1>1, <2>6, MakeContextMoves
    <3>2. \A u \in Threads : UseAt(thr'[u], None, 0, c) <=> UseAt(thr[u], None, 0, c)
      BY <3>1 DEF OneMoves, UseAt, EnteringSteps
    <3> QED
      BY <1>1, <2>2, <2>6, <3>2, ExactCleared DEF MakeContext
  <2>7. CASE CallBegins(t) \/ Push(t) \/ CallEnds(t)
    BY <1>1, <2>2, <2>7, ExactCallBegins, ExactPush, ExactCallEnds
  <2>8. CASE ~(LibraryDeinit(t) \/ Hook(t) \/ CallBegins(t) \/ MakeContext(t) \/ Push(t)
                 \/ CallEnds(t) \/ ExitThread(t) \/ RecoverInChild(t))
    BY <1>1, <2>2, <2>8, ExactQuiet
  <2> QED
    BY <1>5, <2>4, <2>5, <2>6, <2>7, <2>8
<1> QED
  BY <1>3, <1>4, <1>5
-----------------------------------------------------------------------------
(* Nothing in use is freed, and counters match calls *)

LEMMA UsesCounted ==
  ASSUME TypeInv, NEW c
  PROVE  Cardinality(Uses(c)) = TimesIn(Threads, c) + Cardinality(Arriving(c))
<1> DEFINE P == Places(Threads, c)
           A == Arriving(c)
           Z == A \X {0}
<1>1. IsFiniteSet(P) /\ TimesIn(Threads, c) = Cardinality(P)
  BY PlacesAre DEF TypeInv, TimesIn
<1>2. IsFiniteSet(A) /\ A \subseteq Threads
  <2>1. A \subseteq Threads
    BY DEF Arriving
  <2> QED
    BY <2>1, ConstantsAssumption, FS_Subset
<1>3. \A u \in Threads : /\ EntriesOf(u) = Stack(context[u])
                         /\ DOMAIN Stack(context[u]) \subseteq Nat
                         /\ 0 \notin DOMAIN Stack(context[u])
  BY EntriesAreStacks, StacksAre
<1>4. \A r : r \in P <=> \E u \in Threads : \E i \in DOMAIN Stack(context[u]) :
                           r = <<u, i>> /\ Stack(context[u])[i] = c
  <2>1. ASSUME NEW r, r \in P
        PROVE  \E u \in Threads : \E i \in DOMAIN Stack(context[u]) :
                 r = <<u, i>> /\ Stack(context[u])[i] = c
    <3>1. PICK u \in Threads : r \in {u} \X {i \in DOMAIN EntriesOf(u) : EntriesOf(u)[i] = c}
      BY <2>1 DEF Places
    <3>2. PICK i \in DOMAIN EntriesOf(u) : r = <<u, i>> /\ EntriesOf(u)[i] = c
      BY <3>1
    <3> QED
      BY <1>3, <3>2
  <2>2. ASSUME NEW u \in Threads, NEW i \in DOMAIN Stack(context[u]), Stack(context[u])[i] = c
        PROVE  <<u, i>> \in P
    BY <1>3, <2>2 DEF Places
  <2> QED
    BY <2>1, <2>2
<1>5. \A u \in Threads : u \in A <=> UseAt(thr[u], context[u], 0, c)
  BY DEF Arriving, At, UseAt, EnteringSteps
<1>. HIDE DEF P, A
<1>6. P \subseteq Threads \X Nat /\ Z \subseteq Threads \X Nat /\ P \cap Z = {}
  BY <1>2, <1>3, <1>4
<1>7. \A u \in Threads, k \in Nat : <<u, k>> \in P \cup Z <=> UseAt(thr[u], context[u], k, c)
  <2> SUFFICES ASSUME NEW u \in Threads, NEW k \in Nat
               PROVE  <<u, k>> \in P \cup Z <=> UseAt(thr[u], context[u], k, c)
    OBVIOUS
  <2>1. CASE k = 0
    <3>1. <<u, k>> \notin P
      BY <1>3, <1>4, <2>1
    <3> QED
      BY <1>5, <2>1, <3>1
  <2>2. CASE k # 0
    <3>1. <<u, k>> \notin Z
      BY <2>2
    <3>2. <<u, k>> \in P <=> k \in DOMAIN Stack(context[u]) /\ Stack(context[u])[k] = c
      BY <1>4
    <3> QED
      BY <2>2, <3>1, <3>2 DEF UseAt
  <2> QED
    BY <2>1, <2>2
<1>8. Uses(c) = P \cup Z
  <2>1. \A u \in Threads, k \in Nat : <<u, k>> \in Uses(c) <=> <<u, k>> \in P \cup Z
    BY <1>7, UsesAre
  <2>2. Uses(c) \subseteq Threads \X Nat /\ P \cup Z \subseteq Threads \X Nat
    BY <1>6, UsesAre
  <2>. HIDE DEF Z
  <2> QED
    BY <2>1, <2>2
<1>9. IsFiniteSet(Z) /\ Cardinality(Z) = Cardinality(A)
  <2>1. IsFiniteSet({0}) /\ Cardinality({0}) = 1
    BY FS_Singleton
  <2>2. IsFiniteSet(Z) /\ Cardinality(Z) = Cardinality(A) * Cardinality({0})
    BY <1>2, <2>1, FS_Product
  <2>3. Cardinality(A) \in Nat
    BY <1>2, FS_CardinalityType
  <2> QED
    BY <2>1, <2>2, <2>3
<1>. HIDE DEF Z
<1>10. Cardinality(P \cup Z) = Cardinality(P) + Cardinality(Z) - Cardinality(P \cap Z)
  BY <1>1, <1>9, FS_Union
<1>11. Cardinality(P \cap Z) = 0 /\ Cardinality(P) \in Nat /\ Cardinality(Z) \in Nat
  BY <1>1, <1>6, <1>9, FS_EmptySet, FS_CardinalityType
<1>12. Cardinality(P \cup Z) = Cardinality(P) + Cardinality(Z)
  BY <1>10, <1>11
<1> QED
  BY <1>1, <1>8, <1>9, <1>12 DEF A

LEMMA CarefulCounters == CarefulInv => CountersMatchCalls
<1> SUFFICES ASSUME CarefulInv, NEW c \in Ctxs,
                    fc[c].at = "hooked" \/ \E o \in Objects : c \in obj[o].pending
             PROVE  fc[c].counter = TimesIn(Threads, c) + Cardinality(Arriving(c))
  BY DEF CountersMatchCalls
<1>1. TypeInv /\ ExactInv
  BY DEF CarefulInv, ReleaseInv, SingletonInv, CountInv
<1>2. fc[c].counter = Cardinality(Uses(c))
  BY <1>1 DEF ExactInv, IsCounted
<1> QED
  BY <1>1, <1>2, UsesCounted

LEMMA CarefulLives == CarefulInv => InUseIsLive
<1> SUFFICES ASSUME CarefulInv PROVE InUseIsLive
  OBVIOUS
<1>1. TypeInv /\ SingletonInv /\ TasksInv /\ UsedInv /\ CallsInv
  BY DEF CarefulInv, ReleaseInv, SingletonInv, CountInv
<1>2. ASSUME NEW t \in Threads, NEW o \in Objects,
             thr[t].owned[o] > 0 \/ (thr[t].obj = o /\ ~At(t, "gone"))
      PROVE  obj[o].at = "live"
  <2>1. CASE thr[t].owned[o] > 0 \/ Pins(thr[t], o)
    BY <1>1, <2>1, SingletonOwned
  <2>2. CASE thr[t].obj = o /\ thr[t].at \in ReleaseSteps \cup FinalSteps
    BY <1>1, <2>2, Workers
  <2>3. CASE thr[t].obj = o /\ thr[t].at \in PinSteps
    BY <2>1, <2>3 DEF Pins
  <2>4. CASE /\ thr[t].obj = o
             /\ thr[t].at \notin ReleaseSteps \cup FinalSteps \cup PinSteps \cup {"gone"}
    <3>1. thr[t].at \in {"idle", "entering", "adding", "pin", "unlock"}
      BY <1>1, <2>4 DEF TypeInv, LifecycleTypeOK, Activity, ReleaseSteps, FinalSteps, PinSteps
    <3>2. thr[t].obj = None
      BY <1>1, <3>1 DEF TypeInv, Proper
    <3> QED
      BY <2>4, <3>2, NoneIsNoObject
  <2> QED
    BY <1>2, <2>1, <2>2, <2>3, <2>4 DEF At
<1>3. ASSUME NEW t \in Threads, NEW i \in DOMAIN EntriesOf(t)
      PROVE  fc[EntriesOf(t)[i]].at # "freed"
  <2>1. EntriesOf(t) = Stack(context[t]) /\ Stack(context[t]) \in Seq(Ctxs)
    BY <1>1, EntriesAreStacks, StacksAre
  <2>2. PICK c \in Ctxs : c = EntriesOf(t)[i]
    BY <2>1
  <2>3. IsUsed(c)
    BY <2>1, <2>2 DEF IsUsed, UsedBy
  <2> QED
    BY <1>1, <2>2, <2>3 DEF UsedInv
<1>4. ASSUME NEW c \in Ctxs, Arriving(c) # {}
      PROVE  fc[c].at # "freed"
  <2>1. IsUsed(c)
    BY <1>4 DEF Arriving, At, IsUsed, UsedBy, EnteringSteps
  <2> QED
    BY <1>1, <2>1 DEF UsedInv
<1>5. \A o \in Objects : \A c \in obj[o].pending : fc[c].at = "unhooked"
  BY <1>1 DEF TasksInv
<1>6. registry # None => \A t \in registry : Fresh(t)
  BY <1>1 DEF CallsInv, FreshAs, Fresh
<1> QED
  BY <1>2, <1>3, <1>4, <1>5, <1>6 DEF InUseIsLive

\* What holds of the calls of careful programs, and of the rest of any.
UseInv == ReleaseInv /\ (Careful => CallsInv /\ UsedInv /\ ExactInv)

LEMMA InitUses == Init => (Careful => CallsInv /\ UsedInv /\ ExactInv)
<1> SUFFICES ASSUME Init PROVE CallsInv /\ UsedInv /\ ExactInv
  OBVIOUS
<1>1. /\ \A t \in Threads : thr[t] = Resting /\ context[t] = None
      /\ \A o \in Objects : obj[o].pending = {}
      /\ \A c \in Ctxs : fc[c].at = "new"
      /\ registry = None /\ inits = 0
  BY DEF Init
<1>2. /\ \A t \in Threads : thr[t].at = "idle" /\ Stack(context[t]) = <<>>
      /\ DOMAIN <<>> = {}
  BY <1>1 DEF Resting, Stack
<1>3. CallsInv
  BY <1>1, <1>2 DEF CallsInv, EnteringSteps
<1>4. \A c : ~IsUsed(c)
  BY <1>2 DEF IsUsed, UsedBy, EnteringSteps
<1>5. UsedInv
  BY <1>1, <1>2, <1>4 DEF UsedInv, Emptied, IsDying, FinalSteps, ReleaseSteps
<1>6. \A c \in Ctxs : ~IsCounted(c)
  BY <1>1, <1>2 DEF IsCounted, Held
<1> QED
  BY <1>3, <1>5, <1>6 DEF ExactInv

LEMMA NextUses == UseInv /\ [Next]_vars => UseInv'
<1> SUFFICES ASSUME UseInv, [Next]_vars PROVE UseInv'
  OBVIOUS
<1>1. ReleaseInv'
  BY NextReleases DEF UseInv
<1>2. ASSUME Careful'
      PROVE  CallsInv' /\ UsedInv' /\ ExactInv'
  <2>1. CASE UNCHANGED vars
    <3>1. Careful
      BY <1>2, <2>1 DEF Careful, vars, library
    <3>2. CallsInv /\ UsedInv /\ ExactInv
      BY <3>1 DEF UseInv
    <3>3. CallsInv'
      BY <2>1, <3>2 DEF CallsInv, vars, library, calls
    <3>4. UsedInv'
      BY <2>1, <3>2 DEF UsedInv, IsUsed, Emptied, IsDying, Owners, vars, library, calls
    <3>5. ExactInv'
      BY <2>1, <3>2 DEF ExactInv, IsCounted, Uses, Held, vars, library, calls
    <3> QED
      BY <3>3, <3>4, <3>5
  <2>2. CASE Next
    <3>1. PICK t \in Threads : Step(t)
      BY <2>2 DEF Next, Step
    <3>2. Careful
      BY <1>2, <3>1, LibertiesStep DEF Careful
    <3>3. CarefulInv /\ TypeInv
      BY <3>2 DEF UseInv, CarefulInv, ReleaseInv, SingletonInv, CountInv
    <3>4. CallsInv'
      BY <3>1, <3>3, CallsStep DEF CarefulInv
    <3>5. UsedInv' /\ ExactInv'
      BY <3>1, <3>3, UsedStep, ExactStep
    <3> QED
      BY <3>4, <3>5
  <2> QED
    BY <2>1, <2>2
<1> QED
  BY <1>1, <1>2 DEF UseInv

LEMMA UsesBegin == ObtainsInTime => (Init => UseInv)
<1>1. ObtainsInTime /\ Init => NotLate
  BY DEF Init, NotLate, ObtainsInTime
<1> QED
  BY <1>1, InitCounts, InitUses DEF UseInv, ReleaseInv, SingletonInv

LEMMA UsesEnd == UseInv => InUseIsLive /\ CountersMatchCalls
<1> SUFFICES ASSUME UseInv PROVE InUseIsLive /\ CountersMatchCalls
  OBVIOUS
<1>1. CASE Careful
  BY <1>1, CarefulLives, CarefulCounters DEF UseInv, CarefulInv
<1>2. CASE ~Careful
  BY <1>2 DEF InUseIsLive, CountersMatchCalls
<1> QED
  BY <1>1, <1>2

\* In a program that obtains the singleton in time, and is careful about its last
\* reference, nothing is freed while it is owned, worked on, entered or returned
\* through.
THEOREM NothingInUseIsFreed == ObtainsInTime => (Spec => []InUseIsLive)
<1> SUFFICES ASSUME ObtainsInTime PROVE Spec => []InUseIsLive
  OBVIOUS
<1>1. Init => UseInv
  BY UsesBegin
<1> QED
  BY <1>1, NextUses, UsesEnd, PTL DEF Spec

\* There the usage counter of a function context that may still be released is the
\* number of calls in progress, also as a fork has left them in the child.
THEOREM CountersMatch == ObtainsInTime => (Spec => []CountersMatchCalls)
<1> SUFFICES ASSUME ObtainsInTime PROVE Spec => []CountersMatchCalls
  OBVIOUS
<1>1. Init => UseInv
  BY UsesBegin
<1> QED
  BY <1>1, NextUses, UsesEnd, PTL DEF Spec
=============================================================================
