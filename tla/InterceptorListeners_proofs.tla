------------------------ MODULE InterceptorListeners_proofs ------------------------
(***************************************************************************)
(* Theorems about the references to listeners: the count of a listener is  *)
(* that of the references that are still to be released, and a listener    *)
(* that an invocation in flight is to tell has one.                        *)
(*                                                                         *)
(* The argument: a listener has the reference of its creator and one for   *)
(* each task that releases one, wherever the task is: in the shared queue, *)
(* in the copy a call works on or in the notification it makes.  Tasks     *)
(* move between these places, so that what is counted is a set of places,  *)
(* and a move is a bijection.  A listener of an array an invocation took   *)
(* is still attached, is being detached, or a task that waits for the      *)
(* invocation has its reference: the task runs when the counter of the     *)
(* context is zero, that is when no invocation counts on it.               *)
(***************************************************************************)
EXTENDS Interceptor_proofs

-----------------------------------------------------------------------------
(* The inductive invariant *)

\* Where a task to release a reference to l is: in the shared queue, in the
\* copy a call works on or, at 0, in the notification it makes.
SharedPlace(i, l) == i \in DOMAIN txn.destroy /\ txn.destroy[i].lsn = l
OwnPlace(t, i, l) ==
  \/ i \in DOMAIN op[t].destroy /\ op[t].destroy[i].lsn = l
  \/ i = 0 /\ op[t].at = "notify" /\ op[t].task.lsn = l
ReleasePlaces(l) ==
  {p \in ({None} \cup Threads) \X Nat :
     IF p[1] = None THEN SharedPlace(p[2], l) ELSE OwnPlace(p[1], p[2], l)}

\* Only a task to release a listener names one, and a call has tasks of its own
\* only while it works on them.
ForListener(task) == task.what = "listener" <=> task.lsn # None
WorkingOnTasks == {"patch", "tasks", "notify", "relock"}
QueueInv ==
  /\ \A i \in DOMAIN txn.destroy : ForListener(txn.destroy[i])
  /\ \A t \in Threads : \A i \in DOMAIN op[t].destroy : ForListener(op[t].destroy[i])
  /\ \A t \in Threads : op[t].at = "notify" => ForListener(op[t].task)
  /\ \A t \in Threads : op[t].at \notin WorkingOnTasks => op[t].destroy = <<>>

\* The creator's reference, and one for each task.
References(l) == (IF l \in owned THEN 1 ELSE 0) + Cardinality(ReleasePlaces(l))
RefsInv == \A l \in Listeners : IsFiniteSet(ReleasePlaces(l)) /\ refs[l] = References(l)

\* The creator has its reference while the listener is attached, or a call is
\* attaching or detaching it.
OwnedInv ==
  /\ \A c \in Ctxs : fc[c].state = "unborn" => Current(c).live = {}
  /\ \A c \in Ctxs : fc[c].state = "live" => Current(c).live \subseteq owned
  /\ \A t \in Threads : op[t].lsn # None => op[t].lsn \in owned

\* A listener an invocation was to tell is still attached, is being detached,
\* or its release waits for the invocation.
IsRetiring(c, l) == \E t \in Threads : op[t].at = "retire" /\ op[t].ctx = c /\ op[t].lsn = l
IsWaiting(c, l) ==
  \/ \E i \in DOMAIN txn.destroy : txn.destroy[i].ctx = c /\ txn.destroy[i].lsn = l
  \/ \E t \in Threads : \E i \in DOMAIN op[t].destroy :
       op[t].destroy[i].ctx = c /\ op[t].destroy[i].lsn = l
IsKept(c, l) == l \in Current(c).live \/ IsRetiring(c, l) \/ IsWaiting(c, l)
SnapshotInv ==
  \A t \in Threads : \A i \in DOMAIN calls[t] :
    Safe(calls[t][i]) /\ calls[t][i].snap # 0 =>
      \A l \in Snapshot(calls[t][i]).live : IsKept(calls[t][i].ctx, l)

ListenersKept == QueueInv /\ RefsInv /\ OwnedInv /\ SnapshotInv
ListenerInv == ReleaseInv /\ ListenersKept

-----------------------------------------------------------------------------
(* What a step does to the queues *)

\* The places of tasks, one by one.
LEMMA PlacesAre ==
  ASSUME TypeInv, NEW l
  PROVE  /\ \A i : <<None, i>> \in ReleasePlaces(l) <=> SharedPlace(i, l)
         /\ \A t \in Threads : \A i : <<t, i>> \in ReleasePlaces(l) <=> OwnPlace(t, i, l)
         /\ \A p \in ReleasePlaces(l) : \E q \in {None} \cup Threads : \E i \in Nat : p = <<q, i>>
<1>1. txn.destroy \in Seq(DestroyTask) /\ \A t \in Threads : op[t].destroy \in Seq(DestroyTask)
  BY DEF TypeInv, TypeOK, Transaction, ApiCall
<1>2. \A i : SharedPlace(i, l) => i \in Nat
  BY <1>1 DEF SharedPlace
<1>3. \A t \in Threads : \A i : OwnPlace(t, i, l) => i \in Nat
  BY <1>1 DEF OwnPlace
<1>4. None \notin Threads
  BY ConstantsAssumption
<1>5. ASSUME NEW q \in {None} \cup Threads, NEW i
      PROVE  <<q, i>> \in ReleasePlaces(l) <=>
               i \in Nat /\ IF q = None THEN SharedPlace(i, l) ELSE OwnPlace(q, i, l)
  BY DEF ReleasePlaces
<1>6. \A p \in ReleasePlaces(l) : \E q \in {None} \cup Threads : \E i \in Nat : p = <<q, i>>
  BY DEF ReleasePlaces
<1> QED
  BY <1>2, <1>3, <1>4, <1>5, <1>6

\* The same, after a step.
LEMMA PlacesAreAfter ==
  ASSUME TypeInv', NEW l
  PROVE  /\ \A i : <<None, i>> \in ReleasePlaces(l)' <=> SharedPlace(i, l)'
         /\ \A t \in Threads : \A i : <<t, i>> \in ReleasePlaces(l)' <=> OwnPlace(t, i, l)'
         /\ \A p \in ReleasePlaces(l)' : \E q \in {None} \cup Threads : \E i \in Nat : p = <<q, i>>
<1>1. txn'.destroy \in Seq(DestroyTask) /\ \A t \in Threads : op'[t].destroy \in Seq(DestroyTask)
  BY DEF TypeInv, TypeOK, Transaction, ApiCall
<1>2. \A i : SharedPlace(i, l)' => i \in Nat
  BY <1>1 DEF SharedPlace
<1>3. \A t \in Threads : \A i : OwnPlace(t, i, l)' => i \in Nat
  BY <1>1 DEF OwnPlace
<1>4. None \notin Threads
  BY ConstantsAssumption
<1>5. ASSUME NEW q \in {None} \cup Threads, NEW i
      PROVE  <<q, i>> \in ReleasePlaces(l)' <=>
               i \in Nat /\ IF q = None THEN SharedPlace(i, l)' ELSE OwnPlace(q, i, l)'
  BY DEF ReleasePlaces
<1>6. \A p \in ReleasePlaces(l)' : \E q \in {None} \cup Threads : \E i \in Nat : p = <<q, i>>
  BY DEF ReleasePlaces
<1> QED
  BY <1>2, <1>3, <1>4, <1>5, <1>6

\* The tasks that release l have the same places.
SamePlaces(l) ==
  /\ \A i : SharedPlace(i, l)' <=> SharedPlace(i, l)
  /\ \A t \in Threads : \A i : OwnPlace(t, i, l)' <=> OwnPlace(t, i, l)

LEMMA SameReferences ==
  ASSUME TypeInv, TypeInv', NEW l, SamePlaces(l)
  PROVE  ReleasePlaces(l)' = ReleasePlaces(l)
<1>1. ASSUME NEW p PROVE p \in ReleasePlaces(l)' <=> p \in ReleasePlaces(l)
  BY PlacesAre, PlacesAreAfter DEF SamePlaces
<1> QED
  BY <1>1

\* One more task releases l.
LEMMA OneTaskMore ==
  ASSUME TypeInv, TypeInv', NEW l, IsFiniteSet(ReleasePlaces(l)), NEW n, ~SharedPlace(n, l),
         \A i : SharedPlace(i, l)' <=> SharedPlace(i, l) \/ i = n,
         \A t \in Threads : \A i : OwnPlace(t, i, l)' <=> OwnPlace(t, i, l)
  PROVE  /\ IsFiniteSet(ReleasePlaces(l)')
         /\ Cardinality(ReleasePlaces(l)') = Cardinality(ReleasePlaces(l)) + 1
<1>1. None \notin Threads
  BY ConstantsAssumption
<1>2. ASSUME NEW p PROVE p \in ReleasePlaces(l)' <=> p \in ReleasePlaces(l) \/ p = <<None, n>>
  BY <1>1, PlacesAre, PlacesAreAfter
<1>3. ReleasePlaces(l)' = ReleasePlaces(l) \cup {<<None, n>>} /\ <<None, n>> \notin ReleasePlaces(l)
  BY <1>2, PlacesAre
<1> QED
  BY <1>3, FS_AddElement

\* One task fewer.
LEMMA OneTaskLess ==
  ASSUME TypeInv, TypeInv', NEW l, IsFiniteSet(ReleasePlaces(l)), NEW t \in Threads, NEW n,
         OwnPlace(t, n, l),
         \A i : SharedPlace(i, l)' <=> SharedPlace(i, l),
         \A u \in Threads : \A i : OwnPlace(u, i, l)' <=> OwnPlace(u, i, l) /\ <<u, i>> # <<t, n>>
  PROVE  /\ IsFiniteSet(ReleasePlaces(l)')
         /\ Cardinality(ReleasePlaces(l)') = Cardinality(ReleasePlaces(l)) - 1
<1>1. None \notin Threads
  BY ConstantsAssumption
<1>2. ASSUME NEW p PROVE p \in ReleasePlaces(l)' <=> p \in ReleasePlaces(l) /\ p # <<t, n>>
  BY <1>1, PlacesAre, PlacesAreAfter
<1>3. ReleasePlaces(l)' = ReleasePlaces(l) \ {<<t, n>>} /\ <<t, n>> \in ReleasePlaces(l)
  BY <1>2, PlacesAre
<1> QED
  BY <1>3, FS_RemoveElement

\* The tasks move, each to a place of its own.
LEMMA TasksMove ==
  ASSUME NEW l, IsFiniteSet(ReleasePlaces(l)), NEW f,
         \A p \in ReleasePlaces(l) : f[p] \in ReleasePlaces(l)',
         \A p, q \in ReleasePlaces(l) : f[p] = f[q] => p = q,
         \A q \in ReleasePlaces(l)' : \E p \in ReleasePlaces(l) : f[p] = q
  PROVE  /\ IsFiniteSet(ReleasePlaces(l)')
         /\ Cardinality(ReleasePlaces(l)') = Cardinality(ReleasePlaces(l))
<1>1. PICK g : g = [p \in ReleasePlaces(l) |-> f[p]]
  OBVIOUS
<1>2. PICK S, T : S = ReleasePlaces(l) /\ T = ReleasePlaces(l)'
  OBVIOUS
<1>3. g \in Bijection(S, T)
  BY <1>1, <1>2 DEF Bijection, Injection, Surjection, IsInjective
<1>4. ExistsBijection(S, T)
  BY <1>3 DEF ExistsBijection
<1>5. IsFiniteSet(S)
  BY <1>2
<1>6. IsFiniteSet(T) /\ Cardinality(T) = Cardinality(S)
  BY <1>4, <1>5, FS_Bijection
<1> QED
  BY <1>2, <1>6

-----------------------------------------------------------------------------
(* Calls that only add to the shared queue *)

\* A call goes on to o without touching the tasks it works on.
Proceeds(t, o) ==
  /\ op' = [op EXCEPT ![t] = o]
  /\ o.destroy = op[t].destroy
  /\ o.at # "notify" /\ op[t].at # "notify"
  /\ o.at \notin WorkingOnTasks => o.destroy = <<>>
  /\ o.lsn \in owned \cup {None, op[t].lsn}

\* It adds tasks to the shared queue that release no listener.
AddsNoRelease ==
  \E new \in Seq(DestroyTask) :
    /\ txn'.destroy = txn.destroy \o new
    /\ \A i \in DOMAIN new : new[i].lsn = None /\ new[i].what # "listener"

LEMMA NothingAdded ==
  ASSUME TypeInv, txn'.destroy = txn.destroy
  PROVE  AddsNoRelease
<1>1. txn.destroy \in Seq(DestroyTask) /\ <<>> \in Seq(DestroyTask)
  BY DEF TypeInv, TypeOK, Transaction
<1>2. txn.destroy \o <<>> = txn.destroy
  BY <1>1
<1>3. DOMAIN <<>> = {}
  OBVIOUS
<1>4. PICK new \in Seq(DestroyTask) : new = <<>> /\ DOMAIN new = {}
  BY <1>1, <1>3
<1> QED
  BY <1>2, <1>4 DEF AddsNoRelease

LEMMA OneAdded ==
  ASSUME NEW task \in DestroyTask, task.lsn = None, task.what # "listener",
         txn'.destroy = txn.destroy \o <<task>>
  PROVE  AddsNoRelease
<1>1. <<task>> \in Seq(DestroyTask) /\ \A i \in DOMAIN <<task>> : <<task>>[i] = task
  OBVIOUS
<1> QED
  BY <1>1 DEF AddsNoRelease

\* What a call that starts sets out with.
LEMMA StartsWith ==
  ASSUME TypeInv, QueueInv, NEW t \in Threads, op[t].at = "idle",
         NEW kind, NEW step \in {"flags", "detaching", "end"}, NEW c, NEW l \in owned \cup {None},
         op' = [op EXCEPT ![t] = [Idle EXCEPT !.kind = kind, !.at = step, !.ctx = c, !.lsn = l]]
  PROVE  \E o : Proceeds(t, o) /\ o.at # "retire"
<1> DEFINE o == [Idle EXCEPT !.kind = kind, !.at = step, !.ctx = c, !.lsn = l]
<1>1. op[t].destroy = <<>>
  BY DEF QueueInv, WorkingOnTasks
<1>2. o.destroy = <<>> /\ o.at = step /\ o.lsn = l
  BY DEF Idle
<1>3. op' = [op EXCEPT ![t] = o]
  OBVIOUS
<1>. HIDE DEF o
<1> QED
  BY <1>1, <1>2, <1>3 DEF Proceeds

\* Every call that starts does so with no tasks of its own.
LEMMA StartsProceed ==
  ASSUME TypeInv, QueueInv, NEW t \in Mutators, ApiStarts(t)
  PROVE  op[t].at = "idle" /\ \E o : Proceeds(t, o) /\ o.at # "retire"
<1>1. /\ t \in Threads /\ op \in [Threads -> ApiCall] /\ op[t] \in ApiCall
      /\ None \in owned \cup {None}
  BY ConstantsAssumption DEF TypeInv, TypeOK
<1>2. op[t].at = "idle"
  BY DEF ApiStarts, Attach, AttachRefused, Detach, Replace, ReplaceRefused, Revert, RevertNothing,
         Refused, Starts, BeginTransaction, EndTransaction, Flush, InUserCode
<1>. SUFFICES \E o : Proceeds(t, o) /\ o.at # "retire"
  BY <1>2
<1>3. ASSUME NEW step \in {"flags", "detaching", "end"}, NEW c, NEW l \in owned \cup {None},
             Goes(t, step, c, l)
      PROVE  \E o : Proceeds(t, o) /\ o.at # "retire"
  BY <1>1, <1>2, <1>3, StartsWith DEF Goes
<1>4. CASE Refused(t) \/ EndTransaction(t)
  BY <1>1, <1>3, <1>4 DEF Refused, EndTransaction
<1>5. CASE \E f \in Functions, l \in Listeners : Attach(t, f, l)
  BY <1>3, <1>5 DEF Attach
<1>6. CASE \E l \in Listeners : Detach(t, l)
  BY <1>3, <1>6 DEF Detach
<1>7. CASE \E f \in Functions, r \in Replacements, fast \in BOOLEAN : Replace(t, f, r, fast)
  BY <1>1, <1>3, <1>7 DEF Replace
<1>8. CASE \E f \in Functions : Revert(t, f)
  BY <1>1, <1>3, <1>8 DEF Revert
<1>9. CASE BeginTransaction(t)
  <2>1. op' = [op EXCEPT ![t] = op[t]]
    BY <1>1, <1>9 DEF BeginTransaction
  <2> QED
    BY <1>1, <1>2, <2>1 DEF Proceeds, QueueInv, WorkingOnTasks
<1>10. CASE Flush(t)
  <2> DEFINE o == [Idle EXCEPT !.kind = "flush", !.at = "end"]
  <2>1. o.destroy = <<>> /\ o.at = "end" /\ o.lsn = None /\ op' = [op EXCEPT ![t] = o]
    BY <1>10 DEF Flush, Idle
  <2>2. op[t].destroy = <<>>
    BY <1>1, <1>2 DEF QueueInv, WorkingOnTasks
  <2>. HIDE DEF o
  <2> QED
    BY <1>2, <2>1, <2>2 DEF Proceeds
<1> QED
  BY <1>2, <1>4, <1>5, <1>6, <1>7, <1>8, <1>9, <1>10
     DEF ApiStarts, AttachRefused, ReplaceRefused, RevertNothing

\* ... and adds the release of an array or of a context at most.
LEMMA StartsAdd ==
  ASSUME TypeInv, NEW t \in Mutators, ApiStarts(t)
  PROVE  AddsNoRelease /\ UNCHANGED <<refs, owned, calls>>
<1>1. /\ t \in Threads /\ txn \in Transaction /\ txn.destroy \in Seq(DestroyTask)
      /\ txn.destroy \o <<>> = txn.destroy
  BY ConstantsAssumption, SharedTypes DEF TypeInv, TypeOK
<1>2. UNCHANGED <<refs, owned, calls>>
  BY DEF ApiStarts, Attach, AttachRefused, Detach, Replace, ReplaceRefused, Revert, RevertNothing,
         Refused, Starts, BeginTransaction, EndTransaction, Flush, heap
<1>. SUFFICES AddsNoRelease
  BY <1>2
<1>3. ASSUME NEW new, NEW updates, txn' = Opened(new, updates)
      PROVE  txn'.destroy = txn.destroy \o new
  BY <1>3 DEF Opened
<1>4. CASE Refused(t) \/ (\E l \in Listeners : Detach(t, l))
           \/ \E f \in Functions, r \in Replacements, fast \in BOOLEAN : Replace(t, f, r, fast)
  <2>1. \E updates : txn' = Opened(<<>>, updates)
    BY <1>4 DEF Refused, Detach, Replace
  <2> QED
    BY <1>1, <1>3, <2>1, NothingAdded
<1>5. CASE BeginTransaction(t) \/ Flush(t) \/ EndTransaction(t)
  <2>1. txn'.destroy = txn.destroy
    BY <1>1, <1>5 DEF BeginTransaction, Flush, EndTransaction, Transaction
  <2> QED
    BY <2>1, NothingAdded
<1>6. CASE \E f \in Functions, l \in Listeners : Attach(t, f, l)
  <2>1. PICK c, updates :
          c \in Ctxs /\ txn' = Opened(<<ArrayTask(c, Len(entries[c]))>>, updates)
    BY <1>6 DEF Attach
  <2>2. ArrayTask(c, Len(entries[c])) \in DestroyTask
    BY <2>1, CurrentType DEF ArrayTask, DestroyTask
  <2>3. ArrayTask(c, Len(entries[c])).lsn = None /\ ArrayTask(c, Len(entries[c])).what # "listener"
    BY DEF ArrayTask
  <2> QED
    BY <1>3, <2>1, <2>2, <2>3, OneAdded
<1>7. CASE \E f \in Functions : Revert(t, f)
  <2>1. PICK c, updates, gone :
          /\ c \in Ctxs /\ gone \in BOOLEAN
          /\ txn' = Opened(IF gone THEN <<ContextTask(c)>> ELSE <<>>, updates)
    <3>1. PICK a \in Addr :
            LET ctx == [fc[table[a]] EXCEPT !.repl = None]
                gone == IsEmpty(ctx, Current(table[a])) IN
            /\ table[a] # None
            /\ txn' = Opened(IF gone THEN <<ContextTask(table[a])>> ELSE <<>>,
                             txn.updates \cup IF gone THEN DestroyUpdates(table[a]) ELSE {})
      BY <1>7 DEF Revert
    <3>2. table[a] \in Ctxs
      BY <3>1 DEF TypeInv, TypeOK
    <3>3. IsEmpty([fc[table[a]] EXCEPT !.repl = None], Current(table[a])) \in BOOLEAN
      BY DEF IsEmpty
    <3> QED
      BY <3>1, <3>2, <3>3
  <2>2. CASE gone
    <3>1. /\ ContextTask(c) \in DestroyTask /\ ContextTask(c).lsn = None
          /\ ContextTask(c).what # "listener"
      BY <2>1 DEF ContextTask, DestroyTask
    <3> QED
      BY <1>3, <2>1, <2>2, <3>1, OneAdded
  <2>3. CASE ~gone
    <3>1. txn' = Opened(<<>>, updates)
      BY <2>1, <2>3
    <3> QED
      BY <1>1, <1>3, <3>1, NothingAdded
  <2> QED
    BY <2>2, <2>3
<1> QED
  BY <1>2, <1>4, <1>5, <1>6, <1>7 DEF ApiStarts, AttachRefused, ReplaceRefused, RevertNothing

\* So it is with the steps of a call other than those that move a task.
LEMMA StepsProceed ==
  ASSUME TypeInv, QueueInv, NEW t \in Mutators,
         \/ AttachFlags(t) \/ DetachRetire(t) \/ DetachDone(t) \/ EndNothingToDo(t)
         \/ (\E c \in Ctxs : ActivateUpdate(t, c) \/ DeactivateUpdate(t, c))
         \/ Patched(t) \/ TasksDone(t) \/ Relock(t)
  PROVE  \E o : Proceeds(t, o) /\ o.at # "retire"
<1>1. /\ t \in Threads /\ op \in [Threads -> ApiCall] /\ op[t] \in ApiCall
      /\ op[t].at \notin WorkingOnTasks => op[t].destroy = <<>>
  BY ConstantsAssumption DEF TypeInv, TypeOK, QueueInv
<1>2. ASSUME NEW o, op' = [op EXCEPT ![t] = o], o.destroy = op[t].destroy,
             o.at \notin {"retire", "notify"}, op[t].at # "notify",
             o.at \notin WorkingOnTasks => o.destroy = <<>>,
             o.lsn \in owned \cup {None, op[t].lsn}
      PROVE  \E x : Proceeds(t, x) /\ x.at # "retire"
  BY <1>2 DEF Proceeds
<1>3. CASE AttachFlags(t) \/ Patched(t) \/ Relock(t)
  <2>1. PICK step :
          /\ op' = [op EXCEPT ![t] = [op[t] EXCEPT !.at = step]] /\ op[t].at # "notify"
          /\ \/ step = "tasks"
             \/ step = "end" /\ op[t].at = "flags"
    BY <1>3 DEF AttachFlags, Patched, Relock
  <2> DEFINE o == [op[t] EXCEPT !.at = step]
  <2>2. o.at = step /\ o.destroy = op[t].destroy /\ o.lsn = op[t].lsn
    BY <1>1 DEF ApiCall
  <2>3. o.at \notin WorkingOnTasks => o.destroy = <<>>
    BY <1>1, <2>1, <2>2 DEF WorkingOnTasks
  <2>4. op' = [op EXCEPT ![t] = o]
    BY <2>1
  <2>. HIDE DEF o
  <2> QED
    BY <1>2, <2>1, <2>2, <2>3, <2>4
<1>4. CASE DetachRetire(t)
  <2> DEFINE o == [op[t] EXCEPT !.at = "detaching", !.ctx = None]
  <2>1. /\ o.at = "detaching" /\ o.destroy = op[t].destroy /\ o.lsn = op[t].lsn
        /\ op' = [op EXCEPT ![t] = o] /\ op[t].at = "retire"
    BY <1>1, <1>4 DEF ApiCall, DetachRetire
  <2>. HIDE DEF o
  <2> QED
    BY <1>1, <1>2, <2>1 DEF WorkingOnTasks
<1>5. CASE DetachDone(t)
  <2> DEFINE o == [op[t] EXCEPT !.at = "end", !.lsn = None]
  <2>1. /\ o.at = "end" /\ o.destroy = op[t].destroy /\ o.lsn = None
        /\ op' = [op EXCEPT ![t] = o] /\ op[t].at = "detaching"
    BY <1>1, <1>5 DEF ApiCall, DetachDone
  <2>. HIDE DEF o
  <2> QED
    BY <1>1, <1>2, <2>1 DEF WorkingOnTasks
<1>6. CASE EndNothingToDo(t) \/ TasksDone(t)
  <2>1. op' = [op EXCEPT ![t] = Idle] /\ op[t].at # "notify" /\ op[t].destroy = <<>>
    BY <1>1, <1>6 DEF EndNothingToDo, TasksDone, Returns, WorkingOnTasks
  <2>2. Idle.at = "idle" /\ Idle.destroy = <<>> /\ Idle.lsn = None
    BY DEF Idle
  <2> QED
    BY <1>2, <2>1, <2>2
<1>7. CASE \E c \in Ctxs : ActivateUpdate(t, c) \/ DeactivateUpdate(t, c)
  <2>1. PICK updates : op' = [op EXCEPT ![t] = [op[t] EXCEPT !.updates = updates]]
                       /\ op[t].at = "patch"
    BY <1>7 DEF ActivateUpdate, DeactivateUpdate
  <2> DEFINE o == [op[t] EXCEPT !.updates = updates]
  <2>2. /\ o.at = "patch" /\ o.destroy = op[t].destroy /\ o.lsn = op[t].lsn
        /\ op' = [op EXCEPT ![t] = o]
    BY <1>1, <2>1 DEF ApiCall
  <2>. HIDE DEF o
  <2> QED
    BY <1>2, <2>1, <2>2 DEF WorkingOnTasks
<1> QED
  BY <1>3, <1>4, <1>5, <1>6, <1>7

\* Those among them that neither retire a listener nor detach one.
LEMMA StepsAdd ==
  ASSUME TypeInv, NEW t \in Mutators,
         \/ AttachFlags(t) \/ DetachDone(t) \/ EndNothingToDo(t)
         \/ (\E c \in Ctxs : ActivateUpdate(t, c) \/ DeactivateUpdate(t, c))
         \/ Patched(t) \/ TasksDone(t) \/ Relock(t)
  PROVE  /\ AddsNoRelease /\ op[t].at # "retire"
         /\ UNCHANGED <<refs, owned, calls, entries>>
         /\ \A c \in Ctxs : fc'[c].state = fc[c].state
<1>1. t \in Threads /\ txn \in Transaction /\ fc \in [Ctxs -> FunctionContext]
  BY ConstantsAssumption DEF TypeInv, TypeOK
<1>2. op[t].at # "retire" /\ UNCHANGED <<refs, owned, calls, entries>>
  BY DEF AttachFlags, DetachDone, EndNothingToDo, ActivateUpdate, DeactivateUpdate, Patched,
         TasksDone, Relock, heap
<1>3. txn'.destroy = txn.destroy
  <2>1. CASE EndNothingToDo(t)
    BY <1>1, <2>1 DEF EndNothingToDo, Transaction
  <2>2. CASE ~EndNothingToDo(t)
    BY <2>2 DEF AttachFlags, DetachDone, ActivateUpdate, DeactivateUpdate, Patched,
                TasksDone, Relock
  <2> QED
    BY <2>1, <2>2
<1>4. \A c \in Ctxs : fc'[c].state = fc[c].state
  <2>1. CASE DetachDone(t) \/ EndNothingToDo(t) \/ Patched(t) \/ TasksDone(t) \/ Relock(t)
    BY <2>1 DEF DetachDone, EndNothingToDo, Patched, TasksDone, Relock, heap
  <2>2. CASE AttachFlags(t)
    BY <1>1, <2>2 DEF AttachFlags, FunctionContext
  <2>3. CASE \E c \in Ctxs : ActivateUpdate(t, c) \/ DeactivateUpdate(t, c)
    <3>1. PICK c, on : fc' = fc \/ fc' = [fc EXCEPT ![c].activated = on]
      BY <2>3 DEF ActivateUpdate, DeactivateUpdate
    <3> QED
      BY <1>1, <3>1 DEF FunctionContext
  <2> QED
    BY <2>1, <2>2, <2>3
<1> QED
  BY <1>2, <1>3, <1>4, NothingAdded

\* Detach takes the listener out of an array, and knows what it has to retire.
LEMMA DetachFromProceeds ==
  ASSUME TypeInv, QueueInv, NEW t \in Mutators, NEW c \in Ctxs, DetachFrom(t, c)
  PROVE  /\ AddsNoRelease /\ UNCHANGED <<refs, owned, calls, fc>>
         /\ op[t].at = "detaching" /\ op[t].lsn \in Listeners
         /\ \E o : /\ Proceeds(t, o) /\ o.at = "retire" /\ o.ctx = c
                   /\ o.lsn = op[t].lsn
<1>1. /\ t \in Threads /\ op \in [Threads -> ApiCall] /\ op[t] \in ApiCall
      /\ txn \in Transaction /\ txn.destroy \in Seq(DestroyTask)
      /\ op[t].at = "detaching" /\ op[t].lsn \in Listeners /\ op[t].destroy = <<>>
  BY ConstantsAssumption, SharedTypes
     DEF TypeInv, TypeOK, DetachFrom, CallsConsistent, CallConsistent, QueueInv, WorkingOnTasks
<1> DEFINE o == [op[t] EXCEPT !.at = "retire", !.ctx = c]
          task == ArrayTask(c, Len(entries[c]))
<1>2. /\ o.at = "retire" /\ o.ctx = c /\ o.lsn = op[t].lsn /\ o.destroy = op[t].destroy
      /\ op' = [op EXCEPT ![t] = o]
  BY <1>1 DEF DetachFrom, ApiCall
<1>3. Proceeds(t, o)
  <2>. HIDE DEF o
  <2> QED
    BY <1>1, <1>2 DEF Proceeds, WorkingOnTasks
<1>4. task \in DestroyTask /\ task.lsn = None /\ task.what # "listener"
  BY CurrentType DEF ArrayTask, DestroyTask
<1>5. txn'.destroy = Append(txn.destroy, task)
  BY <1>1 DEF DetachFrom, Transaction
<1>. HIDE DEF task, o
<1>6. txn'.destroy = txn.destroy \o <<task>>
  BY <1>1, <1>4, <1>5
<1>7. AddsNoRelease
  BY <1>4, <1>6, OneAdded
<1> QED
  BY <1>1, <1>2, <1>3, <1>7 DEF DetachFrom

-----------------------------------------------------------------------------
(* What such calls keep *)

\* What is added comes after what is there.
LEMMA AddedLast ==
  ASSUME TypeInv, NEW new \in Seq(DestroyTask), txn'.destroy = txn.destroy \o new
  PROVE  /\ \A i \in DOMAIN txn.destroy :
              i \in DOMAIN txn'.destroy /\ txn'.destroy[i] = txn.destroy[i]
         /\ \A i \in DOMAIN txn'.destroy :
              \/ i \in DOMAIN txn.destroy
              \/ \E j \in DOMAIN new : i = Len(txn.destroy) + j /\ txn'.destroy[i] = new[j]
         /\ \A j \in DOMAIN new :
              /\ Len(txn.destroy) + j \in DOMAIN txn'.destroy
              /\ Len(txn.destroy) + j \notin DOMAIN txn.destroy
              /\ txn'.destroy[Len(txn.destroy) + j] = new[j]
<1>1. PICK q \in Seq(DestroyTask) : q = txn.destroy
  BY DEF TypeInv, TypeOK, Transaction
<1>2. PICK r : r = q \o new
  OBVIOUS
<1>3. \A i \in DOMAIN q : i \in DOMAIN r /\ r[i] = q[i]
  BY <1>2
<1>4. ASSUME NEW i \in DOMAIN r, i \notin DOMAIN q
      PROVE  \E j \in DOMAIN new : i = Len(q) + j /\ r[i] = new[j]
  <2>1. i - Len(q) \in DOMAIN new /\ i = Len(q) + (i - Len(q)) /\ r[i] = new[i - Len(q)]
    BY <1>2, <1>4
  <2> QED
    BY <2>1
<1>5. \A j \in DOMAIN new :
        Len(q) + j \in DOMAIN r /\ Len(q) + j \notin DOMAIN q /\ r[Len(q) + j] = new[j]
  BY <1>2
<1>6. txn'.destroy = r /\ txn.destroy = q
  BY <1>1, <1>2
<1> QED
  BY <1>3, <1>4, <1>5, <1>6, Zenon

\* The tasks of the calls stay where they are.
LEMMA OwnPlacesStay ==
  ASSUME TypeInv, NEW t \in Threads, NEW o, Proceeds(t, o), NEW l
  PROVE  \A u \in Threads : \A i : OwnPlace(u, i, l)' <=> OwnPlace(u, i, l)
<1>1. \A u \in Threads : op'[u] = IF u = t THEN o ELSE op[u]
  BY DEF TypeInv, TypeOK, Proceeds
<1> QED
  BY <1>1 DEF Proceeds, OwnPlace

LEMMA AdditionsKeepPlaces ==
  ASSUME TypeInv, NEW t \in Threads, NEW o, Proceeds(t, o), AddsNoRelease
  PROVE  \A l \in Listeners : SamePlaces(l)
<1>1. PICK new \in Seq(DestroyTask) :
        /\ txn'.destroy = txn.destroy \o new
        /\ \A i \in DOMAIN new : new[i].lsn = None
  BY DEF AddsNoRelease
<1>2. \A l \in Listeners : \A i : SharedPlace(i, l)' <=> SharedPlace(i, l)
  <2>1. /\ \A i \in DOMAIN txn.destroy :
             i \in DOMAIN txn'.destroy /\ txn'.destroy[i] = txn.destroy[i]
        /\ \A i \in DOMAIN txn'.destroy :
             \/ i \in DOMAIN txn.destroy
             \/ \E j \in DOMAIN new : i = Len(txn.destroy) + j /\ txn'.destroy[i] = new[j]
    BY <1>1, AddedLast
  <2> QED
    BY <1>1, <2>1, ConstantsAssumption DEF SharedPlace
<1> QED
  BY <1>2, OwnPlacesStay DEF SamePlaces

LEMMA AdditionsKeepQueues ==
  ASSUME TypeInv, QueueInv, NEW t \in Threads, NEW o, Proceeds(t, o),
         NEW new \in Seq(DestroyTask), txn'.destroy = txn.destroy \o new,
         \A i \in DOMAIN new : ForListener(new[i])
  PROVE  QueueInv'
<1>1. \A u \in Threads : op'[u] = IF u = t THEN o ELSE op[u]
  BY DEF TypeInv, TypeOK, Proceeds
<1>2. \A i \in DOMAIN txn'.destroy : ForListener(txn'.destroy[i])
  BY AddedLast DEF QueueInv
<1>3. \A u \in Threads : \A i \in DOMAIN op'[u].destroy : ForListener(op'[u].destroy[i])
  BY <1>1 DEF QueueInv, Proceeds
<1>4. \A u \in Threads : op'[u].at = "notify" => ForListener(op'[u].task)
  BY <1>1 DEF QueueInv, Proceeds
<1>5. \A u \in Threads : op'[u].at \notin WorkingOnTasks => op'[u].destroy = <<>>
  BY <1>1 DEF QueueInv, Proceeds
<1> QED
  BY <1>2, <1>3, <1>4, <1>5 DEF QueueInv, ForListener

LEMMA WaitingStays ==
  ASSUME TypeInv, NEW t \in Threads, NEW o, Proceeds(t, o),
         NEW new \in Seq(DestroyTask), txn'.destroy = txn.destroy \o new,
         NEW c, NEW l, IsWaiting(c, l)
  PROVE  IsWaiting(c, l)'
<1>1. \A u \in Threads : op'[u].destroy = op[u].destroy
  BY DEF TypeInv, TypeOK, Proceeds
<1>2. \A i \in DOMAIN txn.destroy : i \in DOMAIN txn'.destroy /\ txn'.destroy[i] = txn.destroy[i]
  BY AddedLast
<1> QED
  BY <1>1, <1>2 DEF IsWaiting

\* Whoever has a listener still owns it.
LEMMA OwnersStay ==
  ASSUME TypeInv, OwnedInv, NEW t \in Threads, NEW o, Proceeds(t, o), UNCHANGED owned,
         \A c \in Ctxs : fc'[c].state = "unborn" => Current(c)'.live = {},
         \A c \in Ctxs : fc'[c].state = "live" => Current(c)'.live \subseteq owned
  PROVE  OwnedInv'
<1>1. \A u \in Threads : op'[u] = IF u = t THEN o ELSE op[u]
  BY DEF TypeInv, TypeOK, Proceeds
<1>2. \A u \in Threads : op'[u].lsn # None => op'[u].lsn \in owned
  BY <1>1 DEF OwnedInv, Proceeds
<1> QED
  BY <1>2 DEF OwnedInv

\* The arrays invocations took stay, and so do their listeners.
LEMMA ListenersStay ==
  ASSUME TypeInv, SnapshotInv, UNCHANGED calls, ArraysStay,
         \A u \in Threads : \A i \in DOMAIN calls[u] : Safe(calls[u][i]) =>
           \A l : IsKept(calls[u][i].ctx, l) => IsKept(calls[u][i].ctx, l)'
  PROVE  SnapshotInv'
<1> SUFFICES ASSUME NEW u \in Threads, NEW i \in DOMAIN calls[u],
                    Safe(calls[u][i]), calls[u][i].snap # 0,
                    NEW l \in entries'[calls[u][i].ctx][calls[u][i].snap].live
             PROVE  IsKept(calls[u][i].ctx, l)'
  <2>1. \A t \in Threads : \A i \in DOMAIN calls[t] :
          Safe(calls[t][i])' <=> Safe(calls[t][i])
    BY DEF Safe
  <2>2. \A t \in Threads : \A i \in DOMAIN calls[t] :
          Snapshot(calls[t][i])' = entries'[calls[t][i].ctx][calls[t][i].snap]
    BY DEF Snapshot
  <2> QED
    BY <2>1, <2>2, Zenon DEF SnapshotInv
<1>1. calls[u][i].ctx \in Ctxs /\ calls[u][i].snap \in DOMAIN entries[calls[u][i].ctx]
  BY DEF TypeInv, FramesConsistent, FrameConsistent
<1>2. l \in Snapshot(calls[u][i]).live
  BY <1>1 DEF ArraysStay, Snapshot
<1>3. IsKept(calls[u][i].ctx, l)
  BY <1>2 DEF SnapshotInv
<1> QED
  BY <1>3

\* A call in which nothing is detached keeps what invocations need.
LEMMA QuietCallsKeepListeners ==
  ASSUME TypeInv, SnapshotInv, UNCHANGED calls, ArraysStay,
         NEW t \in Threads, NEW o, Proceeds(t, o), AddsNoRelease, op[t].at # "retire",
         \A c \in Ctxs : Current(c).live \subseteq Current(c)'.live
  PROVE  SnapshotInv'
<1>1. \A u \in Threads : op'[u] = IF u = t THEN o ELSE op[u]
  BY DEF TypeInv, TypeOK, Proceeds
<1>2. ASSUME NEW c \in Ctxs, NEW l, IsKept(c, l) PROVE IsKept(c, l)'
  <2>1. CASE l \in Current(c).live
    BY <2>1 DEF IsKept
  <2>2. CASE IsRetiring(c, l)
    <3>1. IsRetiring(c, l)'
      BY <1>1, <2>2 DEF IsRetiring
    <3> QED
      BY <3>1 DEF IsKept
  <2>3. CASE IsWaiting(c, l)
    <3>1. IsWaiting(c, l)'
      BY <2>3, WaitingStays DEF AddsNoRelease
    <3> QED
      BY <3>1 DEF IsKept
  <2> QED
    BY <1>2, <2>1, <2>2, <2>3 DEF IsKept
<1>3. \A u \in Threads : \A i \in DOMAIN calls[u] : Safe(calls[u][i]) => calls[u][i].ctx \in Ctxs
  BY DEF TypeInv, FramesConsistent, FrameConsistent, Safe
<1> QED
  BY <1>2, <1>3, ListenersStay

\* The references are right as long as no task and no reference comes or goes.
LEMMA SamePlacesKeepReferences ==
  ASSUME TypeInv, TypeInv', RefsInv, UNCHANGED <<refs, owned>>,
         \A l \in Listeners : SamePlaces(l)
  PROVE  RefsInv'
<1>1. \A l \in Listeners : ReleasePlaces(l)' = ReleasePlaces(l)
  BY SameReferences
<1> QED
  BY <1>1 DEF RefsInv, References

\* A call starts, or goes on, without detaching or attaching anything.
LEMMA QuietCallsKeep ==
  ASSUME TypeInv, TypeInv', ListenersKept, UNCHANGED <<refs, owned, calls, entries>>,
         NEW t \in Threads, NEW o, Proceeds(t, o), AddsNoRelease, op[t].at # "retire",
         \A c \in Ctxs : fc'[c].state = fc[c].state
                         \/ (fc[c].state = "unborn" /\ fc'[c].state = "live")
  PROVE  ListenersKept'
<1>. USE DEF ListenersKept
<1>1. QueueInv'
  <2>1. PICK new \in Seq(DestroyTask) :
          /\ txn'.destroy = txn.destroy \o new
          /\ \A i \in DOMAIN new : ForListener(new[i])
    BY DEF AddsNoRelease, ForListener
  <2> QED
    BY <2>1, AdditionsKeepQueues
<1>2. RefsInv'
  BY AdditionsKeepPlaces, SamePlacesKeepReferences
<1>3. \A c \in Ctxs : Current(c)' = Current(c)
  BY DEF Current
<1>4. OwnedInv'
  <2>1. \A c \in Ctxs : fc'[c].state = "unborn" => Current(c)'.live = {}
    BY <1>3 DEF OwnedInv
  <2>2. \A c \in Ctxs : fc'[c].state = "live" => Current(c)'.live \subseteq owned
    BY <1>3 DEF OwnedInv
  <2> QED
    BY <2>1, <2>2, OwnersStay
<1>5. SnapshotInv'
  BY <1>3, QuietCallsKeepListeners DEF ArraysStay
<1> QED
  BY <1>1, <1>2, <1>4, <1>5

\* The context of a call that instruments is there, or comes into being.
LEMMA InstrumentStates ==
  ASSUME TypeInv, NEW a \in Addr, NEW c \in Ctxs, NEW fast \in BOOLEAN, Instruments(a, fast, c)
  PROVE  /\ Instrumented(a, fast, c).state = fc[c].state
              \/ (fc[c].state = "unborn" /\ Instrumented(a, fast, c).state = "live")
         /\ [Instrumented(a, fast, c) EXCEPT !.state = "live"].state = "live"
<1>1. CASE table[a] = c
  BY <1>1 DEF Instrumented, TypeInv, TypeOK, FunctionContext
<1>2. CASE table[a] # c
  <2>1. fc[c].state = "unborn"
    BY <1>2 DEF Instruments
  <2>2. Instrumented(a, fast, c) = NewContext(a, fast)
    BY <1>2 DEF Instrumented
  <2>3. NewContext(a, fast).state = "live"
    BY DEF NewContext, Unborn
  <2> QED
    BY <2>1, <2>2, <2>3 DEF NewContext, Unborn
<1> QED
  BY <1>1, <1>2

LEMMA StartsKeep ==
  ASSUME TypeInv, TypeInv', ListenersKept, NEW t \in Mutators, ApiStarts(t),
         ~\E f \in Functions, l \in Listeners : Attach(t, f, l)
  PROVE  ListenersKept'
<1>1. t \in Threads /\ fc \in [Ctxs -> FunctionContext] /\ QueueInv
  BY ConstantsAssumption DEF TypeInv, TypeOK, ListenersKept
<1>2. UNCHANGED entries
  BY DEF ApiStarts, AttachRefused, Detach, Replace, ReplaceRefused, Revert, RevertNothing,
         Refused, Starts, BeginTransaction, EndTransaction, Flush, heap
<1>3. \A c \in Ctxs : fc'[c].state = fc[c].state
                      \/ (fc[c].state = "unborn" /\ fc'[c].state = "live")
  <2>1. CASE UNCHANGED fc
    BY <2>1
  <2>2. CASE \E f \in Functions, r \in Replacements, fast \in BOOLEAN : Replace(t, f, r, fast)
    <3>0. PICK f \in Functions, r \in Replacements, fast \in BOOLEAN : Replace(t, f, r, fast)
      BY <2>2
    <3>1. PICK a \in Addr, c \in Ctxs :
            /\ Instruments(a, fast, c)
            /\ fc' = [fc EXCEPT ![c] = [Instrumented(a, fast, c) EXCEPT !.repl = r, !.original = r]]
      BY <3>0 DEF Replace
    <3>2. /\ Instrumented(a, fast, c).state = fc[c].state
               \/ (fc[c].state = "unborn" /\ Instrumented(a, fast, c).state = "live")
          /\ Instrumented(a, fast, c) \in FunctionContext
      BY <1>1, <3>1, InstrumentStates, InstrumentedType
    <3>3. [Instrumented(a, fast, c) EXCEPT !.repl = r, !.original = r].state
            = Instrumented(a, fast, c).state
      BY <3>2 DEF FunctionContext
    <3> QED
      BY <1>1, <3>1, <3>2, <3>3
  <2>3. CASE \E f \in Functions : Revert(t, f)
    <3>1. PICK a, gone :
            /\ a \in Addr /\ table[a] # None
            /\ fc' = [fc EXCEPT ![table[a]] = [[fc[table[a]] EXCEPT !.repl = None]
                                                 EXCEPT !.destroyed = gone]]
      BY <2>3 DEF Revert
    <3>2. table[a] \in Ctxs
      BY <3>1 DEF TypeInv, TypeOK
    <3> QED
      BY <1>1, <3>1, <3>2 DEF FunctionContext
  <2> QED
    <3>1. \/ Refused(t) \/ (\E l \in Listeners : Detach(t, l))
          \/ BeginTransaction(t) \/ EndTransaction(t) \/ Flush(t)
          \/ (\E f \in Functions, r \in Replacements, fast \in BOOLEAN : Replace(t, f, r, fast))
          \/ (\E f \in Functions : Revert(t, f))
      BY DEF ApiStarts, AttachRefused, ReplaceRefused, RevertNothing
    <3>2. Refused(t) \/ (\E l \in Listeners : Detach(t, l)) \/ BeginTransaction(t)
          \/ EndTransaction(t) \/ Flush(t) => UNCHANGED fc
      BY DEF Refused, Detach, BeginTransaction, EndTransaction, Flush, heap
    <3> QED
      BY <2>1, <2>2, <2>3, <3>1, <3>2
<1>4. op[t].at # "retire" /\ AddsNoRelease /\ UNCHANGED <<refs, owned, calls>>
  BY <1>1, StartsProceed, StartsAdd
<1>5. PICK o : Proceeds(t, o)
  BY <1>1, StartsProceed
<1> QED
  BY <1>1, <1>2, <1>3, <1>4, <1>5, QuietCallsKeep

LEMMA StepsKeep ==
  ASSUME TypeInv, TypeInv', ListenersKept, NEW t \in Mutators,
         \/ AttachFlags(t) \/ DetachDone(t) \/ EndNothingToDo(t)
         \/ (\E c \in Ctxs : ActivateUpdate(t, c) \/ DeactivateUpdate(t, c))
         \/ Patched(t) \/ TasksDone(t) \/ Relock(t)
  PROVE  ListenersKept'
<1>1. t \in Threads /\ QueueInv
  BY ConstantsAssumption DEF ListenersKept
<1>2. PICK o : Proceeds(t, o)
  BY <1>1, StepsProceed
<1> QED
  BY <1>1, <1>2, StepsAdd, QuietCallsKeep

-----------------------------------------------------------------------------
(* Attaching and detaching *)

\* Only a listener whose creator has it is attached.
LEMMA AttachKeeps ==
  ASSUME TypeInv, TypeInv', SharedBorn, ListenersKept, NEW t \in Mutators, NEW f \in Functions,
         NEW l \in Listeners, Attach(t, f, l)
  PROVE  ListenersKept'
<1>. USE DEF ListenersKept
<1>1. t \in Threads /\ fc \in [Ctxs -> FunctionContext] /\ ApiStarts(t)
  BY ConstantsAssumption DEF TypeInv, TypeOK, ApiStarts
<1>2. op[t].at = "idle" /\ AddsNoRelease /\ UNCHANGED <<refs, owned, calls>>
  BY <1>1, StartsProceed, StartsAdd
<1>3. PICK o : Proceeds(t, o)
  BY <1>1, StartsProceed
<1>4. PICK a \in Addr, c \in Ctxs :
        /\ Instruments(a, FALSE, c)
        /\ fc' = [fc EXCEPT ![c] = Instrumented(a, FALSE, c)]
        /\ entries' = [entries EXCEPT ![c] = Append(@, WithListener(Current(c), l))]
  BY DEF Attach
<1>5. /\ Current(c)' = WithListener(Current(c), l)
      /\ \A d \in Ctxs : d # c => Current(d)' = Current(d)
      /\ ArraysStay
  BY <1>4, CurrentType, ListenersType, NewArray
<1>6. Current(c)'.live = Current(c).live \cup {l}
  BY <1>5 DEF WithListener
<1>7. fc'[c].state = Instrumented(a, FALSE, c).state /\ \A d \in Ctxs : d # c => fc'[d] = fc[d]
  BY <1>1, <1>4
<1>8. fc'[c].state # "unborn" /\ (fc'[c].state = "live" => Current(c).live \subseteq owned)
  <2>1. CASE table[a] = c
    <3>1. fc[c].state # "unborn" /\ fc'[c].state = fc[c].state
      BY <1>7, <2>1 DEF Instrumented, SharedBorn, Born
    <3> QED
      BY <3>1 DEF OwnedInv
  <2>2. CASE table[a] # c
    <3>1. fc[c].state = "unborn" /\ Instrumented(a, FALSE, c).state = "live"
      BY <1>4, <2>2 DEF Instruments, Instrumented, NewContext, Unborn
    <3> QED
      BY <1>7, <3>1 DEF OwnedInv
  <2> QED
    BY <2>1, <2>2
<1>9. QueueInv'
  <2>1. PICK new \in Seq(DestroyTask) :
          /\ txn'.destroy = txn.destroy \o new
          /\ \A i \in DOMAIN new : ForListener(new[i])
    BY <1>2 DEF AddsNoRelease, ForListener
  <2> QED
    BY <1>1, <1>3, <2>1, AdditionsKeepQueues
<1>10. RefsInv'
  BY <1>1, <1>2, <1>3, AdditionsKeepPlaces, SamePlacesKeepReferences
<1>11. OwnedInv'
  <2>1. l \in owned
    BY DEF Attach
  <2>2. ASSUME NEW d \in Ctxs
        PROVE  /\ fc'[d].state = "unborn" => Current(d)'.live = {}
               /\ fc'[d].state = "live" => Current(d)'.live \subseteq owned
    <3>1. CASE d # c
      BY <1>5, <1>7, <3>1 DEF OwnedInv
    <3>2. CASE d = c
      BY <1>6, <1>8, <2>1, <3>2
    <3> QED
      BY <3>1, <3>2
  <2> QED
    BY <1>1, <1>2, <1>3, <2>2, OwnersStay
<1>12. SnapshotInv'
  <2>1. \A d \in Ctxs : Current(d).live \subseteq Current(d)'.live
    BY <1>5, <1>6
  <2> QED
    BY <1>1, <1>2, <1>3, <1>5, <2>1, QuietCallsKeepListeners
<1> QED
  BY <1>9, <1>10, <1>11, <1>12

\* A listener taken out of an array is about to be retired.
LEMMA DetachFromKeeps ==
  ASSUME TypeInv, TypeInv', ListenersKept, NEW t \in Mutators, NEW c \in Ctxs, DetachFrom(t, c)
  PROVE  ListenersKept'
<1>. USE DEF ListenersKept
<1>1. /\ t \in Threads /\ AddsNoRelease /\ UNCHANGED <<refs, owned, calls, fc>>
      /\ op[t].at = "detaching" /\ op[t].lsn \in Listeners
  BY DetachFromProceeds, ConstantsAssumption
<1>2. PICK o : Proceeds(t, o) /\ o.at = "retire" /\ o.ctx = c /\ o.lsn = op[t].lsn
  BY DetachFromProceeds
<1>3. \A u \in Threads : op'[u] = IF u = t THEN o ELSE op[u]
  BY <1>1, <1>2 DEF TypeInv, TypeOK, Proceeds
<1>4. /\ Current(c)' = WithoutListener(Current(c), op[t].lsn)
      /\ \A d \in Ctxs : d # c => Current(d)' = Current(d)
      /\ ArraysStay
  BY <1>1, CurrentType, ListenersType, NewArray DEF DetachFrom
<1>5. Current(c)'.live = Current(c).live \ {op[t].lsn}
  BY <1>4 DEF WithoutListener
<1>6. QueueInv'
  <2>1. PICK new \in Seq(DestroyTask) :
          /\ txn'.destroy = txn.destroy \o new
          /\ \A i \in DOMAIN new : ForListener(new[i])
    BY <1>1 DEF AddsNoRelease, ForListener
  <2> QED
    BY <1>1, <1>2, <2>1, AdditionsKeepQueues
<1>7. RefsInv'
  BY <1>1, <1>2, AdditionsKeepPlaces, SamePlacesKeepReferences
<1>8. OwnedInv'
  <2>1. \A d \in Ctxs : Current(d)'.live \subseteq Current(d).live
    BY <1>4, <1>5
  <2>2. \A d \in Ctxs : fc'[d].state = "unborn" => Current(d)'.live = {}
    BY <1>1, <2>1 DEF OwnedInv
  <2>3. \A d \in Ctxs : fc'[d].state = "live" => Current(d)'.live \subseteq owned
    BY <1>1, <2>1 DEF OwnedInv
  <2> QED
    BY <1>1, <1>2, <2>2, <2>3, OwnersStay
<1>9. ASSUME NEW d \in Ctxs, NEW l, IsKept(d, l) PROVE IsKept(d, l)'
  <2>1. CASE l \in Current(d).live
    <3>1. l \in Current(d)'.live \/ (d = c /\ l = op[t].lsn)
      BY <1>4, <1>5, <2>1
    <3>2. IsRetiring(c, op[t].lsn)'
      BY <1>1, <1>2, <1>3 DEF IsRetiring
    <3>3. l \in Current(d)'.live \/ IsRetiring(d, l)'
      BY <1>1, <1>2, <1>3, <3>1 DEF IsRetiring
    <3> QED
      BY <3>3 DEF IsKept
  <2>2. CASE IsRetiring(d, l)
    <3>1. IsRetiring(d, l)'
      BY <1>1, <1>3, <2>2 DEF IsRetiring
    <3> QED
      BY <3>1 DEF IsKept
  <2>3. CASE IsWaiting(d, l)
    <3>1. IsWaiting(d, l)'
      BY <1>1, <1>2, <2>3, WaitingStays DEF AddsNoRelease
    <3> QED
      BY <3>1 DEF IsKept
  <2> QED
    BY <1>9, <2>1, <2>2, <2>3 DEF IsKept
<1>10. SnapshotInv'
  <2>1. \A u \in Threads : \A i \in DOMAIN calls[u] : Safe(calls[u][i]) => calls[u][i].ctx \in Ctxs
    BY DEF TypeInv, FramesConsistent, FrameConsistent, Safe
  <2> QED
    BY <1>1, <1>4, <1>9, <2>1, ListenersStay
<1> QED
  BY <1>6, <1>7, <1>8, <1>10

\* What retiring adds to the queue: the release of the listener first.
LEMMA RetireAdds ==
  ASSUME TypeInv, NEW t \in Mutators, DetachRetire(t)
  PROVE  /\ op[t].lsn \in Listeners /\ op[t].ctx \in Ctxs
         /\ \E new \in Seq(DestroyTask) :
              /\ txn'.destroy = txn.destroy \o new
              /\ 1 \in DOMAIN new /\ new[1] = ListenerTask(op[t].ctx, op[t].lsn)
              /\ \A i \in DOMAIN new : i # 1 => new[i].lsn = None /\ new[i].what # "listener"
<1>1. /\ t \in Threads /\ txn \in Transaction /\ txn.destroy \in Seq(DestroyTask)
      /\ op[t].at = "retire" /\ op[t].lsn \in Listeners /\ op[t].ctx \in Ctxs
  BY ConstantsAssumption, SharedTypes
     DEF TypeInv, TypeOK, DetachRetire, CallsConsistent, CallConsistent
<1>2. PICK l, c : l = op[t].lsn /\ c = op[t].ctx /\ l \in Listeners /\ c \in Ctxs
  BY <1>1
<1>3. PICK gone, updates :
        txn' = [txn EXCEPT
          !.destroy = @ \o <<ListenerTask(c, l)>> \o IF gone THEN <<ContextTask(c)>> ELSE <<>>,
          !.updates = updates]
  BY <1>2 DEF DetachRetire
<1> DEFINE first == <<ListenerTask(c, l)>>
          rest == IF gone THEN <<ContextTask(c)>> ELSE <<>>
<1>4. /\ ListenerTask(c, l) \in DestroyTask /\ ContextTask(c) \in DestroyTask
      /\ ContextTask(c).lsn = None /\ ContextTask(c).what # "listener"
  BY <1>2, TaskTypes DEF ContextTask
<1>5. /\ first \in Seq(DestroyTask) /\ DOMAIN first = {1} /\ first[1] = ListenerTask(c, l)
      /\ Len(first) = 1
  BY <1>4
<1>6. rest \in Seq(DestroyTask) /\ \A i \in DOMAIN rest : rest[i] = ContextTask(c)
  BY <1>4
<1>7. txn'.destroy = (txn.destroy \o first) \o rest
  BY <1>1, <1>3 DEF Transaction
<1>. HIDE DEF first, rest
<1>8. PICK new : new = first \o rest
  OBVIOUS
<1>9. new \in Seq(DestroyTask) /\ txn'.destroy = txn.destroy \o new
  <2>1. PICK q \in Seq(DestroyTask), x \in Seq(DestroyTask), y \in Seq(DestroyTask) :
          q = txn.destroy /\ x = first /\ y = rest
    BY <1>1, <1>5, <1>6
  <2>2. (q \o x) \o y = q \o (x \o y)
    BY ConcatAssociative
  <2>3. new \in Seq(DestroyTask)
    BY <1>5, <1>6, <1>8, ConcatProperties
  <2> QED
    BY <1>7, <1>8, <2>1, <2>2, <2>3
<1>10. Len(new) = Len(first) + Len(rest)
       /\ \A i \in 1 .. Len(first) + Len(rest) :
            new[i] = IF i <= Len(first) THEN first[i] ELSE rest[i - Len(first)]
  <2>1. PICK x \in Seq(DestroyTask), y \in Seq(DestroyTask) : x = first /\ y = rest
    BY <1>5, <1>6
  <2>2. /\ Len(x \o y) = Len(x) + Len(y)
        /\ \A i \in 1 .. Len(x) + Len(y) :
             (x \o y)[i] = IF i <= Len(x) THEN x[i] ELSE y[i - Len(x)]
    BY ConcatProperties, ZenonT(30)
  <2> QED
    BY <1>8, <2>1, <2>2, ZenonT(30)
<1>11. Len(rest) \in Nat /\ DOMAIN rest = 1 .. Len(rest) /\ DOMAIN new = 1 .. Len(new)
  BY <1>6, <1>9, LenProperties
<1>12. 1 \in DOMAIN new /\ new[1] = ListenerTask(c, l)
  BY <1>5, <1>10, <1>11
<1>13. ASSUME NEW i \in DOMAIN new, i # 1 PROVE i - 1 \in DOMAIN rest /\ new[i] = rest[i - 1]
  BY <1>5, <1>10, <1>13, <1>11
<1>14. \A i \in DOMAIN new : i # 1 => new[i].lsn = None /\ new[i].what # "listener"
  BY <1>4, <1>6, <1>13
<1> QED
  BY <1>1, <1>2, <1>9, <1>14, <1>12

\* The reference the task releases is taken when it is queued.
LEMMA RetireKeeps ==
  ASSUME TypeInv, TypeInv', ListenersKept, NEW t \in Mutators, DetachRetire(t)
  PROVE  ListenersKept'
<1>. USE DEF ListenersKept
<1>1. t \in Threads /\ op[t].lsn \in Listeners /\ op[t].ctx \in Ctxs /\ None \notin Listeners
  BY RetireAdds, ConstantsAssumption
<1>2. PICK c, l : c = op[t].ctx /\ l = op[t].lsn /\ c \in Ctxs /\ l \in Listeners
  BY <1>1
<1>3. PICK new \in Seq(DestroyTask) :
        /\ txn'.destroy = txn.destroy \o new
        /\ 1 \in DOMAIN new /\ new[1] = ListenerTask(c, l)
        /\ \A i \in DOMAIN new : i # 1 => new[i].lsn = None /\ new[i].what # "listener"
  BY <1>2, RetireAdds
<1>4. PICK o : Proceeds(t, o)
  BY <1>1, StepsProceed
<1>5. /\ refs' = [refs EXCEPT ![l] = @ + 1] /\ refs \in [Listeners -> Int]
      /\ UNCHANGED <<entries, owned, calls>>
      /\ \A d \in Ctxs : fc'[d].state = fc[d].state
  <2>1. /\ refs' = [refs EXCEPT ![l] = @ + 1] /\ refs \in [Listeners -> Int]
        /\ UNCHANGED <<entries, owned, calls>>
    BY <1>2 DEF DetachRetire, WithReference, TypeInv, TypeOK
  <2>2. PICK leave, gone : fc' = [fc EXCEPT ![c] = [[fc[c] EXCEPT !.hasLeave = leave]
                                                      EXCEPT !.destroyed = gone]]
    BY <1>2 DEF DetachRetire
  <2>3. \A d \in Ctxs : fc'[d].state = fc[d].state
    BY <1>2, <2>2 DEF TypeInv, TypeOK, FunctionContext
  <2> QED
    BY <2>1, <2>3
<1>6. PICK n : n = Len(txn.destroy) + 1
  OBVIOUS
<1>7. /\ new[1].ctx = c /\ new[1].lsn = l /\ new[1].what = "listener"
  BY <1>3 DEF ListenerTask
<1>8. /\ \A i \in DOMAIN txn.destroy :
           i \in DOMAIN txn'.destroy /\ txn'.destroy[i] = txn.destroy[i]
      /\ \A i \in DOMAIN txn'.destroy :
           \/ i \in DOMAIN txn.destroy
           \/ i = n
           \/ txn'.destroy[i].lsn = None
      /\ n \in DOMAIN txn'.destroy /\ n \notin DOMAIN txn.destroy
      /\ txn'.destroy[n] = new[1]
  <2>1. /\ \A i \in DOMAIN txn'.destroy :
             \/ i \in DOMAIN txn.destroy
             \/ \E j \in DOMAIN new : i = Len(txn.destroy) + j /\ txn'.destroy[i] = new[j]
        /\ \A j \in DOMAIN new :
             /\ Len(txn.destroy) + j \in DOMAIN txn'.destroy
             /\ Len(txn.destroy) + j \notin DOMAIN txn.destroy
             /\ txn'.destroy[Len(txn.destroy) + j] = new[j]
        /\ \A i \in DOMAIN txn.destroy :
             i \in DOMAIN txn'.destroy /\ txn'.destroy[i] = txn.destroy[i]
    BY <1>3, AddedLast
  <2> QED
    BY <1>3, <1>6, <2>1
<1>9. QueueInv'
  <2>1. \A i \in DOMAIN new : ForListener(new[i])
    BY <1>1, <1>2, <1>3, <1>7 DEF ForListener
  <2> QED
    BY <1>1, <1>3, <1>4, <2>1, AdditionsKeepQueues
<1>10. \A k : \A u \in Threads : \A i : OwnPlace(u, i, k)' <=> OwnPlace(u, i, k)
  BY <1>1, <1>4, OwnPlacesStay
<1>11. RefsInv'
  <2>1. ASSUME NEW k \in Listeners, k # l
        PROVE  IsFiniteSet(ReleasePlaces(k)') /\ refs'[k] = References(k)'
    <3>1. \A i : SharedPlace(i, k)' <=> SharedPlace(i, k)
      BY <1>1, <1>7, <1>8, <2>1 DEF SharedPlace
    <3>2. ReleasePlaces(k)' = ReleasePlaces(k)
      BY <1>10, <3>1, SameReferences DEF SamePlaces
    <3> QED
      BY <1>5, <2>1, <3>2 DEF RefsInv, References
  <2>2. IsFiniteSet(ReleasePlaces(l)') /\ refs'[l] = References(l)'
    <3>1. \A i : SharedPlace(i, l)' <=> SharedPlace(i, l) \/ i = n
      BY <1>1, <1>2, <1>7, <1>8 DEF SharedPlace
    <3>2. ~SharedPlace(n, l)
      BY <1>8 DEF SharedPlace
    <3>3. IsFiniteSet(ReleasePlaces(l)) /\ refs[l] = References(l)
      BY <1>2 DEF RefsInv
    <3>4. /\ IsFiniteSet(ReleasePlaces(l)')
          /\ Cardinality(ReleasePlaces(l)') = Cardinality(ReleasePlaces(l)) + 1
      BY <1>10, <3>1, <3>2, <3>3, OneTaskMore
    <3>5. refs'[l] = refs[l] + 1
      BY <1>2, <1>5
    <3>6. Cardinality(ReleasePlaces(l)) \in Nat
      BY <3>3, FS_CardinalityType
    <3> QED
      BY <1>5, <3>3, <3>4, <3>5, <3>6 DEF References
  <2> QED
    BY <2>1, <2>2 DEF RefsInv
<1>12. \A d \in Ctxs : Current(d)' = Current(d)
  BY <1>5 DEF Current
<1>13. OwnedInv'
  <2>1. \A d \in Ctxs : fc'[d].state = "unborn" => Current(d)'.live = {}
    BY <1>5, <1>12 DEF OwnedInv
  <2>2. \A d \in Ctxs : fc'[d].state = "live" => Current(d)'.live \subseteq owned
    BY <1>5, <1>12 DEF OwnedInv
  <2> QED
    BY <1>1, <1>4, <1>5, <2>1, <2>2, OwnersStay
<1>14. ASSUME NEW d \in Ctxs, NEW k, IsKept(d, k) PROVE IsKept(d, k)'
  <2>1. CASE k \in Current(d).live
    BY <1>12, <2>1 DEF IsKept
  <2>2. CASE IsRetiring(d, k)
    <3>1. IsRetiring(d, k)' \/ (d = c /\ k = l)
      BY <1>1, <1>2, <1>4, <2>2 DEF IsRetiring, Proceeds, TypeInv, TypeOK
    <3>2. IsWaiting(c, l)'
      BY <1>7, <1>8 DEF IsWaiting
    <3>3. IsRetiring(d, k)' \/ IsWaiting(d, k)'
      BY <3>1, <3>2 DEF IsWaiting
    <3> QED
      BY <3>3 DEF IsKept
  <2>3. CASE IsWaiting(d, k)
    <3>1. IsWaiting(d, k)'
      BY <1>1, <1>3, <1>4, <2>3, WaitingStays
    <3> QED
      BY <3>1 DEF IsKept
  <2> QED
    BY <1>14, <2>1, <2>2, <2>3 DEF IsKept
<1>15. SnapshotInv'
  <2>1. \A u \in Threads : \A i \in DOMAIN calls[u] : Safe(calls[u][i]) => calls[u][i].ctx \in Ctxs
    BY DEF TypeInv, FramesConsistent, FrameConsistent, Safe
  <2> QED
    BY <1>5, <1>14, <2>1, ListenersStay DEF ArraysStay
<1> QED
  BY <1>9, <1>11, <1>13, <1>15

-----------------------------------------------------------------------------
(* The pass over the tasks *)

\* The tasks move to a call's own copy ...
LEMMA CopyMoves ==
  ASSUME TypeInv, QueueInv, NEW t \in Mutators, EndTakesCopy(t), NEW l
  PROVE  /\ t \in Threads
         /\ \A i : ~SharedPlace(i, l)'
         /\ \A i : ~OwnPlace(t, i, l)
         /\ \A i : OwnPlace(t, i, l)' <=> SharedPlace(i, l)
         /\ \A u \in Threads : u # t => \A i : OwnPlace(u, i, l)' <=> OwnPlace(u, i, l)
<1>1. t \in Threads /\ op \in [Threads -> ApiCall] /\ op[t] \in ApiCall
  BY ConstantsAssumption DEF TypeInv, TypeOK
<1>2. op[t].at = "end" /\ op[t].destroy = <<>> /\ DOMAIN <<>> = {}
  BY <1>1 DEF QueueInv, EndTakesCopy, WorkingOnTasks
<1>3. txn'.destroy = <<>>
  BY DEF EndTakesCopy, Reinitialized, CleanTransaction
<1>4. op'[t].destroy = txn.destroy /\ op'[t].at = "patch"
  BY <1>1 DEF EndTakesCopy, ApiCall
<1>5. \A u \in Threads : u # t => op'[u] = op[u]
  BY <1>1 DEF EndTakesCopy
<1>6. \A i : ~SharedPlace(i, l)'
  BY <1>2, <1>3 DEF SharedPlace
<1>7. \A i : ~OwnPlace(t, i, l)
  BY <1>2 DEF OwnPlace
<1>8. \A i : OwnPlace(t, i, l)' <=> SharedPlace(i, l)
  BY <1>4 DEF OwnPlace, SharedPlace
<1>9. \A u \in Threads : u # t => \A i : OwnPlace(u, i, l)' <=> OwnPlace(u, i, l)
  BY <1>5 DEF OwnPlace
<1> QED
  BY <1>1, <1>6, <1>7, <1>8, <1>9

LEMMA CopyKeepsReferences ==
  ASSUME TypeInv, TypeInv', QueueInv, RefsInv, NEW t \in Mutators, EndTakesCopy(t)
  PROVE  RefsInv'
<1>1. refs' = refs /\ owned' = owned /\ None \notin Threads
  BY ConstantsAssumption DEF EndTakesCopy, heap
<1> SUFFICES ASSUME NEW l \in Listeners
             PROVE  IsFiniteSet(ReleasePlaces(l)') /\ refs[l] = References(l)'
  BY <1>1 DEF RefsInv
<1> DEFINE f == [p \in ReleasePlaces(l) |-> IF p[1] = None THEN <<t, p[2]>> ELSE p]
<1>2. /\ t \in Threads
      /\ \A i : ~SharedPlace(i, l)'
      /\ \A i : ~OwnPlace(t, i, l)
      /\ \A i : OwnPlace(t, i, l)' <=> SharedPlace(i, l)
      /\ \A u \in Threads : u # t => \A i : OwnPlace(u, i, l)' <=> OwnPlace(u, i, l)
  BY CopyMoves
<1>3. \A i : <<None, i>> \in ReleasePlaces(l) =>
               f[<<None, i>>] = <<t, i>> /\ <<t, i>> \in ReleasePlaces(l)'
  BY <1>2, PlacesAre, PlacesAreAfter
<1>4. \A u \in Threads : \A i : <<u, i>> \in ReleasePlaces(l) =>
               /\ f[<<u, i>>] = <<u, i>> /\ u # t
               /\ <<u, i>> \in ReleasePlaces(l)'
  BY <1>1, <1>2, PlacesAre, PlacesAreAfter
<1>5. \A p \in ReleasePlaces(l) : \E u \in {None} \cup Threads : \E i \in Nat : p = <<u, i>>
  BY PlacesAre
<1>6. \A p \in ReleasePlaces(l)' : \E u \in Threads : \E i \in Nat :
        /\ p = <<u, i>>
        /\ IF u = t THEN <<None, i>> \in ReleasePlaces(l) ELSE <<u, i>> \in ReleasePlaces(l)
  BY <1>1, <1>2, PlacesAre, PlacesAreAfter
<1>. HIDE DEF f
<1>7. ASSUME NEW p \in ReleasePlaces(l) PROVE f[p] \in ReleasePlaces(l)'
  <2>1. PICK u \in {None} \cup Threads, i \in Nat : p = <<u, i>>
    BY <1>5
  <2>2. CASE u = None
    <3>1. f[<<None, i>>] = <<t, i>> /\ <<t, i>> \in ReleasePlaces(l)'
      BY <1>3, <2>1, <2>2
    <3> QED
      BY <2>1, <2>2, <3>1
  <2>3. CASE u \in Threads
    <3>1. f[<<u, i>>] = <<u, i>> /\ <<u, i>> \in ReleasePlaces(l)'
      BY <1>4, <2>1, <2>3
    <3> QED
      BY <2>1, <3>1
  <2> QED
    BY <2>2, <2>3
<1>8. ASSUME NEW p \in ReleasePlaces(l), NEW q \in ReleasePlaces(l), f[p] = f[q] PROVE p = q
  <2>1. PICK u \in {None} \cup Threads, i \in Nat : p = <<u, i>>
    BY <1>5
  <2>2. PICK v \in {None} \cup Threads, j \in Nat : q = <<v, j>>
    BY <1>5
  <2>3. CASE u = None /\ v = None
    <3>1. f[p] = <<t, i>> /\ f[q] = <<t, j>>
      BY <1>3, <2>1, <2>2, <2>3
    <3> QED
      BY <1>8, <2>1, <2>2, <2>3, <3>1
  <2>4. CASE u = None /\ v \in Threads
    <3>1. f[p] = <<t, i>> /\ f[q] = <<v, j>> /\ v # t
      BY <1>3, <1>4, <2>1, <2>2, <2>4
    <3>2. <<t, i>> # <<v, j>>
      BY <3>1
    <3> QED
      BY <1>8, <3>1, <3>2
  <2>5. CASE u \in Threads /\ v = None
    <3>1. f[p] = <<u, i>> /\ f[q] = <<t, j>> /\ u # t
      BY <1>3, <1>4, <2>1, <2>2, <2>5
    <3>2. <<u, i>> # <<t, j>>
      BY <3>1
    <3> QED
      BY <1>8, <3>1, <3>2
  <2>6. CASE u \in Threads /\ v \in Threads
    <3>1. f[p] = p /\ f[q] = q
      BY <1>4, <2>1, <2>2, <2>6
    <3> QED
      BY <1>8, <3>1
  <2> QED
    BY <2>3, <2>4, <2>5, <2>6
<1>9. ASSUME NEW q \in ReleasePlaces(l)' PROVE \E p \in ReleasePlaces(l) : f[p] = q
  <2>1. PICK u \in Threads, i \in Nat :
          /\ q = <<u, i>>
          /\ IF u = t THEN <<None, i>> \in ReleasePlaces(l) ELSE <<u, i>> \in ReleasePlaces(l)
    BY <1>6
  <2>2. CASE u = t
    <3>1. <<None, i>> \in ReleasePlaces(l) /\ f[<<None, i>>] = q
      BY <1>3, <2>1, <2>2
    <3> QED
      BY <3>1
  <2>3. CASE u # t
    <3>1. <<u, i>> \in ReleasePlaces(l) /\ f[<<u, i>>] = q
      BY <1>4, <2>1, <2>3
    <3> QED
      BY <3>1
  <2> QED
    BY <2>2, <2>3
<1>10. IsFiniteSet(ReleasePlaces(l)) /\ refs[l] = References(l)
  BY DEF RefsInv
<1>11. /\ IsFiniteSet(ReleasePlaces(l)')
       /\ Cardinality(ReleasePlaces(l)') = Cardinality(ReleasePlaces(l))
  BY <1>7, <1>8, <1>9, <1>10, TasksMove
<1> QED
  BY <1>1, <1>10, <1>11 DEF References

LEMMA CopyKeeps ==
  ASSUME TypeInv, TypeInv', ListenersKept, NEW t \in Mutators, EndTakesCopy(t)
  PROVE  ListenersKept'
<1>. USE DEF ListenersKept
<1>1. /\ t \in Threads /\ op \in [Threads -> ApiCall] /\ op[t] \in ApiCall
      /\ UNCHANGED <<fc, entries, owned, calls>> /\ op[t].at = "end"
  BY ConstantsAssumption DEF TypeInv, TypeOK, EndTakesCopy, heap
<1>2. /\ txn'.destroy = <<>> /\ DOMAIN <<>> = {}
      /\ op'[t].destroy = txn.destroy /\ op'[t].at = "patch" /\ op'[t].lsn = op[t].lsn
      /\ \A u \in Threads : u # t => op'[u] = op[u]
  BY <1>1 DEF EndTakesCopy, Reinitialized, CleanTransaction, ApiCall
<1>3. QueueInv'
  BY <1>2 DEF QueueInv, WorkingOnTasks, ForListener
<1>4. RefsInv'
  BY CopyKeepsReferences
<1>5. OwnedInv'
  BY <1>1, <1>2 DEF OwnedInv, Current
<1>6. op[t].destroy = <<>>
  BY <1>1 DEF QueueInv, WorkingOnTasks
<1>7. ASSUME NEW c, NEW l, IsKept(c, l) PROVE IsKept(c, l)'
  <2>1. l \in Current(c).live => l \in Current(c)'.live
    BY <1>1 DEF Current
  <2>2. IsRetiring(c, l) => IsRetiring(c, l)'
    BY <1>1, <1>2 DEF IsRetiring
  <2>3. IsWaiting(c, l) => IsWaiting(c, l)'
    BY <1>1, <1>2, <1>6 DEF IsWaiting
  <2> QED
    BY <1>7, <2>1, <2>2, <2>3 DEF IsKept
<1>8. SnapshotInv'
  BY <1>1, <1>7, ListenersStay DEF ArraysStay
<1> QED
  BY <1>3, <1>4, <1>5, <1>8

\* The first task of a queue, and the others.
LEMMA HeadAndTail ==
  ASSUME NEW S, NEW q \in Seq(S), q # <<>>
  PROVE  /\ 1 \in DOMAIN q /\ Head(q) = q[1] /\ 0 \notin DOMAIN q
         /\ \A i \in DOMAIN Tail(q) :
              i \in Nat /\ i # 0 /\ i + 1 \in DOMAIN q /\ Tail(q)[i] = q[i + 1]
         /\ \A i \in DOMAIN q :
              i # 1 => i - 1 \in DOMAIN Tail(q) /\ Tail(q)[i - 1] = q[i]
<1>1. /\ Tail(q) \in Seq(S) /\ Len(Tail(q)) = Len(q) - 1
      /\ \A i \in 1 .. Len(Tail(q)) : Tail(q)[i] = q[i + 1]
  BY HeadTailProperties
<1>2. /\ Len(q) \in Nat /\ Len(q) # 0 /\ DOMAIN q = 1 .. Len(q) /\ Head(q) = q[1]
      /\ DOMAIN Tail(q) = 1 .. Len(Tail(q))
  BY <1>1, LenProperties, EmptySeq
<1>3. 1 \in DOMAIN q /\ 0 \notin DOMAIN q
  BY <1>2
<1>4. \A i \in DOMAIN Tail(q) : i \in Nat /\ i # 0 /\ i + 1 \in DOMAIN q /\ Tail(q)[i] = q[i + 1]
  BY <1>1, <1>2
<1>5. ASSUME NEW i \in DOMAIN q, i # 1
      PROVE  i - 1 \in DOMAIN Tail(q) /\ Tail(q)[i - 1] = q[i]
  <2>1. i \in Nat /\ i - 1 \in 1 .. Len(Tail(q)) /\ (i - 1) + 1 = i
    BY <1>1, <1>2, <1>5
  <2> QED
    BY <1>1, <1>2, <2>1
<1> QED
  BY <1>2, <1>3, <1>4, <1>5

\* ... from which they are taken one by one.
LEMMA NextTask ==
  ASSUME TypeInv, NEW t \in Mutators, op[t].at = "tasks", op[t].destroy # <<>>,
         op'[t].destroy = Tail(op[t].destroy)
  PROVE  /\ 1 \in DOMAIN op[t].destroy /\ Head(op[t].destroy) = op[t].destroy[1]
         /\ 0 \notin DOMAIN op[t].destroy
         /\ \A i \in DOMAIN op'[t].destroy :
              /\ i \in Nat /\ i # 0 /\ i + 1 \in DOMAIN op[t].destroy
              /\ op'[t].destroy[i] = op[t].destroy[i + 1]
         /\ \A i \in DOMAIN op[t].destroy :
              i # 1 => i - 1 \in DOMAIN op'[t].destroy /\ op'[t].destroy[i - 1] = op[t].destroy[i]
<1>1. PICK q \in Seq(DestroyTask) : q = op[t].destroy
  BY ConstantsAssumption DEF TypeInv, TypeOK, ApiCall
<1>2. q # <<>> /\ op'[t].destroy = Tail(q)
  BY <1>1
<1>3. /\ 1 \in DOMAIN q /\ Head(q) = q[1] /\ 0 \notin DOMAIN q
      /\ \A i \in DOMAIN Tail(q) : i \in Nat /\ i # 0 /\ i + 1 \in DOMAIN q /\ Tail(q)[i] = q[i + 1]
      /\ \A i \in DOMAIN q : i # 1 => i - 1 \in DOMAIN Tail(q) /\ Tail(q)[i - 1] = q[i]
  BY <1>2, HeadAndTail
<1> QED
  BY <1>1, <1>2, <1>3, Zenon

\* What a call that takes a task from its queue does to the places of tasks.
TakesTask(t) ==
  /\ op[t].at = "tasks" /\ op[t].destroy # <<>>
  /\ op'[t].destroy = Tail(op[t].destroy)
  /\ op'[t].lsn = op[t].lsn
  /\ op'[t].at \in {"tasks", "notify"}
  /\ op'[t].at = "notify" => op'[t].task = Head(op[t].destroy)
  /\ \A u \in Threads : u # t => op'[u] = op[u]

LEMMA RunTakes ==
  ASSUME TypeInv, NEW t \in Mutators, TaskRuns(t)
  PROVE  TakesTask(t) /\ op'[t].at = "notify" /\ UNCHANGED <<txn, fc, entries, refs, owned, calls>>
BY ConstantsAssumption DEF TypeInv, TypeOK, TaskRuns, TakesTask, ApiCall, heap

LEMMA RequeueTakes ==
  ASSUME TypeInv, NEW t \in Mutators, TaskRequeued(t)
  PROVE  /\ TakesTask(t) /\ op'[t].at = "tasks" /\ UNCHANGED <<fc, entries, refs, owned, calls>>
         /\ txn'.destroy = Append(txn.destroy, Head(op[t].destroy))
<1>1. TakesTask(t) /\ op'[t].at = "tasks" /\ UNCHANGED <<fc, entries, refs, owned, calls>>
  BY ConstantsAssumption DEF TypeInv, TypeOK, TaskRequeued, TakesTask, ApiCall, heap
<1>2. txn \in Transaction /\ txn' = Requeues(Head(op[t].destroy))
  BY DEF TypeInv, TypeOK, TaskRequeued
<1>3. txn'.destroy = Append(txn.destroy, Head(op[t].destroy))
  BY <1>2 DEF Requeues, Transaction
<1> QED
  BY <1>1, <1>3

LEMMA TakenPlaces ==
  ASSUME TypeInv, NEW t \in Mutators, TakesTask(t), NEW l
  PROVE  /\ \A i : OwnPlace(t, i, l) /\ i # 1 => i \in Nat /\ i # 0 /\ OwnPlace(t, i - 1, l)'
         /\ \A i : OwnPlace(t, i, l)' /\ i # 0 => i \in Nat /\ OwnPlace(t, i + 1, l)
         /\ OwnPlace(t, 1, l) <=> Head(op[t].destroy).lsn = l
         /\ OwnPlace(t, 0, l)' <=> op'[t].at = "notify" /\ Head(op[t].destroy).lsn = l
         /\ \A u \in Threads : u # t => \A i : OwnPlace(u, i, l)' <=> OwnPlace(u, i, l)
<1>1. /\ 1 \in DOMAIN op[t].destroy /\ Head(op[t].destroy) = op[t].destroy[1]
      /\ 0 \notin DOMAIN op[t].destroy
      /\ \A i \in DOMAIN op'[t].destroy :
           /\ i \in Nat /\ i # 0 /\ i + 1 \in DOMAIN op[t].destroy
           /\ op'[t].destroy[i] = op[t].destroy[i + 1]
      /\ \A i \in DOMAIN op[t].destroy :
           i # 1 => i - 1 \in DOMAIN op'[t].destroy /\ op'[t].destroy[i - 1] = op[t].destroy[i]
  BY NextTask DEF TakesTask
<1>2. \A i \in DOMAIN op[t].destroy : i \in Nat
  BY ConstantsAssumption DEF TypeInv, TypeOK, ApiCall
<1>3. ASSUME NEW i, OwnPlace(t, i, l), i # 1 PROVE i \in Nat /\ i # 0 /\ OwnPlace(t, i - 1, l)'
  <2>1. i \in DOMAIN op[t].destroy /\ op[t].destroy[i].lsn = l
    BY <1>3 DEF OwnPlace, TakesTask
  <2> QED
    BY <1>1, <1>2, <1>3, <2>1 DEF OwnPlace
<1>4. ASSUME NEW i, OwnPlace(t, i, l)', i # 0 PROVE i \in Nat /\ OwnPlace(t, i + 1, l)
  <2>1. i \in DOMAIN op'[t].destroy /\ op'[t].destroy[i].lsn = l
    BY <1>4 DEF OwnPlace
  <2> QED
    BY <1>1, <2>1 DEF OwnPlace
<1>5. OwnPlace(t, 1, l) <=> Head(op[t].destroy).lsn = l
  BY <1>1 DEF OwnPlace
<1>6. OwnPlace(t, 0, l)' <=> op'[t].at = "notify" /\ Head(op[t].destroy).lsn = l
  BY <1>1 DEF OwnPlace, TakesTask
<1>7. \A u \in Threads : u # t => \A i : OwnPlace(u, i, l)' <=> OwnPlace(u, i, l)
  BY DEF OwnPlace, TakesTask
<1> QED
  BY <1>3, <1>4, <1>5, <1>6, <1>7

LEMMA TakenQueues ==
  ASSUME TypeInv, QueueInv, NEW t \in Mutators, TakesTask(t),
         \A i \in DOMAIN txn'.destroy : ForListener(txn'.destroy[i])
  PROVE  QueueInv'
<1>1. t \in Threads
  BY ConstantsAssumption
<1>2. /\ 1 \in DOMAIN op[t].destroy /\ Head(op[t].destroy) = op[t].destroy[1]
      /\ \A i \in DOMAIN op'[t].destroy :
           i + 1 \in DOMAIN op[t].destroy /\ op'[t].destroy[i] = op[t].destroy[i + 1]
  BY NextTask DEF TakesTask
<1>3. \A i \in DOMAIN op[t].destroy : ForListener(op[t].destroy[i])
  BY <1>1 DEF QueueInv
<1>4. \A i \in DOMAIN op'[t].destroy : ForListener(op'[t].destroy[i])
  BY <1>2, <1>3
<1>5. \A u \in Threads : \A i \in DOMAIN op'[u].destroy : ForListener(op'[u].destroy[i])
  BY <1>4 DEF QueueInv, TakesTask
<1>6. \A u \in Threads : op'[u].at = "notify" => ForListener(op'[u].task)
  BY <1>2, <1>3 DEF QueueInv, TakesTask
<1>7. \A u \in Threads : op'[u].at \notin WorkingOnTasks => op'[u].destroy = <<>>
  BY DEF QueueInv, TakesTask, WorkingOnTasks
<1> QED
  BY <1>5, <1>6, <1>7 DEF QueueInv, ForListener

\* The tasks of the queue move up, and the one taken to where x says.
LEMMA TakenMoves ==
  ASSUME TypeInv, TypeInv', NEW t \in Mutators, TakesTask(t), NEW l \in Listeners,
         IsFiniteSet(ReleasePlaces(l)), NEW x,
         IF op'[t].at = "notify" THEN /\ x = <<t, 0>>
                                      /\ \A i : SharedPlace(i, l)' <=> SharedPlace(i, l)
         ELSE /\ x = <<None, Len(txn.destroy) + 1>>
              /\ \A i : SharedPlace(i, l)' <=>
                          \/ SharedPlace(i, l)
                          \/ i = Len(txn.destroy) + 1 /\ Head(op[t].destroy).lsn = l
              /\ ~SharedPlace(Len(txn.destroy) + 1, l)
  PROVE  /\ IsFiniteSet(ReleasePlaces(l)')
         /\ Cardinality(ReleasePlaces(l)') = Cardinality(ReleasePlaces(l))
<1>1. t \in Threads /\ None \notin Threads
  BY ConstantsAssumption
<1>2. /\ \A i : OwnPlace(t, i, l) /\ i # 1 => i \in Nat /\ i # 0 /\ OwnPlace(t, i - 1, l)'
      /\ \A i : OwnPlace(t, i, l)' /\ i # 0 => i \in Nat /\ OwnPlace(t, i + 1, l)
      /\ OwnPlace(t, 1, l) <=> Head(op[t].destroy).lsn = l
      /\ OwnPlace(t, 0, l)' <=> op'[t].at = "notify" /\ Head(op[t].destroy).lsn = l
      /\ \A u \in Threads : u # t => \A i : OwnPlace(u, i, l)' <=> OwnPlace(u, i, l)
  BY TakenPlaces
<1> DEFINE f == [p \in ReleasePlaces(l) |->
                   IF p[1] # t THEN p ELSE IF p[2] = 1 THEN x ELSE <<t, p[2] - 1>>]
<1>3. \A u \in {None} \cup Threads : \A i : <<u, i>> \in ReleasePlaces(l) =>
        f[<<u, i>>] = IF u # t THEN <<u, i>> ELSE IF i = 1 THEN x ELSE <<t, i - 1>>
  OBVIOUS
<1>. HIDE DEF f
<1>4. /\ \A i : <<None, i>> \in ReleasePlaces(l) <=> SharedPlace(i, l)
      /\ \A u \in Threads : \A i : <<u, i>> \in ReleasePlaces(l) <=> OwnPlace(u, i, l)
      /\ \A p \in ReleasePlaces(l) : \E u \in {None} \cup Threads : \E i \in Nat : p = <<u, i>>
  BY PlacesAre
<1>5. /\ \A i : <<None, i>> \in ReleasePlaces(l)' <=> SharedPlace(i, l)'
      /\ \A u \in Threads : \A i : <<u, i>> \in ReleasePlaces(l)' <=> OwnPlace(u, i, l)'
      /\ \A p \in ReleasePlaces(l)' : \E u \in {None} \cup Threads : \E i \in Nat : p = <<u, i>>
  BY PlacesAreAfter
<1>6. ASSUME NEW p \in ReleasePlaces(l) PROVE f[p] \in ReleasePlaces(l)'
  <2>1. PICK u \in {None} \cup Threads, i \in Nat : p = <<u, i>>
    BY <1>4
  <2>2. CASE u = None
    <3>1. f[p] = <<None, i>> /\ SharedPlace(i, l)
      BY <1>1, <1>3, <1>4, <2>1, <2>2
    <3>2. SharedPlace(i, l)'
      BY <3>1
    <3> QED
      BY <1>5, <3>1, <3>2
  <2>3. CASE u \in Threads /\ u # t
    <3>1. f[p] = <<u, i>> /\ OwnPlace(u, i, l)
      BY <1>3, <1>4, <2>1, <2>3
    <3>2. OwnPlace(u, i, l)'
      BY <1>2, <2>3, <3>1
    <3> QED
      BY <1>5, <2>3, <3>1, <3>2
  <2>4. CASE u = t /\ i = 1
    <3>1. Head(op[t].destroy).lsn = l
      BY <1>1, <1>2, <1>4, <2>1, <2>4
    <3>2. x \in ReleasePlaces(l)'
      BY <1>1, <1>2, <1>5, <3>1
    <3> QED
      BY <1>3, <2>1, <2>4, <3>2
  <2>5. CASE u = t /\ i # 1
    <3>1. OwnPlace(t, i - 1, l)'
      BY <1>1, <1>2, <1>4, <2>1, <2>5
    <3>2. f[p] = <<t, i - 1>>
      BY <1>1, <1>3, <2>1, <2>5
    <3>3. <<t, i - 1>> \in ReleasePlaces(l)'
      BY <1>1, <1>5, <3>1
    <3> QED
      BY <3>2, <3>3
  <2> QED
    BY <2>2, <2>3, <2>4, <2>5
<1>7. ASSUME NEW p \in ReleasePlaces(l), NEW q \in ReleasePlaces(l), f[p] = f[q] PROVE p = q
  <2>1. PICK u \in {None} \cup Threads, i \in Nat : p = <<u, i>>
    BY <1>4
  <2>2. PICK v \in {None} \cup Threads, j \in Nat : q = <<v, j>>
    BY <1>4
  <2>3. /\ f[p] = IF u # t THEN <<u, i>> ELSE IF i = 1 THEN x ELSE <<t, i - 1>>
        /\ f[q] = IF v # t THEN <<v, j>> ELSE IF j = 1 THEN x ELSE <<t, j - 1>>
    BY <1>3, <2>1, <2>2
  <2>4. u = t => i # 0
    BY <1>1, <1>2, <1>4, <2>1
  <2>5. v = t => j # 0
    BY <1>1, <1>2, <1>4, <2>2
  <2>6. \/ x = <<t, 0>>
        \/ /\ x = <<None, Len(txn.destroy) + 1>>
           /\ <<None, Len(txn.destroy) + 1>> \notin ReleasePlaces(l)
    BY <1>4
  <2>7. CASE u # t /\ v # t
    BY <1>7, <2>1, <2>2, <2>3, <2>7
  <2>8. CASE u = t /\ v # t
    <3>1. f[q] = q /\ f[p] \in {x, <<t, i - 1>>}
      BY <2>2, <2>3, <2>8
    <3>2. q # x /\ q # <<t, i - 1>>
      BY <2>2, <2>6, <2>8
    <3> QED
      BY <1>7, <3>1, <3>2
  <2>9. CASE u # t /\ v = t
    <3>1. f[p] = p /\ f[q] \in {x, <<t, j - 1>>}
      BY <2>1, <2>3, <2>9
    <3>2. p # x /\ p # <<t, j - 1>>
      BY <2>1, <2>6, <2>9
    <3> QED
      BY <1>7, <3>1, <3>2
  <2>10. CASE u = t /\ v = t
    <3>1. \A k \in Nat : k # 0 /\ k # 1 => x # <<t, k - 1>>
      BY <1>1, <2>6
    <3>2. <<t, i - 1>> = <<t, j - 1>> => i = j
      OBVIOUS
    <3> QED
      BY <1>7, <2>1, <2>2, <2>3, <2>4, <2>5, <2>10, <3>1, <3>2
  <2> QED
    BY <2>7, <2>8, <2>9, <2>10
<1>8. ASSUME NEW q \in ReleasePlaces(l)' PROVE \E p \in ReleasePlaces(l) : f[p] = q
  <2>1. PICK u \in {None} \cup Threads, i \in Nat : q = <<u, i>>
    BY <1>5
  <2>2. CASE q = x
    <3>1. Head(op[t].destroy).lsn = l
      BY <1>1, <1>2, <1>5, <2>2
    <3>2. <<t, 1>> \in ReleasePlaces(l) /\ f[<<t, 1>>] = x
      BY <1>1, <1>2, <1>3, <1>4, <3>1
    <3> QED
      BY <2>2, <3>2
  <2>3. CASE q # x /\ u # t
    <3>1. q \in ReleasePlaces(l)
      BY <1>1, <1>2, <1>4, <1>5, <2>1, <2>3
    <3>2. f[q] = q
      BY <1>3, <2>1, <2>3, <3>1
    <3> QED
      BY <3>1, <3>2
  <2>4. CASE q # x /\ u = t
    <3>1. OwnPlace(t, i, l)' /\ i # 0
      BY <1>1, <1>2, <1>5, <2>1, <2>4
    <3>2. OwnPlace(t, i + 1, l) /\ i + 1 # 1 /\ (i + 1) - 1 = i
      BY <1>2, <3>1
    <3>3. <<t, i + 1>> \in ReleasePlaces(l) /\ f[<<t, i + 1>>] = <<t, i>>
      BY <1>1, <1>3, <1>4, <3>2
    <3> QED
      BY <2>1, <2>4, <3>3
  <2> QED
    BY <2>2, <2>3, <2>4
<1> QED
  BY <1>6, <1>7, <1>8, TasksMove

\* A task that runs is for a context no invocation that is counted uses.
LEMMA RunKeeps ==
  ASSUME ReleaseInv, TypeInv', ListenersKept, NEW t \in Mutators, TaskRuns(t)
  PROVE  ListenersKept'
<1>. USE DEF ListenersKept
<1>1. /\ TypeInv /\ TakesTask(t) /\ op'[t].at = "notify"
      /\ UNCHANGED <<txn, fc, entries, refs, owned, calls>>
  BY RunTakes DEF ReleaseInv
<1>2. PICK c : c = Head(op[t].destroy).ctx
  OBVIOUS
<1>3. fc[c].state = "freed" \/ fc[c].counter = 0
  BY <1>2 DEF TaskRuns, SeenUnused
<1>4. /\ 1 \in DOMAIN op[t].destroy /\ Head(op[t].destroy) = op[t].destroy[1]
      /\ \A i \in DOMAIN op'[t].destroy :
           i + 1 \in DOMAIN op[t].destroy /\ op'[t].destroy[i] = op[t].destroy[i + 1]
      /\ \A i \in DOMAIN op[t].destroy :
           i # 1 => i - 1 \in DOMAIN op'[t].destroy /\ op'[t].destroy[i - 1] = op[t].destroy[i]
  BY <1>1, NextTask DEF TakesTask
<1>5. QueueInv'
  <2>1. \A i \in DOMAIN txn'.destroy : ForListener(txn'.destroy[i])
    BY <1>1 DEF QueueInv
  <2> QED
    BY <1>1, <2>1, TakenQueues
<1>6. RefsInv'
  <2>1. ASSUME NEW l \in Listeners
        PROVE  IsFiniteSet(ReleasePlaces(l)') /\ refs[l] = References(l)'
    <3>1. \A i : SharedPlace(i, l)' <=> SharedPlace(i, l)
      BY <1>1 DEF SharedPlace
    <3>2. IsFiniteSet(ReleasePlaces(l)) /\ refs[l] = References(l)
      BY DEF RefsInv
    <3>3. /\ IsFiniteSet(ReleasePlaces(l)')
          /\ Cardinality(ReleasePlaces(l)') = Cardinality(ReleasePlaces(l))
      BY <1>1, <3>1, <3>2, TakenMoves
    <3> QED
      BY <1>1, <3>2, <3>3 DEF References
  <2> QED
    BY <1>1, <2>1 DEF RefsInv
<1>7. OwnedInv'
  BY <1>1 DEF OwnedInv, Current, TakesTask
<1>8. ASSUME NEW d, d # c, NEW l, IsKept(d, l) PROVE IsKept(d, l)'
  <2>1. l \in Current(d).live => l \in Current(d)'.live
    BY <1>1 DEF Current
  <2>2. IsRetiring(d, l) => IsRetiring(d, l)'
    BY <1>1 DEF IsRetiring, TakesTask
  <2>3. ASSUME IsWaiting(d, l) PROVE IsWaiting(d, l)'
    <3>1. CASE \E i \in DOMAIN txn.destroy : txn.destroy[i].ctx = d /\ txn.destroy[i].lsn = l
      BY <1>1, <3>1 DEF IsWaiting
    <3>2. CASE \E i \in DOMAIN op[t].destroy :
                 op[t].destroy[i].ctx = d /\ op[t].destroy[i].lsn = l
      <4>1. PICK i \in DOMAIN op[t].destroy : op[t].destroy[i].ctx = d /\ op[t].destroy[i].lsn = l
        BY <3>2
      <4>2. i # 1
        BY <1>2, <1>4, <1>8, <4>1
      <4>3. \E j \in DOMAIN op'[t].destroy :
              op'[t].destroy[j].ctx = d /\ op'[t].destroy[j].lsn = l
        BY <1>4, <4>1, <4>2
      <4> QED
        BY <4>3, ConstantsAssumption DEF IsWaiting
    <3>3. CASE \E u \in Threads : u # t /\ \E i \in DOMAIN op[u].destroy :
                 op[u].destroy[i].ctx = d /\ op[u].destroy[i].lsn = l
      BY <1>1, <3>3 DEF IsWaiting, TakesTask
    <3> QED
      BY <2>3, <3>1, <3>2, <3>3 DEF IsWaiting
  <2> QED
    BY <1>8, <2>1, <2>2, <2>3 DEF IsKept
<1>9. \A u \in Threads : \A i \in DOMAIN calls[u] : Safe(calls[u][i]) => calls[u][i].ctx # c
  <2> SUFFICES ASSUME NEW u \in Threads, NEW i \in DOMAIN calls[u], Safe(calls[u][i]),
                      calls[u][i].ctx = c
               PROVE  FALSE
    OBVIOUS
  <2>1. fc[c].state = "live" /\ c \in Ctxs
    BY <1>1 DEF ReleaseInv, InvocationsAreProtected, Protected, TypeInv, FramesConsistent,
                FrameConsistent, Safe
  <2>2. <<u, i>> \in Holders(c)
    BY <2>1, HoldersAre DEF Safe
  <2>3. IsFiniteSet(Holders(c)) /\ Cardinality(Holders(c)) = 0
    BY <1>3, <2>1 DEF ReleaseInv, CountInv
  <2> QED
    BY <2>2, <2>3, FS_EmptySet
<1>10. SnapshotInv'
  BY <1>1, <1>8, <1>9, ListenersStay DEF ArraysStay
<1> QED
  BY <1>5, <1>6, <1>7, <1>10

\* A task that goes back to the queue waits there.
LEMMA RequeueKeeps ==
  ASSUME TypeInv, TypeInv', ListenersKept, NEW t \in Mutators, TaskRequeued(t)
  PROVE  ListenersKept'
<1>. USE DEF ListenersKept
<1>1. /\ TakesTask(t) /\ op'[t].at = "tasks" /\ UNCHANGED <<fc, entries, refs, owned, calls>>
      /\ txn'.destroy = Append(txn.destroy, Head(op[t].destroy))
  BY RequeueTakes
<1>2. PICK task : task = Head(op[t].destroy)
  OBVIOUS
<1>3. /\ 1 \in DOMAIN op[t].destroy /\ task = op[t].destroy[1]
      /\ \A i \in DOMAIN op'[t].destroy :
           i + 1 \in DOMAIN op[t].destroy /\ op'[t].destroy[i] = op[t].destroy[i + 1]
      /\ \A i \in DOMAIN op[t].destroy :
           i # 1 => i - 1 \in DOMAIN op'[t].destroy /\ op'[t].destroy[i - 1] = op[t].destroy[i]
  BY <1>1, <1>2, NextTask DEF TakesTask
<1>4. task \in DestroyTask /\ txn.destroy \in Seq(DestroyTask)
  BY <1>3, ConstantsAssumption DEF TypeInv, TypeOK, ApiCall, Transaction
<1>5. PICK n : n = Len(txn.destroy) + 1
  OBVIOUS
<1>6. /\ n \in DOMAIN txn'.destroy /\ n \notin DOMAIN txn.destroy /\ txn'.destroy[n] = task
      /\ \A i : i \in DOMAIN txn'.destroy <=> i \in DOMAIN txn.destroy \/ i = n
      /\ \A i \in DOMAIN txn.destroy : txn'.destroy[i] = txn.destroy[i]
  <2>1. PICK q \in Seq(DestroyTask) : q = txn.destroy
    BY <1>4
  <2>2. PICK r : r = Append(q, task)
    OBVIOUS
  <2>3. n = Len(q) + 1 /\ txn'.destroy = r
    BY <1>1, <1>2, <1>5, <2>1, <2>2
  <2>4. /\ n \in DOMAIN r /\ n \notin DOMAIN q /\ r[n] = task
        /\ \A i : i \in DOMAIN r <=> i \in DOMAIN q \/ i = n
        /\ \A i \in DOMAIN q : r[i] = q[i]
    BY <1>4, <2>2, <2>3
  <2> QED
    BY <2>1, <2>3, <2>4, Zenon
<1>7. QueueInv'
  <2>1. ForListener(task)
    BY <1>3, ConstantsAssumption DEF QueueInv
  <2>2. \A i \in DOMAIN txn'.destroy : ForListener(txn'.destroy[i])
    BY <1>6, <2>1 DEF QueueInv
  <2> QED
    BY <1>1, <2>2, TakenQueues
<1>8. RefsInv'
  <2>1. ASSUME NEW l \in Listeners
        PROVE  IsFiniteSet(ReleasePlaces(l)') /\ refs[l] = References(l)'
    <3>1. \A i : SharedPlace(i, l)' <=> SharedPlace(i, l) \/ (i = n /\ task.lsn = l)
      BY <1>6 DEF SharedPlace
    <3>2. IsFiniteSet(ReleasePlaces(l)) /\ refs[l] = References(l)
      BY DEF RefsInv
    <3>3. ~SharedPlace(n, l)
      BY <1>6 DEF SharedPlace
    <3>4. /\ IsFiniteSet(ReleasePlaces(l)')
          /\ Cardinality(ReleasePlaces(l)') = Cardinality(ReleasePlaces(l))
      <4>1. PICK x : x = <<None, Len(txn.destroy) + 1>>
        OBVIOUS
      <4> QED
        BY <1>1, <1>2, <1>5, <3>1, <3>2, <3>3, <4>1, TakenMoves
    <3> QED
      BY <1>1, <3>2, <3>4 DEF References
  <2> QED
    BY <1>1, <2>1 DEF RefsInv
<1>9. OwnedInv'
  BY <1>1 DEF OwnedInv, Current, TakesTask
<1>10. ASSUME NEW d, NEW l, IsKept(d, l) PROVE IsKept(d, l)'
  <2>1. l \in Current(d).live => l \in Current(d)'.live
    BY <1>1 DEF Current
  <2>2. IsRetiring(d, l) => IsRetiring(d, l)'
    BY <1>1 DEF IsRetiring, TakesTask
  <2>3. ASSUME IsWaiting(d, l) PROVE IsWaiting(d, l)'
    <3>1. CASE \E i \in DOMAIN txn.destroy : txn.destroy[i].ctx = d /\ txn.destroy[i].lsn = l
      BY <1>6, <3>1 DEF IsWaiting
    <3>2. CASE task.ctx = d /\ task.lsn = l
      BY <1>6, <3>2 DEF IsWaiting
    <3>3. CASE \E i \in DOMAIN op[t].destroy :
                 i # 1 /\ op[t].destroy[i].ctx = d /\ op[t].destroy[i].lsn = l
      BY <1>3, <3>3, ConstantsAssumption DEF IsWaiting
    <3>4. CASE \E u \in Threads : u # t /\ \E i \in DOMAIN op[u].destroy :
                 op[u].destroy[i].ctx = d /\ op[u].destroy[i].lsn = l
      BY <1>1, <3>4 DEF IsWaiting, TakesTask
    <3> QED
      BY <1>3, <2>3, <3>1, <3>2, <3>3, <3>4 DEF IsWaiting
  <2> QED
    BY <1>10, <2>1, <2>2, <2>3 DEF IsKept
<1>11. SnapshotInv'
  BY <1>1, <1>10, ListenersStay DEF ArraysStay
<1> QED
  BY <1>7, <1>8, <1>9, <1>11

\* A notification releases the reference its task is for.
LEMMA NotifyKeepsReferences ==
  ASSUME TypeInv, TypeInv', QueueInv, RefsInv, NEW t \in Mutators, Notify(t)
  PROVE  RefsInv'
<1>1. /\ t \in Threads /\ op \in [Threads -> ApiCall] /\ op[t] \in ApiCall /\ op[t].at = "notify"
      /\ op[t].task \in DestroyTask /\ ForListener(op[t].task) /\ None \notin Listeners
      /\ txn' = txn /\ owned' = owned
  BY ConstantsAssumption DEF TypeInv, TypeOK, Notify, CallsConsistent, CallConsistent, QueueInv
<1>2. PICK task : task = op[t].task
  OBVIOUS
<1>3. refs' = IF task.what = "listener" THEN [refs EXCEPT ![task.lsn] = @ - 1] ELSE refs
  BY <1>2 DEF Notify
<1>4. task.what = "listener" <=> task.lsn \in Listeners
  BY <1>1, <1>2 DEF ForListener, DestroyTask
<1>5. /\ op'[t].at = "relock" /\ op'[t].destroy = op[t].destroy
      /\ \A u \in Threads : u # t => op'[u] = op[u]
  BY <1>1 DEF Notify, ApiCall
<1>6. 0 \notin DOMAIN op[t].destroy
  BY <1>1 DEF ApiCall
<1>7. ASSUME NEW l
      PROVE  /\ \A i : SharedPlace(i, l)' <=> SharedPlace(i, l)
             /\ \A u \in Threads : \A i :
                  OwnPlace(u, i, l)' <=> OwnPlace(u, i, l) /\ ~(u = t /\ i = 0)
             /\ OwnPlace(t, 0, l) <=> task.lsn = l
  <2>1. \A i : SharedPlace(i, l)' <=> SharedPlace(i, l)
    BY <1>1 DEF SharedPlace
  <2>2. \A i : OwnPlace(t, i, l)' <=> OwnPlace(t, i, l) /\ i # 0
    BY <1>1, <1>5, <1>6 DEF OwnPlace
  <2>3. \A u \in Threads : u # t => \A i : OwnPlace(u, i, l)' <=> OwnPlace(u, i, l)
    BY <1>5 DEF OwnPlace
  <2>4. OwnPlace(t, 0, l) <=> task.lsn = l
    BY <1>1, <1>2, <1>6 DEF OwnPlace
  <2> QED
    BY <2>1, <2>2, <2>3, <2>4
<1>8. ASSUME NEW l \in Listeners, l # task.lsn
      PROVE  IsFiniteSet(ReleasePlaces(l)') /\ refs'[l] = References(l)'
  <2>1. SamePlaces(l)
    BY <1>1, <1>7, <1>8 DEF SamePlaces
  <2>2. ReleasePlaces(l)' = ReleasePlaces(l)
    BY <2>1, SameReferences
  <2>3. refs'[l] = refs[l]
    BY <1>3, <1>8 DEF TypeInv, TypeOK
  <2> QED
    BY <1>1, <2>2, <2>3 DEF RefsInv, References
<1>9. ASSUME NEW l \in Listeners, l = task.lsn
      PROVE  IsFiniteSet(ReleasePlaces(l)') /\ refs'[l] = References(l)'
  <2>1. IsFiniteSet(ReleasePlaces(l)) /\ refs[l] = References(l)
    BY DEF RefsInv
  <2>2. /\ OwnPlace(t, 0, l)
        /\ \A i : SharedPlace(i, l)' <=> SharedPlace(i, l)
        /\ \A u \in Threads : \A i : OwnPlace(u, i, l)' <=> OwnPlace(u, i, l) /\ <<u, i>> # <<t, 0>>
    BY <1>1, <1>7, <1>9
  <2>3. /\ IsFiniteSet(ReleasePlaces(l)')
        /\ Cardinality(ReleasePlaces(l)') = Cardinality(ReleasePlaces(l)) - 1
    BY <1>1, <2>1, <2>2, OneTaskLess
  <2>4. refs'[l] = refs[l] - 1
    BY <1>3, <1>4, <1>9 DEF TypeInv, TypeOK
  <2>5. Cardinality(ReleasePlaces(l)) \in Nat
    BY <2>1, FS_CardinalityType
  <2> QED
    BY <1>1, <2>1, <2>3, <2>4, <2>5 DEF References
<1> QED
  BY <1>8, <1>9 DEF RefsInv

LEMMA NotifyKeeps ==
  ASSUME TypeInv, TypeInv', ListenersKept, NEW t \in Mutators, Notify(t)
  PROVE  ListenersKept'
<1>. USE DEF ListenersKept
<1>1. /\ t \in Threads /\ op \in [Threads -> ApiCall] /\ op[t] \in ApiCall /\ op[t].at = "notify"
      /\ UNCHANGED <<txn, owned, entries, calls>>
  BY ConstantsAssumption DEF TypeInv, TypeOK, Notify
<1>2. /\ op'[t].at = "relock" /\ op'[t].destroy = op[t].destroy /\ op'[t].lsn = op[t].lsn
      /\ \A u \in Threads : u # t => op'[u] = op[u]
  BY <1>1 DEF Notify, ApiCall
<1>3. ASSUME NEW d \in Ctxs PROVE fc'[d].state = fc[d].state \/ fc'[d].state = "freed"
  <2>1. PICK x : fc' = fc \/ fc' = [fc EXCEPT ![x].state = "freed"]
    BY DEF Notify
  <2>2. fc \in [Ctxs -> FunctionContext] /\ fc[d] \in FunctionContext
    BY DEF TypeInv, TypeOK
  <2>3. CASE x = d /\ fc' # fc
    <3>1. fc'[d] = [fc[d] EXCEPT !.state = "freed"]
      BY <2>1, <2>2, <2>3
    <3> QED
      BY <2>2, <3>1 DEF FunctionContext
  <2>4. CASE x # d \/ fc' = fc
    BY <2>1, <2>2, <2>4
  <2> QED
    BY <2>3, <2>4
<1>4. QueueInv'
  <2>1. "relock" \in WorkingOnTasks /\ "relock" # "notify"
    BY DEF WorkingOnTasks
  <2> QED
    BY <1>1, <1>2, <2>1 DEF QueueInv, ForListener
<1>5. RefsInv'
  BY NotifyKeepsReferences
<1>6. OwnedInv'
  BY <1>1, <1>2, <1>3 DEF OwnedInv, Current
<1>7. ASSUME NEW d, NEW l, IsKept(d, l) PROVE IsKept(d, l)'
  <2>1. l \in Current(d).live => l \in Current(d)'.live
    BY <1>1 DEF Current
  <2>2. IsRetiring(d, l) => IsRetiring(d, l)'
    BY <1>1, <1>2 DEF IsRetiring
  <2>3. IsWaiting(d, l) => IsWaiting(d, l)'
    BY <1>1, <1>2 DEF IsWaiting
  <2> QED
    BY <1>7, <2>1, <2>2, <2>3 DEF IsKept
<1>8. SnapshotInv'
  BY <1>1, <1>7, ListenersStay DEF ArraysStay
<1> QED
  BY <1>4, <1>5, <1>6, <1>8

\* The creator gives up a reference that is its own.
LEMMA UnrefKeeps ==
  ASSUME TypeInv, TypeInv', ListenersKept, NEW l \in Listeners, Unref(l)
  PROVE  ListenersKept'
<1>. USE DEF ListenersKept
<1>1. UNCHANGED <<txn, op, entries, calls, fc>>
  BY DEF Unref
<1>2. QueueInv'
  BY <1>1 DEF QueueInv, ForListener
<1>3. RefsInv'
  <2>1. ASSUME NEW k \in Listeners
        PROVE  IsFiniteSet(ReleasePlaces(k)') /\ refs'[k] = References(k)'
    <3>1. SamePlaces(k)
      BY <1>1 DEF SamePlaces, SharedPlace, OwnPlace
    <3>2. ReleasePlaces(k)' = ReleasePlaces(k)
      BY <3>1, SameReferences
    <3>3. IsFiniteSet(ReleasePlaces(k)) /\ refs[k] = References(k)
      BY DEF RefsInv
    <3>4. Cardinality(ReleasePlaces(k)) \in Nat
      BY <3>3, FS_CardinalityType
    <3>5. refs' = [refs EXCEPT ![l] = @ - 1] /\ owned' = owned \ {l} /\ l \in owned
      BY DEF Unref
    <3>6. refs \in [Listeners -> Int]
      BY DEF TypeInv, TypeOK
    <3> QED
      BY <3>2, <3>3, <3>4, <3>5, <3>6 DEF References
  <2> QED
    BY <2>1 DEF RefsInv
<1>4. OwnedInv'
  BY <1>1 DEF OwnedInv, Unref, Current
<1>5. \A d, k : IsKept(d, k) => IsKept(d, k)'
  BY <1>1 DEF IsKept, Current, IsRetiring, IsWaiting
<1>6. SnapshotInv'
  BY <1>1, <1>5, ListenersStay DEF ArraysStay
<1> QED
  BY <1>2, <1>3, <1>4, <1>6

-----------------------------------------------------------------------------
(* Invocations *)

\* An array an invocation needs after a step is one it needed before, or the
\* newest of its context.
ArraysTaken ==
  \A u \in Threads : \A i \in DOMAIN calls'[u] :
    Safe(calls'[u][i]) /\ calls'[u][i].snap # 0 =>
      \/ calls'[u][i].snap = Len(entries[calls'[u][i].ctx])
      \/ /\ i \in DOMAIN calls[u] /\ Safe(calls[u][i])
         /\ calls'[u][i].ctx = calls[u][i].ctx /\ calls'[u][i].snap = calls[u][i].snap

LEMMA HeldTakesNone ==
  ASSUME HeldBefore(<<>>)
  PROVE  ArraysTaken
<1>1. \A u, i : <<u, i>> # <<>>
  OBVIOUS
<1> QED
  BY <1>1 DEF HeldBefore, ArraysTaken, Safe

LEMMA TopTakes ==
  ASSUME TypeInv, NEW t \in Threads, calls[t] # <<>>, NEW fr \in Frame, SetTop(t, fr),
         fr.snap \in {0, Len(entries[fr.ctx])}
  PROVE  ArraysTaken
<1>1. /\ \A u \in Threads : DOMAIN calls'[u] = DOMAIN calls[u]
      /\ \A u \in Threads : \A i \in DOMAIN calls[u] :
           calls'[u][i] = IF u = t /\ i = Len(calls[t]) THEN fr ELSE calls[u][i]
  BY SetTopFrames
<1> QED
  BY <1>1 DEF ArraysTaken

LEMMA InvocationsTake ==
  ASSUME ReleaseInv, NEW t \in Callers,
         \/ InvocationSteps(t) \/ Return(t)
         \/ (\E f \in Functions : Call(t, f)) \/ \E c \in Ctxs : CallOriginal(t, c)
  PROVE  UNCHANGED control /\ OnlyCounts /\ ArraysTaken
<1>1. t \in Threads /\ TypeInv
  BY ConstantsAssumption DEF ReleaseInv
<1>2. ASSUME SameHolders PROVE UNCHANGED control /\ OnlyCounts /\ ArraysTaken
  BY <1>1, <1>2, NoContextChanges, HeldTakesNone DEF SameHolders
<1>3. CASE \/ Return(t) \/ (\E f \in Functions : Call(t, f)) \/ \E c \in Ctxs : CallOriginal(t, c)
  BY <1>2, <1>3, CallFrames
<1>4. CASE \/ Jump(t) \/ Decide(t) \/ TellListener(t) \/ EnterDone(t) \/ ChooseHop(t)
           \/ InvokeOriginal(t) \/ EndInvocation(t) \/ UseAfterFree(t)
  BY <1>2, <1>4, QuietFrames
<1>5. CASE LoadReplacement(t)
  BY <1>2, <1>5, LoadFrames
<1>6. CASE Release(t) \/ LeaveDone(t)
  BY <1>6, DropFrames, HeldTakesNone
<1>7. CASE TakeSnapshot(t)
  <2> DEFINE marked == [Top(t) EXCEPT !.snap = Len(entries[Top(t).ctx])]
             fr == [marked EXCEPT !.at = "enter",
                                  !.todo = IF marked.invoke THEN Snapshot(marked).live ELSE {}]
  <2>1. /\ calls[t] # <<>> /\ SetTop(t, fr) /\ UNCHANGED <<control, fc>> /\ Top(t).at = "snap"
    BY <1>7 DEF TakeSnapshot, Steps, Running
  <2>2. Top(t) \in Frame /\ Top(t).ctx \in Ctxs
    BY <1>1, <2>1, TopType DEF FrameConsistent, OnContext
  <2>3. /\ Len(entries[Top(t).ctx]) \in Nat /\ Current(Top(t).ctx).live \in SUBSET Listeners
    BY <1>1, <2>2, CurrentType
  <2>4. /\ marked \in Frame /\ marked.ctx = Top(t).ctx /\ marked.snap = Len(entries[Top(t).ctx])
    BY <2>2, <2>3 DEF Frame
  <2>5. Snapshot(marked).live \in SUBSET Listeners
    BY <2>3, <2>4 DEF Snapshot, Current
  <2>6. fr \in Frame /\ fr.ctx = marked.ctx /\ fr.snap = marked.snap
    BY <2>4, <2>5 DEF Frame
  <2>. HIDE DEF fr, marked
  <2> QED
    BY <1>1, <2>1, <2>4, <2>6, NoContextChanges, TopTakes
<1>8. CASE BeginInvocation(t)
  <2>1. /\ calls[t] # <<>> /\ Top(t).addr \in Ctxs /\ Top(t).at = "jump" /\ ~Faulty(t)
        /\ fc' = [fc EXCEPT ![Top(t).addr].counter = @ + 1] /\ UNCHANGED control
    BY <1>8 DEF BeginInvocation, Steps, Running
  <2>2. PICK step \in {"release", "decide"}, late \in BOOLEAN :
          SetTop(t, [JumpTo(None) EXCEPT !.at = step, !.ctx = Top(t).addr, !.counted = TRUE,
                                         !.late = late])
    BY <1>8 DEF BeginInvocation
  <2> DEFINE fr == [JumpTo(None) EXCEPT !.at = step, !.ctx = Top(t).addr, !.counted = TRUE,
                                        !.late = late]
  <2>3. fr \in Frame /\ fr.snap = 0 /\ SetTop(t, fr)
    BY <2>1, <2>2 DEF JumpTo, Frame
  <2>. HIDE DEF fr
  <2>4. ArraysTaken
    BY <1>1, <2>1, <2>3, TopTakes
  <2>5. fc[Top(t).addr].state # "unborn"
    <3>1. FrameBorn(Top(t))
      BY <1>1, <2>1, TopType DEF ReleaseInv, FramesBorn, Top
    <3> QED
      BY <2>1, <3>1 DEF FrameBorn, Born
  <2>6. OnlyCounts
    BY <1>1, <2>1, <2>5 DEF OnlyCounts, TypeInv, TypeOK, FunctionContext
  <2> QED
    BY <2>1, <2>4, <2>6
<1> QED
  BY <1>3, <1>4, <1>5, <1>6, <1>7, <1>8 DEF InvocationSteps

\* An invocation takes the newest array of its context, whose listeners are
\* still attached.
LEMMA InvocationsKeep ==
  ASSUME ReleaseInv, ListenersKept, NEW t \in Callers,
         \/ InvocationSteps(t) \/ Return(t)
         \/ (\E f \in Functions : Call(t, f)) \/ \E c \in Ctxs : CallOriginal(t, c)
  PROVE  ListenersKept'
<1>. USE DEF ListenersKept
<1>1. UNCHANGED control /\ OnlyCounts /\ ArraysTaken
  BY InvocationsTake
<1>2. UNCHANGED <<txn, op, entries, refs, owned>>
  BY <1>1 DEF control
<1>3. QueueInv'
  BY <1>2 DEF QueueInv, ForListener
<1>4. RefsInv'
  <2>1. \A l : ReleasePlaces(l)' = ReleasePlaces(l)
    BY <1>2 DEF ReleasePlaces, SharedPlace, OwnPlace
  <2> QED
    BY <1>2, <2>1 DEF RefsInv, References
<1>5. OwnedInv'
  BY <1>1, <1>2 DEF OwnedInv, Current, OnlyCounts
<1>6. \A c, l : IsKept(c, l)' <=> IsKept(c, l)
  BY <1>2 DEF IsKept, IsRetiring, IsWaiting, Current
<1>7. SnapshotInv'
  <2> SUFFICES ASSUME NEW u \in Threads, NEW i \in DOMAIN calls'[u],
                      Safe(calls'[u][i]), calls'[u][i].snap # 0,
                      NEW l \in entries[calls'[u][i].ctx][calls'[u][i].snap].live
               PROVE  IsKept(calls'[u][i].ctx, l)
    BY <1>2, <1>6 DEF SnapshotInv, Safe, Snapshot
  <2>1. CASE calls'[u][i].snap = Len(entries[calls'[u][i].ctx])
    BY <2>1 DEF IsKept, Current
  <2>2. CASE /\ i \in DOMAIN calls[u] /\ Safe(calls[u][i])
             /\ calls'[u][i].ctx = calls[u][i].ctx /\ calls'[u][i].snap = calls[u][i].snap
    BY <2>2 DEF SnapshotInv, Snapshot
  <2> QED
    BY <1>1, <2>1, <2>2 DEF ArraysTaken
<1> QED
  BY <1>3, <1>4, <1>5, <1>7

-----------------------------------------------------------------------------
(* The theorems about listeners *)

LEMMA InitListeners == Init => ListenersKept
<1> SUFFICES ASSUME Init PROVE ListenersKept
  OBVIOUS
<1>1. /\ \A c \in Ctxs : entries[c] = <<[len |-> 0, live |-> {}]>>
      /\ DOMAIN <<>> = {} /\ txn.destroy = <<>> /\ owned = Listeners
      /\ \A t \in Threads : calls[t] = <<>> /\ op[t] = Idle
      /\ \A l \in Listeners : refs[l] = 1
  <2>1. \A c \in Ctxs : entries[c] = <<[len |-> 0, live |-> {}]>>
    BY DEF Init
  <2>2. DOMAIN <<>> = {} /\ txn.destroy = <<>> /\ owned = Listeners
    BY DEF Init, CleanTransaction
  <2>3. \A t \in Threads : calls[t] = <<>> /\ op[t] = Idle
    BY DEF Init
  <2>4. \A l \in Listeners : refs[l] = 1
    BY DEF Init
  <2> QED
    BY <2>1, <2>2, <2>3, <2>4
<1>2. Idle.destroy = <<>> /\ Idle.at = "idle" /\ Idle.lsn = None
  BY DEF Idle
<1>3. QueueInv
  BY <1>1, <1>2 DEF QueueInv
<1>4. RefsInv
  <2>1. \A l : ReleasePlaces(l) = {}
    BY <1>1, <1>2 DEF ReleasePlaces, SharedPlace, OwnPlace
  <2>2. IsFiniteSet({}) /\ Cardinality({}) = 0
    BY FS_EmptySet
  <2>3. \A l \in Listeners : Cardinality(ReleasePlaces(l)) = 0 /\ IsFiniteSet(ReleasePlaces(l))
    BY <2>1, <2>2
  <2>4. \A l \in Listeners : References(l) = 1
    BY <1>1, <2>3 DEF References
  <2> QED
    BY <1>1, <2>3, <2>4 DEF RefsInv
<1>5. OwnedInv
  <2>1. \A c \in Ctxs : Current(c).live = {}
    BY <1>1 DEF Current
  <2> QED
    BY <1>1, <1>2, <2>1 DEF OwnedInv
<1>6. SnapshotInv
  BY <1>1 DEF SnapshotInv
<1> QED
  BY <1>3, <1>4, <1>5, <1>6 DEF ListenersKept

LEMMA NextKeepsListeners == ListenerInv /\ [Next]_vars => ListenerInv'
<1> SUFFICES ASSUME ListenerInv, [Next]_vars PROVE ListenerInv'
  OBVIOUS
<1>1. /\ ReleaseInv /\ ListenersKept /\ ReleaseInv' /\ TypeInv /\ TypeInv' /\ SharedBorn
  BY NextKeepsReleases DEF ListenerInv, ReleaseInv
<1>. SUFFICES ListenersKept'
  BY <1>1 DEF ListenerInv
<1>2. ASSUME NEW t \in Mutators, ApiStarts(t) PROVE ListenersKept'
  <2>1. CASE \E f \in Functions, l \in Listeners : Attach(t, f, l)
    BY <1>1, <2>1, AttachKeeps
  <2>2. CASE ~\E f \in Functions, l \in Listeners : Attach(t, f, l)
    BY <1>1, <1>2, <2>2, StartsKeep
  <2> QED
    BY <2>1, <2>2
<1>3. ASSUME NEW t \in Mutators, ApiSteps(t) \/ Relock(t) PROVE ListenersKept'
  <2>1. CASE \E c \in Ctxs : DetachFrom(t, c)
    BY <1>1, <2>1, DetachFromKeeps
  <2>2. CASE DetachRetire(t)
    BY <1>1, <2>2, RetireKeeps
  <2>3. CASE EndTakesCopy(t)
    BY <1>1, <2>3, CopyKeeps
  <2>4. CASE TaskRuns(t)
    BY <1>1, <2>4, RunKeeps
  <2>5. CASE TaskRequeued(t)
    BY <1>1, <2>5, RequeueKeeps
  <2>6. CASE Notify(t)
    BY <1>1, <2>6, NotifyKeeps
  <2>7. CASE \/ AttachFlags(t) \/ DetachDone(t) \/ EndNothingToDo(t)
             \/ (\E c \in Ctxs : ActivateUpdate(t, c) \/ DeactivateUpdate(t, c))
             \/ Patched(t) \/ TasksDone(t) \/ Relock(t)
    BY <1>1, <2>7, StepsKeep
  <2> QED
    BY <1>3, <2>1, <2>2, <2>3, <2>4, <2>5, <2>6, <2>7 DEF ApiSteps
<1>4. ASSUME NEW t \in Callers,
             \/ InvocationSteps(t) \/ Return(t)
             \/ (\E f \in Functions : Call(t, f)) \/ \E c \in Ctxs : CallOriginal(t, c)
      PROVE  ListenersKept'
  BY <1>1, <1>4, InvocationsKeep
<1>5. ASSUME NEW l \in Listeners, Unref(l) PROVE ListenersKept'
  BY <1>1, <1>5, UnrefKeeps
<1>6. CASE UNCHANGED vars
  <2>1. UNCHANGED <<op, txn, fc, entries, calls, refs, owned>>
    BY <1>6 DEF vars
  <2>2. QueueInv'
    BY <1>1, <2>1 DEF ListenersKept, QueueInv, ForListener
  <2>3. RefsInv'
    <3>1. \A l : ReleasePlaces(l)' = ReleasePlaces(l)
      BY <2>1 DEF ReleasePlaces, SharedPlace, OwnPlace
    <3> QED
      BY <1>1, <2>1, <3>1 DEF ListenersKept, RefsInv, References
  <2>4. OwnedInv'
    BY <1>1, <2>1 DEF ListenersKept, OwnedInv, Current
  <2>5. SnapshotInv'
    <3>1. ASSUME NEW c, NEW l, IsKept(c, l) PROVE IsKept(c, l)'
      BY <2>1, <3>1 DEF IsKept, IsRetiring, IsWaiting, Current
    <3>2. ArraysStay
      BY <2>1 DEF ArraysStay
    <3> QED
      BY <1>1, <2>1, <3>1, <3>2, ListenersStay DEF ListenersKept
  <2> QED
    BY <2>2, <2>3, <2>4, <2>5 DEF ListenersKept
<1> QED
  BY <1>2, <1>3, <1>4, <1>5, <1>6 DEF Next

\* The invariant holds in every state the interceptor reaches.
THEOREM ListenerInvariant == Spec => []ListenerInv
<1>1. Init => ListenerInv
  BY InitReleases, InitListeners DEF ListenerInv
<1> QED
  BY <1>1, NextKeepsListeners, PTL DEF Spec

\* The reference count of a listener is what remains to be released: none is
\* leaked, and none is released twice.
THEOREM ReferencesAreExact == Spec => []RefsInv
<1>1. ListenerInv => RefsInv
  BY DEF ListenerInv, ListenersKept
<1> QED
  BY <1>1, ListenerInvariant, PTL

\* What is kept has a reference.
LEMMA KeptHaveReferences ==
  ASSUME ListenerInv, NEW c \in Ctxs, fc[c].state = "live", NEW l \in Listeners, IsKept(c, l)
  PROVE  refs[l] > 0
<1>1. TypeInv /\ RefsInv /\ OwnedInv
  BY DEF ListenerInv, ReleaseInv, ListenersKept
<1>2. IsFiniteSet(ReleasePlaces(l)) /\ refs[l] = References(l)
  BY <1>1 DEF RefsInv
<1>3. Cardinality(ReleasePlaces(l)) \in Nat
  BY <1>2, FS_CardinalityType
<1>4. CASE l \in owned
  BY <1>2, <1>3, <1>4 DEF References
<1>5. CASE ReleasePlaces(l) # {}
  <2>1. Cardinality(ReleasePlaces(l)) # 0
    BY <1>2, <1>5, FS_EmptySet
  <2> QED
    BY <1>2, <1>3, <2>1 DEF References
<1>6. CASE l \in Current(c).live
  BY <1>1, <1>4, <1>6 DEF OwnedInv
<1>7. CASE IsRetiring(c, l)
  BY <1>1, <1>4, <1>7, ConstantsAssumption DEF OwnedInv, IsRetiring
<1>8. CASE IsWaiting(c, l)
  <2>1. \/ \E i : SharedPlace(i, l)
        \/ \E t \in Threads : \E i : OwnPlace(t, i, l)
    BY <1>8 DEF IsWaiting, SharedPlace, OwnPlace
  <2> QED
    BY <1>1, <1>5, <2>1, PlacesAre
<1> QED
  BY <1>6, <1>7, <1>8 DEF IsKept

\* Every listener of the array an invocation in flight has taken has a
\* reference, although detach has returned and the program may have dropped its
\* own: the reference that detach takes is released by the task that waits for
\* the invocation.
THEOREM ListenersAreKept == Spec => []ListenersAreProtected
<1>1. ListenerInv => ListenersAreProtected
  <2> SUFFICES ASSUME ListenerInv, NEW t \in Threads, NEW i \in DOMAIN calls[t],
                      Safe(calls[t][i]), calls[t][i].snap # 0,
                      NEW l \in Snapshot(calls[t][i]).live
               PROVE  refs[l] > 0
    BY DEF ListenersAreProtected
  <2>1. TypeInv /\ InvocationsAreProtected /\ SnapshotInv
    BY DEF ListenerInv, ReleaseInv, ListenersKept
  <2>2. calls[t][i].ctx \in Ctxs /\ calls[t][i].snap \in DOMAIN entries[calls[t][i].ctx]
    BY <2>1 DEF TypeInv, FramesConsistent, FrameConsistent
  <2>3. fc[calls[t][i].ctx].state = "live"
    BY <2>1 DEF InvocationsAreProtected, Protected
  <2>4. IsKept(calls[t][i].ctx, l)
    BY <2>1 DEF SnapshotInv
  <2>5. l \in Listeners
    <3>1. entries[calls[t][i].ctx] \in Seq(ListenerArray)
      BY <2>1, <2>2 DEF TypeInv, TypeOK
    <3>2. Snapshot(calls[t][i]) \in ListenerArray
      BY <2>2, <3>1 DEF Snapshot
    <3> QED
      BY <3>2 DEF ListenerArray
  <2> QED
    BY <2>2, <2>3, <2>4, <2>5, KeptHaveReferences
<1> QED
  BY <1>1, ListenerInvariant, PTL
=============================================================================
