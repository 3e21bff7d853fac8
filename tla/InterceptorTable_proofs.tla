--------------------------- MODULE InterceptorTable_proofs ---------------------------
(***************************************************************************)
(* Theorems about the code of the hooked functions: when the interceptor   *)
(* is quiet it is what the table says, it is patched at the outermost end  *)
(* of a transaction only, and the listener arrays fit.  Then theorems      *)
(* about programs that begin no transaction: what attach reported as       *)
(* attached is reached until detach is called, and the hooks of a function *)
(* change by one listener or one replacement at a time.                    *)
(*                                                                         *)
(* The argument: a context that was not given up is the one the table has  *)
(* for its address; it is patched in, or an update that patches it in is   *)
(* pending.  One that was given up is patched out, or the update that      *)
(* patches it out is.  Code that leads anywhere leads to the one context   *)
(* that is patched in at its address.  Updates are pending in a            *)
(* transaction that has begun, or in the hands of a thread which has the   *)
(* lock, so that none is when the interceptor is quiet.                    *)
(*                                                                         *)
(* The calls of a program that begins no transaction begin when the        *)
(* interceptor is quiet, so that the function they name is hooked exactly  *)
(* if its code leads to a context.  A context that is about to be patched  *)
(* in has its one listener or its replacement and nothing else, so that    *)
(* patching is the step that hooks the function; one that was given up and *)
(* is about to be patched out has nothing left, unless it is a fast        *)
(* replacement.                                                            *)
(***************************************************************************)
EXTENDS Interceptor_proofs

-----------------------------------------------------------------------------
(* The inductive invariant *)

\* An update waits in the shared transaction or in a caller's copy of it.
IsPending(c, what) ==
  \/ <<c, what>> \in txn.updates
  \/ \E t \in Threads : <<c, what>> \in op[t].updates

\* What the code at its address is patched with.
Target(c) == IF fc[c].fast THEN fc[c].original ELSE c

\* The table has exactly the contexts that were not given up.
TableInv ==
  /\ \A a \in Addr : \A c \in Ctxs : table[a] = c =>
       fc[c].addr = a /\ fc[c].state = "live" /\ ~fc[c].destroyed
  /\ \A c \in Ctxs : fc[c].state # "unborn" =>
       /\ fc[c].addr \in Addr
       /\ ~fc[c].destroyed => table[fc[c].addr] = c
RetireInv ==
  \A t \in Threads : op[t].at = "retire" => \E a \in Addr : table[a] = op[t].ctx

\* Code leads to the context that is patched in at its address, and only one is:
\* the others there have all been given up, and are patched out already.
CodeInv ==
  /\ \A c \in Ctxs : fc[c].saved = None
  /\ \A c \in Ctxs : fc[c].activated => code[fc[c].addr] = Target(c)
  /\ \A a \in Addr : code[a] # None => \E c \in Ctxs : fc[c].activated /\ fc[c].addr = a
AloneInv ==
  \A c, d \in Ctxs :
    c # d /\ fc[c].state # "unborn" /\ fc[d].activated /\ fc[c].addr = fc[d].addr
      => fc[c].destroyed /\ ~fc[c].activated

\* A fast replacement shares its function with nobody and is not replaced again.
FastInv ==
  \A c \in Ctxs :
    /\ fc[c].state = "unborn" \/ fc[c].fast => Current(c).live = {}
    /\ fc[c].fast => /\ fc[c].original \in Replacements
                     /\ ~fc[c].destroyed => fc[c].repl = fc[c].original

\* What is still to be patched is pending.
PendingInv ==
  \A c \in Ctxs :
    /\ IsPending(c, "activate") => ~fc[c].activated
    /\ fc[c].state # "unborn" /\ ~fc[c].destroyed /\ ~fc[c].activated
         => IsPending(c, "activate")
    /\ IsPending(c, "deactivate") <=> fc[c].destroyed /\ fc[c].activated

\* A thread has updates in hand while it patches, and no transaction is open then.
StageInv ==
  /\ \A t \in Threads : op[t].updates # {} => op[t].at = "patch"
  /\ \A t \in Threads : op[t].at = "patch" =>
       txn.updates = {} /\ \A u \in Threads : open[u] = 0
  /\ ~txn.dirty \/ txn.level = 0 => txn.updates = {}
  /\ \A t \in Threads : op[t].at \in {"detaching", "retire"} => txn.dirty

\* The transaction's level counts the transactions that threads have open and
\* the one of the call that has the lock.
Opens == UNION {{t} \X (1 .. open[t]) : t \in Threads}
InTransaction == {"flags", "detaching", "retire", "end"}
LevelInv ==
  /\ IsFiniteSet(Opens)
  /\ txn.level = Cardinality(Opens)
                 + IF \E t \in Threads : op[t].at \in InTransaction THEN 1 ELSE 0

Calm == ReleaseInv /\ LockProtects
Staged == StageInv /\ LevelInv
Hooked == TableInv /\ CodeInv /\ AloneInv /\ FastInv /\ PendingInv
HookInv == Calm /\ Staged /\ RetireInv /\ Hooked

-----------------------------------------------------------------------------
(* Transactions *)

\* The levels that belong to a call at a step.
Levels(o) == IF o.at \in InTransaction THEN 1 ELSE 0

\* The thread that has the lock, or takes it, is the only one in a call that
\* counts; so the level is right if it moves with the call and what is open.
LEMMA LevelMoves ==
  ASSUME TypeInv, LockProtects, LevelInv, NEW t \in Threads, lock \in {None, t},
         NEW o, op' = [op EXCEPT ![t] = o],
         NEW n \in Int, IsFiniteSet(Opens'), Cardinality(Opens') = Cardinality(Opens) + n,
         txn'.level = txn.level + n + Levels(o) - Levels(op[t])
  PROVE  LevelInv'
<1>1. /\ op \in [Threads -> ApiCall]
      /\ \A u \in Threads : op'[u] = IF u = t THEN o ELSE op[u]
  BY DEF TypeInv, TypeOK
<1>2. InTransaction \subseteq LockedSteps
  BY DEF InTransaction, LockedSteps
<1>3. \A u \in Threads : u # t => op[u].at \notin InTransaction
  BY <1>2, ConstantsAssumption DEF LockProtects
<1>4. /\ (\E u \in Threads : op[u].at \in InTransaction) <=> op[t].at \in InTransaction
      /\ (\E u \in Threads : op'[u].at \in InTransaction) <=> o.at \in InTransaction
  BY <1>1, <1>3
<1>5. Cardinality(Opens) \in Nat
  BY FS_CardinalityType DEF LevelInv
<1>6. txn.level = Cardinality(Opens) + Levels(op[t])
  BY <1>4 DEF LevelInv, Levels
<1>7. txn'.level = Cardinality(Opens') + Levels(o)
  BY <1>5, <1>6 DEF Levels
<1> QED
  BY <1>4, <1>7 DEF LevelInv, Levels

\* A step of the thread that has the lock, or takes it, in a transaction.
LEMMA StageMoves ==
  ASSUME TypeInv, LockProtects, Staged, NEW t \in Threads, lock \in {None, t},
         NEW o, op' = [op EXCEPT ![t] = o],
         o.updates # {} => o.at = "patch",
         o.at = "patch" => txn'.updates = {} /\ \A u \in Threads : open'[u] = 0,
         ~txn'.dirty \/ txn'.level = 0 => txn'.updates = {},
         o.at \in {"detaching", "retire"} => txn'.dirty
  PROVE  StageInv'
<1>1. /\ op \in [Threads -> ApiCall]
      /\ \A u \in Threads : op'[u] = IF u = t THEN o ELSE op[u]
  BY DEF TypeInv, TypeOK
<1>2. \A u \in Threads : u # t =>
        op[u].at \notin {"patch", "detaching", "retire"} /\ op[u].updates = {}
  BY ConstantsAssumption DEF LockProtects, LockedSteps, Staged, StageInv
<1> QED
  BY <1>1, <1>2 DEF StageInv

\* ... when no transaction is begun or ended by its program.
LEMMA StageStep ==
  ASSUME TypeInv, LockProtects, Staged, NEW t \in Threads, lock \in {None, t},
         NEW o, op' = [op EXCEPT ![t] = o], UNCHANGED open,
         txn'.level = txn.level + Levels(o) - Levels(op[t]),
         o.updates # {} => o.at = "patch",
         o.at = "patch" => txn'.updates = {} /\ \A u \in Threads : open[u] = 0,
         ~txn'.dirty \/ txn'.level = 0 => txn'.updates = {},
         o.at \in {"detaching", "retire"} => txn'.dirty
  PROVE  Staged'
<1>1. StageInv'
  BY StageMoves
<1>2. Opens' = Opens
  BY DEF Opens
<1>3. IsFiniteSet(Opens) /\ Cardinality(Opens) \in Nat /\ txn.level \in Int
  BY FS_CardinalityType DEF Staged, LevelInv, TypeInv, TypeOK, Transaction
<1>4. Levels(o) \in Int /\ Levels(op[t]) \in Int
  BY DEF Levels
<1>5. PICK n \in Int : n = 0
  OBVIOUS
<1>6. /\ IsFiniteSet(Opens') /\ Cardinality(Opens') = Cardinality(Opens) + n
      /\ txn'.level = txn.level + n + Levels(o) - Levels(op[t])
  BY <1>2, <1>3, <1>4, <1>5
<1>7. LevelInv
  BY DEF Staged
<1>8. LevelInv'
  BY <1>6, <1>7, LevelMoves
<1> QED
  BY <1>1, <1>8 DEF Staged

\* The level is never negative, and at least one inside a call.
LEMMA LevelIs ==
  ASSUME TypeInv, LockProtects, Staged
  PROVE  /\ txn.level \in Nat
         /\ \A t \in Threads : op[t].at \in InTransaction => txn.level > 0
         /\ txn.level = 1 /\ (\E t \in Threads : op[t].at \in InTransaction)
              => \A u \in Threads : open[u] = 0
         /\ \A u \in Threads : open[u] > 0 => txn.level > 0
<1>1. Cardinality(Opens) \in Nat /\ IsFiniteSet(Opens)
  BY FS_CardinalityType DEF Staged, LevelInv
<1>2. ASSUME NEW u \in Threads, open[u] > 0 PROVE Cardinality(Opens) # 0
  <2>1. open[u] \in Nat
    BY DEF TypeInv, TypeOK
  <2>2. <<u, 1>> \in Opens
    BY <1>2, <2>1 DEF Opens
  <2> QED
    BY <1>1, <2>2, FS_EmptySet
<1>3. \A u \in Threads : open[u] \in Nat
  BY DEF TypeInv, TypeOK
<1> QED
  BY <1>1, <1>2, <1>3 DEF Staged, LevelInv

\* A step outside the lock, and one that has nothing to do with transactions.
LEMMA StageElsewhere ==
  ASSUME TypeInv, Staged, NEW t \in Threads, NEW o, op' = [op EXCEPT ![t] = o],
         op[t].at \notin LockedSteps, o.at \notin LockedSteps, o.updates = {},
         UNCHANGED <<txn, open>>
  PROVE  Staged'
<1>1. /\ op \in [Threads -> ApiCall]
      /\ \A u \in Threads : op'[u] = IF u = t THEN o ELSE op[u]
  BY DEF TypeInv, TypeOK
<1>2. StageInv'
  BY <1>1 DEF Staged, StageInv, LockedSteps
<1>3. Opens' = Opens
  BY DEF Opens
<1>4. InTransaction \subseteq LockedSteps
  BY DEF InTransaction, LockedSteps
<1>5. (\E u \in Threads : op'[u].at \in InTransaction)
        <=> (\E u \in Threads : op[u].at \in InTransaction)
  BY <1>1, <1>4
<1>6. LevelInv'
  BY <1>3, <1>5 DEF Staged, LevelInv
<1> QED
  BY <1>2, <1>6 DEF Staged

LEMMA StageUnchanged ==
  ASSUME Staged, UNCHANGED <<op, txn, open>>
  PROVE  Staged'
BY DEF Staged, StageInv, LevelInv, Opens

\* Calls that begin: the level goes up with the call, or with the transaction.
LEMMA StartsStage ==
  ASSUME TypeInv, LockProtects, Staged, NEW t \in Threads, Starts(t), UNCHANGED open,
         NEW step \in {"flags", "detaching", "end"}, NEW c, NEW l, Goes(t, step, c, l),
         NEW destroy, NEW updates, txn' = Opened(destroy, updates)
  PROVE  Staged'
<1>. DEFINE o == [Idle EXCEPT !.kind = "update", !.at = step, !.ctx = c, !.lsn = l]
<1>1. o.at = step /\ o.updates = {} /\ op' = [op EXCEPT ![t] = o]
  BY DEF Goes, Idle
<1>. HIDE DEF o
<1>2. lock = None /\ op[t].at = "idle"
  BY DEF Starts, InUserCode
<1>3. Levels(o) = 1 /\ Levels(op[t]) = 0
  BY <1>1, <1>2 DEF Levels, InTransaction
<1>4. txn'.level = txn.level + 1 /\ txn'.dirty /\ txn.level \in Nat
  BY LevelIs DEF Opened
<1>5. txn'.level = txn.level + Levels(o) - Levels(op[t]) /\ txn'.level # 0
  BY <1>3, <1>4
<1>6. o.at # "patch"
  BY <1>1
<1> QED
  BY <1>1, <1>2, <1>4, <1>5, <1>6, StageStep

\* begin_transaction, the end of one and flush.
LEMMA TransactionsStage ==
  ASSUME TypeInv, LockProtects, Staged, NEW t \in Threads,
         BeginTransaction(t) \/ EndTransaction(t) \/ Flush(t)
  PROVE  Staged'
<1>1. /\ op \in [Threads -> ApiCall] /\ open \in [Threads -> Nat] /\ txn \in Transaction
      /\ lock = None /\ op[t].at = "idle" /\ txn.level \in Nat /\ Levels(op[t]) = 0
      /\ StageInv /\ LevelInv /\ op[t].updates = {}
  BY LevelIs
     DEF TypeInv, TypeOK, BeginTransaction, EndTransaction, Flush, InUserCode, Levels,
         InTransaction, Staged, StageInv
<1>2. CASE BeginTransaction(t)
  <2>1. /\ op' = [op EXCEPT ![t] = op[t]] /\ open' = [open EXCEPT ![t] = @ + 1]
        /\ txn' = [txn EXCEPT !.level = @ + 1]
    BY <1>1, <1>2 DEF BeginTransaction
  <2>2. Opens' = Opens \cup {<<t, open[t] + 1>>} /\ <<t, open[t] + 1>> \notin Opens
    <3>1. \A u \in Threads : open'[u] = IF u = t THEN open[u] + 1 ELSE open[u]
      BY <1>1, <2>1
    <3>2. \A x : x \in Opens' <=> \E u \in Threads : \E i \in 1 .. open'[u] : x = <<u, i>>
      BY DEF Opens
    <3>3. \A x : x \in Opens <=> \E u \in Threads : \E i \in 1 .. open[u] : x = <<u, i>>
      BY DEF Opens
    <3>4. \A u \in Threads : open[u] \in Nat
      BY <1>1
    <3>5. 1 .. open[t] + 1 = (1 .. open[t]) \cup {open[t] + 1} /\ open[t] + 1 \notin 1 .. open[t]
      BY <3>4
    <3>6. \A u, v, i, j : <<u, i>> = <<v, j>> <=> u = v /\ i = j
      OBVIOUS
    <3>7. \A x : x \in Opens' <=> x \in Opens \/ x = <<t, open[t] + 1>>
      BY <3>1, <3>2, <3>3, <3>5
    <3>8. <<t, open[t] + 1>> \notin Opens
      BY <3>3, <3>5, <3>6
    <3> QED
      BY <3>7, <3>8
  <2>3. IsFiniteSet(Opens') /\ Cardinality(Opens') = Cardinality(Opens) + 1
    BY <1>1, <2>2, FS_AddElement DEF LevelInv
  <2>4. PICK n \in Int : n = 1
    OBVIOUS
  <2>5. /\ Cardinality(Opens') = Cardinality(Opens) + n
        /\ txn'.level = txn.level + n + Levels(op[t]) - Levels(op[t])
    BY <1>1, <2>1, <2>3, <2>4 DEF Transaction
  <2>6. LevelInv'
    BY <1>1, <2>1, <2>3, <2>5, LevelMoves
  <2>7. txn'.updates = txn.updates /\ txn'.dirty = txn.dirty /\ txn'.level # 0
    BY <1>1, <2>1 DEF Transaction
  <2>8. StageInv'
    BY <1>1, <2>1, <2>7, StageMoves DEF StageInv
  <2> QED
    BY <2>6, <2>8 DEF Staged
<1>3. CASE EndTransaction(t)
  <2> DEFINE o == [Idle EXCEPT !.kind = "update", !.at = "end", !.ctx = None, !.lsn = None]
  <2>1. /\ op' = [op EXCEPT ![t] = o] /\ open' = [open EXCEPT ![t] = @ - 1]
        /\ o.at = "end" /\ o.updates = {} /\ txn' = txn /\ open[t] > 0
    BY <1>3 DEF EndTransaction, Goes, Idle
  <2>. HIDE DEF o
  <2>2. Opens' = Opens \ {<<t, open[t]>>} /\ <<t, open[t]>> \in Opens
    <3>1. \A u \in Threads : open'[u] = IF u = t THEN open[u] - 1 ELSE open[u]
      BY <1>1, <2>1
    <3>2. \A x : x \in Opens' <=> \E u \in Threads : \E i \in 1 .. open'[u] : x = <<u, i>>
      BY DEF Opens
    <3>3. \A x : x \in Opens <=> \E u \in Threads : \E i \in 1 .. open[u] : x = <<u, i>>
      BY DEF Opens
    <3>4. open[t] \in Nat
      BY <1>1
    <3>5. 1 .. open[t] - 1 = (1 .. open[t]) \ {open[t]} /\ open[t] \in 1 .. open[t]
      BY <2>1, <3>4
    <3>6. \A u, v, i, j : <<u, i>> = <<v, j>> <=> u = v /\ i = j
      OBVIOUS
    <3>7. \A x : x \in Opens' <=> x \in Opens /\ x # <<t, open[t]>>
      BY <3>1, <3>2, <3>3, <3>5, <3>6
    <3>8. <<t, open[t]>> \in Opens
      BY <3>3, <3>5
    <3> QED
      BY <3>7, <3>8
  <2>3. IsFiniteSet(Opens') /\ Cardinality(Opens') = Cardinality(Opens) - 1
    BY <1>1, <2>2, FS_RemoveElement DEF LevelInv
  <2>4. PICK n \in Int : n = -1
    OBVIOUS
  <2>5. Levels(o) = 1
    BY <2>1 DEF Levels, InTransaction
  <2>6. /\ Cardinality(Opens') = Cardinality(Opens) + n
        /\ txn'.level = txn.level + n + Levels(o) - Levels(op[t])
    BY <1>1, <2>1, <2>3, <2>4, <2>5, FS_CardinalityType DEF LevelInv
  <2>7. LevelInv'
    BY <1>1, <2>1, <2>3, <2>6, LevelMoves
  <2>8. StageInv'
    BY <1>1, <2>1, StageMoves DEF StageInv
  <2> QED
    BY <2>7, <2>8 DEF Staged
<1>4. CASE Flush(t)
  <2> DEFINE o == [Idle EXCEPT !.kind = "flush", !.at = "end"]
  <2>1. /\ op' = [op EXCEPT ![t] = o] /\ UNCHANGED open /\ txn.level = 0
        /\ o.at = "end" /\ o.updates = {} /\ txn' = [txn EXCEPT !.level = 1]
    BY <1>4 DEF Flush, Idle
  <2>. HIDE DEF o
  <2>2. Levels(o) = 1
    BY <2>1 DEF Levels, InTransaction
  <2>3. txn'.level = 1 /\ txn'.updates = txn.updates /\ txn.updates = {}
    BY <1>1, <2>1 DEF Transaction, StageInv
  <2>4. txn'.level = txn.level + Levels(o) - Levels(op[t])
    BY <1>1, <2>1, <2>2, <2>3
  <2>5. o.at # "patch"
    BY <2>1
  <2> QED
    BY <1>1, <2>1, <2>3, <2>4, <2>5, StageStep
<1> QED
  BY <1>2, <1>3, <1>4

\* The steps of a call that has the lock, or takes it again.
LEMMA StepsStage ==
  ASSUME TypeInv, LockProtects, Staged, NEW t \in Mutators,
         \/ AttachFlags(t) \/ (\E c \in Ctxs : DetachFrom(t, c)) \/ DetachRetire(t)
         \/ DetachDone(t) \/ EndNothingToDo(t) \/ EndTakesCopy(t)
         \/ (\E c \in Ctxs : ActivateUpdate(t, c) \/ DeactivateUpdate(t, c))
         \/ Patched(t) \/ TaskRuns(t) \/ TaskRequeued(t) \/ TasksDone(t) \/ Relock(t)
  PROVE  Staged'
<1>1. /\ t \in Threads /\ op \in [Threads -> ApiCall] /\ op[t] \in ApiCall
      /\ txn \in Transaction /\ txn.level \in Nat /\ StageInv
      /\ op[t].at \in InTransaction => txn.level # 0
  BY ConstantsAssumption, LevelIs DEF TypeInv, TypeOK, Staged
<1>2. UNCHANGED open
  BY DEF AttachFlags, DetachFrom, DetachRetire, DetachDone, EndNothingToDo, EndTakesCopy,
     ActivateUpdate, DeactivateUpdate, Patched, TaskRuns, TaskRequeued, TasksDone, Relock
<1>3. lock \in {None, t}
  <2>1. op[t].at \in LockedSteps \/ lock = None
    BY DEF AttachFlags, DetachFrom, DetachRetire, DetachDone, EndNothingToDo, EndTakesCopy,
       ActivateUpdate, DeactivateUpdate, Patched, TaskRuns, TaskRequeued, TasksDone, Relock,
       LockedSteps
  <2> QED
    BY <1>1, <2>1 DEF LockProtects
<1>4. ASSUME NEW o, op' = [op EXCEPT ![t] = o], o.updates # {} => o.at = "patch",
             txn'.level = txn.level + Levels(o) - Levels(op[t]),
             o.at = "patch" => txn'.updates = {} /\ \A u \in Threads : open[u] = 0,
             ~txn'.dirty \/ txn'.level = 0 => txn'.updates = {},
             o.at \in {"detaching", "retire"} => txn'.dirty
      PROVE  Staged'
  BY <1>1, <1>2, <1>3, <1>4, StageStep
<1>5. CASE AttachFlags(t) \/ DetachDone(t)
  <2>1. PICK o : /\ op' = [op EXCEPT ![t] = o] /\ o.at = "end" /\ o.updates = op[t].updates
                 /\ op[t].at \in {"flags", "detaching"} /\ txn' = txn
    <3> DEFINE one == [op[t] EXCEPT !.at = "end"]
               two == [op[t] EXCEPT !.at = "end", !.lsn = None]
    <3>1. /\ one.at = "end" /\ one.updates = op[t].updates
          /\ two.at = "end" /\ two.updates = op[t].updates
      BY <1>1 DEF ApiCall
    <3>2. /\ op' = [op EXCEPT ![t] = one] \/ op' = [op EXCEPT ![t] = two]
          /\ op[t].at \in {"flags", "detaching"} /\ txn' = txn
      BY <1>5 DEF AttachFlags, DetachDone
    <3>. HIDE DEF one, two
    <3> QED
      BY <3>1, <3>2
  <2>2. Levels(o) = 1 /\ Levels(op[t]) = 1
    BY <2>1 DEF Levels, InTransaction
  <2>3. txn'.level = txn.level + Levels(o) - Levels(op[t])
    BY <1>1, <2>1, <2>2
  <2> QED
    BY <1>1, <1>4, <2>1, <2>3 DEF StageInv
<1>6. CASE \E c \in Ctxs : DetachFrom(t, c)
  <2> PICK c \in Ctxs : DetachFrom(t, c)
    BY <1>6
  <2> DEFINE o == [op[t] EXCEPT !.at = "retire", !.ctx = c]
  <2>1. /\ op' = [op EXCEPT ![t] = o] /\ o.at = "retire" /\ o.updates = op[t].updates
        /\ op[t].at = "detaching" /\ txn'.level = txn.level /\ txn'.dirty = txn.dirty
        /\ txn'.updates = txn.updates
    BY <1>1 DEF ApiCall, DetachFrom, Transaction
  <2>. HIDE DEF o
  <2>2. Levels(o) = 1 /\ Levels(op[t]) = 1
    BY <2>1 DEF Levels, InTransaction
  <2>3. txn'.level = txn.level + Levels(o) - Levels(op[t])
    BY <1>1, <2>1, <2>2
  <2> QED
    BY <1>1, <1>4, <2>1, <2>3 DEF StageInv
<1>7. CASE DetachRetire(t)
  <2> DEFINE o == [op[t] EXCEPT !.at = "detaching", !.ctx = None]
  <2>1. /\ op' = [op EXCEPT ![t] = o] /\ o.at = "detaching" /\ o.updates = op[t].updates
        /\ op[t].at = "retire" /\ txn'.level = txn.level /\ txn'.dirty = txn.dirty
    BY <1>1, <1>7 DEF ApiCall, DetachRetire, Transaction
  <2>. HIDE DEF o
  <2>2. Levels(o) = 1 /\ Levels(op[t]) = 1
    BY <2>1 DEF Levels, InTransaction
  <2>3. txn'.level = txn.level + Levels(o) - Levels(op[t])
    BY <1>1, <2>1, <2>2
  <2>4. txn'.dirty /\ txn'.level # 0
    BY <1>1, <2>1 DEF StageInv, InTransaction
  <2> QED
    BY <1>1, <1>4, <2>1, <2>3, <2>4 DEF StageInv
<1>8. CASE EndNothingToDo(t)
  <2>1. /\ op' = [op EXCEPT ![t] = Idle] /\ Idle.at = "idle" /\ Idle.updates = {}
        /\ op[t].at = "end" /\ txn'.level = txn.level - 1
        /\ ~txn'.dirty => ~txn.dirty \/ txn.level = 1
        /\ txn'.updates = txn.updates
    BY <1>1, <1>8 DEF EndNothingToDo, Returns, Transaction, Idle, AtOutermostEnd
  <2>2. Levels(Idle) = 0 /\ Levels(op[t]) = 1 /\ txn.level # 0
    BY <1>1, <2>1 DEF Levels, InTransaction
  <2>3. txn'.level = txn.level + Levels(Idle) - Levels(op[t])
    BY <1>1, <2>1, <2>2
  <2>4. txn.level = 1 => txn.updates = {}
    BY <1>1, <1>8 DEF EndNothingToDo, AtOutermostEnd, StageInv
  <2>5. ~txn'.dirty \/ txn'.level = 0 => txn'.updates = {}
    BY <1>1, <2>1, <2>4 DEF StageInv
  <2> QED
    BY <1>4, <2>1, <2>3, <2>5
<1>9. CASE EndTakesCopy(t)
  <2> DEFINE o == [op[t] EXCEPT !.at = "patch", !.destroy = txn.destroy, !.updates = txn.updates]
  <2>1. /\ op' = [op EXCEPT ![t] = o] /\ o.at = "patch"
        /\ op[t].at = "end" /\ txn.level = 1 /\ txn'.level = 0 /\ txn'.updates = {}
    BY <1>1, <1>9 DEF EndTakesCopy, ApiCall, AtOutermostEnd, Reinitialized, CleanTransaction
  <2>. HIDE DEF o
  <2>2. Levels(o) = 0 /\ Levels(op[t]) = 1
    BY <2>1 DEF Levels, InTransaction
  <2>3. txn'.level = txn.level + Levels(o) - Levels(op[t])
    BY <2>1, <2>2
  <2>4. \A u \in Threads : open[u] = 0
    BY <1>1, <2>1, LevelIs DEF InTransaction
  <2> QED
    BY <1>4, <2>1, <2>3, <2>4
<1>10. CASE \E c \in Ctxs : ActivateUpdate(t, c) \/ DeactivateUpdate(t, c)
  <2>1. PICK left : op' = [op EXCEPT ![t] = [op[t] EXCEPT !.updates = left]]
    BY <1>10 DEF ActivateUpdate, DeactivateUpdate
  <2> DEFINE o == [op[t] EXCEPT !.updates = left]
  <2>2. o.at = "patch" /\ op[t].at = "patch" /\ op' = [op EXCEPT ![t] = o] /\ txn' = txn
    BY <1>1, <1>10, <2>1 DEF ActivateUpdate, DeactivateUpdate, ApiCall
  <2>. HIDE DEF o
  <2>3. Levels(o) = 0 /\ Levels(op[t]) = 0
    BY <2>2 DEF Levels, InTransaction
  <2>4. txn'.level = txn.level + Levels(o) - Levels(op[t])
    BY <1>1, <2>2, <2>3
  <2> QED
    BY <1>1, <1>4, <2>2, <2>4 DEF StageInv
<1>11. CASE Patched(t) \/ TaskRuns(t) \/ TasksDone(t) \/ Relock(t)
  <2>1. PICK o : /\ op' = [op EXCEPT ![t] = o] /\ o.at \in {"tasks", "notify", "idle"}
                 /\ o.updates = {} /\ op[t].at \in {"patch", "tasks", "relock"} /\ txn' = txn
    <3> DEFINE one == [op[t] EXCEPT !.at = "tasks"]
               two == [op[t] EXCEPT !.at = "notify", !.task = Head(op[t].destroy),
                                    !.destroy = Tail(@)]
    <3>1. /\ one.at = "tasks" /\ one.updates = op[t].updates
          /\ two.at = "notify" /\ two.updates = op[t].updates
          /\ Idle.at = "idle" /\ Idle.updates = {}
      BY <1>1 DEF ApiCall, Idle
    <3>2. op[t].updates = {} /\ op[t].at \in {"patch", "tasks", "relock"} /\ txn' = txn
      BY <1>1, <1>11 DEF Patched, TaskRuns, TasksDone, Relock, StageInv
    <3>3. \/ op' = [op EXCEPT ![t] = one] \/ op' = [op EXCEPT ![t] = two]
          \/ op' = [op EXCEPT ![t] = Idle]
      BY <1>11 DEF Patched, TaskRuns, TasksDone, Relock, Returns
    <3>. HIDE DEF one, two
    <3> QED
      BY <3>1, <3>2, <3>3
  <2>2. Levels(o) = 0 /\ Levels(op[t]) = 0
    BY <2>1 DEF Levels, InTransaction
  <2>3. txn'.level = txn.level + Levels(o) - Levels(op[t])
    BY <1>1, <2>1, <2>2
  <2>4. o.at \notin {"patch", "detaching", "retire"}
    BY <2>1
  <2> QED
    BY <1>1, <1>4, <2>1, <2>3, <2>4 DEF StageInv
<1>12. CASE TaskRequeued(t)
  <2> DEFINE o == [op[t] EXCEPT !.destroy = Tail(@)]
  <2>1. /\ op' = [op EXCEPT ![t] = o] /\ o.at = "tasks" /\ o.updates = {}
        /\ op[t].at = "tasks" /\ txn'.level = txn.level /\ txn'.dirty
        /\ txn'.updates = txn.updates
    BY <1>1, <1>12 DEF TaskRequeued, ApiCall, Transaction, Requeues, StageInv
  <2>. HIDE DEF o
  <2>2. Levels(o) = 0 /\ Levels(op[t]) = 0
    BY <2>1 DEF Levels, InTransaction
  <2>3. txn'.level = txn.level + Levels(o) - Levels(op[t])
    BY <1>1, <2>1, <2>2
  <2>4. o.at \notin {"patch", "detaching", "retire"}
    BY <2>1
  <2> QED
    BY <1>1, <1>4, <2>1, <2>3, <2>4 DEF StageInv
<1> QED
  BY <1>5, <1>6, <1>7, <1>8, <1>9, <1>10, <1>11, <1>12

\* A notification runs without the lock.
LEMMA NotifyStages ==
  ASSUME TypeInv, Staged, NEW t \in Threads, Notify(t)
  PROVE  Staged'
<1>. DEFINE o == [op[t] EXCEPT !.at = "relock", !.task = None]
<1>1. /\ op' = [op EXCEPT ![t] = o] /\ o.at = "relock" /\ o.updates = op[t].updates
      /\ op[t].at = "notify" /\ UNCHANGED <<txn, open>> /\ op[t].updates = {}
  BY ZenonT(30) DEF Notify, TypeInv, TypeOK, ApiCall, Staged, StageInv
<1>. HIDE DEF o
<1> QED
  BY <1>1, StageElsewhere DEF LockedSteps

\* The transactions are right at first and stay so.
LEMMA InitStages == Init => Staged
<1> SUFFICES ASSUME Init PROVE Staged
  OBVIOUS
<1>1. Opens = {}
  BY DEF Init, Opens
<1>2. Cardinality(Opens) = 0 /\ IsFiniteSet(Opens)
  BY <1>1, FS_EmptySet
<1> QED
  BY <1>2 DEF Init, Staged, StageInv, LevelInv, Idle, CleanTransaction, InTransaction

LEMMA NextStages == TypeInv /\ LockProtects /\ Staged /\ [Next]_vars => Staged'
<1> SUFFICES ASSUME TypeInv, LockProtects, Staged, [Next]_vars PROVE Staged'
  OBVIOUS
<1>1. ASSUME NEW t \in Mutators, ApiStarts(t) PROVE Staged'
  <2>1. t \in Threads
    BY ConstantsAssumption
  <2>2. CASE BeginTransaction(t) \/ EndTransaction(t) \/ Flush(t)
    BY <2>1, <2>2, TransactionsStage
  <2>3. CASE ~(BeginTransaction(t) \/ EndTransaction(t) \/ Flush(t))
    <3>1. Starts(t) /\ UNCHANGED open
      BY <1>1, <2>3 DEF ApiStarts, Attach, AttachRefused, Detach, Replace, ReplaceRefused, Revert,
         RevertNothing, Refused
    <3>2. \E step \in {"flags", "detaching", "end"} : \E c, l, destroy, updates :
            Goes(t, step, c, l) /\ txn' = Opened(destroy, updates)
      <4>1. CASE Refused(t) \/ \E l \in Listeners : Detach(t, l)
        BY <4>1 DEF Refused, Detach
      <4>2. CASE \E f \in Functions, l \in Listeners : Attach(t, f, l)
        BY <4>2 DEF Attach
      <4>3. CASE \E f \in Functions, r \in Replacements, fast \in BOOLEAN : Replace(t, f, r, fast)
        BY <4>3 DEF Replace
      <4>4. CASE \E f \in Functions : Revert(t, f)
        BY <4>4 DEF Revert
      <4> QED
        BY <1>1, <2>3, <4>1, <4>2, <4>3, <4>4
           DEF ApiStarts, AttachRefused, ReplaceRefused, RevertNothing
    <3> QED
      BY <2>1, <3>1, <3>2, StartsStage
  <2> QED
    BY <2>2, <2>3
<1>2. ASSUME NEW t \in Mutators, ApiSteps(t) \/ Relock(t) PROVE Staged'
  <2>1. t \in Threads
    BY ConstantsAssumption
  <2>2. CASE Notify(t)
    BY <2>1, <2>2, NotifyStages
  <2>3. CASE ~Notify(t)
    BY <1>2, <2>3, StepsStage DEF ApiSteps
  <2> QED
    BY <2>2, <2>3
<1>3. ASSUME NEW t \in Callers,
             \/ \E f \in Functions : Call(t, f)
             \/ \E c \in Ctxs : CallOriginal(t, c)
             \/ InvocationSteps(t) \/ Return(t)
      PROVE  Staged'
  <2>1. UNCHANGED control
    BY <1>3 DEF Call, CallOriginal, InvocationSteps, Return, Jump, BeginInvocation, Decide,
       TakeSnapshot, TellListener, EnterDone, ChooseHop, LoadReplacement, Release,
       InvokeOriginal, EndInvocation, LeaveDone, UseAfterFree
  <2> QED
    BY <2>1, StageUnchanged DEF control
<1>4. ASSUME NEW l \in Listeners, Unref(l) PROVE Staged'
  BY <1>4, StageUnchanged DEF Unref
<1>5. CASE UNCHANGED vars
  BY <1>5, StageUnchanged DEF vars
<1> QED
  BY <1>1, <1>2, <1>3, <1>4, <1>5 DEF Next

\* Mutual exclusion and the transactions together.
LEMMA StagedAlways == Spec => [](ReleaseInv /\ LockProtects /\ Staged)
<1>1. Init => ReleaseInv /\ LockProtects /\ Staged
  BY InitReleases, InitLock, InitStages
<1>2. ReleaseInv /\ LockProtects /\ Staged /\ [Next]_vars
        => (ReleaseInv /\ LockProtects /\ Staged)'
  <2>1. ReleaseInv => TypeInv
    BY DEF ReleaseInv
  <2> QED
    BY <2>1, NextKeepsReleases, NextKeepsLock, NextStages
<1> QED
  BY <1>1, <1>2, PTL DEF Spec

\* Only the patching of a page changes code.
LEMMA CodeIsPatched ==
  ASSUME [Next]_vars, code' # code
  PROVE  \E t \in Mutators : op[t].at = "patch"
<1>1. ASSUME NEW t \in Mutators, ApiStarts(t) PROVE FALSE
  BY <1>1 DEF ApiStarts, Attach, AttachRefused, Detach, Replace, ReplaceRefused, Revert,
     RevertNothing, Refused, BeginTransaction, EndTransaction, Flush
<1>2. ASSUME NEW t \in Mutators, ApiSteps(t) \/ Relock(t) PROVE op[t].at = "patch"
  BY <1>2 DEF ApiSteps, AttachFlags, DetachFrom, DetachRetire, DetachDone, EndNothingToDo,
     EndTakesCopy, ActivateUpdate, DeactivateUpdate, Patched, TaskRuns, TaskRequeued,
     TasksDone, Notify, Relock
<1>3. ASSUME NEW t \in Callers,
             \/ \E f \in Functions : Call(t, f)
             \/ \E c \in Ctxs : CallOriginal(t, c)
             \/ InvocationSteps(t) \/ Return(t)
      PROVE  FALSE
  BY <1>3 DEF Call, CallOriginal, InvocationSteps, Return, Jump, BeginInvocation, Decide,
     TakeSnapshot, TellListener, EnterDone, ChooseHop, LoadReplacement, Release,
     InvokeOriginal, EndInvocation, LeaveDone, UseAfterFree, control
<1>4. ASSUME NEW l \in Listeners, Unref(l) PROVE FALSE
  BY <1>4 DEF Unref
<1> QED
  BY <1>1, <1>2, <1>3, <1>4 DEF Next, vars

\* Code is patched only when every begin_transaction has met its
\* end_transaction, by whichever thread: transaction_end works on the level the
\* threads share.
THEOREM PatchedAtOutermostEnd == Spec => PatchesOnlyAtOutermostEnd
<1>1. /\ ReleaseInv /\ LockProtects /\ Staged /\ [Next]_vars
      => [code' # code => \A t \in Threads : open[t] = 0]_vars
  <2> SUFFICES ASSUME Staged, [Next]_vars, code' # code PROVE \A t \in Threads : open[t] = 0
    OBVIOUS
  <2>1. \E t \in Threads : op[t].at = "patch"
    BY CodeIsPatched, ConstantsAssumption
  <2> QED
    BY <2>1 DEF Staged, StageInv
<1> QED
  BY <1>1, StagedAlways, PTL DEF Spec, PatchesOnlyAtOutermostEnd

-----------------------------------------------------------------------------
(* Listener arrays *)

\* Every array has room for its listeners in the data of a stack entry: attach
\* looks at the live listeners and add_listener counts them anew.
THEOREM ArraysAlwaysFit == Spec => []ArraysFit
<1>1. Init => ArraysFit
  BY ConstantsAssumption DEF Init, ArraysFit
<1>2. TypeInv /\ ArraysFit /\ [Next]_vars => ArraysFit'
  <2> SUFFICES ASSUME TypeInv, ArraysFit, [Next]_vars PROVE ArraysFit'
    OBVIOUS
  <2>1. ASSUME NEW c \in Ctxs, NEW arr, arr.len <= MaxListeners,
               entries' = [entries EXCEPT ![c] = Append(@, arr)]
        PROVE  ArraysFit'
    <3> SUFFICES ASSUME NEW d \in Ctxs, NEW v \in DOMAIN entries'[d]
                 PROVE  entries'[d][v].len <= MaxListeners
      BY DEF ArraysFit
    <3>1. entries[d] \in Seq(ListenerArray) /\ entries \in [Ctxs -> Seq(ListenerArray)]
      BY DEF TypeInv, TypeOK
    <3>2. CASE d # c
      BY <2>1, <3>1, <3>2 DEF ArraysFit
    <3>3. CASE d = c
      <4>1. entries'[d] = Append(entries[d], arr)
        BY <2>1, <3>1, <3>3
      <4>2. \/ v \in DOMAIN entries[d] /\ entries'[d][v] = entries[d][v]
            \/ entries'[d][v] = arr
        BY <3>1, <4>1
      <4> QED
        BY <2>1, <4>2 DEF ArraysFit
    <3> QED
      BY <3>2, <3>3
  <2>2. ASSUME NEW t \in Mutators, NEW f \in Functions, NEW l \in Listeners, Attach(t, f, l)
        PROVE  ArraysFit'
    <3>1. PICK c \in Ctxs : /\ CanTake(c, l)
                            /\ entries' = [entries EXCEPT ![c] =
                                             Append(@, WithListener(Current(c), l))]
      BY <2>2 DEF Attach
    <3>2. Cardinality(Current(c).live) \in Nat
      BY CurrentType, FS_Subset, FS_CardinalityType, ConstantsAssumption
    <3>3. WithListener(Current(c), l).len = Cardinality(Current(c).live) + 1
      BY DEF WithListener
    <3>4. WithListener(Current(c), l).len <= MaxListeners
      BY <3>1, <3>2, <3>3, ConstantsAssumption DEF CanTake
    <3> QED
      BY <2>1, <3>1, <3>4
  <2>3. ASSUME NEW t \in Mutators, NEW c \in Ctxs, DetachFrom(t, c) PROVE ArraysFit'
    <3>1. entries' = [entries EXCEPT ![c] = Append(@, WithoutListener(Current(c), op[t].lsn))]
      BY <2>3 DEF DetachFrom
    <3>2. WithoutListener(Current(c), op[t].lsn).len = Current(c).len
      BY DEF WithoutListener
    <3>3. Current(c).len <= MaxListeners
      BY CurrentType DEF ArraysFit, Current
    <3> QED
      BY <2>1, <3>1, <3>2, <3>3
  <2>4. ASSUME UNCHANGED entries PROVE ArraysFit'
    BY <2>4 DEF ArraysFit
  <2>5. ASSUME NEW t \in Mutators, ApiStarts(t) PROVE ArraysFit'
    <3>1. CASE \E f \in Functions, l \in Listeners : Attach(t, f, l)
      BY <2>2, <3>1
    <3>2. CASE ~\E f \in Functions, l \in Listeners : Attach(t, f, l)
      <4>1. UNCHANGED entries
        BY <2>5, <3>2 DEF ApiStarts, AttachRefused, Detach, Replace, ReplaceRefused, Revert,
           RevertNothing, Refused, BeginTransaction, EndTransaction, Flush, heap
      <4> QED
        BY <2>4, <4>1
    <3> QED
      BY <3>1, <3>2
  <2>6. ASSUME NEW t \in Mutators, ApiSteps(t) \/ Relock(t) PROVE ArraysFit'
    <3>1. CASE \E c \in Ctxs : DetachFrom(t, c)
      BY <2>3, <3>1
    <3>2. CASE ~\E c \in Ctxs : DetachFrom(t, c)
      <4>1. UNCHANGED entries
        BY <2>6, <3>2 DEF ApiSteps, AttachFlags, DetachRetire, DetachDone, EndNothingToDo,
           EndTakesCopy, ActivateUpdate, DeactivateUpdate, Patched, TaskRuns, TaskRequeued,
           TasksDone, Notify, Relock, heap
      <4> QED
        BY <2>4, <4>1
    <3> QED
      BY <3>1, <3>2
  <2>7. ASSUME NEW t \in Callers,
               \/ \E f \in Functions : Call(t, f)
               \/ \E c \in Ctxs : CallOriginal(t, c)
               \/ InvocationSteps(t) \/ Return(t)
        PROVE  ArraysFit'
    <3>1. UNCHANGED control
      BY <2>7 DEF Call, CallOriginal, InvocationSteps, Return, Jump, BeginInvocation, Decide,
         TakeSnapshot, TellListener, EnterDone, ChooseHop, LoadReplacement, Release,
         InvokeOriginal, EndInvocation, LeaveDone, UseAfterFree
    <3> QED
      BY <2>4, <3>1 DEF control
  <2>8. ASSUME NEW l \in Listeners, Unref(l) PROVE ArraysFit'
    BY <2>4, <2>8 DEF Unref
  <2>9. CASE UNCHANGED vars
    BY <2>4, <2>9 DEF vars
  <2> QED
    BY <2>5, <2>6, <2>7, <2>8, <2>9 DEF Next
<1> QED
  BY <1>1, <1>2, TypeInvariant, PTL DEF Spec

-----------------------------------------------------------------------------
(* The table, the code and the updates *)

\* What the invariant says of a context depends on these fields of it.
SameContext(c) ==
  /\ fc'[c].state = fc[c].state /\ fc'[c].addr = fc[c].addr
  /\ fc'[c].fast = fc[c].fast /\ fc'[c].saved = fc[c].saved
  /\ fc'[c].repl = fc[c].repl /\ fc'[c].original = fc[c].original
  /\ fc'[c].activated = fc[c].activated /\ fc'[c].destroyed = fc[c].destroyed
SamePending ==
  \A c \in Ctxs : \A what \in {"activate", "deactivate"} :
    IsPending(c, what)' <=> IsPending(c, what)
Undisturbed ==
  UNCHANGED <<table, code, entries>> /\ SamePending /\ \A c \in Ctxs : SameContext(c)

LEMMA SameHooks ==
  ASSUME Hooked, Undisturbed
  PROVE  Hooked'
<1>1. TableInv'
  BY DEF Hooked, TableInv, SameContext, Undisturbed
<1>2. CodeInv' /\ AloneInv'
  BY DEF Hooked, CodeInv, AloneInv, Target, SameContext, Undisturbed
<1>3. FastInv'
  BY DEF Hooked, FastInv, Current, SameContext, Undisturbed
<1>4. PendingInv'
  BY DEF Hooked, PendingInv, SamePending, SameContext, Undisturbed
<1> QED
  BY <1>1, <1>2, <1>3, <1>4 DEF Hooked

\* No update is lost, made or done.
LEMMA UpdatesStay ==
  ASSUME TypeInv, NEW t \in Threads, NEW o, op' = [op EXCEPT ![t] = o],
         txn'.updates \cup o.updates = txn.updates \cup op[t].updates
  PROVE  SamePending
<1>1. \A u \in Threads : op'[u] = IF u = t THEN o ELSE op[u]
  BY DEF TypeInv, TypeOK
<1> QED
  BY <1>1 DEF SamePending, IsPending

\* An update is made.
LEMMA UpdateIsMade ==
  ASSUME TypeInv, Staged, NEW t \in Threads, NEW o, op' = [op EXCEPT ![t] = o],
         o.updates = {}, op[t].at # "patch", NEW new, txn'.updates = txn.updates \cup new
  PROVE  \A c \in Ctxs : \A what \in {"activate", "deactivate"} :
           IsPending(c, what)' <=> IsPending(c, what) \/ <<c, what>> \in new
<1>1. \A u \in Threads : op'[u] = IF u = t THEN o ELSE op[u]
  BY DEF TypeInv, TypeOK
<1>2. op[t].updates = {}
  BY DEF Staged, StageInv
<1> QED
  BY <1>1, <1>2 DEF IsPending

\* While a thread patches, it has all the updates.
LEMMA UpdateIsDone ==
  ASSUME TypeInv, LockProtects, Staged, NEW t \in Threads, op[t].at = "patch",
         NEW done, op' = [op EXCEPT ![t].updates = @ \ {done}], UNCHANGED txn
  PROVE  \A c \in Ctxs : \A what \in {"activate", "deactivate"} :
           /\ IsPending(c, what) <=> <<c, what>> \in op[t].updates
           /\ IsPending(c, what)' <=> IsPending(c, what) /\ <<c, what>> # done
<1>1. /\ op \in [Threads -> ApiCall] /\ op[t] \in ApiCall
      /\ op' = [op EXCEPT ![t] = [op[t] EXCEPT !.updates = op[t].updates \ {done}]]
  BY DEF TypeInv, TypeOK
<1>2. \A u \in Threads : op'[u].updates =
        IF u = t THEN op[t].updates \ {done} ELSE op[u].updates
  BY <1>1 DEF ApiCall
<1>3. /\ txn.updates = {}
      /\ \A u \in Threads : u # t => op[u].updates = {}
  BY ConstantsAssumption DEF Staged, StageInv, LockProtects, LockedSteps
<1> QED
  BY <1>2, <1>3 DEF IsPending

\* attach and replace: a context is made, or the one in the table is used again.
LEMMA InstrumentHooks ==
  ASSUME TypeInv, SharedBorn, Hooked, UNCHANGED code,
         NEW a \in Addr, NEW c \in Ctxs, NEW fast \in BOOLEAN,
         Stops(a), Instruments(a, fast, c), NEW ctx \in FunctionContext,
         ctx.state = Instrumented(a, fast, c).state,
         ctx.addr = Instrumented(a, fast, c).addr,
         ctx.fast = Instrumented(a, fast, c).fast,
         ctx.activated = Instrumented(a, fast, c).activated,
         ctx.destroyed = Instrumented(a, fast, c).destroyed,
         ctx.saved = Instrumented(a, fast, c).saved,
         ctx.fast => /\ table[a] # c
                     /\ ctx.original \in Replacements /\ ctx.repl = ctx.original,
         fc' = [fc EXCEPT ![c] = ctx], table' = [table EXCEPT ![a] = c],
         \A d \in Ctxs : d # c => Current(d)' = Current(d),
         ctx.fast => Current(c)' = Current(c),
         \A d \in Ctxs : \A what \in {"activate", "deactivate"} :
           IsPending(d, what)' <=>
             IsPending(d, what) \/ (table[a] # c /\ d = c /\ what = "activate")
  PROVE  Hooked'
<1>1. /\ fc \in [Ctxs -> FunctionContext] /\ table \in [Addr -> Ctxs \cup {None}]
      /\ code \in [Addr -> Addr \cup {None}] /\ None \notin Ctxs \cup Replacements
  BY ConstantsAssumption DEF TypeInv, TypeOK
<1>2. /\ fc'[c] = ctx /\ \A d \in Ctxs : d # c => fc'[d] = fc[d]
      /\ \A b \in Addr : table'[b] = IF b = a THEN c ELSE table[b]
  BY <1>1
<1>3. TableInv /\ CodeInv /\ AloneInv /\ FastInv /\ PendingInv
  BY DEF Hooked
<1>4. CASE table[a] = c
  <2>1. /\ ctx.state = fc[c].state /\ ctx.addr = fc[c].addr /\ ctx.fast = fc[c].fast
        /\ ctx.activated = fc[c].activated /\ ctx.destroyed = fc[c].destroyed
        /\ ctx.saved = fc[c].saved /\ fc[c].state # "unborn" /\ ~ctx.fast
    BY <1>3, <1>4 DEF Instrumented, TableInv
  <2>2. table' = table
    BY <1>1, <1>2, <1>4
  <2>3. TableInv'
    BY <1>2, <1>3, <2>1, <2>2 DEF TableInv
  <2>4. CodeInv' /\ AloneInv'
    BY <1>2, <1>3, <2>1 DEF CodeInv, AloneInv, Target
  <2>5. FastInv'
    BY <1>2, <1>3, <2>1 DEF FastInv
  <2>6. PendingInv'
    BY <1>2, <1>3, <1>4, <2>1 DEF PendingInv
  <2> QED
    BY <2>3, <2>4, <2>5, <2>6 DEF Hooked
<1>5. CASE table[a] # c
  <2>1. table[a] = None /\ code[a] = None /\ fc[c] = Unborn
    BY <1>5 DEF Stops, Instruments, SharedBorn
  <2>2. /\ ctx.state = "live" /\ ctx.addr = a /\ ~ctx.activated /\ ~ctx.destroyed
        /\ ctx.saved = None /\ fc[c].state = "unborn" /\ ~fc[c].activated /\ ~fc[c].destroyed
    BY <1>5, <2>1 DEF Instrumented, NewContext, Unborn
  <2>3. TableInv'
    <3>1. \A b \in Addr : table[b] # c
      BY <1>3, <2>2 DEF TableInv
    <3>2. \A d \in Ctxs : d # c /\ fc[d].state # "unborn" /\ ~fc[d].destroyed => fc[d].addr # a
      BY <1>1, <1>3, <2>1 DEF TableInv
    <3> QED
      BY <1>2, <1>3, <2>2, <3>1, <3>2 DEF TableInv
  <2>4. \A d \in Ctxs : fc[d].activated => fc[d].addr # a
    BY <1>1, <1>3, <2>1 DEF CodeInv, FastInv, Target
  <2>5. CodeInv'
    <3>1. \A d \in Ctxs : fc'[d].saved = None
      BY <1>2, <1>3, <2>2 DEF CodeInv
    <3>2. \A d \in Ctxs : fc'[d].activated => d # c /\ code[fc[d].addr] = Target(d)
      BY <1>2, <1>3, <2>2 DEF CodeInv
    <3>3. \A d \in Ctxs : d # c => Target(d)' = Target(d)
      BY <1>2 DEF Target
    <3>4. \A b \in Addr : code[b] # None => \E d \in Ctxs : d # c /\ fc[d].activated /\ fc[d].addr = b
      BY <1>3, <2>2 DEF CodeInv
    <3> QED
      BY <1>2, <3>1, <3>2, <3>3, <3>4 DEF CodeInv
  <2>6. AloneInv'
    BY <1>2, <1>3, <2>2, <2>4 DEF AloneInv
  <2>7. FastInv'
    BY <1>2, <1>3, <2>2 DEF FastInv
  <2>8. PendingInv'
    BY <1>2, <1>3, <1>5, <2>2 DEF PendingInv
  <2> QED
    BY <2>3, <2>5, <2>6, <2>7, <2>8 DEF Hooked
<1> QED
  BY <1>4, <1>5

\* detach and revert: a hook goes and, if it was the last, the context.
LEMMA DestroyHooks ==
  ASSUME TypeInv, Hooked, UNCHANGED <<code, entries>>,
         NEW a \in Addr, NEW c \in Ctxs, table[a] = c, NEW gone \in BOOLEAN,
         NEW ctx \in FunctionContext, fc' = [fc EXCEPT ![c] = ctx],
         ctx.state = fc[c].state, ctx.addr = fc[c].addr, ctx.fast = fc[c].fast,
         ctx.original = fc[c].original, ctx.activated = fc[c].activated,
         ctx.saved = fc[c].saved, ctx.destroyed <=> fc[c].destroyed \/ gone,
         ctx.fast => gone \/ ctx.repl = fc[c].repl,
         table' = IF gone THEN [table EXCEPT ![a] = None] ELSE table,
         \A d \in Ctxs : \A what \in {"activate", "deactivate"} :
           IsPending(d, what)' <=>
             IsPending(d, what) \/ (gone /\ <<d, what>> \in DestroyUpdates(c))
  PROVE  Hooked'
<1>1. /\ fc \in [Ctxs -> FunctionContext] /\ table \in [Addr -> Ctxs \cup {None}]
      /\ None \notin Ctxs
  BY ConstantsAssumption DEF TypeInv, TypeOK
<1>2. /\ fc'[c] = ctx /\ \A d \in Ctxs : d # c => fc'[d] = fc[d]
      /\ \A b \in Addr : table'[b] = IF gone /\ b = a THEN None ELSE table[b]
  BY <1>1
<1>3. TableInv /\ CodeInv /\ AloneInv /\ FastInv /\ PendingInv
  BY DEF Hooked
<1>4. fc[c].addr = a /\ fc[c].state = "live" /\ ~fc[c].destroyed
  BY <1>3 DEF TableInv
<1>5. TableInv'
  BY <1>1, <1>2, <1>3, <1>4 DEF TableInv
<1>6. CodeInv'
  BY <1>2, <1>3 DEF CodeInv, Target
<1>7. AloneInv'
  BY <1>2, <1>3 DEF AloneInv
<1>8. FastInv'
  BY <1>2, <1>3, <1>4 DEF FastInv, Current
<1>9. PendingInv'
  <2>1. \A d, what : <<d, what>> \in DestroyUpdates(c)
                       <=> d = c /\ what = "deactivate" /\ fc[c].activated
    BY DEF DestroyUpdates
  <2> SUFFICES ASSUME NEW d \in Ctxs
               PROVE  /\ IsPending(d, "activate")' => ~fc'[d].activated
                      /\ fc'[d].state # "unborn" /\ ~fc'[d].destroyed /\ ~fc'[d].activated
                           => IsPending(d, "activate")'
                      /\ IsPending(d, "deactivate")' <=> fc'[d].destroyed /\ fc'[d].activated
    BY DEF PendingInv
  <2>2. /\ IsPending(d, "activate")' <=> IsPending(d, "activate")
        /\ IsPending(d, "deactivate")'
             <=> IsPending(d, "deactivate") \/ (gone /\ d = c /\ fc[c].activated)
    <3>1. /\ IsPending(d, "activate")'
               <=> IsPending(d, "activate") \/ (gone /\ <<d, "activate">> \in DestroyUpdates(c))
          /\ IsPending(d, "deactivate")'
               <=> IsPending(d, "deactivate") \/ (gone /\ <<d, "deactivate">> \in DestroyUpdates(c))
      OBVIOUS
    <3>2. /\ <<d, "activate">> \notin DestroyUpdates(c)
          /\ <<d, "deactivate">> \in DestroyUpdates(c) <=> d = c /\ fc[c].activated
      BY <2>1
    <3> QED
      BY <3>1, <3>2
  <2>3. /\ IsPending(d, "activate") => ~fc[d].activated
        /\ fc[d].state # "unborn" /\ ~fc[d].destroyed /\ ~fc[d].activated
             => IsPending(d, "activate")
        /\ IsPending(d, "deactivate") <=> fc[d].destroyed /\ fc[d].activated
    BY <1>3 DEF PendingInv
  <2>4. CASE d = c
    BY <1>2, <1>4, <2>2, <2>3, <2>4
  <2>5. CASE d # c
    BY <1>2, <2>2, <2>3, <2>5
  <2> QED
    BY <2>4, <2>5
<1> QED
  BY <1>5, <1>6, <1>7, <1>8, <1>9 DEF Hooked

\* A page is patched: the code leads to the context, or no longer does.
LEMMA ActivateParts ==
  ASSUME TypeInv, SharedBorn, LockProtects, Staged, Hooked,
         NEW t \in Threads, NEW c \in Ctxs, ActivateUpdate(t, c)
  PROVE  /\ IsPending(c, "activate") /\ ~fc[c].activated /\ fc[c].state # "unborn"
         /\ \A d \in Ctxs :
              /\ IsPending(d, "activate")' <=> IsPending(d, "activate") /\ d # c
              /\ IsPending(d, "deactivate")' <=> IsPending(d, "deactivate")
         /\ UNCHANGED <<table, entries>>
         /\ fc[c].destroyed => UNCHANGED <<fc, code>>
         /\ ~fc[c].destroyed =>
              /\ \A d \in Ctxs : d # c => fc'[d] = fc[d]
              /\ fc'[c].activated /\ fc'[c].state = fc[c].state /\ fc'[c].addr = fc[c].addr
              /\ fc'[c].fast = fc[c].fast /\ fc'[c].repl = fc[c].repl
              /\ fc'[c].original = fc[c].original /\ fc'[c].destroyed = fc[c].destroyed
              /\ fc'[c].saved = fc[c].saved
              /\ fc[c].addr \in Addr /\ table[fc[c].addr] = c
              /\ \A b \in Addr : code'[b] = IF b = fc[c].addr THEN Target(c) ELSE code[b]
              /\ \A d \in Ctxs : d # c /\ fc[d].state # "unborn" /\ fc[d].addr = fc[c].addr
                   => fc[d].destroyed /\ ~fc[d].activated
<1>1. /\ fc \in [Ctxs -> FunctionContext] /\ code \in [Addr -> Addr \cup {None}]
      /\ fc[c].activated \in BOOLEAN /\ None \notin Ctxs
  BY ConstantsAssumption DEF TypeInv, TypeOK, FunctionContext
<1>2. TableInv /\ CodeInv /\ AloneInv /\ FastInv /\ PendingInv
  BY DEF Hooked
<1>3. \A d \in Ctxs : \A what \in {"activate", "deactivate"} :
        IsPending(d, what)' <=> IsPending(d, what) /\ <<d, what>> # <<c, "activate">>
  <2>1. PICK done : done = <<c, "activate">>
    OBVIOUS
  <2>2. /\ op[t].at = "patch" /\ UNCHANGED txn
        /\ op' = [op EXCEPT ![t].updates = @ \ {done}]
    BY <2>1 DEF ActivateUpdate
  <2>3. \A d \in Ctxs : \A what \in {"activate", "deactivate"} :
          /\ IsPending(d, what) <=> <<d, what>> \in op[t].updates
          /\ IsPending(d, what)' <=> IsPending(d, what) /\ <<d, what>> # done
    BY <2>2, UpdateIsDone
  <2> QED
    BY <2>1, <2>3
<1>4. IsPending(c, "activate") /\ ~fc[c].activated
  BY <1>2 DEF ActivateUpdate, IsPending, PendingInv
<1>5. UNCHANGED <<table, entries>>
  BY DEF ActivateUpdate
<1>6. \A d \in Ctxs : /\ IsPending(d, "activate")' <=> IsPending(d, "activate") /\ d # c
                      /\ IsPending(d, "deactivate")' <=> IsPending(d, "deactivate")
  BY <1>3
<1>7. fc[c].state # "unborn"
  BY DEF ActivateUpdate, SharedBorn, Born
<1>8. CASE fc[c].destroyed
  <2>1. UNCHANGED <<fc, code>>
    BY <1>8 DEF ActivateUpdate, SkipsActivation
  <2> QED
    BY <1>4, <1>5, <1>6, <1>7, <1>8, <2>1
<1>9. CASE ~fc[c].destroyed
  <2>1. /\ fc' = [fc EXCEPT ![c].activated = TRUE]
        /\ code' = [code EXCEPT ![fc[c].addr] = IF fc[c].fast THEN fc[c].repl ELSE c]
    BY <1>9 DEF ActivateUpdate, SkipsActivation
  <2>2. /\ \A d \in Ctxs : d # c => fc'[d] = fc[d]
        /\ fc'[c].activated /\ fc'[c].state = fc[c].state /\ fc'[c].addr = fc[c].addr
        /\ fc'[c].fast = fc[c].fast /\ fc'[c].repl = fc[c].repl
        /\ fc'[c].original = fc[c].original /\ fc'[c].destroyed = fc[c].destroyed
        /\ fc'[c].saved = fc[c].saved
    BY <1>1, <2>1 DEF FunctionContext
  <2>3. fc[c].addr \in Addr /\ table[fc[c].addr] = c
    BY <1>2, <1>9, <1>7 DEF TableInv
  <2>4. \A b \in Addr : code'[b] = IF b = fc[c].addr THEN Target(c) ELSE code[b]
    BY <1>1, <1>2, <1>9, <2>1, <2>3 DEF FastInv, Target
  <2>5. \A d \in Ctxs : d # c /\ fc[d].state # "unborn" /\ fc[d].addr = fc[c].addr =>
          fc[d].destroyed /\ ~fc[d].activated
    BY <1>2, <1>9, <1>7, <2>3 DEF TableInv, AloneInv
  <2> QED
    BY <1>4, <1>5, <1>6, <1>7, <1>9, <2>2, <2>3, <2>4, <2>5
<1> QED
  BY <1>8, <1>9

LEMMA ActivateHooks ==
  ASSUME TypeInv, SharedBorn, LockProtects, Staged, Hooked,
         NEW t \in Threads, NEW c \in Ctxs, ActivateUpdate(t, c)
  PROVE  Hooked'
<1>1. TableInv /\ CodeInv /\ AloneInv /\ FastInv /\ PendingInv
  BY DEF Hooked
<1>2. /\ UNCHANGED <<table, entries>> /\ ~fc[c].activated
      /\ \A d \in Ctxs :
           /\ IsPending(d, "activate")' <=> IsPending(d, "activate") /\ d # c
           /\ IsPending(d, "deactivate")' <=> IsPending(d, "deactivate")
  BY ActivateParts
<1>3. CASE fc[c].destroyed
  <2>1. UNCHANGED <<fc, code>>
    BY <1>3, ActivateParts
  <2>2. TableInv' /\ CodeInv' /\ AloneInv' /\ FastInv'
    BY <1>1, <1>2, <2>1 DEF TableInv, CodeInv, Target, AloneInv, FastInv, Current
  <2>3. PendingInv'
    BY <1>1, <1>2, <1>3, <2>1 DEF PendingInv
  <2> QED
    BY <2>2, <2>3 DEF Hooked
<1>4. CASE ~fc[c].destroyed
  <2>1. /\ fc[c].state # "unborn"
        /\ \A d \in Ctxs : d # c => fc'[d] = fc[d]
        /\ fc'[c].activated /\ fc'[c].state = fc[c].state /\ fc'[c].addr = fc[c].addr
        /\ fc'[c].fast = fc[c].fast /\ fc'[c].repl = fc[c].repl
        /\ fc'[c].original = fc[c].original /\ fc'[c].destroyed = fc[c].destroyed
        /\ fc'[c].saved = fc[c].saved
        /\ fc[c].addr \in Addr /\ table[fc[c].addr] = c
        /\ \A b \in Addr : code'[b] = IF b = fc[c].addr THEN Target(c) ELSE code[b]
        /\ \A d \in Ctxs : d # c /\ fc[d].state # "unborn" /\ fc[d].addr = fc[c].addr
             => fc[d].destroyed /\ ~fc[d].activated
    BY <1>4, ActivateParts
  <2>2. \A d \in Ctxs : fc[d].activated => fc[d].state # "unborn"
    BY DEF SharedBorn, Unborn
  <2>3. \A d \in Ctxs : Target(d)' = Target(d)
    BY <2>1 DEF Target
  <2>4. TableInv'
    BY <1>1, <1>2, <2>1 DEF TableInv
  <2>5. CodeInv'
    <3>1. \A d \in Ctxs : fc'[d].saved = None
      BY <1>1, <2>1 DEF CodeInv
    <3>2. ASSUME NEW d \in Ctxs, fc'[d].activated PROVE code'[fc'[d].addr] = Target(d)'
      <4>1. CASE d = c
        BY <2>1, <2>3, <4>1
      <4>2. CASE d # c
        <5>1. fc'[d] = fc[d] /\ fc[d].activated /\ code[fc[d].addr] = Target(d)
          BY <1>1, <2>1, <3>2, <4>2 DEF CodeInv
        <5>2. fc[d].addr # fc[c].addr /\ fc[d].addr \in Addr
          BY <1>1, <2>1, <2>2, <4>2, <5>1 DEF TableInv
        <5> QED
          BY <2>1, <2>3, <5>1, <5>2
      <4> QED
        BY <4>1, <4>2
    <3>3. ASSUME NEW b \in Addr, code'[b] # None PROVE \E d \in Ctxs : fc'[d].activated /\ fc'[d].addr = b
      <4>1. CASE b = fc[c].addr
        BY <2>1, <4>1
      <4>2. CASE b # fc[c].addr
        <5>1. PICK d \in Ctxs : fc[d].activated /\ fc[d].addr = b
          BY <1>1, <2>1, <3>3, <4>2 DEF CodeInv
        <5> QED
          BY <2>1, <4>2, <5>1
      <4> QED
        BY <4>1, <4>2
    <3> QED
      BY <3>1, <3>2, <3>3 DEF CodeInv
  <2>6. AloneInv'
    <3> SUFFICES ASSUME NEW x \in Ctxs, NEW y \in Ctxs, x # y, fc'[x].state # "unborn",
                        fc'[y].activated, fc'[x].addr = fc'[y].addr
                 PROVE  fc'[x].destroyed /\ ~fc'[x].activated
      BY DEF AloneInv
    <3>1. CASE y = c
      BY <2>1, <3>1
    <3>2. CASE x = c
      BY <2>1, <2>2, <3>2
    <3>3. CASE x # c /\ y # c
      BY <1>1, <2>1, <3>3 DEF AloneInv
    <3> QED
      BY <3>1, <3>2, <3>3
  <2>7. FastInv'
    BY <1>1, <1>2, <2>1 DEF FastInv, Current
  <2>8. PendingInv'
    <3> SUFFICES ASSUME NEW d \in Ctxs
                 PROVE  /\ IsPending(d, "activate")' => ~fc'[d].activated
                        /\ fc'[d].state # "unborn" /\ ~fc'[d].destroyed /\ ~fc'[d].activated
                             => IsPending(d, "activate")'
                        /\ IsPending(d, "deactivate")' <=> fc'[d].destroyed /\ fc'[d].activated
      BY DEF PendingInv
    <3>1. CASE d = c
      BY <1>1, <1>2, <1>4, <2>1, <3>1 DEF PendingInv
    <3>2. CASE d # c
      BY <1>1, <1>2, <2>1, <3>2 DEF PendingInv
    <3> QED
      BY <3>1, <3>2
  <2> QED
    BY <2>4, <2>5, <2>6, <2>7, <2>8 DEF Hooked
<1> QED
  BY <1>3, <1>4

LEMMA DeactivateParts ==
  ASSUME TypeInv, SharedBorn, LockProtects, Staged, Hooked,
         NEW t \in Threads, NEW c \in Ctxs, DeactivateUpdate(t, c)
  PROVE  /\ fc[c].destroyed /\ fc[c].activated
         /\ \A d \in Ctxs :
              /\ IsPending(d, "deactivate")' <=> IsPending(d, "deactivate") /\ d # c
              /\ IsPending(d, "activate")' <=> IsPending(d, "activate")
         /\ UNCHANGED <<table, entries>>
         /\ \A d \in Ctxs : d # c => fc'[d] = fc[d]
         /\ ~fc'[c].activated /\ fc'[c].state = fc[c].state /\ fc'[c].addr = fc[c].addr
         /\ fc'[c].fast = fc[c].fast /\ fc'[c].repl = fc[c].repl
         /\ fc'[c].original = fc[c].original /\ fc'[c].destroyed = fc[c].destroyed
         /\ fc'[c].saved = fc[c].saved
         /\ \A d \in Ctxs : fc[d].activated => fc[d].state # "unborn" /\ fc[d].addr \in Addr
         /\ \A b \in Addr : code'[b] = IF b = fc[c].addr THEN None ELSE code[b]
         /\ \A d \in Ctxs : d # c /\ fc[d].activated => fc[d].addr # fc[c].addr
<1>1. /\ fc \in [Ctxs -> FunctionContext] /\ code \in [Addr -> Addr \cup {None}]
      /\ fc[c].activated \in BOOLEAN /\ None \notin Ctxs
  BY ConstantsAssumption DEF TypeInv, TypeOK, FunctionContext
<1>2. TableInv /\ CodeInv /\ AloneInv /\ FastInv /\ PendingInv
  BY DEF Hooked
<1>3. \A d \in Ctxs : \A what \in {"activate", "deactivate"} :
        IsPending(d, what)' <=> IsPending(d, what) /\ <<d, what>> # <<c, "deactivate">>
  <2>1. PICK done : done = <<c, "deactivate">>
    OBVIOUS
  <2>2. /\ op[t].at = "patch" /\ UNCHANGED txn
        /\ op' = [op EXCEPT ![t].updates = @ \ {done}]
    BY <2>1 DEF DeactivateUpdate
  <2>3. \A d \in Ctxs : \A what \in {"activate", "deactivate"} :
          /\ IsPending(d, what) <=> <<d, what>> \in op[t].updates
          /\ IsPending(d, what)' <=> IsPending(d, what) /\ <<d, what>> # done
    BY <2>2, UpdateIsDone
  <2> QED
    BY <2>1, <2>3
<1>4. \A d \in Ctxs : /\ IsPending(d, "deactivate")' <=> IsPending(d, "deactivate") /\ d # c
                      /\ IsPending(d, "activate")' <=> IsPending(d, "activate")
  BY <1>3
<1>5. fc[c].destroyed /\ fc[c].activated
  BY <1>2 DEF DeactivateUpdate, IsPending, PendingInv
<1>6. UNCHANGED <<table, entries>>
  BY DEF DeactivateUpdate
<1>7. /\ \A d \in Ctxs : d # c => fc'[d] = fc[d]
      /\ ~fc'[c].activated /\ fc'[c].state = fc[c].state /\ fc'[c].addr = fc[c].addr
      /\ fc'[c].fast = fc[c].fast /\ fc'[c].repl = fc[c].repl
      /\ fc'[c].original = fc[c].original /\ fc'[c].destroyed = fc[c].destroyed
      /\ fc'[c].saved = fc[c].saved
  BY <1>1 DEF DeactivateUpdate, FunctionContext
<1>8. \A d \in Ctxs : fc[d].activated => fc[d].state # "unborn" /\ fc[d].addr \in Addr
  BY <1>2 DEF SharedBorn, Unborn, TableInv
<1>9. \A b \in Addr : code'[b] = IF b = fc[c].addr THEN None ELSE code[b]
  BY <1>1, <1>2 DEF DeactivateUpdate, CodeInv
<1>10. \A d \in Ctxs : d # c /\ fc[d].activated => fc[d].addr # fc[c].addr
  BY <1>2, <1>5, <1>8 DEF AloneInv
<1> QED
  BY <1>4, <1>5, <1>6, <1>7, <1>8, <1>9, <1>10

LEMMA DeactivateHooks ==
  ASSUME TypeInv, SharedBorn, LockProtects, Staged, Hooked,
         NEW t \in Threads, NEW c \in Ctxs, DeactivateUpdate(t, c)
  PROVE  Hooked'
<1>1. TableInv /\ CodeInv /\ AloneInv /\ FastInv /\ PendingInv
  BY DEF Hooked
<1>2. /\ fc[c].destroyed /\ fc[c].activated
      /\ \A d \in Ctxs :
           /\ IsPending(d, "deactivate")' <=> IsPending(d, "deactivate") /\ d # c
           /\ IsPending(d, "activate")' <=> IsPending(d, "activate")
      /\ UNCHANGED <<table, entries>>
  BY DeactivateParts
<1>3. /\ \A d \in Ctxs : d # c => fc'[d] = fc[d]
      /\ ~fc'[c].activated /\ fc'[c].state = fc[c].state /\ fc'[c].addr = fc[c].addr
      /\ fc'[c].fast = fc[c].fast /\ fc'[c].repl = fc[c].repl
      /\ fc'[c].original = fc[c].original /\ fc'[c].destroyed = fc[c].destroyed
      /\ fc'[c].saved = fc[c].saved
  BY DeactivateParts
<1>4. /\ \A d \in Ctxs : fc[d].activated => fc[d].state # "unborn" /\ fc[d].addr \in Addr
      /\ \A b \in Addr : code'[b] = IF b = fc[c].addr THEN None ELSE code[b]
      /\ \A d \in Ctxs : d # c /\ fc[d].activated => fc[d].addr # fc[c].addr
  BY DeactivateParts
<1>5. TableInv'
  <2>1. \A d \in Ctxs : /\ fc'[d].state = fc[d].state /\ fc'[d].addr = fc[d].addr
                        /\ fc'[d].destroyed = fc[d].destroyed
    BY <1>3
  <2> QED
    BY <1>1, <1>2, <2>1 DEF TableInv
<1>6. CodeInv'
  <2>1. \A d \in Ctxs : fc'[d].saved = None
    BY <1>1, <1>3 DEF CodeInv
  <2>2. ASSUME NEW d \in Ctxs, fc'[d].activated PROVE code'[fc'[d].addr] = Target(d)'
    <3>1. d # c /\ fc'[d] = fc[d] /\ code[fc[d].addr] = Target(d)
      BY <1>1, <1>3, <2>2 DEF CodeInv
    <3>2. Target(d)' = Target(d)
      BY <3>1 DEF Target
    <3> QED
      BY <1>4, <2>2, <3>1, <3>2
  <2>3. ASSUME NEW b \in Addr, code'[b] # None PROVE \E d \in Ctxs : fc'[d].activated /\ fc'[d].addr = b
    <3>1. PICK d \in Ctxs : fc[d].activated /\ fc[d].addr = b
      BY <1>1, <1>4, <2>3 DEF CodeInv
    <3>2. d # c
      BY <1>4, <2>3, <3>1
    <3> QED
      BY <1>3, <3>1, <3>2
  <2> QED
    BY <2>1, <2>2, <2>3 DEF CodeInv
<1>7. AloneInv'
  <2> SUFFICES ASSUME NEW x \in Ctxs, NEW y \in Ctxs, x # y, fc'[x].state # "unborn",
                      fc'[y].activated, fc'[x].addr = fc'[y].addr
               PROVE  fc'[x].destroyed /\ ~fc'[x].activated
    BY DEF AloneInv
  <2>1. CASE x = c
    BY <1>2, <1>3, <2>1
  <2>2. CASE x # c
    BY <1>1, <1>3, <2>2 DEF AloneInv
  <2> QED
    BY <2>1, <2>2
<1>8. FastInv'
  BY <1>1, <1>2, <1>3, ZenonT(30) DEF FastInv, Current
<1>9. PendingInv'
  <2> SUFFICES ASSUME NEW d \in Ctxs
               PROVE  /\ IsPending(d, "activate")' => ~fc'[d].activated
                      /\ fc'[d].state # "unborn" /\ ~fc'[d].destroyed /\ ~fc'[d].activated
                           => IsPending(d, "activate")'
                      /\ IsPending(d, "deactivate")' <=> fc'[d].destroyed /\ fc'[d].activated
    BY DEF PendingInv
  <2>1. CASE d = c
    BY <1>2, <1>3, <2>1
  <2>2. CASE d # c
    BY <1>1, <1>2, <1>3, <2>2 DEF PendingInv
  <2> QED
    BY <2>1, <2>2
<1> QED
  BY <1>5, <1>6, <1>7, <1>8, <1>9 DEF Hooked

\* detach works on contexts of the table only.
LEMMA DetachFromParts ==
  ASSUME TypeInv, Hooked, NEW t \in Mutators, NEW c \in Ctxs, DetachFrom(t, c)
  PROVE  /\ UNCHANGED <<table, code, fc>> /\ SamePending
         /\ Current(c)' = WithoutListener(Current(c), op[t].lsn)
         /\ op[t].lsn \in Current(c).live
         /\ \A d \in Ctxs : d # c => Current(d)' = Current(d)
         /\ ~fc[c].fast /\ fc[c].state # "unborn"
<1>. DEFINE o == [op[t] EXCEPT !.at = "retire", !.ctx = c]
<1>1. /\ t \in Threads /\ op[t] \in ApiCall /\ txn \in Transaction /\ op[t].lsn \in Listeners
      /\ UNCHANGED <<table, code, fc>> /\ op' = [op EXCEPT ![t] = o]
      /\ entries' = [entries EXCEPT ![c] = Append(@, WithoutListener(Current(c), op[t].lsn))]
  BY ConstantsAssumption
     DEF TypeInv, TypeOK, DetachFrom, CallsConsistent, CallConsistent
<1>2. txn'.updates = txn.updates /\ o.updates = op[t].updates
  BY <1>1 DEF DetachFrom, Transaction, ApiCall
<1>. HIDE DEF o
<1>3. SamePending
  BY <1>1, <1>2, UpdatesStay
<1>4. WithoutListener(Current(c), op[t].lsn) \in ListenerArray
  BY CurrentType, ListenersType, <1>1
<1>5. /\ Current(c)' = WithoutListener(Current(c), op[t].lsn)
      /\ \A d \in Ctxs : d # c => Current(d)' = Current(d)
  BY <1>1, <1>4, NewArray
<1>6. op[t].lsn \in Current(c).live /\ \E a \in Addr : table[a] = c
  BY DEF DetachFrom
<1>7. ~fc[c].fast /\ fc[c].state # "unborn"
  BY <1>6 DEF Hooked, TableInv, FastInv
<1> QED
  BY <1>1, <1>3, <1>5, <1>6, <1>7

LEMMA DetachFromHooks ==
  ASSUME TypeInv, Hooked, NEW t \in Mutators, NEW c \in Ctxs, DetachFrom(t, c)
  PROVE  Hooked'
<1>1. /\ UNCHANGED <<table, code, fc>> /\ SamePending
      /\ \A d \in Ctxs : d # c => Current(d)' = Current(d)
      /\ ~fc[c].fast /\ fc[c].state # "unborn"
  BY DetachFromParts
<1>2. TableInv /\ CodeInv /\ AloneInv /\ FastInv /\ PendingInv
  BY DEF Hooked
<1>3. FastInv'
  BY <1>1, <1>2 DEF FastInv
<1>4. TableInv' /\ CodeInv' /\ AloneInv'
  BY <1>1, <1>2 DEF TableInv, CodeInv, AloneInv, Target
<1>5. PendingInv'
  BY <1>1, <1>2 DEF PendingInv, SamePending
<1> QED
  BY <1>3, <1>4, <1>5 DEF Hooked

\* Released is only what was given up and patched out.
Released(c) ==
  /\ fc[c].destroyed /\ ~fc[c].activated
  /\ fc[c].state # "unborn" /\ fc'[c].state = "freed"
  /\ fc'[c].addr = fc[c].addr /\ fc'[c].fast = fc[c].fast /\ fc'[c].repl = fc[c].repl
  /\ fc'[c].original = fc[c].original /\ fc'[c].destroyed = fc[c].destroyed
  /\ fc'[c].activated = fc[c].activated /\ fc'[c].saved = fc[c].saved

LEMMA NotifyParts ==
  ASSUME TypeInv, NotifyInv, SharedBorn, NEW t \in Threads, Notify(t)
  PROVE  /\ UNCHANGED <<table, code, entries>> /\ SamePending
         /\ \A c \in Ctxs : SameContext(c) \/ Released(c)
<1>. DEFINE o == [op[t] EXCEPT !.at = "relock", !.task = None]
<1>1. /\ op[t] \in ApiCall /\ op[t].task \in DestroyTask /\ Due(op[t].task, {})
      /\ fc \in [Ctxs -> FunctionContext]
      /\ UNCHANGED <<table, code, entries, txn>> /\ op' = [op EXCEPT ![t] = o]
  BY DEF TypeInv, TypeOK, Notify, CallsConsistent, CallConsistent, NotifyInv
<1>2. o.updates = op[t].updates
  BY <1>1 DEF ApiCall
<1>. HIDE DEF o
<1>3. SamePending
  BY <1>1, <1>2, UpdatesStay
<1>4. PICK task \in DestroyTask, c \in Ctxs :
        /\ task = op[t].task /\ c = task.ctx
        /\ fc' = IF task.what = "context" THEN [fc EXCEPT ![c].state = "freed"] ELSE fc
  BY <1>1 DEF Notify, DestroyTask
<1>5. CASE task.what # "context"
  BY <1>1, <1>3, <1>4, <1>5 DEF SameContext
<1>6. CASE task.what = "context"
  <2>1. fc[c].destroyed /\ ~fc[c].activated
    BY <1>1, <1>4, <1>6 DEF Due
  <2>2. fc[c].state # "unborn"
    BY <2>1 DEF SharedBorn, Unborn
  <2>a. PICK old \in FunctionContext : old = fc[c]
    BY <1>1
  <2>b. PICK new : new = [old EXCEPT !.state = "freed"] /\ fc'[c] = new
    BY <1>1, <1>4, <1>6, <2>a
  <2>c. /\ new.state = "freed" /\ new.addr = old.addr /\ new.fast = old.fast
        /\ new.repl = old.repl /\ new.original = old.original
        /\ new.destroyed = old.destroyed /\ new.activated = old.activated
        /\ new.saved = old.saved
    BY <2>b DEF FunctionContext
  <2>3. Released(c)
    BY <2>1, <2>2, <2>a, <2>b, <2>c DEF Released
  <2>4. \A d \in Ctxs : d # c => SameContext(d)
    BY <1>1, <1>4, <1>6 DEF SameContext
  <2> QED
    BY <1>1, <1>3, <2>3, <2>4
<1> QED
  BY <1>5, <1>6

LEMMA NotifyHooks ==
  ASSUME TypeInv, NotifyInv, SharedBorn, Hooked, NEW t \in Threads, Notify(t)
  PROVE  Hooked'
<1>1. UNCHANGED <<table, code, entries>> /\ SamePending
  BY NotifyParts
<1>2. \A d \in Ctxs :
        /\ fc'[d].addr = fc[d].addr /\ fc'[d].fast = fc[d].fast /\ fc'[d].repl = fc[d].repl
        /\ fc'[d].original = fc[d].original /\ fc'[d].destroyed = fc[d].destroyed
        /\ fc'[d].activated = fc[d].activated /\ fc'[d].saved = fc[d].saved
        /\ fc'[d].state # "unborn" <=> fc[d].state # "unborn"
        /\ fc'[d].state = fc[d].state \/ fc[d].destroyed
  BY NotifyParts DEF SameContext, Released
<1>3. TableInv /\ CodeInv /\ AloneInv /\ FastInv /\ PendingInv
  BY DEF Hooked
<1>4. TableInv'
  BY <1>1, <1>2, <1>3 DEF TableInv
<1>5. \A d \in Ctxs : Target(d)' = Target(d)
  BY <1>2 DEF Target
<1>6. CodeInv'
  BY <1>1, <1>2, <1>3, <1>5 DEF CodeInv
<1>7. AloneInv'
  BY <1>2, <1>3 DEF AloneInv
<1>8. FastInv'
  BY <1>1, <1>2, <1>3 DEF FastInv, Current
<1>9. PendingInv'
  BY <1>1, <1>2, <1>3 DEF PendingInv, SamePending
<1> QED
  BY <1>4, <1>6, <1>7, <1>8, <1>9 DEF Hooked

\* Steps that leave the hooks alone.
LEMMA QuietParts ==
  ASSUME TypeInv, Staged, NEW t \in Mutators,
         \/ Refused(t) \/ (\E l \in Listeners : Detach(t, l))
         \/ BeginTransaction(t) \/ EndTransaction(t) \/ Flush(t)
         \/ AttachFlags(t) \/ DetachDone(t) \/ EndNothingToDo(t) \/ EndTakesCopy(t)
         \/ Patched(t) \/ TaskRuns(t) \/ TaskRequeued(t) \/ TasksDone(t) \/ Relock(t)
  PROVE  Undisturbed
<1>1. /\ t \in Threads /\ op \in [Threads -> ApiCall] /\ op[t] \in ApiCall /\ txn \in Transaction
      /\ fc \in [Ctxs -> FunctionContext] /\ StageInv
  BY ConstantsAssumption DEF TypeInv, TypeOK, Staged
<1>2. UNCHANGED <<table, code, entries>>
  BY DEF Refused, Detach, BeginTransaction, EndTransaction, Flush, AttachFlags, DetachDone,
     EndNothingToDo, EndTakesCopy, Patched, TaskRuns, TaskRequeued, TasksDone, Relock, heap
<1>3. \A c \in Ctxs : SameContext(c)
  <2>1. CASE UNCHANGED fc
    BY <2>1 DEF SameContext
  <2>2. CASE AttachFlags(t)
    <3>1. PICK c, leaves : fc' = [fc EXCEPT ![c].hasLeave = leaves]
      BY <2>2 DEF AttachFlags
    <3> QED
      BY <1>1, <3>1 DEF SameContext, FunctionContext
  <2> QED
    BY <2>1, <2>2
       DEF Refused, Detach, BeginTransaction, EndTransaction, Flush, DetachDone,
           EndNothingToDo, EndTakesCopy, Patched, TaskRuns, TaskRequeued, TasksDone, Relock, heap
<1>4. SUFFICES \E o : /\ op' = [op EXCEPT ![t] = o]
                      /\ txn'.updates \cup o.updates = txn.updates \cup op[t].updates
  BY <1>1, <1>2, <1>3, UpdatesStay DEF Undisturbed
<1>5. op[t].at # "patch" => op[t].updates = {}
  BY <1>1 DEF StageInv
<1>6. CASE Refused(t) \/ (\E l \in Listeners : Detach(t, l)) \/ EndTransaction(t)
  <2>1. PICK o : op' = [op EXCEPT ![t] = o] /\ o.updates = {} /\ op[t].at = "idle"
                 /\ txn'.updates = txn.updates
    <3>1. \E step, l : Goes(t, step, None, l)
      BY <1>6 DEF Refused, Detach, EndTransaction
    <3>2. \A step, l : [Idle EXCEPT !.kind = "update", !.at = step, !.ctx = None, !.lsn = l].updates = {}
      BY DEF Idle
    <3>3. op[t].at = "idle" /\ txn'.updates = txn.updates
      BY <1>6 DEF Refused, Detach, EndTransaction, Starts, InUserCode, Opened
    <3> QED
      BY <3>1, <3>2, <3>3 DEF Goes
  <2> QED
    BY <1>5, <2>1
<1>7. CASE BeginTransaction(t)
  <2>1. op' = [op EXCEPT ![t] = op[t]] /\ txn'.updates = txn.updates
    BY <1>1, <1>7 DEF BeginTransaction, Transaction
  <2> QED
    BY <2>1
<1>8. CASE Flush(t)
  <2> DEFINE o == [Idle EXCEPT !.kind = "flush", !.at = "end"]
  <2>1. o.updates = {} /\ op' = [op EXCEPT ![t] = o] /\ op[t].at = "idle"
        /\ txn'.updates = txn.updates
    BY <1>1, <1>8 DEF Flush, InUserCode, Idle, Transaction
  <2>. HIDE DEF o
  <2> QED
    BY <1>5, <2>1
<1>9. CASE EndNothingToDo(t) \/ TasksDone(t)
  <2>1. op' = [op EXCEPT ![t] = Idle] /\ op[t].at # "patch" /\ Idle.updates = {}
        /\ txn'.updates = txn.updates
    BY <1>1, <1>9 DEF EndNothingToDo, TasksDone, Returns, Transaction, Idle
  <2> QED
    BY <1>5, <2>1
<1>10. CASE EndTakesCopy(t)
  <2> DEFINE o == [op[t] EXCEPT !.at = "patch", !.destroy = txn.destroy, !.updates = txn.updates]
  <2>1. op' = [op EXCEPT ![t] = o] /\ op[t].at = "end" /\ o.updates = txn.updates
        /\ txn'.updates = {}
    BY <1>1, <1>10 DEF EndTakesCopy, ApiCall, Reinitialized, CleanTransaction
  <2>. HIDE DEF o
  <2> QED
    BY <1>5, <2>1
<1>11. CASE AttachFlags(t) \/ Patched(t) \/ Relock(t)
  <2>1. PICK step : op' = [op EXCEPT ![t] = [op[t] EXCEPT !.at = step]] /\ txn' = txn
    BY <1>11 DEF AttachFlags, Patched, Relock
  <2>2. [op[t] EXCEPT !.at = step].updates = op[t].updates
    BY <1>1 DEF ApiCall
  <2> QED
    BY <2>1, <2>2
<1>12. CASE DetachDone(t)
  <2> DEFINE o == [op[t] EXCEPT !.at = "end", !.lsn = None]
  <2>1. op' = [op EXCEPT ![t] = o] /\ o.updates = op[t].updates /\ txn' = txn
    BY <1>1, <1>12 DEF DetachDone, ApiCall
  <2>. HIDE DEF o
  <2> QED
    BY <2>1
<1>13. CASE TaskRuns(t)
  <2>1. PICK task, rest :
          op' = [op EXCEPT ![t] = [op[t] EXCEPT !.at = "notify", !.task = task, !.destroy = rest]]
          /\ txn' = txn
    BY <1>13 DEF TaskRuns
  <2>2. [op[t] EXCEPT !.at = "notify", !.task = task, !.destroy = rest].updates = op[t].updates
    BY <1>1 DEF ApiCall
  <2> QED
    BY <2>1, <2>2
<1>14. CASE TaskRequeued(t)
  <2>1. PICK rest : op' = [op EXCEPT ![t] = [op[t] EXCEPT !.destroy = rest]]
    BY <1>14 DEF TaskRequeued
  <2>2. [op[t] EXCEPT !.destroy = rest].updates = op[t].updates
    BY <1>1 DEF ApiCall
  <2>3. txn'.updates = txn.updates
    BY <1>1, <1>14 DEF TaskRequeued, Requeues, Transaction
  <2> QED
    BY <2>1, <2>2, <2>3
<1> QED
  BY <1>6, <1>7, <1>8, <1>9, <1>10, <1>11, <1>12, <1>13, <1>14

\* Nor does anything change that is not a step of the API.
LEMMA ElsewhereParts ==
  ASSUME TypeInv,
         \/ \E t \in Callers :
              \/ \E f \in Functions : Call(t, f)
              \/ \E c \in Ctxs : CallOriginal(t, c)
              \/ InvocationSteps(t) \/ Return(t)
         \/ \E l \in Listeners : Unref(l)
         \/ UNCHANGED vars
  PROVE  Undisturbed /\ UNCHANGED <<promised, op, open>>
<1>1. ASSUME UNCHANGED <<table, code, entries, txn, op, promised, open>>,
             \A c \in Ctxs : SameContext(c)
      PROVE  Undisturbed /\ UNCHANGED <<promised, op, open>>
  BY <1>1 DEF Undisturbed, SamePending, IsPending
<1>2. ASSUME NEW t \in Callers,
             \/ \E f \in Functions : Call(t, f)
             \/ \E c \in Ctxs : CallOriginal(t, c)
             \/ InvocationSteps(t) \/ Return(t)
      PROVE  Undisturbed /\ UNCHANGED <<promised, op, open>>
  <2>1. UNCHANGED control
    BY <1>2 DEF Call, CallOriginal, InvocationSteps, Return, Jump, BeginInvocation, Decide,
       TakeSnapshot, TellListener, EnterDone, ChooseHop, LoadReplacement, Release,
       InvokeOriginal, EndInvocation, LeaveDone, UseAfterFree
  <2>2. UNCHANGED fc \/ \E c, n : fc' = [fc EXCEPT ![c].counter = n]
    BY <1>2 DEF Call, CallOriginal, InvocationSteps, Return, Jump, BeginInvocation, Decide,
       TakeSnapshot, TellListener, EnterDone, ChooseHop, LoadReplacement, Release,
       InvokeOriginal, EndInvocation, LeaveDone, UseAfterFree, Uncounts
  <2>3. fc \in [Ctxs -> FunctionContext]
    BY DEF TypeInv, TypeOK
  <2>4. \A c \in Ctxs : SameContext(c)
    BY <2>2, <2>3 DEF SameContext, FunctionContext
  <2> QED
    BY <1>1, <2>1, <2>4 DEF control
<1>3. CASE (\E l \in Listeners : Unref(l)) \/ UNCHANGED vars
  <2>1. UNCHANGED <<table, code, entries, txn, op, promised, open>> /\ UNCHANGED fc
    BY <1>3 DEF Unref, vars
  <2>2. \A c \in Ctxs : SameContext(c)
    BY <2>1 DEF SameContext
  <2> QED
    BY <1>1, <2>1, <2>2
<1> QED
  BY <1>2, <1>3

\* What is pending after a step that instruments a function, or gives up a context.
PendingAfterInstrument(a, c) ==
  \A d \in Ctxs : \A what \in {"activate", "deactivate"} :
    IsPending(d, what)' <=>
      IsPending(d, what) \/ (table[a] # c /\ d = c /\ what = "activate")
PendingAfterDestroy(c, gone) ==
  \A d \in Ctxs : \A what \in {"activate", "deactivate"} :
    IsPending(d, what)' <=>
      IsPending(d, what) \/ (gone /\ <<d, what>> \in DestroyUpdates(c))

\* What the calls that hook a function, or unhook one, change of the hooks.
LEMMA AttachParts ==
  ASSUME TypeInv, Staged, NEW t \in Mutators, NEW f \in Functions, NEW l \in Listeners,
         Attach(t, f, l)
  PROVE  \E a \in Addr, c \in Ctxs, ctx \in FunctionContext :
           /\ ResolvesTo(f, a) /\ Instruments(a, FALSE, c) /\ CanTake(c, l)
           /\ ctx = Instrumented(a, FALSE, c) /\ ~ctx.fast
           /\ fc' = [fc EXCEPT ![c] = ctx] /\ table' = [table EXCEPT ![a] = c]
           /\ Current(c)' = WithListener(Current(c), l)
           /\ \A d \in Ctxs : d # c => Current(d)' = Current(d)
           /\ UNCHANGED code /\ PendingAfterInstrument(a, c)
<1>1. PICK a \in Addr, c \in Ctxs :
        /\ ResolvesTo(f, a) /\ Instruments(a, FALSE, c) /\ CanTake(c, l)
        /\ fc' = [fc EXCEPT ![c] = Instrumented(a, FALSE, c)]
        /\ table' = [table EXCEPT ![a] = c]
        /\ entries' = [entries EXCEPT ![c] = Append(@, WithListener(Current(c), l))]
        /\ txn' = Opened(<<ArrayTask(c, Len(entries[c]))>>, InstrumentUpdates(a, c))
        /\ Goes(t, "flags", c, l)
  BY DEF Attach
<1>2. t \in Threads /\ UNCHANGED code /\ op[t].at # "patch"
  BY ConstantsAssumption DEF Attach, Starts, InUserCode
<1>3. PICK o : op' = [op EXCEPT ![t] = o] /\ o.updates = {}
  BY <1>1, <1>2, BeginsWith
<1>4. PICK new : new = IF table[a] = c THEN {} ELSE {<<c, "activate">>}
  OBVIOUS
<1>5. txn'.updates = txn.updates \cup new
  BY <1>1, <1>4 DEF InstrumentUpdates, Opened
<1>6. \A d \in Ctxs : \A what \in {"activate", "deactivate"} :
        IsPending(d, what)' <=> IsPending(d, what) \/ <<d, what>> \in new
  BY <1>2, <1>3, <1>5, UpdateIsMade
<1>7. PendingAfterInstrument(a, c)
  BY <1>4, <1>6 DEF PendingAfterInstrument
<1>8. PICK ctx \in FunctionContext : ctx = Instrumented(a, FALSE, c)
  BY InstrumentedType
<1>9. ~ctx.fast
  BY <1>1, <1>8, ConstantsAssumption DEF Instruments, Instrumented, NewContext, Unborn
<1>10. /\ Current(c)' = WithListener(Current(c), l)
       /\ \A d \in Ctxs : d # c => Current(d)' = Current(d)
  BY <1>1, NewArray, CurrentType, ListenersType
<1> QED
  BY <1>1, <1>2, <1>7, <1>8, <1>9, <1>10

LEMMA ReplaceParts ==
  ASSUME TypeInv, Staged, NEW t \in Mutators, NEW f \in Functions,
         NEW r \in Replacements, NEW fast \in BOOLEAN, Replace(t, f, r, fast)
  PROVE  \E a \in Addr, c \in Ctxs, ctx \in FunctionContext :
           /\ ResolvesTo(f, a) /\ Instruments(a, fast, c) /\ fc[c].repl = None
           /\ ctx.repl = r /\ ctx.original = r
           /\ ctx.state = Instrumented(a, fast, c).state
           /\ ctx.addr = Instrumented(a, fast, c).addr
           /\ ctx.fast = Instrumented(a, fast, c).fast
           /\ ctx.activated = Instrumented(a, fast, c).activated
           /\ ctx.destroyed = Instrumented(a, fast, c).destroyed
           /\ ctx.saved = Instrumented(a, fast, c).saved
           /\ fc' = [fc EXCEPT ![c] = ctx] /\ table' = [table EXCEPT ![a] = c]
           /\ UNCHANGED <<code, entries>> /\ PendingAfterInstrument(a, c)
<1>1. PICK a \in Addr, c \in Ctxs :
        /\ ResolvesTo(f, a) /\ Instruments(a, fast, c) /\ CanReplace(c)
        /\ fc' = [fc EXCEPT ![c] =
                    [Instrumented(a, fast, c) EXCEPT !.repl = r, !.original = r]]
        /\ table' = [table EXCEPT ![a] = c]
        /\ txn' = Opened(<<>>, InstrumentUpdates(a, c))
  BY DEF Replace
<1>2. t \in Threads /\ UNCHANGED <<code, entries>> /\ op[t].at # "patch"
      /\ Goes(t, "end", None, None)
  BY ConstantsAssumption DEF Replace, Starts, InUserCode
<1>3. PICK o : op' = [op EXCEPT ![t] = o] /\ o.updates = {}
  BY <1>1, <1>2, BeginsWith, ZenonT(30)
<1>4. PICK new : new = IF table[a] = c THEN {} ELSE {<<c, "activate">>}
  OBVIOUS
<1>5. txn'.updates = txn.updates \cup new
  BY <1>1, <1>4 DEF InstrumentUpdates, Opened
<1>6. \A d \in Ctxs : \A what \in {"activate", "deactivate"} :
        IsPending(d, what)' <=> IsPending(d, what) \/ <<d, what>> \in new
  BY <1>2, <1>3, <1>5, UpdateIsMade
<1>7. PendingAfterInstrument(a, c)
  BY <1>4, <1>6 DEF PendingAfterInstrument
<1>8. PICK old \in FunctionContext : old = Instrumented(a, fast, c)
  BY InstrumentedType
<1>. DEFINE ctx == [old EXCEPT !.repl = r, !.original = r]
<1>9. /\ ctx \in FunctionContext /\ ctx.repl = r /\ ctx.original = r
      /\ ctx.state = old.state /\ ctx.addr = old.addr /\ ctx.fast = old.fast
      /\ ctx.activated = old.activated /\ ctx.destroyed = old.destroyed
      /\ ctx.saved = old.saved
  BY DEF FunctionContext
<1>10. fc' = [fc EXCEPT ![c] = ctx]
  BY <1>1, <1>8
<1>. HIDE DEF ctx
<1> QED
  BY <1>1, <1>2, <1>7, <1>8, <1>9, <1>10 DEF CanReplace

\* revert and the end of detach give up a context for which nothing is left.
LEMMA RevertParts ==
  ASSUME TypeInv, Staged, NEW t \in Mutators, NEW f \in Functions, Revert(t, f)
  PROVE  \E a \in Addr, c \in Ctxs, ctx \in FunctionContext, gone \in BOOLEAN :
           /\ ResolvesTo(f, a) /\ table[a] = c /\ (gone <=> Current(c).live = {})
           /\ ctx.state = fc[c].state /\ ctx.addr = fc[c].addr /\ ctx.fast = fc[c].fast
           /\ ctx.original = fc[c].original /\ ctx.activated = fc[c].activated
           /\ ctx.saved = fc[c].saved /\ ctx.repl = None
           /\ ctx.destroyed <=> fc[c].destroyed \/ gone
           /\ fc' = [fc EXCEPT ![c] = ctx]
           /\ table' = IF gone THEN [table EXCEPT ![a] = None] ELSE table
           /\ UNCHANGED <<code, entries>> /\ PendingAfterDestroy(c, gone)
<1>1. PICK a \in Addr :
        LET c == table[a]
            ctx == [fc[c] EXCEPT !.repl = None]
            gone == IsEmpty(ctx, Current(c)) IN
        /\ ResolvesTo(f, a) /\ c # None
        /\ fc' = [fc EXCEPT ![c] = [ctx EXCEPT !.destroyed = @ \/ gone]]
        /\ table' = IF gone THEN [table EXCEPT ![a] = None] ELSE table
        /\ txn' = Opened(IF gone THEN <<ContextTask(c)>> ELSE <<>>,
                         txn.updates \cup IF gone THEN DestroyUpdates(c) ELSE {})
  BY DEF Revert
<1>2. PICK c \in Ctxs : c = table[a]
  BY <1>1 DEF TypeInv, TypeOK
<1>3. PICK gone \in BOOLEAN : gone <=> Current(c).live = {}
  OBVIOUS
<1>4. fc[c] \in FunctionContext
  BY DEF TypeInv, TypeOK
<1>5. IsEmpty([fc[c] EXCEPT !.repl = None], Current(c)) <=> gone
  BY <1>3, <1>4 DEF IsEmpty, FunctionContext
<1>. DEFINE ctx == [[fc[c] EXCEPT !.repl = None] EXCEPT !.destroyed = @ \/ gone]
<1>6. /\ ctx \in FunctionContext /\ ctx.state = fc[c].state /\ ctx.addr = fc[c].addr
      /\ ctx.fast = fc[c].fast /\ ctx.original = fc[c].original
      /\ ctx.activated = fc[c].activated /\ ctx.saved = fc[c].saved
      /\ ctx.destroyed <=> fc[c].destroyed \/ gone
      /\ ctx.repl = None
  BY <1>4 DEF FunctionContext
<1>7. IsEmpty([fc[c] EXCEPT !.repl = None], Current(c)) = gone
  BY <1>5 DEF IsEmpty
<1>8. /\ fc' = [fc EXCEPT ![c] = ctx]
      /\ table' = IF gone THEN [table EXCEPT ![a] = None] ELSE table
      /\ txn'.updates = txn.updates \cup IF gone THEN DestroyUpdates(c) ELSE {}
  BY <1>1, <1>2, <1>7 DEF Opened
<1>. HIDE DEF ctx
<1>9. t \in Threads /\ UNCHANGED <<code, entries>> /\ op[t].at # "patch"
      /\ Goes(t, "end", None, None)
  BY ConstantsAssumption DEF Revert, Starts, InUserCode
<1>10. PICK o : op' = [op EXCEPT ![t] = o] /\ o.updates = {}
  BY <1>9, BeginsWith
<1>11. PICK new : new = IF gone THEN DestroyUpdates(c) ELSE {}
  OBVIOUS
<1>12. \A d \in Ctxs : \A what \in {"activate", "deactivate"} :
        IsPending(d, what)' <=> IsPending(d, what) \/ <<d, what>> \in new
  BY <1>8, <1>9, <1>10, <1>11, UpdateIsMade
<1>13. PendingAfterDestroy(c, gone)
  BY <1>11, <1>12 DEF PendingAfterDestroy
<1> QED
  BY <1>1, <1>2, <1>3, <1>6, <1>8, <1>9, <1>13

LEMMA RetireParts ==
  ASSUME TypeInv, Staged, RetireInv, TableInv, NEW t \in Mutators, DetachRetire(t)
  PROVE  \E a \in Addr, c \in Ctxs, ctx \in FunctionContext, gone \in BOOLEAN :
           /\ table[a] = c /\ op[t].ctx = c
           /\ gone <=> fc[c].repl = None /\ Current(c).live = {}
           /\ ctx.state = fc[c].state /\ ctx.addr = fc[c].addr /\ ctx.fast = fc[c].fast
           /\ ctx.original = fc[c].original /\ ctx.activated = fc[c].activated
           /\ ctx.saved = fc[c].saved /\ ctx.repl = fc[c].repl
           /\ ctx.destroyed <=> fc[c].destroyed \/ gone
           /\ fc' = [fc EXCEPT ![c] = ctx]
           /\ table' = IF gone THEN [table EXCEPT ![a] = None] ELSE table
           /\ UNCHANGED <<code, entries>> /\ PendingAfterDestroy(c, gone)
<1>1. /\ t \in Threads /\ op[t] \in ApiCall /\ txn \in Transaction /\ op[t].at = "retire"
  BY ConstantsAssumption DEF TypeInv, TypeOK, DetachRetire
<1>2. PICK a \in Addr, c \in Ctxs : table[a] = c /\ op[t].ctx = c
  BY <1>1 DEF RetireInv, TypeInv, CallsConsistent, CallConsistent
<1>3. fc[c] \in FunctionContext /\ fc[c].addr = a
  BY <1>2 DEF TypeInv, TypeOK, TableInv
<1>4. PICK leaves \in BOOLEAN : leaves = (Current(c).live \cap LeaveListeners # {})
  OBVIOUS
<1>. DEFINE old == [fc[c] EXCEPT !.hasLeave = leaves]
<1>5. PICK gone \in BOOLEAN : gone = IsEmpty(old, Current(c))
  BY DEF IsEmpty
<1>. DEFINE ctx == [old EXCEPT !.destroyed = @ \/ gone]
<1>6. /\ ctx \in FunctionContext /\ ctx.state = fc[c].state /\ ctx.addr = fc[c].addr
      /\ ctx.fast = fc[c].fast /\ ctx.original = fc[c].original /\ ctx.repl = fc[c].repl
      /\ ctx.activated = fc[c].activated /\ ctx.saved = fc[c].saved
      /\ ctx.destroyed <=> fc[c].destroyed \/ gone
      /\ old.addr = a
      /\ gone <=> fc[c].repl = None /\ Current(c).live = {}
  BY <1>3, <1>5 DEF FunctionContext, IsEmpty
<1>7. /\ fc' = [fc EXCEPT ![c] = ctx]
      /\ table' = IF gone THEN [table EXCEPT ![a] = None] ELSE table
      /\ UNCHANGED <<code, entries>>
  BY <1>2, <1>4, <1>5, <1>6 DEF DetachRetire
<1>8. txn'.updates = txn.updates \cup IF gone THEN DestroyUpdates(c) ELSE {}
  <2>1. txn'.updates = IF gone THEN txn.updates \cup DestroyUpdates(c) ELSE txn.updates
    BY <1>1, <1>2, <1>4, <1>5 DEF DetachRetire, Transaction
  <2> QED
    BY <2>1
<1>. HIDE DEF ctx
<1>9. PICK o : op' = [op EXCEPT ![t] = o] /\ o.updates = {}
  <2>1. op' = [op EXCEPT ![t] = [op[t] EXCEPT !.at = "detaching", !.ctx = None]]
    BY DEF DetachRetire
  <2>2. [op[t] EXCEPT !.at = "detaching", !.ctx = None].updates = {}
    BY <1>1 DEF Staged, StageInv, ApiCall
  <2> QED
    BY <2>1, <2>2
<1>10. PICK new : new = IF gone THEN DestroyUpdates(c) ELSE {}
  OBVIOUS
<1>11. \A d \in Ctxs : \A what \in {"activate", "deactivate"} :
        IsPending(d, what)' <=> IsPending(d, what) \/ <<d, what>> \in new
  BY <1>1, <1>8, <1>9, <1>10, UpdateIsMade
<1>12. PendingAfterDestroy(c, gone)
  BY <1>10, <1>11 DEF PendingAfterDestroy
<1> QED
  BY <1>2, <1>6, <1>7, <1>12

\* They keep the table, the code and what is pending in step.
LEMMA AttachHooks ==
  ASSUME TypeInv, SharedBorn, Staged, Hooked,
         NEW t \in Mutators, NEW f \in Functions, NEW l \in Listeners, Attach(t, f, l)
  PROVE  Hooked'
<1>1. PICK a \in Addr, c \in Ctxs, ctx \in FunctionContext :
        /\ ResolvesTo(f, a) /\ Instruments(a, FALSE, c)
        /\ ctx = Instrumented(a, FALSE, c) /\ ~ctx.fast
        /\ fc' = [fc EXCEPT ![c] = ctx] /\ table' = [table EXCEPT ![a] = c]
        /\ \A d \in Ctxs : d # c => Current(d)' = Current(d)
        /\ UNCHANGED code /\ PendingAfterInstrument(a, c)
  BY AttachParts
<1>2. PICK fast \in BOOLEAN : fast = FALSE
  OBVIOUS
<1>3. Instruments(a, fast, c) /\ ctx = Instrumented(a, fast, c) /\ Stops(a)
  BY <1>1, <1>2 DEF ResolvesTo
<1> QED
  BY <1>1, <1>3, InstrumentHooks DEF PendingAfterInstrument

LEMMA ReplaceHooks ==
  ASSUME TypeInv, SharedBorn, Staged, Hooked, NEW t \in Mutators, NEW f \in Functions,
         NEW r \in Replacements, NEW fast \in BOOLEAN, Replace(t, f, r, fast)
  PROVE  Hooked'
<1>1. PICK a \in Addr, c \in Ctxs, ctx \in FunctionContext :
        /\ ResolvesTo(f, a) /\ Instruments(a, fast, c) /\ fc[c].repl = None
        /\ ctx.repl = r /\ ctx.original = r
        /\ ctx.state = Instrumented(a, fast, c).state
        /\ ctx.addr = Instrumented(a, fast, c).addr
        /\ ctx.fast = Instrumented(a, fast, c).fast
        /\ ctx.activated = Instrumented(a, fast, c).activated
        /\ ctx.destroyed = Instrumented(a, fast, c).destroyed
        /\ ctx.saved = Instrumented(a, fast, c).saved
        /\ fc' = [fc EXCEPT ![c] = ctx] /\ table' = [table EXCEPT ![a] = c]
        /\ UNCHANGED <<code, entries>> /\ PendingAfterInstrument(a, c)
  BY ReplaceParts
<1>2. ctx.fast => table[a] # c
  BY <1>1, ConstantsAssumption DEF Hooked, TableInv, FastInv, Instrumented
<1>3. \A d \in Ctxs : Current(d)' = Current(d)
  BY <1>1 DEF Current
<1>4. Stops(a) /\ code' = code
  BY <1>1 DEF ResolvesTo
<1>5. ctx.fast => table[a] # c /\ ctx.original \in Replacements /\ ctx.repl = ctx.original
  BY <1>1, <1>2
<1> QED
  BY <1>1, <1>3, <1>4, <1>5, InstrumentHooks, ZenonT(30) DEF PendingAfterInstrument

LEMMA RevertHooks ==
  ASSUME TypeInv, Staged, Hooked, NEW t \in Mutators, NEW f \in Functions, Revert(t, f)
  PROVE  Hooked'
<1>1. PICK a \in Addr, c \in Ctxs, ctx \in FunctionContext, gone \in BOOLEAN :
        /\ table[a] = c /\ (gone <=> Current(c).live = {})
        /\ ctx.state = fc[c].state /\ ctx.addr = fc[c].addr /\ ctx.fast = fc[c].fast
        /\ ctx.original = fc[c].original /\ ctx.activated = fc[c].activated
        /\ ctx.saved = fc[c].saved
        /\ ctx.destroyed <=> fc[c].destroyed \/ gone
        /\ fc' = [fc EXCEPT ![c] = ctx]
        /\ table' = IF gone THEN [table EXCEPT ![a] = None] ELSE table
        /\ UNCHANGED <<code, entries>> /\ PendingAfterDestroy(c, gone)
  BY RevertParts
<1>2. ctx.fast => gone
  BY <1>1 DEF Hooked, FastInv
<1> QED
  BY <1>1, <1>2, DestroyHooks, ZenonT(30) DEF PendingAfterDestroy

LEMMA RetireHooks ==
  ASSUME TypeInv, Staged, RetireInv, Hooked, NEW t \in Mutators, DetachRetire(t)
  PROVE  Hooked'
<1>1. PICK a \in Addr, c \in Ctxs, ctx \in FunctionContext, gone \in BOOLEAN :
        /\ table[a] = c
        /\ ctx.state = fc[c].state /\ ctx.addr = fc[c].addr /\ ctx.fast = fc[c].fast
        /\ ctx.original = fc[c].original /\ ctx.activated = fc[c].activated
        /\ ctx.saved = fc[c].saved /\ ctx.repl = fc[c].repl
        /\ ctx.destroyed <=> fc[c].destroyed \/ gone
        /\ fc' = [fc EXCEPT ![c] = ctx]
        /\ table' = IF gone THEN [table EXCEPT ![a] = None] ELSE table
        /\ UNCHANGED <<code, entries>> /\ PendingAfterDestroy(c, gone)
  <2>1. TableInv
    BY DEF Hooked
  <2> QED
    BY <2>1, RetireParts
<1> QED
  BY <1>1, DestroyHooks DEF PendingAfterDestroy

\* A step moves the call of one thread at most.  That thread has the lock, or
\* takes it, but for a notification; and detach is a loop.
CallMoves ==
  \/ UNCHANGED op
  \/ \E t \in Mutators, o \in ApiCall :
       /\ op' = [op EXCEPT ![t] = o]
       /\ lock \in {None, t} \/ (Notify(t) /\ o.at = "relock")
       /\ o.at = "retire" => o.lsn = op[t].lsn /\ DetachFrom(t, o.ctx) /\ o.ctx \in Ctxs
       /\ o.at = "detaching" =>
            \/ DetachRetire(t) /\ o.lsn = op[t].lsn
            \/ o.lsn \in Listeners /\ Detach(t, o.lsn)

LEMMA CallsMove ==
  ASSUME TypeInv, TypeInv', LockProtects, [Next]_vars
  PROVE  CallMoves
<1>1. /\ op \in [Threads -> ApiCall] /\ Mutators \subseteq Threads /\ None \notin Threads
      /\ \A t \in Threads : op[t] \in ApiCall /\ op'[t] \in ApiCall
  BY ConstantsAssumption DEF TypeInv, TypeOK
<1>2. ASSUME NEW t \in Mutators, NEW o, op' = [op EXCEPT ![t] = o], lock \in {None, t},
             o.at \notin {"retire", "detaching"}
      PROVE  CallMoves
  <2>1. o \in ApiCall
    BY <1>1, <1>2
  <2> QED
    BY <1>2, <2>1 DEF CallMoves
<1>3. ASSUME NEW t \in Mutators, ApiStarts(t) PROVE CallMoves
  <2>1. CASE BeginTransaction(t)
    BY <2>1 DEF BeginTransaction, CallMoves
  <2>2. CASE Flush(t)
    <3> DEFINE o == [Idle EXCEPT !.kind = "flush", !.at = "end"]
    <3>1. lock = None /\ op' = [op EXCEPT ![t] = o] /\ o.at = "end"
      BY <2>2 DEF Flush, Idle
    <3>. HIDE DEF o
    <3> QED
      BY <1>2, <3>1
  <2>3. CASE ~BeginTransaction(t) /\ ~Flush(t)
    <3>1. lock = None
      BY <1>3, <2>3 DEF ApiStarts, Attach, AttachRefused, Detach, Replace, ReplaceRefused, Revert,
         RevertNothing, Refused, EndTransaction, Starts
    <3>2. \E step \in {"flags", "end"} : \E c, l :
            Goes(t, step, c, l) \/ (l \in Listeners /\ Detach(t, l))
      <4>1. CASE Refused(t) \/ (\E l \in Listeners : Detach(t, l)) \/ EndTransaction(t)
        BY <4>1 DEF Refused, EndTransaction
      <4>2. CASE \E f \in Functions, l \in Listeners : Attach(t, f, l)
        BY <4>2 DEF Attach
      <4>3. CASE \E f \in Functions, r \in Replacements, fast \in BOOLEAN : Replace(t, f, r, fast)
        BY <4>3 DEF Replace
      <4>4. CASE \E f \in Functions : Revert(t, f)
        BY <4>4 DEF Revert
      <4> QED
        BY <1>3, <2>3, <4>1, <4>2, <4>3, <4>4
           DEF ApiStarts, AttachRefused, ReplaceRefused, RevertNothing
    <3>3. PICK step, c, l :
            /\ step \in {"flags", "end"}
            /\ Goes(t, step, c, l) \/ (l \in Listeners /\ Detach(t, l))
      BY <3>2
    <3>4. CASE Goes(t, step, c, l)
      <4> DEFINE o == [Idle EXCEPT !.kind = "update", !.at = step, !.ctx = c, !.lsn = l]
      <4>1. op' = [op EXCEPT ![t] = o] /\ o.at \in {"flags", "end"}
        BY <3>3, <3>4 DEF Goes, Idle
      <4>. HIDE DEF o
      <4> QED
        BY <1>2, <3>1, <4>1
    <3>5. CASE l \in Listeners /\ Detach(t, l)
      <4> DEFINE o == [Idle EXCEPT !.kind = "update", !.at = "detaching", !.ctx = None, !.lsn = l]
      <4>1. op' = [op EXCEPT ![t] = o] /\ o.at = "detaching" /\ o.lsn = l
        BY <3>5 DEF Detach, Goes, Idle
      <4>. HIDE DEF o
      <4>2. o \in ApiCall
        BY <1>1, <4>1
      <4> QED
        BY <3>1, <3>5, <4>1, <4>2 DEF CallMoves
    <3> QED
      BY <3>3, <3>4, <3>5
  <2> QED
    BY <2>1, <2>2, <2>3
<1>4. ASSUME NEW t \in Mutators, ApiSteps(t) \/ Relock(t) PROVE CallMoves
  <2>1. CASE Notify(t)
    <3> DEFINE o == [op[t] EXCEPT !.at = "relock", !.task = None]
    <3>1. op' = [op EXCEPT ![t] = o] /\ o.at = "relock"
      BY <1>1, <2>1 DEF Notify, ApiCall
    <3>. HIDE DEF o
    <3>2. o \in ApiCall
      BY <1>1, <3>1
    <3> QED
      BY <2>1, <3>1, <3>2 DEF CallMoves
  <2>2. CASE \E c \in Ctxs : DetachFrom(t, c)
    <3> PICK c \in Ctxs : DetachFrom(t, c)
      BY <2>2
    <3> DEFINE o == [op[t] EXCEPT !.at = "retire", !.ctx = c]
    <3>1. /\ lock = t /\ op' = [op EXCEPT ![t] = o] /\ o.ctx = c /\ o.at = "retire"
          /\ o.lsn = op[t].lsn
      <4>1. op[t].at = "detaching" /\ op' = [op EXCEPT ![t] = o]
        BY <1>1 DEF DetachFrom
      <4>2. o.ctx = c /\ o.at = "retire" /\ o.lsn = op[t].lsn
        BY <1>1 DEF ApiCall
      <4>3. lock = t
        BY <1>1, <4>1 DEF LockProtects, LockedSteps
      <4> QED
        BY <4>1, <4>2, <4>3
    <3>. HIDE DEF o
    <3>2. o \in ApiCall
      BY <1>1, <3>1
    <3> QED
      BY <3>1, <3>2 DEF CallMoves
  <2>3. CASE DetachRetire(t)
    <3> DEFINE o == [op[t] EXCEPT !.at = "detaching", !.ctx = None]
    <3>1. /\ lock = t /\ op' = [op EXCEPT ![t] = o] /\ o.at = "detaching"
          /\ o.lsn = op[t].lsn
      <4>1. op[t].at = "retire" /\ op' = [op EXCEPT ![t] = o]
        BY <1>1, <2>3 DEF DetachRetire
      <4>2. o.at = "detaching" /\ o.lsn = op[t].lsn
        BY <1>1 DEF ApiCall
      <4>3. lock = t
        BY <1>1, <4>1 DEF LockProtects, LockedSteps
      <4> QED
        BY <4>1, <4>2, <4>3
    <3>. HIDE DEF o
    <3>2. o \in ApiCall
      BY <1>1, <3>1
    <3> QED
      BY <2>3, <3>1, <3>2 DEF CallMoves
  <2>4. CASE ~Notify(t) /\ ~DetachRetire(t) /\ ~\E c \in Ctxs : DetachFrom(t, c)
    <3>1. op[t].at \in LockedSteps \/ lock = None
      BY <1>4, <2>4 DEF ApiSteps, AttachFlags, DetachDone, EndNothingToDo,
         EndTakesCopy, ActivateUpdate, DeactivateUpdate, Patched, TaskRuns, TaskRequeued,
         TasksDone, Relock, LockedSteps
    <3>2. lock \in {None, t}
      BY <1>1, <3>1 DEF LockProtects
    <3>3. \E o : op' = [op EXCEPT ![t] = o] /\ o.at \notin {"retire", "detaching"}
      <4>1. CASE AttachFlags(t) \/ Patched(t) \/ Relock(t)
        <5>1. PICK step : step \in {"end", "tasks"} /\ op' = [op EXCEPT ![t] = [op[t] EXCEPT !.at = step]]
          BY <4>1 DEF AttachFlags, Patched, Relock
        <5>2. [op[t] EXCEPT !.at = step].at = step
          BY <1>1 DEF ApiCall
        <5> QED
          BY <5>1, <5>2
      <4>3. CASE DetachDone(t)
        <5>1. op' = [op EXCEPT ![t] = [op[t] EXCEPT !.at = "end", !.lsn = None]]
          BY <4>3 DEF DetachDone
        <5>2. [op[t] EXCEPT !.at = "end", !.lsn = None].at = "end"
          BY <1>1 DEF ApiCall
        <5> QED
          BY <5>1, <5>2
      <4>4. CASE EndNothingToDo(t) \/ TasksDone(t)
        <5>1. op' = [op EXCEPT ![t] = Idle] /\ Idle.at = "idle"
          BY <4>4 DEF EndNothingToDo, TasksDone, Returns, Idle
        <5> QED
          BY <5>1
      <4>5. CASE EndTakesCopy(t)
        <5>1. PICK destroy, updates : op' = [op EXCEPT ![t] =
                 [op[t] EXCEPT !.at = "patch", !.destroy = destroy, !.updates = updates]]
          BY <4>5 DEF EndTakesCopy
        <5>2. [op[t] EXCEPT !.at = "patch", !.destroy = destroy, !.updates = updates].at = "patch"
          BY <1>1 DEF ApiCall
        <5> QED
          BY <5>1, <5>2
      <4>6. CASE \E c \in Ctxs : ActivateUpdate(t, c) \/ DeactivateUpdate(t, c)
        <5>1. PICK updates : op' = [op EXCEPT ![t] = [op[t] EXCEPT !.updates = updates]]
                             /\ op[t].at = "patch"
          BY <4>6 DEF ActivateUpdate, DeactivateUpdate
        <5>2. [op[t] EXCEPT !.updates = updates].at = "patch"
          BY <1>1, <5>1 DEF ApiCall
        <5> QED
          BY <5>1, <5>2
      <4>7. CASE TaskRuns(t)
        <5>1. PICK task, rest : op' = [op EXCEPT ![t] =
                 [op[t] EXCEPT !.at = "notify", !.task = task, !.destroy = rest]]
          BY <4>7 DEF TaskRuns
        <5>2. [op[t] EXCEPT !.at = "notify", !.task = task, !.destroy = rest].at = "notify"
          BY <1>1 DEF ApiCall
        <5> QED
          BY <5>1, <5>2
      <4>8. CASE TaskRequeued(t)
        <5>1. PICK rest : op' = [op EXCEPT ![t] = [op[t] EXCEPT !.destroy = rest]]
                          /\ op[t].at = "tasks"
          BY <4>8 DEF TaskRequeued
        <5>2. [op[t] EXCEPT !.destroy = rest].at = "tasks"
          BY <1>1, <5>1 DEF ApiCall
        <5> QED
          BY <5>1, <5>2
      <4> QED
        BY <1>4, <2>4, <4>1, <4>3, <4>4, <4>5, <4>6, <4>7, <4>8 DEF ApiSteps
    <3> QED
      BY <1>2, <3>2, <3>3
  <2> QED
    BY <2>1, <2>2, <2>3, <2>4
<1>5. ASSUME UNCHANGED op PROVE CallMoves
  BY <1>5 DEF CallMoves
<1>6. ASSUME NEW t \in Callers,
             \/ \E f \in Functions : Call(t, f)
             \/ \E c \in Ctxs : CallOriginal(t, c)
             \/ InvocationSteps(t) \/ Return(t)
      PROVE  CallMoves
  <2>1. UNCHANGED control
    BY <1>6 DEF Call, CallOriginal, InvocationSteps, Return, Jump, BeginInvocation, Decide,
       TakeSnapshot, TellListener, EnterDone, ChooseHop, LoadReplacement, Release,
       InvokeOriginal, EndInvocation, LeaveDone, UseAfterFree
  <2> QED
    BY <1>5, <2>1 DEF control
<1>7. ASSUME NEW l \in Listeners, Unref(l) PROVE CallMoves
  BY <1>5, <1>7 DEF Unref
<1>8. ASSUME UNCHANGED vars PROVE CallMoves
  BY <1>5, <1>8 DEF vars
<1> QED
  BY <1>3, <1>4, <1>6, <1>7, <1>8 DEF Next

\* Only a thread that has the lock changes the table.
LEMMA TableIsLocked ==
  ASSUME TypeInv, LockProtects, [Next]_vars, NEW t \in Threads, op[t].at \in LockedSteps,
         table' # table
  PROVE  \E u \in Mutators : u = t /\ ApiSteps(u)
<1>1. lock = t /\ t # None
  BY ConstantsAssumption DEF LockProtects
<1>2. ASSUME NEW u \in Mutators, ApiStarts(u) PROVE FALSE
  BY <1>1, <1>2 DEF ApiStarts, Attach, AttachRefused, Detach, Replace, ReplaceRefused, Revert,
     RevertNothing, Refused, BeginTransaction, EndTransaction, Flush, Starts
<1>3. ASSUME NEW u \in Mutators, ApiSteps(u) \/ Relock(u) PROVE u = t /\ ApiSteps(u)
  <2>1. DetachRetire(u)
    BY <1>3 DEF ApiSteps, AttachFlags, DetachFrom, DetachDone, EndNothingToDo, EndTakesCopy,
       ActivateUpdate, DeactivateUpdate, Patched, TaskRuns, TaskRequeued, TasksDone, Notify,
       Relock
  <2> QED
    BY <1>1, <1>3, <2>1, ConstantsAssumption DEF DetachRetire, LockProtects, LockedSteps, ApiSteps
<1>4. ASSUME NEW u \in Callers,
             \/ \E f \in Functions : Call(u, f)
             \/ \E c \in Ctxs : CallOriginal(u, c)
             \/ InvocationSteps(u) \/ Return(u)
      PROVE  FALSE
  BY <1>4 DEF Call, CallOriginal, InvocationSteps, Return, Jump, BeginInvocation, Decide,
     TakeSnapshot, TellListener, EnterDone, ChooseHop, LoadReplacement, Release,
     InvokeOriginal, EndInvocation, LeaveDone, UseAfterFree, control
<1>5. ASSUME NEW l \in Listeners, Unref(l) PROVE FALSE
  BY <1>5 DEF Unref
<1> QED
  BY <1>2, <1>3, <1>4, <1>5 DEF Next, vars

\* A call of detach that is about to retire a listener has its context in the table.
LEMMA NextRetires ==
  ASSUME TypeInv, TypeInv', LockProtects, RetireInv, [Next]_vars
  PROVE  RetireInv'
<1> SUFFICES ASSUME NEW u \in Threads, op'[u].at = "retire"
             PROVE  \E a \in Addr : table'[a] = op'[u].ctx
  BY DEF RetireInv
<1>1. op \in [Threads -> ApiCall] /\ Mutators \subseteq Threads /\ None \notin Threads
  BY ConstantsAssumption DEF TypeInv, TypeOK
<1>2. CASE op'[u] = op[u]
  <2>1. op[u].at \in LockedSteps /\ \E a \in Addr : table[a] = op[u].ctx
    BY <1>2 DEF RetireInv, LockedSteps
  <2>2. CASE table' = table
    BY <1>2, <2>1, <2>2
  <2>3. CASE table' # table
    <3>1. u \in Mutators /\ ApiSteps(u)
      BY <2>1, <2>3, TableIsLocked
    <3>2. DetachRetire(u)
      BY <2>3, <3>1 DEF ApiSteps, AttachFlags, DetachFrom, DetachDone, EndNothingToDo,
         EndTakesCopy, ActivateUpdate, DeactivateUpdate, Patched, TaskRuns, TaskRequeued,
         TasksDone, Notify, Relock
    <3>3. op'[u].at = "detaching"
      BY <1>1, <3>2 DEF DetachRetire, ApiCall
    <3> QED
      BY <3>3
  <2> QED
    BY <2>2, <2>3
<1>3. CASE op'[u] # op[u]
  <2>1. PICK t \in Mutators, o \in ApiCall :
          /\ op' = [op EXCEPT ![t] = o]
          /\ o.at = "retire" => DetachFrom(t, o.ctx) /\ o.ctx \in Ctxs
    BY <1>3, CallsMove DEF CallMoves
  <2>2. u = t /\ op'[u] = o
    BY <1>1, <1>3, <2>1
  <2> QED
    BY <2>1, <2>2 DEF DetachFrom
<1> QED
  BY <1>2, <1>3

-----------------------------------------------------------------------------
(* The invariant *)

LEMMA InitHooks == Init => HookInv
<1> SUFFICES ASSUME Init PROVE HookInv
  OBVIOUS
<1>1. Calm /\ Staged
  BY InitReleases, InitLock, InitStages DEF Calm
<1>2. RetireInv
  BY DEF Init, RetireInv, Idle
<1>3. \A c \in Ctxs : fc[c] = Unborn
  BY DEF Init
<1>4. None \notin Ctxs
  BY ConstantsAssumption
<1>5. TableInv
  BY <1>3, <1>4 DEF Init, TableInv, Unborn
<1>6. CodeInv /\ AloneInv
  BY <1>3 DEF Init, CodeInv, AloneInv, Unborn
<1>7. FastInv
  BY <1>3 DEF Init, FastInv, Unborn, Current
<1>8. \A c \in Ctxs : ~IsPending(c, "activate") /\ ~IsPending(c, "deactivate")
  BY DEF Init, IsPending, Idle, CleanTransaction
<1>9. PendingInv
  BY <1>3, <1>8 DEF PendingInv, Unborn
<1> QED
  BY <1>1, <1>2, <1>5, <1>6, <1>7, <1>9 DEF HookInv, Hooked

LEMMA NextHooks == HookInv /\ [Next]_vars => HookInv'
<1> SUFFICES ASSUME HookInv, [Next]_vars PROVE HookInv'
  OBVIOUS
<1>1. /\ ReleaseInv /\ TypeInv /\ SharedBorn /\ NotifyInv /\ LockProtects /\ Staged
      /\ RetireInv /\ Hooked
  BY DEF HookInv, Calm, ReleaseInv
<1>2. Calm' /\ Staged'
  BY <1>1, NextKeepsReleases, NextKeepsLock, NextStages DEF Calm
<1>3. RetireInv'
  <2>1. TypeInv'
    BY <1>2 DEF Calm, ReleaseInv
  <2> QED
    BY <1>1, <2>1, NextRetires
<1>4. Mutators \subseteq Threads
  BY ConstantsAssumption
<1>5. ASSUME NEW t \in Mutators, ApiStarts(t) PROVE Hooked'
  <2>1. CASE \/ Refused(t) \/ (\E l \in Listeners : Detach(t, l))
             \/ BeginTransaction(t) \/ EndTransaction(t) \/ Flush(t)
    BY <1>1, <2>1, QuietParts, SameHooks
  <2>2. CASE \E f \in Functions, l \in Listeners : Attach(t, f, l)
    BY <1>1, <2>2, AttachHooks
  <2>3. CASE \E f \in Functions, r \in Replacements, fast \in BOOLEAN : Replace(t, f, r, fast)
    BY <1>1, <2>3, ReplaceHooks
  <2>4. CASE \E f \in Functions : Revert(t, f)
    BY <1>1, <2>4, RevertHooks
  <2> QED
    BY <1>5, <2>1, <2>2, <2>3, <2>4 DEF ApiStarts, AttachRefused, ReplaceRefused, RevertNothing
<1>6. ASSUME NEW t \in Mutators, ApiSteps(t) \/ Relock(t) PROVE Hooked'
  <2>1. CASE \/ AttachFlags(t) \/ DetachDone(t) \/ EndNothingToDo(t) \/ EndTakesCopy(t)
             \/ Patched(t) \/ TaskRuns(t) \/ TaskRequeued(t) \/ TasksDone(t) \/ Relock(t)
    BY <1>1, <2>1, QuietParts, SameHooks
  <2>2. CASE \E c \in Ctxs : DetachFrom(t, c)
    BY <1>1, <2>2, DetachFromHooks
  <2>3. CASE DetachRetire(t)
    BY <1>1, <2>3, RetireHooks
  <2>4. CASE \E c \in Ctxs : ActivateUpdate(t, c) \/ DeactivateUpdate(t, c)
    BY <1>1, <1>4, <2>4, ActivateHooks, DeactivateHooks
  <2>5. CASE Notify(t)
    BY <1>1, <1>4, <2>5, NotifyHooks
  <2> QED
    BY <1>6, <2>1, <2>2, <2>3, <2>4, <2>5 DEF ApiSteps
<1>7. ASSUME \/ \E t \in Callers :
                  \/ \E f \in Functions : Call(t, f)
                  \/ \E c \in Ctxs : CallOriginal(t, c)
                  \/ InvocationSteps(t) \/ Return(t)
             \/ \E l \in Listeners : Unref(l)
             \/ UNCHANGED vars
      PROVE  Hooked'
  BY <1>1, <1>7, ElsewhereParts, SameHooks
<1>8. Hooked'
  BY <1>5, <1>6, <1>7 DEF Next
<1> QED
  BY <1>2, <1>3, <1>8 DEF HookInv

LEMMA HookInvariant == Spec => []HookInv
BY InitHooks, NextHooks, PTL DEF Spec

\* With nobody in a call and no transaction open nothing is left to patch.
LEMMA QuietHooked ==
  ASSUME HookInv, Quiet
  PROVE  /\ \A c \in Ctxs : ~IsPending(c, "activate") /\ ~IsPending(c, "deactivate")
         /\ \A c \in Ctxs : fc[c].state # "unborn" => (fc[c].activated <=> ~fc[c].destroyed)
         /\ \A a \in Addr : table[a] # None =>
              /\ table[a] \in Ctxs /\ fc[table[a]].activated
              /\ code[a] = Target(table[a])
         /\ \A a \in Addr : table[a] = None => code[a] = None
<1>1. /\ txn.updates = {} /\ lock = None /\ table \in [Addr -> Ctxs \cup {None}]
      /\ \A t \in Threads : op[t].updates = {}
  BY ConstantsAssumption
     DEF HookInv, Calm, ReleaseInv, TypeInv, TypeOK, Quiet, Staged, StageInv, LockProtects,
         LockedSteps
<1>2. \A c \in Ctxs : ~IsPending(c, "activate") /\ ~IsPending(c, "deactivate")
  BY <1>1 DEF IsPending
<1>3. TableInv /\ CodeInv /\ PendingInv /\ SharedBorn
  BY DEF HookInv, Hooked, Calm, ReleaseInv
<1>4. \A c \in Ctxs : fc[c].state # "unborn" => (fc[c].activated <=> ~fc[c].destroyed)
  BY <1>2, <1>3 DEF PendingInv
<1>5. \A a \in Addr : table[a] # None =>
        table[a] \in Ctxs /\ fc[table[a]].activated /\ code[a] = Target(table[a])
  BY <1>1, <1>3, <1>4 DEF TableInv, CodeInv
<1>6. \A a \in Addr : table[a] = None => code[a] = None
  <2> SUFFICES ASSUME NEW a \in Addr, table[a] = None, code[a] # None PROVE FALSE
    OBVIOUS
  <2>1. PICK c \in Ctxs : fc[c].activated /\ fc[c].addr = a
    BY <1>3 DEF CodeInv
  <2>2. fc[c].state # "unborn"
    BY <1>3, <2>1 DEF SharedBorn, Unborn
  <2>3. table[a] = c
    BY <1>3, <1>4, <2>1, <2>2 DEF TableInv
  <2> QED
    BY <2>3, ConstantsAssumption
<1> QED
  BY <1>2, <1>4, <1>5, <1>6

\* When nobody is in a call and no transaction is open, each function in the
\* table jumps to its context, or to its fast replacement, and the code of every
\* other function is what it was at first: hoox_apply_updates leaves no patch
\* of a context that was given up behind, and undoes none that is still wanted.
THEOREM CodeMatches == Spec => []CodeMatchesTable
<1>1. HookInv => CodeMatchesTable
  <2> SUFFICES ASSUME HookInv, Quiet, NEW f \in Functions
               PROVE  code[f] = IF table[f] = None THEN None
                                ELSE IF fc[table[f]].fast THEN fc[table[f]].repl ELSE table[f]
    BY DEF CodeMatchesTable
  <2>1. f \in Addr
    BY DEF Addr
  <2>2. CASE table[f] = None
    BY <2>1, <2>2, QuietHooked
  <2>3. CASE table[f] # None
    <3>1. PICK c \in Ctxs : c = table[f] /\ code[f] = Target(c)
      BY <2>1, <2>3, QuietHooked
    <3>2. ~fc[c].destroyed
      BY <2>1, <3>1 DEF HookInv, Hooked, TableInv
    <3> QED
      BY <2>3, <3>1, <3>2 DEF HookInv, Hooked, FastInv, Target
  <2> QED
    BY <2>2, <2>3
<1> QED
  BY <1>1, HookInvariant, PTL

-----------------------------------------------------------------------------
(* Programs that begin no transaction *)

NoTransactions == \A t \in Threads : open[t] = 0

\* What was promised is in the table, and a detach that runs has taken its
\* promises back.
PromiseInv ==
  \A p \in promised :
    \E c \in Ctxs : table[p[1]] = c /\ ~fc[c].fast /\ p[2] \in Current(c).live
DetachInv ==
  \A t \in Threads : op[t].at \in {"detaching", "retire"} =>
    /\ \A p \in promised : p[2] # op[t].lsn
    /\ \A c \in Ctxs : ~IsPending(c, "activate")

\* What waits to be patched in has one hook; what was given up has none.
OneHook(c) ==
  \/ fc[c].repl = None /\ \E l \in Listeners : Current(c).live = {l}
  \/ fc[c].repl # None /\ Current(c).live = {}
HookOf(c) ==
  /\ fc[c].state # "unborn" => fc[c].addr \in Functions
  /\ IsPending(c, "activate") => ~fc[c].destroyed /\ OneHook(c)
  /\ fc[c].destroyed /\ ~fc[c].fast => fc[c].repl = None /\ Current(c).live = {}
HooksInv == \A c \in Ctxs : HookOf(c)

PlainInv == NoTransactions /\ PromiseInv /\ DetachInv /\ HooksInv
HookedPlain == HookInv /\ PlainInv

-----------------------------------------------------------------------------
(* Calls begin when the interceptor is quiet *)

LEMMA PartsOf ==
  ASSUME HookInv
  PROVE  /\ TypeInv /\ ReleaseInv /\ SharedBorn /\ NotifyInv /\ LockProtects /\ Staged
         /\ RetireInv /\ Hooked
         /\ TableInv /\ CodeInv /\ AloneInv /\ FastInv /\ PendingInv
BY DEF HookInv, Calm, ReleaseInv, Hooked

LEMMA StartsQuiet ==
  ASSUME HookInv, NoTransactions, NEW t \in Threads, Starts(t)
  PROVE  Quiet
<1>1. Staged /\ TypeInv /\ LockProtects /\ lock = None
  BY PartsOf DEF Starts
<1>2. Opens = {}
  BY DEF NoTransactions, Opens
<1>3. Cardinality(Opens) = 0
  BY <1>2, FS_EmptySet
<1>4. \A u \in Threads : op[u].at \notin InTransaction
  BY <1>1, ConstantsAssumption DEF LockProtects, InTransaction, LockedSteps
<1> QED
  BY <1>1, <1>3, <1>4 DEF Quiet, Staged, LevelInv

\* ... so that a function is resolved to itself.
LEMMA StartsAt ==
  ASSUME HookInv, NoTransactions, NEW t \in Threads, Starts(t),
         NEW f \in Functions, NEW a \in Addr, ResolvesTo(f, a)
  PROVE  a = f
<1>1. Quiet /\ f \in Addr
  BY StartsQuiet DEF Addr
<1>2. Stops(f)
  BY <1>1, QuietHooked DEF Stops
<1> QED
  BY <1>2 DEF ResolvesTo

\* No transaction is begun.
LEMMA NoneBegun ==
  ASSUME TypeInv, NoTransactions, MaxOpen = 0, NEW t \in Threads
  PROVE  ~BeginTransaction(t) /\ ~EndTransaction(t)
BY DEF TypeInv, TypeOK, NoTransactions, BeginTransaction, EndTransaction

-----------------------------------------------------------------------------
(* What was promised, and the hooks that wait *)

\* A context whose hooks are left alone.
LEMMA SameHookOf ==
  ASSUME NEW c \in Ctxs, HookOf(c), Current(c)' = Current(c),
         fc'[c].state # "unborn" => fc[c].state # "unborn",
         fc'[c].addr = fc[c].addr, fc'[c].fast = fc[c].fast, fc'[c].repl = fc[c].repl,
         fc'[c].destroyed <=> fc[c].destroyed,
         IsPending(c, "activate")' => IsPending(c, "activate")
  PROVE  HookOf(c)'
<1>1. OneHook(c) => OneHook(c)'
  BY DEF OneHook
<1> QED
  BY <1>1 DEF HookOf

\* Steps that leave the hooks alone, and patching, and releasing.
LEMMA HooksStay ==
  ASSUME PromiseInv, HooksInv, UNCHANGED <<table, entries>>, promised' \subseteq promised,
         \A c \in Ctxs :
           /\ fc'[c].state # "unborn" => fc[c].state # "unborn"
           /\ fc'[c].addr = fc[c].addr /\ fc'[c].fast = fc[c].fast
           /\ fc'[c].repl = fc[c].repl /\ (fc'[c].destroyed <=> fc[c].destroyed)
           /\ IsPending(c, "activate")' => IsPending(c, "activate")
  PROVE  PromiseInv' /\ HooksInv'
<1>1. \A c \in Ctxs : Current(c)' = Current(c)
  BY DEF Current
<1>2. HooksInv'
  BY <1>1, SameHookOf DEF HooksInv
<1>3. PromiseInv'
  BY <1>1 DEF PromiseInv
<1> QED
  BY <1>2, <1>3

\* A function is hooked: by its first hook, or by one more of them.
LEMMA AttachKeepsPromises ==
  ASSUME HookedPlain, NEW t \in Mutators, NEW f \in Functions, NEW l \in Listeners,
         Attach(t, f, l)
  PROVE  PromiseInv' /\ HooksInv'
<1>1. PICK a \in Addr, c \in Ctxs, ctx \in FunctionContext :
        /\ ResolvesTo(f, a) /\ Instruments(a, FALSE, c) /\ CanTake(c, l)
        /\ ctx = Instrumented(a, FALSE, c) /\ ~ctx.fast
        /\ fc' = [fc EXCEPT ![c] = ctx] /\ table' = [table EXCEPT ![a] = c]
        /\ Current(c)' = WithListener(Current(c), l)
        /\ \A d \in Ctxs : d # c => Current(d)' = Current(d)
        /\ PendingAfterInstrument(a, c)
  BY AttachParts, PartsOf DEF HookedPlain
<1>2. t \in Threads /\ Starts(t) /\ promised' = promised \cup {<<f, l>>}
  BY ConstantsAssumption DEF Attach
<1>3. a = f /\ Quiet /\ f \in Addr
  BY <1>1, <1>2, StartsAt, StartsQuiet DEF HookedPlain, PlainInv
<1>4. /\ fc \in [Ctxs -> FunctionContext] /\ table \in [Addr -> Ctxs \cup {None}]
      /\ None \notin Ctxs /\ TypeInv /\ promised \subseteq Functions \X Listeners
  BY ConstantsAssumption, PartsOf DEF TypeInv, TypeOK, HookedPlain
<1>5. /\ fc'[c] = ctx /\ \A d \in Ctxs : d # c => fc'[d] = fc[d]
      /\ \A b \in Addr : table'[b] = IF b = f THEN c ELSE table[b]
  BY <1>1, <1>3, <1>4
<1>6. Current(c)'.live = Current(c).live \cup {l}
  BY <1>1 DEF WithListener
<1>7. \A d \in Ctxs : ~IsPending(d, "activate")
  BY <1>3, QuietHooked DEF HookedPlain
<1>8. \A d \in Ctxs : IsPending(d, "activate")' <=> table[f] # c /\ d = c
  BY <1>1, <1>3, <1>7 DEF PendingAfterInstrument
<1>9. table[f] = c \/ table[f] = None
  BY <1>1, <1>3 DEF Instruments
<1>10. PromiseInv'
  <2> SUFFICES ASSUME NEW p \in promised'
               PROVE  \E d \in Ctxs : /\ table'[p[1]] = d /\ ~fc'[d].fast
                                   /\ p[2] \in Current(d)'.live
    BY DEF PromiseInv
  <2>1. CASE p = <<f, l>>
    BY <1>1, <1>3, <1>5, <1>6, <2>1
  <2>2. CASE p \in promised
    <3>1. PICK d \in Ctxs : d = table[p[1]] /\ ~fc[d].fast /\ p[2] \in Current(d).live
      BY <2>2 DEF HookedPlain, PlainInv, PromiseInv
    <3>2. p[1] \in Addr
      BY <1>4, <2>2 DEF Addr
    <3>3. table'[p[1]] = d
      BY <1>4, <1>5, <1>9, <3>1, <3>2
    <3>4. CASE d = c
      BY <1>1, <1>5, <1>6, <3>1, <3>3, <3>4
    <3>5. CASE d # c
      BY <1>1, <1>5, <3>1, <3>3, <3>5
    <3> QED
      BY <3>4, <3>5
  <2> QED
    BY <1>2, <2>1, <2>2
<1>11. HooksInv'
  <2> SUFFICES ASSUME NEW d \in Ctxs PROVE HookOf(d)'
    BY DEF HooksInv
  <2>1. HookOf(d)
    BY DEF HookedPlain, PlainInv, HooksInv
  <2>2. CASE d # c
    BY <1>1, <1>5, <1>8, <2>1, <2>2, SameHookOf
  <2>3. CASE d = c /\ table[f] = c
    <3>1. ctx = fc[c] /\ ~fc[c].destroyed
      BY <1>1, <1>3, <2>3, PartsOf DEF Instrumented, TableInv, HookedPlain
    <3> QED
      BY <1>5, <1>8, <2>1, <2>3, <3>1 DEF HookOf
  <2>4. CASE d = c /\ table[f] # c
    <3>1. fc[c].state = "unborn" /\ fc[c] = Unborn
      BY <1>1, <1>3, <2>4, PartsOf DEF Instruments, SharedBorn, HookedPlain
    <3>2. ctx.addr = f /\ ctx.repl = None /\ ~ctx.destroyed
      BY <1>1, <1>3, <2>4 DEF Instrumented, NewContext, Unborn
    <3>3. Current(c).live = {}
      BY <3>1, PartsOf DEF HookedPlain, FastInv
    <3>4. Current(c)'.live = {l}
      BY <1>6, <3>3
    <3> QED
      BY <1>5, <2>4, <3>2, <3>4 DEF HookOf, OneHook
  <2> QED
    BY <2>2, <2>3, <2>4
<1> QED
  BY <1>10, <1>11

LEMMA ReplaceKeepsPromises ==
  ASSUME HookedPlain, NEW t \in Mutators, NEW f \in Functions,
         NEW r \in Replacements, NEW fast \in BOOLEAN, Replace(t, f, r, fast)
  PROVE  PromiseInv' /\ HooksInv'
<1>1. PICK a \in Addr, c \in Ctxs, ctx \in FunctionContext :
        /\ ResolvesTo(f, a) /\ Instruments(a, fast, c) /\ fc[c].repl = None
        /\ ctx.repl = r
        /\ ctx.addr = Instrumented(a, fast, c).addr
        /\ ctx.fast = Instrumented(a, fast, c).fast
        /\ ctx.destroyed = Instrumented(a, fast, c).destroyed
        /\ fc' = [fc EXCEPT ![c] = ctx] /\ table' = [table EXCEPT ![a] = c]
        /\ UNCHANGED entries /\ PendingAfterInstrument(a, c)
  BY ReplaceParts, PartsOf DEF HookedPlain
<1>2. t \in Threads /\ Starts(t) /\ promised' = promised
  BY ConstantsAssumption DEF Replace
<1>3. a = f /\ Quiet /\ f \in Addr
  BY <1>1, <1>2, StartsAt, StartsQuiet DEF HookedPlain, PlainInv
<1>4. /\ fc \in [Ctxs -> FunctionContext] /\ table \in [Addr -> Ctxs \cup {None}]
      /\ None \notin Ctxs \cup Replacements /\ promised \subseteq Functions \X Listeners
  BY ConstantsAssumption, PartsOf DEF TypeInv, TypeOK, HookedPlain
<1>5. /\ fc'[c] = ctx /\ \A d \in Ctxs : d # c => fc'[d] = fc[d]
      /\ \A b \in Addr : table'[b] = IF b = f THEN c ELSE table[b]
  BY <1>1, <1>3, <1>4
<1>6. \A d \in Ctxs : Current(d)' = Current(d)
  BY <1>1 DEF Current
<1>7. \A d \in Ctxs : ~IsPending(d, "activate")
  BY <1>3, QuietHooked DEF HookedPlain
<1>8. \A d \in Ctxs : IsPending(d, "activate")' <=> table[f] # c /\ d = c
  BY <1>1, <1>3, <1>7 DEF PendingAfterInstrument
<1>9. table[f] = c \/ (table[f] = None /\ fc[c].state = "unborn")
  BY <1>1, <1>3 DEF Instruments
<1>10. table[f] = c => ctx.fast = fc[c].fast /\ ctx.addr = fc[c].addr /\ ~ctx.destroyed
                       /\ fc[c].state # "unborn"
  BY <1>1, <1>3, PartsOf DEF Instrumented, TableInv, HookedPlain
<1>11. PromiseInv'
  <2> SUFFICES ASSUME NEW p \in promised
               PROVE  \E d \in Ctxs : /\ table'[p[1]] = d /\ ~fc'[d].fast
                                   /\ p[2] \in Current(d)'.live
    BY <1>2 DEF PromiseInv
  <2>1. PICK d \in Ctxs : d = table[p[1]] /\ ~fc[d].fast /\ p[2] \in Current(d).live
    BY DEF HookedPlain, PlainInv, PromiseInv
  <2>2. p[1] \in Addr
    BY <1>4 DEF Addr
  <2>3. table'[p[1]] = d
    BY <1>4, <1>5, <1>9, <2>1, <2>2
  <2>4. d = c => table[f] = c
    BY <1>9, <2>1, <2>2, PartsOf DEF TableInv, HookedPlain
  <2> QED
    BY <1>5, <1>6, <1>10, <2>1, <2>3, <2>4
<1>12. HooksInv'
  <2> SUFFICES ASSUME NEW d \in Ctxs PROVE HookOf(d)'
    BY DEF HooksInv
  <2>1. HookOf(d)
    BY DEF HookedPlain, PlainInv, HooksInv
  <2>2. CASE d # c
    BY <1>5, <1>6, <1>8, <2>1, <2>2, SameHookOf
  <2>3. CASE d = c /\ table[f] = c
    BY <1>5, <1>8, <1>10, <2>1, <2>3 DEF HookOf
  <2>4. CASE d = c /\ table[f] # c
    <3>1. ctx.addr = f /\ ~ctx.destroyed
      BY <1>1, <1>3, <2>4 DEF Instrumented, NewContext, Unborn
    <3>2. Current(c).live = {}
      BY <1>9, <2>4, PartsOf DEF HookedPlain, FastInv
    <3> QED
      BY <1>1, <1>4, <1>5, <1>6, <2>4, <3>1, <3>2 DEF HookOf, OneHook
  <2> QED
    BY <2>2, <2>3, <2>4
<1> QED
  BY <1>11, <1>12

\* A hook goes: a context for which a listener was promised has it still.
LEMMA DestroyKeepsPromises ==
  ASSUME HookedPlain, NEW a \in Addr, NEW c \in Ctxs, table[a] = c,
         \A d \in Ctxs : ~IsPending(d, "activate"),
         NEW gone \in BOOLEAN, gone => Current(c).live = {},
         NEW ctx \in FunctionContext, fc' = [fc EXCEPT ![c] = ctx],
         ctx.addr = fc[c].addr, ctx.fast = fc[c].fast, gone => ctx.repl = None,
         ctx.destroyed <=> fc[c].destroyed \/ gone,
         table' = IF gone THEN [table EXCEPT ![a] = None] ELSE table,
         UNCHANGED <<entries, promised>>, PendingAfterDestroy(c, gone)
  PROVE  PromiseInv' /\ HooksInv'
<1>1. /\ fc \in [Ctxs -> FunctionContext] /\ table \in [Addr -> Ctxs \cup {None}]
      /\ None \notin Ctxs /\ promised \subseteq Functions \X Listeners
  BY ConstantsAssumption, PartsOf DEF TypeInv, TypeOK, HookedPlain
<1>2. /\ fc'[c] = ctx /\ \A d \in Ctxs : d # c => fc'[d] = fc[d]
      /\ \A b \in Addr : table'[b] = IF gone /\ b = a THEN None ELSE table[b]
  BY <1>1
<1>3. \A d \in Ctxs : Current(d)' = Current(d)
  BY DEF Current
<1>4. \A d \in Ctxs : ~IsPending(d, "activate")'
  BY DEF PendingAfterDestroy, DestroyUpdates
<1>5. ~fc[c].destroyed /\ fc[c].state # "unborn"
  BY PartsOf DEF HookedPlain, TableInv
<1>6. PromiseInv'
  <2> SUFFICES ASSUME NEW p \in promised
               PROVE  \E d \in Ctxs : /\ table'[p[1]] = d /\ ~fc'[d].fast
                                   /\ p[2] \in Current(d)'.live
    BY DEF PromiseInv
  <2>1. PICK d \in Ctxs : d = table[p[1]] /\ ~fc[d].fast /\ p[2] \in Current(d).live
    BY DEF HookedPlain, PlainInv, PromiseInv
  <2>2. p[1] \in Addr
    BY <1>1 DEF Addr
  <2>3. table'[p[1]] = d
    BY <1>2, <2>1, <2>2
  <2>4. fc'[d].fast = fc[d].fast
    BY <1>2
  <2> QED
    BY <1>3, <2>1, <2>3, <2>4
<1>7. HooksInv'
  <2> SUFFICES ASSUME NEW d \in Ctxs PROVE HookOf(d)'
    BY DEF HooksInv
  <2>1. HookOf(d)
    BY DEF HookedPlain, PlainInv, HooksInv
  <2>2. CASE d # c
    BY <1>2, <1>3, <1>4, <2>1, <2>2, SameHookOf
  <2>3. CASE d = c
    BY <1>2, <1>3, <1>4, <1>5, <2>1, <2>3 DEF HookOf
  <2> QED
    BY <2>2, <2>3
<1> QED
  BY <1>6, <1>7

LEMMA RevertKeepsPromises ==
  ASSUME HookedPlain, NEW t \in Mutators, NEW f \in Functions, Revert(t, f)
  PROVE  PromiseInv' /\ HooksInv'
<1>1. PICK a \in Addr, c \in Ctxs, ctx \in FunctionContext, gone \in BOOLEAN :
        /\ table[a] = c /\ (gone <=> Current(c).live = {})
        /\ ctx.addr = fc[c].addr /\ ctx.fast = fc[c].fast /\ ctx.repl = None
        /\ ctx.destroyed <=> fc[c].destroyed \/ gone
        /\ fc' = [fc EXCEPT ![c] = ctx]
        /\ table' = IF gone THEN [table EXCEPT ![a] = None] ELSE table
        /\ UNCHANGED <<code, entries>> /\ PendingAfterDestroy(c, gone)
  BY RevertParts, PartsOf DEF HookedPlain
<1>2. t \in Threads /\ Starts(t) /\ promised' = promised
  BY ConstantsAssumption DEF Revert
<1>3. \A d \in Ctxs : ~IsPending(d, "activate")
  BY <1>2, StartsQuiet, QuietHooked DEF HookedPlain, PlainInv
<1>4. UNCHANGED <<entries, promised>> /\ (gone => Current(c).live = {})
      /\ (gone => ctx.repl = None)
  BY <1>1, <1>2
<1> QED
  BY <1>1, <1>3, <1>4, DestroyKeepsPromises

\* detach takes the listener from one context after the other.
LEMMA RetireKeepsPromises ==
  ASSUME HookedPlain, NEW t \in Mutators, DetachRetire(t)
  PROVE  PromiseInv' /\ HooksInv'
<1>1. PICK a \in Addr, c \in Ctxs, ctx \in FunctionContext, gone \in BOOLEAN :
        /\ table[a] = c /\ (gone <=> fc[c].repl = None /\ Current(c).live = {})
        /\ ctx.addr = fc[c].addr /\ ctx.fast = fc[c].fast /\ ctx.repl = fc[c].repl
        /\ ctx.destroyed <=> fc[c].destroyed \/ gone
        /\ fc' = [fc EXCEPT ![c] = ctx]
        /\ table' = IF gone THEN [table EXCEPT ![a] = None] ELSE table
        /\ UNCHANGED <<code, entries>> /\ PendingAfterDestroy(c, gone)
  BY RetireParts, PartsOf DEF HookedPlain
<1>2. t \in Threads /\ op[t].at = "retire" /\ promised' = promised
  BY ConstantsAssumption DEF DetachRetire
<1>3. \A d \in Ctxs : ~IsPending(d, "activate")
  BY <1>2 DEF HookedPlain, PlainInv, DetachInv
<1>4. UNCHANGED <<entries, promised>> /\ (gone => Current(c).live = {})
      /\ (gone => ctx.repl = None)
  BY <1>1, <1>2
<1> QED
  BY <1>1, <1>3, <1>4, DestroyKeepsPromises

LEMMA DetachFromKeepsPromises ==
  ASSUME HookedPlain, NEW t \in Mutators, NEW c \in Ctxs, DetachFrom(t, c)
  PROVE  PromiseInv' /\ HooksInv'
<1>1. /\ UNCHANGED <<table, fc>> /\ SamePending
      /\ Current(c)' = WithoutListener(Current(c), op[t].lsn)
      /\ \A d \in Ctxs : d # c => Current(d)' = Current(d)
  BY DetachFromParts, PartsOf DEF HookedPlain
<1>2. t \in Threads /\ op[t].at = "detaching" /\ promised' = promised
  BY ConstantsAssumption DEF DetachFrom
<1>3. /\ \A p \in promised : p[2] # op[t].lsn
      /\ \A d \in Ctxs : ~IsPending(d, "activate")
      /\ PromiseInv /\ HooksInv
  BY <1>2 DEF HookedPlain, PlainInv, DetachInv
<1>4. Current(c)'.live = Current(c).live \ {op[t].lsn}
  BY <1>1 DEF WithoutListener
<1>5. PromiseInv'
  BY <1>1, <1>2, <1>3, <1>4 DEF PromiseInv
<1>6. HooksInv'
  <2> SUFFICES ASSUME NEW d \in Ctxs PROVE HookOf(d)'
    BY DEF HooksInv
  <2>1. HookOf(d) /\ ~IsPending(d, "activate")'
    BY <1>1, <1>3 DEF HooksInv, SamePending
  <2>2. CASE d # c
    BY <1>1, <2>1, <2>2, SameHookOf
  <2>3. CASE d = c
    BY <1>1, <1>4, <2>1, <2>3 DEF HookOf
  <2> QED
    BY <2>2, <2>3
<1> QED
  BY <1>5, <1>6

\* Patching and releasing.
LEMMA PatchKeepsPromises ==
  ASSUME HookedPlain, NEW t \in Threads, NEW c \in Ctxs,
         ActivateUpdate(t, c) \/ DeactivateUpdate(t, c)
  PROVE  PromiseInv' /\ HooksInv'
<1>1. TypeInv /\ SharedBorn /\ LockProtects /\ Staged /\ Hooked /\ PromiseInv /\ HooksInv
  BY PartsOf DEF HookedPlain, PlainInv
<1>2. /\ UNCHANGED <<table, entries>>
      /\ \A d \in Ctxs : /\ fc'[d].state = fc[d].state /\ fc'[d].addr = fc[d].addr
                         /\ fc'[d].fast = fc[d].fast /\ fc'[d].repl = fc[d].repl
                         /\ fc'[d].destroyed = fc[d].destroyed
                         /\ IsPending(d, "activate")' => IsPending(d, "activate")
  <2>1. CASE ActivateUpdate(t, c)
    <3>1. CASE fc[c].destroyed
      BY <1>1, <2>1, <3>1, ActivateParts
    <3>2. CASE ~fc[c].destroyed
      BY <1>1, <2>1, <3>2, ActivateParts
    <3> QED
      BY <3>1, <3>2
  <2>2. CASE DeactivateUpdate(t, c)
    BY <1>1, <2>2, DeactivateParts
  <2> QED
    BY <2>1, <2>2
<1>3. promised' = promised
  BY DEF ActivateUpdate, DeactivateUpdate
<1> QED
  BY <1>1, <1>2, <1>3, HooksStay

LEMMA NotifyKeepsPromises ==
  ASSUME HookedPlain, NEW t \in Threads, Notify(t)
  PROVE  PromiseInv' /\ HooksInv'
<1>1. TypeInv /\ SharedBorn /\ NotifyInv /\ PromiseInv /\ HooksInv
  BY PartsOf DEF HookedPlain, PlainInv
<1>2. /\ UNCHANGED <<table, code, entries>> /\ SamePending
      /\ \A c \in Ctxs : SameContext(c) \/ Released(c)
  BY <1>1, NotifyParts
<1>3. promised' = promised
  BY DEF Notify
<1> QED
  BY <1>1, <1>2, <1>3, HooksStay DEF SameContext, Released, SamePending

LEMMA UndisturbedKeepsPromises ==
  ASSUME HookedPlain, Undisturbed, promised' \subseteq promised
  PROVE  PromiseInv' /\ HooksInv'
BY HooksStay DEF Undisturbed, SameContext, SamePending, HookedPlain, PlainInv

-----------------------------------------------------------------------------
(* A detach that runs *)

\* While a thread has the lock nothing more is promised or is to be patched in.
LEMMA NothingIsAdded ==
  ASSUME HookInv, [Next]_vars, lock # None
  PROVE  /\ promised' = promised
         /\ \A c \in Ctxs : IsPending(c, "activate")' => IsPending(c, "activate")
<1>1. /\ TypeInv /\ SharedBorn /\ NotifyInv /\ LockProtects /\ Staged /\ RetireInv /\ Hooked
      /\ TableInv /\ Mutators \subseteq Threads
  BY PartsOf, ConstantsAssumption
<1>2. ASSUME Undisturbed, promised' = promised
      PROVE  /\ promised' = promised
             /\ \A c \in Ctxs : IsPending(c, "activate")' => IsPending(c, "activate")
  BY <1>2 DEF Undisturbed, SamePending
<1>3. ASSUME NEW t \in Mutators, ApiStarts(t) PROVE FALSE
  BY <1>3 DEF ApiStarts, Attach, AttachRefused, Detach, Replace, ReplaceRefused, Revert,
     RevertNothing, Refused, BeginTransaction, EndTransaction, Flush, Starts
<1>4. ASSUME NEW t \in Mutators, ApiSteps(t) \/ Relock(t)
      PROVE  /\ promised' = promised
             /\ \A c \in Ctxs : IsPending(c, "activate")' => IsPending(c, "activate")
  <2>1. promised' = promised
    BY <1>4 DEF ApiSteps, AttachFlags, DetachFrom, DetachRetire, DetachDone, EndNothingToDo,
       EndTakesCopy, ActivateUpdate, DeactivateUpdate, Patched, TaskRuns, TaskRequeued,
       TasksDone, Notify, Relock
  <2>2. CASE \/ AttachFlags(t) \/ DetachDone(t) \/ EndNothingToDo(t) \/ EndTakesCopy(t)
             \/ Patched(t) \/ TaskRuns(t) \/ TaskRequeued(t) \/ TasksDone(t) \/ Relock(t)
    BY <1>1, <1>2, <2>1, <2>2, QuietParts
  <2>3. CASE \E c \in Ctxs : DetachFrom(t, c)
    BY <1>1, <2>1, <2>3, DetachFromParts DEF SamePending
  <2>4. CASE DetachRetire(t)
    <3>1. PICK c \in Ctxs, gone \in BOOLEAN : PendingAfterDestroy(c, gone)
      BY <1>1, <2>4, RetireParts
    <3>2. \A d \in Ctxs : <<d, "activate">> \notin DestroyUpdates(c)
      BY DEF DestroyUpdates
    <3> QED
      BY <2>1, <3>1, <3>2 DEF PendingAfterDestroy
  <2>5. CASE \E c \in Ctxs : ActivateUpdate(t, c) \/ DeactivateUpdate(t, c)
    BY <1>1, <2>1, <2>5, ActivateParts, DeactivateParts
  <2>6. CASE Notify(t)
    BY <1>1, <2>1, <2>6, NotifyParts DEF SamePending
  <2> QED
    BY <1>4, <2>2, <2>3, <2>4, <2>5, <2>6 DEF ApiSteps
<1>5. CASE \/ \E t \in Callers :
                \/ \E f \in Functions : Call(t, f)
                \/ \E c \in Ctxs : CallOriginal(t, c)
                \/ InvocationSteps(t) \/ Return(t)
           \/ \E l \in Listeners : Unref(l)
           \/ UNCHANGED vars
  BY <1>1, <1>2, <1>5, ElsewhereParts
<1> QED
  BY <1>3, <1>4, <1>5 DEF Next

LEMMA DetachStays ==
  ASSUME HookedPlain, TypeInv', [Next]_vars
  PROVE  DetachInv'
<1> SUFFICES ASSUME NEW u \in Threads, op'[u].at \in {"detaching", "retire"}
             PROVE  /\ \A p \in promised' : p[2] # op'[u].lsn
                    /\ \A c \in Ctxs : ~IsPending(c, "activate")'
  BY DEF DetachInv
<1>1. /\ op \in [Threads -> ApiCall] /\ Mutators \subseteq Threads /\ None \notin Threads
      /\ HookInv /\ TypeInv /\ LockProtects /\ Staged /\ DetachInv /\ NoTransactions
  BY PartsOf, ConstantsAssumption DEF TypeInv, TypeOK, HookedPlain, PlainInv
<1>2. ASSUME op[u].at \in {"detaching", "retire"}, op'[u].lsn = op[u].lsn
      PROVE  /\ \A p \in promised' : p[2] # op'[u].lsn
             /\ \A c \in Ctxs : ~IsPending(c, "activate")'
  <2>1. lock # None
    BY <1>1, <1>2 DEF LockProtects, LockedSteps
  <2>2. /\ promised' = promised
        /\ \A c \in Ctxs : IsPending(c, "activate")' => IsPending(c, "activate")
    BY <1>1, <2>1, NothingIsAdded
  <2> QED
    BY <1>1, <1>2, <2>2 DEF DetachInv
<1>3. CASE op'[u] = op[u]
  BY <1>2, <1>3
<1>4. CASE op'[u] # op[u]
  <2>1. PICK t \in Mutators, o \in ApiCall :
          /\ op' = [op EXCEPT ![t] = o]
          /\ o.at = "retire" => o.lsn = op[t].lsn /\ DetachFrom(t, o.ctx) /\ o.ctx \in Ctxs
          /\ o.at = "detaching" =>
               \/ DetachRetire(t) /\ o.lsn = op[t].lsn
               \/ o.lsn \in Listeners /\ Detach(t, o.lsn)
    BY <1>1, <1>4, CallsMove DEF CallMoves
  <2>2. u = t /\ op'[u] = o
    BY <1>1, <1>4, <2>1
  <2>3. CASE o.at = "retire" \/ DetachRetire(t)
    <3>1. op[t].at \in {"detaching", "retire"} /\ o.lsn = op[t].lsn
      <4>1. CASE o.at = "retire"
        BY <2>1, <4>1 DEF DetachFrom
      <4>2. CASE o.at = "detaching" /\ DetachRetire(t)
        <5>1. op[t].at = "retire"
          BY <4>2 DEF DetachRetire
        <5>2. ~Detach(t, o.lsn)
          BY <1>1, <5>1 DEF Detach, Starts, InUserCode
        <5> QED
          BY <2>1, <4>2, <5>1, <5>2
      <4> QED
        BY <2>2, <2>3, <4>1, <4>2
    <3> QED
      BY <1>2, <2>2, <3>1
  <2>4. CASE o.at = "detaching" /\ Detach(t, o.lsn)
    <3>1. promised' = {p \in promised : p[2] # o.lsn} /\ Starts(t) /\ t \in Threads
      BY <1>1, <2>4 DEF Detach
    <3>2. \A c \in Ctxs : ~IsPending(c, "activate")
      BY <1>1, <3>1, StartsQuiet, QuietHooked
    <3>3. Undisturbed
      <4>1. \E l \in Listeners : Detach(t, l)
        <5>1. o.lsn \in Listeners
          BY <2>1, <2>4 DEF Detach, DetachRetire, Starts, InUserCode
        <5> QED
          BY <2>4, <5>1
      <4> QED
        BY <1>1, <2>1, <4>1, QuietParts
    <3> QED
      BY <2>2, <3>1, <3>2, <3>3 DEF Undisturbed, SamePending
  <2> QED
    BY <2>1, <2>2, <2>3, <2>4
<1> QED
  BY <1>3, <1>4

-----------------------------------------------------------------------------
(* The invariant *)

LEMMA InitPlain == Init => PlainInv
<1> SUFFICES ASSUME Init PROVE PlainInv
  OBVIOUS
<1>1. NoTransactions /\ PromiseInv
  BY DEF Init, NoTransactions, PromiseInv
<1>2. DetachInv
  BY DEF Init, DetachInv, Idle
<1>3. \A c \in Ctxs : ~IsPending(c, "activate")
  BY DEF Init, IsPending, Idle, CleanTransaction
<1>4. HooksInv
  BY <1>3 DEF Init, HooksInv, HookOf, Unborn
<1> QED
  BY <1>1, <1>2, <1>4 DEF PlainInv

LEMMA NextPlain ==
  ASSUME MaxOpen = 0, HookedPlain, [Next]_vars
  PROVE  HookedPlain'
<1>1. /\ TypeInv /\ Staged /\ Mutators \subseteq Threads /\ HookInv /\ NoTransactions
  BY PartsOf, ConstantsAssumption DEF HookedPlain, PlainInv
<1>2. HookInv'
  BY <1>1, NextHooks
<1>3. DetachInv'
  <2>1. TypeInv'
    BY <1>2 DEF HookInv, Calm, ReleaseInv
  <2> QED
    BY <2>1, DetachStays
<1>4. ASSUME NEW t \in Mutators, ApiStarts(t)
      PROVE  PromiseInv' /\ HooksInv' /\ UNCHANGED open
  <2>1. ~BeginTransaction(t) /\ ~EndTransaction(t)
    BY <1>1, NoneBegun
  <2>2. UNCHANGED open
    BY <1>4, <2>1 DEF ApiStarts, Attach, AttachRefused, Detach, Replace, ReplaceRefused,
       Revert, RevertNothing, Refused, Flush
  <2>3. CASE Refused(t) \/ (\E l \in Listeners : Detach(t, l)) \/ Flush(t)
    <3>1. promised' \subseteq promised
      BY <2>3 DEF Refused, Detach, Flush
    <3> QED
      BY <1>1, <2>2, <2>3, <3>1, QuietParts, UndisturbedKeepsPromises
  <2>4. CASE \E f \in Functions, l \in Listeners : Attach(t, f, l)
    BY <2>2, <2>4, AttachKeepsPromises
  <2>5. CASE \E f \in Functions, r \in Replacements, fast \in BOOLEAN : Replace(t, f, r, fast)
    BY <2>2, <2>5, ReplaceKeepsPromises
  <2>6. CASE \E f \in Functions : Revert(t, f)
    BY <2>2, <2>6, RevertKeepsPromises
  <2> QED
    BY <1>4, <2>1, <2>3, <2>4, <2>5, <2>6 DEF ApiStarts, AttachRefused, ReplaceRefused, RevertNothing
<1>5. ASSUME NEW t \in Mutators, ApiSteps(t) \/ Relock(t)
      PROVE  PromiseInv' /\ HooksInv' /\ UNCHANGED open
  <2>1. promised' = promised /\ UNCHANGED open
    BY <1>5 DEF ApiSteps, AttachFlags, DetachFrom, DetachRetire, DetachDone, EndNothingToDo,
       EndTakesCopy, ActivateUpdate, DeactivateUpdate, Patched, TaskRuns, TaskRequeued,
       TasksDone, Notify, Relock
  <2>2. CASE \/ AttachFlags(t) \/ DetachDone(t) \/ EndNothingToDo(t) \/ EndTakesCopy(t)
             \/ Patched(t) \/ TaskRuns(t) \/ TaskRequeued(t) \/ TasksDone(t) \/ Relock(t)
    BY <1>1, <2>1, <2>2, QuietParts, UndisturbedKeepsPromises
  <2>3. CASE (\E c \in Ctxs : DetachFrom(t, c)) \/ DetachRetire(t)
    BY <2>1, <2>3, DetachFromKeepsPromises, RetireKeepsPromises
  <2>4. CASE (\E c \in Ctxs : ActivateUpdate(t, c) \/ DeactivateUpdate(t, c)) \/ Notify(t)
    BY <1>1, <2>1, <2>4, PatchKeepsPromises, NotifyKeepsPromises
  <2> QED
    BY <1>5, <2>2, <2>3, <2>4 DEF ApiSteps
<1>6. ASSUME \/ \E t \in Callers :
                  \/ \E f \in Functions : Call(t, f)
                  \/ \E c \in Ctxs : CallOriginal(t, c)
                  \/ InvocationSteps(t) \/ Return(t)
             \/ \E l \in Listeners : Unref(l)
             \/ UNCHANGED vars
      PROVE  PromiseInv' /\ HooksInv' /\ UNCHANGED open
  BY <1>1, <1>6, ElsewhereParts, UndisturbedKeepsPromises
<1>7. PromiseInv' /\ HooksInv' /\ UNCHANGED open
  BY <1>4, <1>5, <1>6 DEF Next
<1> QED
  BY <1>1, <1>2, <1>3, <1>7 DEF HookedPlain, PlainInv, NoTransactions

LEMMA PlainInvariant == MaxOpen = 0 => (Spec => []HookedPlain)
<1> SUFFICES ASSUME MaxOpen = 0 PROVE Spec => []HookedPlain
  OBVIOUS
<1>1. Init => HookedPlain
  BY InitHooks, InitPlain DEF HookedPlain
<1>2. HookedPlain /\ [Next]_vars => HookedPlain'
  BY NextPlain
<1> QED
  BY <1>1, <1>2, PTL DEF Spec

\* What hoox_interceptor_attach reported as attached is attached: in a program
\* that begins no transaction, whenever nobody is in a call of the API, the code
\* of the function leads to a context that has the listener in its current
\* array, until detach is called for the listener.
THEOREM PromisesAreKept == MaxOpen = 0 => (Spec => []AttachedListenersAreReached)
<1> SUFFICES ASSUME MaxOpen = 0 PROVE Spec => []AttachedListenersAreReached
  OBVIOUS
<1>1. HookedPlain => AttachedListenersAreReached
  <2> SUFFICES ASSUME HookedPlain, Quiet, NEW p \in promised
               PROVE  \E c \in Ctxs : /\ code[p[1]] = c /\ fc[c].state = "live"
                                      /\ p[2] \in Current(c).live
    BY DEF AttachedListenersAreReached
  <2>1. PICK c \in Ctxs : table[p[1]] = c /\ ~fc[c].fast /\ p[2] \in Current(c).live
    BY DEF HookedPlain, PlainInv, PromiseInv
  <2>2. p[1] \in Addr /\ HookInv /\ TableInv /\ None \notin Ctxs
    BY PartsOf, ConstantsAssumption DEF HookedPlain, TypeInv, TypeOK, Addr
  <2>3. code[p[1]] = Target(c)
    BY <2>1, <2>2, QuietHooked
  <2> QED
    BY <2>1, <2>2, <2>3 DEF Target, TableInv
<1> QED
  BY <1>1, PlainInvariant, PTL

-----------------------------------------------------------------------------
(* What a call of a function would meet *)

Same(f) == Told(f)' = Told(f) /\ Instead(f)' = Instead(f) /\ (IsFast(f)' <=> IsFast(f))
Attaches(f, l) ==
  /\ ~IsFast(f) /\ ~IsFast(f)' /\ l \notin Told(f) /\ Cardinality(Told(f)) < MaxListeners
  /\ Told(f)' = Told(f) \cup {l} /\ Instead(f)' = Instead(f)
Detaches(f, l) ==
  /\ l \in Told(f) /\ (IsFast(f)' <=> IsFast(f))
  /\ Told(f)' = Told(f) \ {l} /\ Instead(f)' = Instead(f)
Replaces(f, r) ==
  /\ Instead(f) = None /\ Instead(f)' = r
  /\ Told(f)' = Told(f) /\ (IsFast(f)' <=> IsFast(f))
ReplacesFast(f, r) ==
  /\ Instead(f) = None /\ Told(f) = {} /\ Instead(f)' = r
  /\ Told(f)' = Told(f) /\ IsFast(f)'
Reverts(f) ==
  /\ Instead(f) # None /\ Instead(f)' = None
  /\ Told(f)' = Told(f) /\ ~IsFast(f)'

HookStep == [Hooks!Next]_(Hooks!vars)

LEMMA Meets ==
  ASSUME NEW f \in Functions
  PROVE  /\ \A c \in Ctxs : code[f] = c => /\ Told(f) = Current(c).live
                                           /\ Instead(f) = fc[c].repl /\ ~IsFast(f)
         /\ code[f] \notin Ctxs => Told(f) = {} /\ Instead(f) = code[f]
BY ConstantsAssumption DEF Told, Instead, IsFast

LEMMA MeetsAfter ==
  ASSUME NEW f \in Functions
  PROVE  /\ \A c \in Ctxs : code'[f] = c => /\ Told(f)' = Current(c)'.live
                                            /\ Instead(f)' = fc'[c].repl /\ ~IsFast(f)'
         /\ code'[f] \notin Ctxs => Told(f)' = {} /\ Instead(f)' = code'[f]
BY ConstantsAssumption DEF Told, Instead, IsFast, Current

\* Nothing changes of a function that leads to where it led, to the same hooks.
LEMMA SameHook ==
  ASSUME NEW f \in Functions, code'[f] = code[f],
         \A c \in Ctxs : code[f] = c =>
           Current(c)'.live = Current(c).live /\ fc'[c].repl = fc[c].repl
  PROVE  Same(f)
<1>1. IsFast(f)' <=> IsFast(f)
  BY DEF IsFast
<1>2. CASE code[f] \in Ctxs
  BY <1>1, <1>2, Meets, MeetsAfter DEF Same
<1>3. CASE code[f] \notin Ctxs
  BY <1>1, <1>3, Meets, MeetsAfter DEF Same
<1> QED
  BY <1>2, <1>3

LEMMA SameCardinality == \A S : Hooks!Cardinality(S) = Cardinality(S)
BY DEF Hooks!Cardinality, Cardinality, Hooks!IsFiniteSet, IsFiniteSet

\* One function's hooks change at a time.
LEMMA OneHookMoves ==
  ASSUME NEW f \in Functions, \A g \in Functions : g # f => Same(g),
         \/ Same(f) \/ Reverts(f)
         \/ \E l \in Listeners : Attaches(f, l) \/ Detaches(f, l)
         \/ \E r \in Replacements : Replaces(f, r) \/ ReplacesFast(f, r)
  PROVE  HookStep
<1>. DEFINE told == [g \in Functions |-> Told(g)]
            instead == [g \in Functions |-> Instead(g)]
            quick == {g \in Functions : IsFast(g)}
<1>1. \A g \in Functions : g # f => /\ Told(g)' = Told(g) /\ Instead(g)' = Instead(g)
                                    /\ (IsFast(g)' <=> IsFast(g))
  BY DEF Same
<1>2. ASSUME NEW x, Told(f)' = x PROVE told' = [told EXCEPT ![f] = x]
  BY <1>1, <1>2
<1>3. ASSUME NEW x, Instead(f)' = x PROVE instead' = [instead EXCEPT ![f] = x]
  BY <1>1, <1>3
<1>4. (IsFast(f)' <=> IsFast(f)) => quick' = quick
  BY <1>1
<1>5. CASE Same(f)
  <2>1. told' = told /\ instead' = instead /\ quick' = quick
    BY <1>1, <1>4, <1>5 DEF Same
  <2> QED
    BY <2>1 DEF HookStep, Hooks!vars
<1>6. CASE \E l \in Listeners : Attaches(f, l)
  <2> PICK l \in Listeners : Attaches(f, l)
    BY <1>6
  <2>1. Hooks!Attach(f, l)
    BY <1>1, <1>2, <1>3, <1>4, SameCardinality DEF Attaches, Hooks!Attach
  <2> QED
    BY <2>1 DEF HookStep, Hooks!Next
<1>7. CASE \E l \in Listeners : Detaches(f, l)
  <2> PICK l \in Listeners : Detaches(f, l)
    BY <1>7
  <2>1. Hooks!Detach(f, l)
    BY <1>1, <1>2, <1>3, <1>4 DEF Detaches, Hooks!Detach
  <2> QED
    BY <2>1 DEF HookStep, Hooks!Next
<1>8. CASE \E r \in Replacements : Replaces(f, r)
  <2> PICK r \in Replacements : Replaces(f, r)
    BY <1>8
  <2>1. Hooks!Replace(f, r)
    BY <1>1, <1>2, <1>3, <1>4 DEF Replaces, Hooks!Replace
  <2> QED
    BY <2>1 DEF HookStep, Hooks!Next
<1>9. CASE \E r \in Replacements : ReplacesFast(f, r)
  <2> PICK r \in Replacements : ReplacesFast(f, r)
    BY <1>9
  <2>1. Hooks!ReplaceFast(f, r)
    BY <1>1, <1>2, <1>3 DEF ReplacesFast, Hooks!ReplaceFast
  <2> QED
    BY <2>1 DEF HookStep, Hooks!Next
<1>10. CASE Reverts(f)
  <2>1. Hooks!Revert(f)
    BY <1>1, <1>2, <1>3, <1>10 DEF Reverts, Hooks!Revert
  <2> QED
    BY <2>1 DEF HookStep, Hooks!Next
<1> QED
  BY <1>5, <1>6, <1>7, <1>8, <1>9, <1>10

\* Code that leads to a context leads to the one that is patched in there.
LEMMA LeadsTo ==
  ASSUME HookInv, NEW f \in Functions, NEW c \in Ctxs, code[f] = c
  PROVE  fc[c].addr = f /\ fc[c].activated /\ ~fc[c].fast /\ fc[c].state # "unborn"
<1>1. CodeInv /\ FastInv /\ SharedBorn /\ f \in Addr
  BY PartsOf DEF Addr
<1>2. PICK d \in Ctxs : fc[d].activated /\ fc[d].addr = f
  BY <1>1, ConstantsAssumption DEF CodeInv
<1>3. code[f] = Target(d)
  BY <1>1, <1>2 DEF CodeInv
<1>4. ~fc[d].fast /\ d = c
  BY <1>1, <1>3, ConstantsAssumption DEF FastInv, Target
<1> QED
  BY <1>1, <1>2, <1>4 DEF SharedBorn, Unborn

\* A step that only changes contexts no code leads to, and one that changes one.
LEMMA NoHookMoves ==
  ASSUME UNCHANGED code, \A f \in Functions : \A c \in Ctxs : code[f] = c =>
           Current(c)'.live = Current(c).live /\ fc'[c].repl = fc[c].repl
  PROVE  HookStep
<1>1. \A f \in Functions : Same(f)
  BY SameHook
<1>2. CASE Functions = {}
  BY <1>2 DEF HookStep, Hooks!vars
<1>3. CASE Functions # {}
  BY <1>1, <1>3, OneHookMoves
<1> QED
  BY <1>2, <1>3

LEMMA ContextHookMoves ==
  ASSUME HookInv, UNCHANGED code, NEW c \in Ctxs, NEW f \in Functions, code[f] = c,
         \A d \in Ctxs : d # c => Current(d)' = Current(d) /\ fc'[d] = fc[d],
         \/ Same(f) \/ Reverts(f)
         \/ \E l \in Listeners : Attaches(f, l) \/ Detaches(f, l)
         \/ \E r \in Replacements : Replaces(f, r)
  PROVE  HookStep
<1>1. ASSUME NEW g \in Functions, g # f PROVE Same(g)
  <2>1. \A d \in Ctxs : code[g] = d => d # c
    BY <1>1, LeadsTo
  <2> QED
    BY <2>1, SameHook
<1> QED
  BY <1>1, OneHookMoves

LEMMA UndisturbedRefines ==
  ASSUME Undisturbed
  PROVE  HookStep
BY NoHookMoves DEF Undisturbed, SameContext, Current

\* attach and replace, of a function that is hooked already.
LEMMA AttachMovesHooks ==
  ASSUME HookedPlain, NEW t \in Mutators, NEW f \in Functions, NEW l \in Listeners,
         Attach(t, f, l)
  PROVE  HookStep
<1>1. PICK a \in Addr, c \in Ctxs, ctx \in FunctionContext :
        /\ ResolvesTo(f, a) /\ Instruments(a, FALSE, c) /\ CanTake(c, l)
        /\ ctx = Instrumented(a, FALSE, c) /\ ~ctx.fast
        /\ fc' = [fc EXCEPT ![c] = ctx]
        /\ Current(c)' = WithListener(Current(c), l)
        /\ \A d \in Ctxs : d # c => Current(d)' = Current(d)
        /\ UNCHANGED code
  BY AttachParts, PartsOf, ZenonT(30) DEF HookedPlain
<1>2. t \in Threads /\ Starts(t) /\ HookInv /\ NoTransactions
  BY ConstantsAssumption DEF Attach, HookedPlain, PlainInv
<1>3. a = f /\ Quiet /\ f \in Addr
  BY <1>1, <1>2, StartsAt, StartsQuiet
<1>4. fc \in [Ctxs -> FunctionContext]
  BY <1>2, PartsOf DEF TypeInv, TypeOK
<1>5. \A d \in Ctxs : d # c => fc'[d] = fc[d]
  BY <1>1, <1>4
<1>6. CASE table[f] = c
  <2>1. fc'[c] = fc[c] /\ code[f] = c
    <3>1. ctx = fc[c]
      BY <1>1, <1>3, <1>6 DEF Instrumented
    <3>2. code[f] = Target(c)
      BY <1>2, <1>3, <1>6, QuietHooked, ConstantsAssumption
    <3> QED
      BY <1>1, <1>4, <3>1, <3>2 DEF Target
  <2>2. Current(c)'.live = Current(c).live \cup {l}
    BY <1>1 DEF WithListener
  <2>3. Attaches(f, l)
    <3>1. Told(f) = Current(c).live /\ Instead(f) = fc[c].repl /\ ~IsFast(f)
      BY <2>1, Meets
    <3>2. Told(f)' = Current(c)'.live /\ Instead(f)' = fc'[c].repl /\ ~IsFast(f)'
      BY <1>1, <2>1, MeetsAfter
    <3> QED
      BY <1>1, <2>1, <2>2, <3>1, <3>2 DEF Attaches, CanTake
  <2> QED
    BY <1>1, <1>2, <1>5, <2>1, <2>3, ContextHookMoves
<1>7. CASE table[f] # c
  <2>1. fc[c].state = "unborn"
    BY <1>1, <1>3, <1>7 DEF Instruments
  <2>2. \A g \in Functions : code[g] # c
    BY <1>2, <2>1, LeadsTo
  <2> QED
    BY <1>1, <1>5, <2>2, NoHookMoves
<1> QED
  BY <1>6, <1>7

LEMMA ReplaceMovesHooks ==
  ASSUME HookedPlain, NEW t \in Mutators, NEW f \in Functions,
         NEW r \in Replacements, NEW fast \in BOOLEAN, Replace(t, f, r, fast)
  PROVE  HookStep
<1>1. PICK a \in Addr, c \in Ctxs, ctx \in FunctionContext :
        /\ ResolvesTo(f, a) /\ Instruments(a, fast, c) /\ fc[c].repl = None
        /\ ctx.repl = r
        /\ fc' = [fc EXCEPT ![c] = ctx]
        /\ UNCHANGED <<code, entries>>
  BY ReplaceParts, PartsOf DEF HookedPlain
<1>2. t \in Threads /\ Starts(t) /\ HookInv /\ NoTransactions
  BY ConstantsAssumption DEF Replace, HookedPlain, PlainInv
<1>3. a = f /\ Quiet /\ f \in Addr
  BY <1>1, <1>2, StartsAt, StartsQuiet
<1>4. fc \in [Ctxs -> FunctionContext] /\ None \notin Ctxs \cup Replacements
  BY <1>2, PartsOf, ConstantsAssumption DEF TypeInv, TypeOK
<1>5. \A d \in Ctxs : Current(d)' = Current(d)
  BY <1>1 DEF Current
<1>6. fc'[c] = ctx /\ \A d \in Ctxs : d # c => fc'[d] = fc[d]
  BY <1>1, <1>4
<1>7. CASE table[f] = c
  <2>1. ~fc[c].fast
    BY <1>1, <1>2, <1>3, <1>4, <1>7, PartsOf DEF TableInv, FastInv
  <2>2. code[f] = c
    BY <1>2, <1>3, <1>4, <1>7, <2>1, QuietHooked DEF Target
  <2>3. Replaces(f, r)
    <3>1. Told(f) = Current(c).live /\ Instead(f) = fc[c].repl /\ ~IsFast(f)
      BY <2>2, Meets
    <3>2. Told(f)' = Current(c)'.live /\ Instead(f)' = fc'[c].repl /\ ~IsFast(f)'
      BY <1>1, <2>2, MeetsAfter
    <3> QED
      BY <1>1, <1>5, <1>6, <3>1, <3>2 DEF Replaces
  <2> QED
    BY <1>1, <1>2, <1>5, <1>6, <2>2, <2>3, ContextHookMoves
<1>8. CASE table[f] # c
  <2>1. fc[c].state = "unborn"
    BY <1>1, <1>3, <1>8 DEF Instruments
  <2>2. \A g \in Functions : code[g] # c
    BY <1>2, <2>1, LeadsTo
  <2> QED
    BY <1>1, <1>5, <1>6, <2>2, NoHookMoves
<1> QED
  BY <1>7, <1>8

\* revert takes the replacement away at once, unless it is a fast one: then
\* the patch is all there is, and goes later.
LEMMA RevertMovesHooks ==
  ASSUME HookedPlain, NEW t \in Mutators, NEW f \in Functions, Revert(t, f)
  PROVE  HookStep
<1>1. PICK a \in Addr, c \in Ctxs, ctx \in FunctionContext :
        /\ ResolvesTo(f, a) /\ table[a] = c /\ ctx.repl = None
        /\ fc' = [fc EXCEPT ![c] = ctx] /\ UNCHANGED <<code, entries>>
  BY RevertParts, PartsOf DEF HookedPlain
<1>2. t \in Threads /\ Starts(t) /\ HookInv /\ NoTransactions
  BY ConstantsAssumption DEF Revert, HookedPlain, PlainInv
<1>3. a = f /\ Quiet /\ f \in Addr
  BY <1>1, <1>2, StartsAt, StartsQuiet
<1>4. fc \in [Ctxs -> FunctionContext] /\ None \notin Ctxs \cup Replacements
  BY <1>2, PartsOf, ConstantsAssumption DEF TypeInv, TypeOK
<1>5. \A d \in Ctxs : Current(d)' = Current(d)
  BY <1>1 DEF Current
<1>6. fc'[c].repl = None /\ \A d \in Ctxs : d # c => fc'[d] = fc[d]
  BY <1>1, <1>4
<1>7. CASE fc[c].fast
  <2>1. \A g \in Functions : code[g] # c
    BY <1>2, <1>7, LeadsTo
  <2> QED
    BY <1>1, <1>5, <1>6, <2>1, NoHookMoves
<1>8. CASE ~fc[c].fast
  <2>1. code[f] = c
    BY <1>1, <1>2, <1>3, <1>4, <1>8, QuietHooked DEF Target
  <2>2. Same(f) \/ Reverts(f)
    <3>1. Told(f) = Current(c).live /\ Instead(f) = fc[c].repl /\ ~IsFast(f)
      BY <2>1, Meets
    <3>2. Told(f)' = Current(c)'.live /\ Instead(f)' = fc'[c].repl /\ ~IsFast(f)'
      BY <1>1, <2>1, MeetsAfter
    <3> QED
      BY <1>5, <1>6, <3>1, <3>2 DEF Same, Reverts
  <2> QED
    BY <1>1, <1>2, <1>5, <1>6, <2>1, <2>2, ContextHookMoves
<1> QED
  BY <1>7, <1>8

\* detach takes the listener from the functions one by one.
LEMMA DetachMovesHooks ==
  ASSUME HookedPlain, NEW t \in Mutators, NEW c \in Ctxs, DetachFrom(t, c)
  PROVE  HookStep
<1>1. /\ UNCHANGED <<code, fc>> /\ op[t].lsn \in Current(c).live
      /\ Current(c)' = WithoutListener(Current(c), op[t].lsn)
      /\ \A d \in Ctxs : d # c => Current(d)' = Current(d)
  BY DetachFromParts, PartsOf DEF HookedPlain
<1>2. Current(c)'.live = Current(c).live \ {op[t].lsn}
  BY <1>1 DEF WithoutListener
<1>3. op[t].lsn \in Listeners /\ HookInv
  BY <1>1, PartsOf, CurrentType DEF HookedPlain
<1>4. CASE \A f \in Functions : code[f] # c
  BY <1>1, <1>4, NoHookMoves
<1>5. CASE \E f \in Functions : code[f] = c
  <2>1. PICK f \in Functions : code[f] = c
    BY <1>5
  <2>2. Detaches(f, op[t].lsn)
    <3>1. Told(f) = Current(c).live /\ Instead(f) = fc[c].repl /\ ~IsFast(f)
      BY <2>1, Meets
    <3>2. Told(f)' = Current(c)'.live /\ Instead(f)' = fc'[c].repl /\ ~IsFast(f)'
      BY <1>1, <2>1, MeetsAfter
    <3> QED
      BY <1>1, <1>2, <3>1, <3>2 DEF Detaches
  <2> QED
    BY <1>1, <1>3, <2>1, <2>2, ContextHookMoves
<1> QED
  BY <1>4, <1>5

LEMMA RetireMovesHooks ==
  ASSUME HookedPlain, NEW t \in Mutators, DetachRetire(t)
  PROVE  HookStep
<1>1. PICK c \in Ctxs, ctx \in FunctionContext :
        /\ ctx.repl = fc[c].repl /\ fc' = [fc EXCEPT ![c] = ctx]
        /\ UNCHANGED <<code, entries>>
  BY RetireParts, PartsOf DEF HookedPlain
<1>2. fc \in [Ctxs -> FunctionContext]
  BY PartsOf DEF TypeInv, TypeOK, HookedPlain
<1>3. \A d \in Ctxs : Current(d)' = Current(d) /\ fc'[d].repl = fc[d].repl
  BY <1>1, <1>2 DEF Current
<1> QED
  BY <1>1, <1>3, NoHookMoves

\* Patching hooks a function with the one hook that waited for it.
LEMMA ActivateMovesHooks ==
  ASSUME HookedPlain, NEW t \in Threads, NEW c \in Ctxs, ActivateUpdate(t, c)
  PROVE  HookStep
<1>1. /\ TypeInv /\ SharedBorn /\ LockProtects /\ Staged /\ Hooked /\ HookOf(c) /\ HookInv
      /\ CodeInv /\ FastInv /\ fc[c] \in FunctionContext /\ code \in [Addr -> Addr \cup {None}]
  BY PartsOf DEF HookedPlain, PlainInv, HooksInv, TypeInv, TypeOK
<1>2. IsPending(c, "activate") /\ fc[c].state # "unborn" /\ UNCHANGED entries
      /\ ~fc[c].activated
  BY <1>1, ActivateParts
<1>3. ~fc[c].destroyed /\ OneHook(c)
  BY <1>1, <1>2 DEF HookOf
<1>4. PICK f \in Functions : f = fc[c].addr
  BY <1>1, <1>2 DEF HookOf
<1>5. /\ \A d \in Ctxs : d # c => fc'[d] = fc[d]
      /\ fc'[c].repl = fc[c].repl
      /\ \A b \in Addr : code'[b] = IF b = f THEN Target(c) ELSE code[b]
      /\ \A d \in Ctxs : d # c /\ fc[d].state # "unborn" /\ fc[d].addr = f => ~fc[d].activated
  BY <1>1, <1>3, <1>4, ActivateParts
<1>6. \A d \in Ctxs : Current(d)' = Current(d)
  BY <1>2 DEF Current
<1>7. code[f] = None
  <2>1. \A d \in Ctxs : fc[d].activated => fc[d].addr # f
    BY <1>1, <1>2, <1>5 DEF SharedBorn, Unborn
  <2> QED
    BY <1>1, <2>1 DEF CodeInv, Addr
<1>8. ASSUME NEW g \in Functions, g # f PROVE Same(g)
  <2>1. code'[g] = code[g]
    BY <1>5, <1>8 DEF Addr
  <2>2. \A d \in Ctxs : fc'[d].repl = fc[d].repl
    BY <1>5
  <2> QED
    BY <1>6, <2>1, <2>2, SameHook
<1>9. /\ Told(f) = {} /\ Instead(f) = None /\ ~IsFast(f) /\ code'[f] = Target(c)
  BY <1>5, <1>7, Meets, ConstantsAssumption DEF Addr, IsFast
<1>10. CASE fc[c].fast
  <2>1. code'[f] \in Replacements /\ Current(c).live = {}
    BY <1>1, <1>9, <1>10 DEF Target, FastInv
  <2>2. IsFast(f)' /\ Told(f)' = {} /\ Instead(f)' = code'[f]
    BY <2>1, MeetsAfter, ConstantsAssumption DEF IsFast
  <2>3. ReplacesFast(f, code'[f])
    BY <1>9, <2>2 DEF ReplacesFast
  <2> QED
    BY <1>8, <2>1, <2>3, OneHookMoves
<1>11. CASE ~fc[c].fast
  <2>1. code'[f] = c
    BY <1>9, <1>11 DEF Target
  <2>2. Told(f)' = Current(c).live /\ Instead(f)' = fc[c].repl /\ ~IsFast(f)'
    BY <1>5, <1>6, <2>1, MeetsAfter
  <2>3. CASE fc[c].repl = None
    <3>1. PICK l \in Listeners : Current(c).live = {l}
      BY <1>3, <2>3 DEF OneHook
    <3>2. Cardinality({}) < MaxListeners
      BY FS_EmptySet, ConstantsAssumption
    <3>3. Attaches(f, l)
      BY <1>9, <2>2, <2>3, <3>1, <3>2 DEF Attaches
    <3> QED
      BY <1>8, <3>3, OneHookMoves
  <2>4. CASE fc[c].repl # None
    <3>1. fc[c].repl \in Replacements /\ Current(c).live = {}
      BY <1>1, <1>3, <2>4 DEF OneHook, FunctionContext
    <3>2. Replaces(f, fc[c].repl)
      BY <1>9, <2>2, <3>1 DEF Replaces
    <3> QED
      BY <1>8, <3>1, <3>2, OneHookMoves
  <2> QED
    BY <2>3, <2>4
<1> QED
  BY <1>10, <1>11

\* Patching a function back changes nothing a call would have met, unless it
\* had a fast replacement.
LEMMA DeactivateMovesHooks ==
  ASSUME HookedPlain, NEW t \in Threads, NEW c \in Ctxs, DeactivateUpdate(t, c)
  PROVE  HookStep
<1>1. /\ TypeInv /\ SharedBorn /\ LockProtects /\ Staged /\ Hooked /\ HookOf(c)
      /\ CodeInv /\ FastInv
  BY PartsOf DEF HookedPlain, PlainInv, HooksInv
<1>2. /\ fc[c].destroyed /\ fc[c].activated /\ UNCHANGED entries
      /\ \A d \in Ctxs : fc'[d].repl = fc[d].repl
      /\ fc[c].state # "unborn"
      /\ \A b \in Addr : code'[b] = IF b = fc[c].addr THEN None ELSE code[b]
  BY <1>1, DeactivateParts
<1>3. PICK f \in Functions : f = fc[c].addr
  BY <1>1, <1>2 DEF HookOf
<1>4. \A d \in Ctxs : Current(d)' = Current(d)
  BY <1>2 DEF Current
<1>5. ASSUME NEW g \in Functions, g # f PROVE Same(g)
  <2>1. code'[g] = code[g]
    BY <1>2, <1>3, <1>5 DEF Addr
  <2> QED
    BY <1>2, <1>4, <2>1, SameHook
<1>6. code'[f] = None /\ code[f] = Target(c)
  BY <1>1, <1>2, <1>3 DEF Addr, CodeInv
<1>7. Told(f)' = {} /\ Instead(f)' = None /\ ~IsFast(f)'
  BY <1>6, MeetsAfter, ConstantsAssumption DEF IsFast
<1>8. Same(f) \/ Reverts(f)
  <2>1. CASE fc[c].fast
    <3>1. code[f] \in Replacements
      BY <1>1, <1>6, <2>1 DEF Target, FastInv
    <3>2. Told(f) = {} /\ Instead(f) # None
      BY <3>1, Meets, ConstantsAssumption
    <3> QED
      BY <1>7, <3>2 DEF Reverts
  <2>2. CASE ~fc[c].fast
    <3>1. code[f] = c /\ fc[c].repl = None /\ Current(c).live = {}
      BY <1>1, <1>2, <1>6, <2>2 DEF Target, HookOf
    <3>2. Told(f) = {} /\ Instead(f) = None /\ ~IsFast(f)
      BY <3>1, Meets
    <3> QED
      BY <1>7, <3>2 DEF Same
  <2> QED
    BY <2>1, <2>2
<1> QED
  BY <1>5, <1>8, OneHookMoves

LEMMA NotifyMovesNoHooks ==
  ASSUME HookedPlain, NEW t \in Threads, Notify(t)
  PROVE  HookStep
<1>1. UNCHANGED <<code, entries>> /\ \A c \in Ctxs : SameContext(c) \/ Released(c)
  BY PartsOf, NotifyParts DEF HookedPlain
<1>2. \A c \in Ctxs : fc'[c].repl = fc[c].repl /\ Current(c)' = Current(c)
  BY <1>1 DEF SameContext, Released, Current
<1> QED
  BY <1>1, <1>2, NoHookMoves

-----------------------------------------------------------------------------
(* The refinement *)

LEMMA InitMeets == Init => Hooks!Init
<1> SUFFICES ASSUME Init PROVE Hooks!Init
  OBVIOUS
<1>1. \A f \in Functions : code[f] = None
  BY DEF Init, Addr
<1>2. \A f \in Functions : Told(f) = {} /\ Instead(f) = None /\ ~IsFast(f)
  BY <1>1, Meets, ConstantsAssumption DEF IsFast
<1> QED
  BY <1>2 DEF Hooks!Init

LEMMA NextMovesHooks ==
  ASSUME MaxOpen = 0, HookedPlain, [Next]_vars
  PROVE  HookStep
<1>1. TypeInv /\ Staged /\ Mutators \subseteq Threads /\ NoTransactions
  BY PartsOf, ConstantsAssumption DEF HookedPlain, PlainInv
<1>2. ASSUME NEW t \in Mutators, ApiStarts(t) PROVE HookStep
  <2>1. ~BeginTransaction(t) /\ ~EndTransaction(t)
    BY <1>1, NoneBegun
  <2>2. CASE Refused(t) \/ (\E l \in Listeners : Detach(t, l)) \/ Flush(t)
    BY <1>1, <2>2, QuietParts, UndisturbedRefines
  <2>3. CASE \E f \in Functions, l \in Listeners : Attach(t, f, l)
    BY <2>3, AttachMovesHooks
  <2>4. CASE \E f \in Functions, r \in Replacements, fast \in BOOLEAN : Replace(t, f, r, fast)
    BY <2>4, ReplaceMovesHooks
  <2>5. CASE \E f \in Functions : Revert(t, f)
    BY <2>5, RevertMovesHooks
  <2> QED
    BY <1>2, <2>1, <2>2, <2>3, <2>4, <2>5 DEF ApiStarts, AttachRefused, ReplaceRefused, RevertNothing
<1>3. ASSUME NEW t \in Mutators, ApiSteps(t) \/ Relock(t) PROVE HookStep
  <2>1. CASE \/ AttachFlags(t) \/ DetachDone(t) \/ EndNothingToDo(t) \/ EndTakesCopy(t)
             \/ Patched(t) \/ TaskRuns(t) \/ TaskRequeued(t) \/ TasksDone(t) \/ Relock(t)
    BY <1>1, <2>1, QuietParts, UndisturbedRefines
  <2>2. CASE (\E c \in Ctxs : DetachFrom(t, c)) \/ DetachRetire(t)
    BY <2>2, DetachMovesHooks, RetireMovesHooks
  <2>3. CASE \E c \in Ctxs : ActivateUpdate(t, c) \/ DeactivateUpdate(t, c)
    BY <1>1, <2>3, ActivateMovesHooks, DeactivateMovesHooks
  <2>4. CASE Notify(t)
    BY <1>1, <2>4, NotifyMovesNoHooks
  <2> QED
    BY <1>3, <2>1, <2>2, <2>3, <2>4 DEF ApiSteps
<1>4. ASSUME \/ \E t \in Callers :
                  \/ \E f \in Functions : Call(t, f)
                  \/ \E c \in Ctxs : CallOriginal(t, c)
                  \/ InvocationSteps(t) \/ Return(t)
             \/ \E l \in Listeners : Unref(l)
             \/ UNCHANGED vars
      PROVE  HookStep
  BY <1>1, <1>4, ElsewhereParts, UndisturbedRefines
<1> QED
  BY <1>2, <1>3, <1>4 DEF Next

\* In a program that begins no transaction, attach, detach, replace and revert
\* change what a call of a function would meet by one listener or one
\* replacement at a time, although they publish arrays, set fields and patch
\* code in steps that calls of the function fall between.
THEOREM HooksMoveOneByOne == MaxOpen = 0 => (Spec => HooksChangeAtomically)
<1> SUFFICES ASSUME MaxOpen = 0 PROVE Spec => HooksChangeAtomically
  OBVIOUS
<1>1. HookedPlain /\ [Next]_vars => [Hooks!Next]_(Hooks!vars)
  BY NextMovesHooks DEF HookStep
<1> QED
  BY <1>1, InitMeets, PlainInvariant, PTL DEF Spec, HooksChangeAtomically, Hooks!Spec

=============================================================================
