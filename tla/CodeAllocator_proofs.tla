------------------------- MODULE CodeAllocator_proofs -------------------------
(***************************************************************************)
(* Proofs about CodeAllocator, for any number of threads, batches and      *)
(* slices: of a program whose destroy notifications run one at a time and  *)
(* not beside allocations, as those of one thread do.  The free list is    *)
(* then a list, and each slice has one user; batches that wait for a       *)
(* commit or a request are allocated, and none stays behind.               *)
(***************************************************************************)
EXTENDS CodeAllocator, FiniteSetTheorems, FunctionTheorems, SequenceTheorems,
        WellFoundedInduction, TLAPS

-----------------------------------------------------------------------------
(* The inductive invariant *)

\* Allocations and destroy notifications run one at a time, on whatever threads:
\* what the list relies on.
Undisturbed(t) == \A u \in Threads \ {t} : owner # u /\ step[u].at = "none"
OneAtATime == \A t \in Threads : ThreadNext(t) => Undisturbed(t)

\* What AllocatorTypeOK leaves open.
Types ==
  /\ AllocatorTypeOK
  /\ users \in [Slices -> Seq(Request)] /\ failed \in Nat /\ alive \in BOOLEAN

\* L is what the links nx say from h on, and has no slice twice.
Chain(L, h, nx) ==
  /\ L \in Seq(Slices) /\ IsInjective(L)
  /\ h = IF L = <<>> THEN None ELSE L[1]
  /\ \A i \in DOMAIN L : nx[L[i]] = IF i < Len(L) THEN L[i + 1] ELSE None

On == Range(FreeList)

ListInv ==
  /\ Chain(FreeList, head, next)
  /\ \A i \in DOMAIN FreeList : i > 1 => prev[FreeList[i]] = FreeList[i - 1]
  /\ FreeList # <<>> =>
       /\ (\A t \in Threads : step[t].at # "publish") => prev[FreeList[1]] = None
       /\ \A t \in Threads : step[t].at = "publish" => prev[FreeList[1]] = step[t].slice
  /\ platform.rwx /\ alive => \A s \in Slices \ On : prev[s] = None

UserInv ==
  /\ \A s \in Slices : Len(users[s]) <= 1
  /\ \A s \in On : users[s] = <<>>
  /\ \A s \in Slices : s \in On \/ users[s] # <<>> => pages[s[1]].state # "unborn"

StepInv ==
  \A t \in Threads :
    /\ step[t].at # "none" => step[t].slice \in Slices /\ pages[step[t].slice[1]].state # "unborn"
    /\ step[t].at = "unlink" => owner = t /\ step[t].slice \in On
    /\ step[t].at \in {"link", "publish"} =>
         platform.rwx /\ step[t].slice \notin On /\ users[step[t].slice] = <<>>
    /\ step[t].at = "publish" => next[step[t].slice] = head

SlicesInv == ListInv /\ UserInv /\ StepInv

\* Slices given back for good.
Lost(b) == {s \in Slices : s[1] = b /\ s \notin On /\ users[s] = <<>>}
Pending == dirty \cup uncommitted \cup {s[1] : s \in On}

QuietInv ==
  /\ failed \in 0 .. MaxFailed
  /\ owner = None => fresh = {} /\ failed = 0
  /\ fresh = {} /\ failed = 0 =>
       dirty = {} /\ uncommitted = {} /\ (~platform.rwx => FreeList = <<>>)
  /\ ~alive => /\ owner = None /\ \A t \in Threads : step[t].at = "none"
               /\ \A s \in Slices : users[s] = <<>>

LiveInv ==
  /\ \A b \in Pending : pages[b].state # "unborn"
  /\ platform.rwx => 
       /\ uncommitted = {}
       /\ alive => \A b \in Batches : pages[b].state # "freed"
       /\ ~alive => Pending = {}
  /\ ~platform.rwx =>
       /\ \A s \in Slices : s \in On \/ users[s] # <<>> => refs[s] = 1
       /\ \A b \in Batches : pages[b].state # "unborn" =>
            /\ pages[b].ref = SlicesPerBatch - Cardinality(Lost(b))
            /\ pages[b].state = IF pages[b].ref > 0 THEN "live" ELSE "freed"
       /\ \A b \in Pending : Cardinality(Lost(b)) <= failed

PagesInv == QuietInv /\ LiveInv
AllocatorInv == Types /\ SlicesInv /\ PagesInv
-----------------------------------------------------------------------------
(* Lists and sets of slices *)

\* A set of numbers has a least element.
LEMMA HasFirst ==
  ASSUME NEW n \in Nat, NEW S \in SUBSET (1 .. n), S # {}
  PROVE  \E i \in S : \A j \in S : i <= j
<1> DEFINE Below(i) == 1 .. i
           F == {Below(i) : i \in S}
<1>1. F \subseteq FiniteSubsetsOf(1 .. n) /\ F # {}
  <2>1. \A i \in S : Below(i) \in SUBSET (1 .. n) /\ IsFiniteSet(Below(i))
    BY FS_Interval
  <2> QED
    BY <2>1 DEF FiniteSubsetsOf
<1>2. PICK x \in F : \A y \in F : <<y, x>> \notin StrictSubsetOrdering(1 .. n)
  BY <1>1, FS_StrictSubsetOrderingWellFounded, WFMin, Zenon
<1>3. PICK i \in S : x = Below(i)
  BY <1>2
<1>4. ASSUME NEW j \in S, j < i PROVE FALSE
  <2>1. /\ Below(j) \subseteq Below(i) /\ Below(i) \in SUBSET (1 .. n)
        /\ i \in Below(i) /\ i \notin Below(j)
    BY <1>4
  <2>2. <<Below(j), Below(i)>> \in StrictSubsetOrdering(1 .. n)
    BY <2>1 DEF StrictSubsetOrdering
  <2> QED
    BY <1>2, <1>3, <2>2
<1> QED
  BY <1>4

\* The first k numbers are k.
LEMMA FirstNumbers ==
  ASSUME NEW k \in Nat
  PROVE  Cardinality(1 .. k) = k
<1>1. Cardinality(1 .. k) = IF 1 > k THEN 0 ELSE k - 1 + 1
  BY FS_Interval
<1> QED
  BY <1>1

\* There are finitely many slices.
LEMMA SlicesAreFinite == IsFiniteSet(Slices) /\ Cardinality(Slices) \in Nat
<1>1. IsFiniteSet(0 .. SlicesPerBatch - 1)
  BY FS_Interval, AllocatorAssumption
<1>2. IsFiniteSet(Slices)
  BY <1>1, FS_Product, AllocatorAssumption DEF Slices
<1> QED
  BY <1>2, FS_CardinalityType

\* ... so that a list of different ones is no longer than they are.
LEMMA ListsFit ==
  ASSUME NEW L \in Seq(Slices), IsInjective(L)
  PROVE  Len(L) \in 0 .. Cardinality(Slices)
<1>1. Len(L) \in Nat /\ L \in [1 .. Len(L) -> Slices]
  BY LenProperties
<1>2. L \in Injection(1 .. Len(L), Slices)
  BY <1>1 DEF Injection
<1>3. Cardinality(1 .. Len(L)) <= Cardinality(Slices)
  BY <1>2, SlicesAreFinite, FS_Injection
<1>4. Cardinality(1 .. Len(L)) = Len(L)
  BY <1>1, FS_Interval
<1> QED
  BY <1>1, <1>3, <1>4, SlicesAreFinite

\* What follows the links of a list is that list.
LEMMA ListFromIs ==
  ASSUME NEW L, NEW h, NEW nx, Chain(L, h, nx)
  PROVE  ListFrom(h, nx) = L
<1> DEFINE N == Cardinality(Slices)
           at[n \in 1 .. N] ==
             IF n = 1 THEN h ELSE IF at[n - 1] = None THEN None ELSE nx[at[n - 1]]
           walk == [n \in 1 .. N |-> IF n <= Len(L) THEN L[n] ELSE None]
<1>1. /\ L \in Seq(Slices) /\ IsInjective(L)
      /\ h = IF L = <<>> THEN None ELSE L[1]
      /\ \A i \in DOMAIN L : nx[L[i]] = IF i < Len(L) THEN L[i + 1] ELSE None
  BY DEF Chain
<1>2. /\ Len(L) \in Nat /\ DOMAIN L = 1 .. Len(L) /\ \A i \in 1 .. Len(L) : L[i] \in Slices
      /\ N \in Nat /\ Len(L) <= N /\ (L = <<>> <=> Len(L) = 0)
  BY <1>1, LenProperties, EmptySeq, ElementOfSeq, ListsFit, SlicesAreFinite
<1>3. \A s \in Slices : s # None
  BY AllocatorAssumption DEF Slices
<1>4. \A n \in 1 .. N :
        walk[n] = IF n = 1 THEN h ELSE IF walk[n - 1] = None THEN None ELSE nx[walk[n - 1]]
  <2> TAKE n \in 1 .. N
  <2>1. CASE n = 1
    BY <1>1, <1>2, <2>1
  <2>2. CASE n # 1
    <3>1. n - 1 \in 1 .. N
      BY <1>2, <2>2
    <3>2. CASE n - 1 <= Len(L)
      <4>1. n - 1 \in DOMAIN L /\ L[n - 1] # None /\ walk[n - 1] = L[n - 1]
        BY <1>2, <1>3, <3>1, <3>2
      <4>2. nx[L[n - 1]] = IF n - 1 < Len(L) THEN L[n] ELSE None
        BY <1>1, <1>2, <4>1
      <4> QED
        BY <1>2, <2>2, <4>1, <4>2
    <3>3. CASE ~(n - 1 <= Len(L))
      BY <1>2, <2>2, <3>1, <3>3
    <3> QED
      BY <3>2, <3>3
  <2> QED
    BY <2>1, <2>2
<1>5. at = [n \in 1 .. N |->
             IF n = 1 THEN h ELSE IF at[n - 1] = None THEN None ELSE nx[at[n - 1]]]
  <2>1. SUFFICES \E f : f = [n \in 1 .. N |->
             IF n = 1 THEN h ELSE IF f[n - 1] = None THEN None ELSE nx[f[n - 1]]]
    OBVIOUS
  <2>2. walk = [n \in 1 .. N |->
             IF n = 1 THEN h ELSE IF walk[n - 1] = None THEN None ELSE nx[walk[n - 1]]]
    BY <1>4, Zenon
  <2> QED
    BY <2>2, Zenon
<1> HIDE DEF at
<1>a. \A n \in 1 .. N :
        at[n] = IF n = 1 THEN h ELSE IF at[n - 1] = None THEN None ELSE nx[at[n - 1]]
  BY <1>5, Zenon
<1>6. \A n \in 1 .. N : at[n] = walk[n]
  <2> DEFINE Off == {n \in 1 .. N : at[n] # walk[n]}
  <2>1. SUFFICES ASSUME Off # {} PROVE FALSE
    OBVIOUS
  <2>2. PICK n \in Off : \A j \in Off : n <= j
    <3>1. Off \in SUBSET (1 .. N)
      OBVIOUS
    <3> HIDE DEF Off
    <3> QED
      BY <1>2, <2>1, <3>1, HasFirst
  <2>3. n \in 1 .. N /\ at[n] # walk[n]
    BY <2>2
  <2>4. n # 1
    <3> HIDE DEF walk, Off
    <3> QED
      BY <1>4, <1>a, <2>3
  <2>5. n - 1 \in 1 .. N /\ n - 1 \notin Off
    BY <1>2, <2>2, <2>3, <2>4
  <2>6. at[n - 1] = walk[n - 1]
    BY <2>5
  <2>7. /\ at[n] = IF at[n - 1] = None THEN None ELSE nx[at[n - 1]]
        /\ walk[n] = IF walk[n - 1] = None THEN None ELSE nx[walk[n - 1]]
    <3> HIDE DEF walk, Off
    <3> QED
      BY <1>4, <1>a, <2>3, <2>4
  <2> QED
    BY <2>3, <2>6, <2>7, Zenon
<1>7. DOMAIN at = 1 .. N
  BY <1>5
<1>8. {n \in DOMAIN at : at[n] # None} = 1 .. Len(L)
  BY <1>2, <1>3, <1>6, <1>7
<1>9. Cardinality({n \in DOMAIN at : at[n] # None}) = Len(L)
  <2>1. Len(L) \in Nat
    BY <1>2
  <2>2. Cardinality(1 .. Len(L)) = Len(L)
    BY <2>1, FirstNumbers
  <2> QED
    BY <1>8, <2>2
<1>10. ListFrom(h, nx) = SubSeq(at, 1, Len(L))
  BY <1>9 DEF ListFrom, at
<1>11. \A i \in 1 .. Len(L) : at[i] \in Slices /\ at[i] = L[i]
  BY <1>2, <1>6
<1>12. /\ SubSeq(at, 1, Len(L)) \in Seq(Slices) /\ Len(SubSeq(at, 1, Len(L))) = Len(L)
       /\ \A i \in 1 .. Len(L) : SubSeq(at, 1, Len(L))[i] = at[i]
  <2> HIDE DEF at
  <2> QED
    BY <1>2, <1>11, SubSeqProperties
<1> QED
  BY <1>1, <1>2, <1>10, <1>11, <1>12, SeqEqual

-----------------------------------------------------------------------------
(* Types *)

\* What the types say.
LEMMA TypeFacts ==
  ASSUME Types
  PROVE  /\ platform \in [rwx : BOOLEAN, segment : BOOLEAN, remap : BOOLEAN]
         /\ pages \in [Batches -> CodePages] /\ refs \in [Slices -> Int]
         /\ head \in Slices \cup {None}
         /\ next \in [Slices -> Slices \cup {None}] /\ prev \in [Slices -> Slices \cup {None}]
         /\ step \in [Threads -> Steps] /\ users \in [Slices -> Seq(Request)]
         /\ SlicesPerBatch \in Nat \ {0} /\ None \notin Slices
         /\ \A s \in Slices : s[1] \in Batches /\ s[2] \in 0 .. SlicesPerBatch - 1
                              /\ s = <<s[1], s[2]>>
         /\ \A b \in Batches : \A i \in 0 .. SlicesPerBatch - 1 : <<b, i>> \in Slices
BY AllocatorAssumption DEF Types, AllocatorTypeOK, Slices

\* Types hold at the start ...
LEMMA InitTypes == Init => Types
<1> SUFFICES ASSUME Init PROVE Types
  OBVIOUS
<1>1. Anything \in Request /\ NoStep \in Steps
  BY AllocatorAssumption DEF Anything, Request, NoStep, Steps
<1>2. UnbornPages \in CodePages
  BY DEF UnbornPages, CodePages
<1>3. \A s \in Slices : users[s] = <<>> /\ DOMAIN users[s] = {}
  BY DEF Init
<1>4. users \in [Slices -> Seq(Request)]
  BY EmptySeq DEF Init
<1> QED
  BY <1>1, <1>2, <1>3, <1>4 DEF Init, Types, AllocatorTypeOK

\* What was asked for is a request.
LEMMA UsersAreTyped ==
  ASSUME users' \in [Slices -> Seq(Request)]
  PROVE  \A s \in Slices : \A i \in DOMAIN users'[s] : users'[s][i] \in Request
BY LenProperties, ElementOfSeq

\* ... and after each step.
LEMMA LockTypes ==
  ASSUME Types, NEW t \in Threads, Lock(t) \/ Unlock(t)
  PROVE  Types'
BY DEF Types, AllocatorTypeOK, Lock, Unlock

\* Taking a slice keeps the types ...
LEMMA TakesTypes ==
  ASSUME Types, Chain(FreeList, head, next), NEW t \in Threads, NEW r \in Request,
         TryAllocSliceNear(t, r)
  PROVE  Types'
<1>1. PICK i \in DOMAIN FreeList :
        step' = [step EXCEPT ![t] = [at |-> "unlink", slice |-> FreeList[i], request |-> r]]
  BY DEF TryAllocSliceNear
<1>2. FreeList[i] \in Slices
  BY LenProperties, ElementOfSeq DEF Chain
<1>3. [at |-> "unlink", slice |-> FreeList[i], request |-> r] \in Steps
  BY <1>2 DEF Steps
<1>4. step' \in [Threads -> Steps]
  BY <1>1, <1>3, TypeFacts
<1>5. UNCHANGED <<platform, owner, pages, refs, head, next, prev, uncommitted,
                  dirty, users, fresh, failed, alive>>
  BY DEF TryAllocSliceNear
<1> QED
  BY <1>4, <1>5 DEF Types, AllocatorTypeOK

\* ... as does unlinking it ...
LEMMA UnlinkTypes ==
  ASSUME Types, StepInv, NEW t \in Threads, Unlink(t)
  PROVE  Types'
<1> DEFINE s == step[t].slice
<1>1. /\ s \in Slices /\ step[t].request \in Request
  BY TypeFacts DEF StepInv, Unlink, Steps
<1>2. next[s] \in Slices \cup {None} /\ prev[s] \in Slices \cup {None} /\ s[1] \in Batches
  BY <1>1, TypeFacts
<1>3. users' \in [Slices -> Seq(Request)]
  <2>1. users[s] \in Seq(Request) /\ Append(users[s], step[t].request) \in Seq(Request)
    BY <1>1, TypeFacts, AppendProperties
  <2>2. users' = [users EXCEPT ![s] = Append(@, step[t].request)]
    BY DEF Unlink
  <2> QED
    BY <2>1, <2>2, TypeFacts
<1>4. next' \in [Slices -> Slices \cup {None}] /\ prev' \in [Slices -> Slices \cup {None}]
  BY <1>2, TypeFacts DEF Unlink
<1>5. head' \in Slices \cup {None}
  BY <1>2, TypeFacts DEF Unlink, HeadWithout
<1>6. step' \in [Threads -> Steps]
  <2>1. NoStep \in Steps
    BY DEF NoStep, Steps, Anything, Request
  <2> QED
    BY <2>1, TypeFacts DEF Unlink
<1>7. dirty' \subseteq Batches /\ fresh' \subseteq Slices
  BY <1>1, <1>2 DEF Unlink, Types, AllocatorTypeOK
<1>8. UNCHANGED <<platform, owner, pages, refs, uncommitted, failed, alive>>
  BY DEF Unlink
<1>9. \A x \in Slices : \A i \in DOMAIN users'[x] : users'[x][i] \in Request
  BY <1>3, UsersAreTyped
<1>. HIDE DEF s
<1> QED
  BY <1>3, <1>4, <1>5, <1>6, <1>7, <1>8, <1>9 DEF Types, AllocatorTypeOK

\* ... and mapping a batch.
LEMMA MapTypes ==
  ASSUME Types, NEW t \in Threads, NEW r \in Request,
         NEW b \in Batches, NEW base \in Bases, MapBatch(b, base, r),
         UNCHANGED <<platform, owner, failed, step, alive>>
  PROVE  Types'
<1>1. pages' \in [Batches -> CodePages]
  <2>1. base \in Nat /\ BatchProtection \in {"rw", "rx", "rwx"} /\ platform.remap \in BOOLEAN
        /\ platform.segment \in BOOLEAN /\ platform.rwx \in BOOLEAN
    BY TypeFacts, AllocatorAssumption DEF BatchProtection
  <2>2. [state |-> "live", ref |-> SlicesPerBatch, base |-> base,
         prot |-> BatchProtection,
         remapped |-> (platform.rwx \/ ~platform.segment) /\ platform.remap,
         segment |-> ~platform.rwx /\ platform.segment] \in CodePages
    BY <2>1, TypeFacts DEF CodePages
  <2> QED
    BY <2>2, TypeFacts DEF MapBatch
<1>2. refs' \in [Slices -> Int] /\ \A s \in Slices : refs'[s] <= 1
  BY TypeFacts DEF MapBatch, Types, AllocatorTypeOK
<1>3. next' \in [Slices -> Slices \cup {None}]
  <2>1. \A x \in Slices : x[2] # 0 /\ x[2] < SlicesPerBatch - 1 => <<b, x[2] + 1>> \in Slices
    <3> TAKE x \in Slices
    <3>1. x[2] \in 0 .. SlicesPerBatch - 1
      BY TypeFacts
    <3>2. x[2] < SlicesPerBatch - 1 => x[2] + 1 \in 0 .. SlicesPerBatch - 1
      BY <3>1, TypeFacts
    <3> QED
      BY <3>2, TypeFacts
  <2> QED
    BY <2>1, TypeFacts DEF MapBatch, Chained
<1>4. prev' \in [Slices -> Slices \cup {None}] /\ head' \in Slices \cup {None}
  <2>1. \A x \in Slices : x[2] > 1 => <<b, x[2] - 1>> \in Slices
    <3> TAKE x \in Slices
    <3>1. x[2] \in 0 .. SlicesPerBatch - 1
      BY TypeFacts
    <3>2. x[2] > 1 => x[2] - 1 \in 0 .. SlicesPerBatch - 1
      BY <3>1, TypeFacts
    <3> QED
      BY <3>2, TypeFacts
  <2>2. SlicesPerBatch > 1 => <<b, 1>> \in Slices /\ <<b, SlicesPerBatch - 1>> \in Slices
    <3>1. SlicesPerBatch > 1 =>
            1 \in 0 .. SlicesPerBatch - 1 /\ SlicesPerBatch - 1 \in 0 .. SlicesPerBatch - 1
      BY TypeFacts
    <3> QED
      BY <3>1, TypeFacts
  <2> QED
    BY <2>1, <2>2, TypeFacts DEF MapBatch
<1>5. <<b, 0>> \in Slices
  <2>1. 0 \in 0 .. SlicesPerBatch - 1
    BY TypeFacts
  <2> QED
    BY <2>1, TypeFacts
<1>6. users' \in [Slices -> Seq(Request)]
  <2>1. users[<<b, 0>>] \in Seq(Request)
    BY <1>5, TypeFacts
  <2>2. Append(users[<<b, 0>>], r) \in Seq(Request)
    BY <2>1, AppendProperties
  <2> QED
    BY <1>5, <2>2, TypeFacts DEF MapBatch
<1>7. \A x \in Slices : \A i \in DOMAIN users'[x] : users'[x][i] \in Request
  BY <1>6, UsersAreTyped
<1>8. uncommitted' \subseteq Batches /\ dirty' \subseteq Batches /\ fresh' \subseteq Slices
  BY <1>5 DEF MapBatch, Types, AllocatorTypeOK
<1> QED
  BY <1>1, <1>2, <1>3, <1>4, <1>6, <1>7, <1>8 DEF Types, AllocatorTypeOK

\* Batches stay batches when references are given back.
LEMMA PagesAfterType ==
  ASSUME Types, NEW n \in [Batches -> Int]
  PROVE  PagesAfter(n) \in [Batches -> CodePages]
<1>1. ASSUME NEW b \in Batches PROVE PagesAfter(n)[b] \in CodePages
  <2>1. pages[b] \in CodePages /\ pages[b].ref - n[b] \in Int
    BY TypeFacts DEF CodePages
  <2>2. \A x \in Int : [pages[b] EXCEPT !.ref = x] \in CodePages
    BY <2>1 DEF CodePages
  <2>3. \A x \in Int :
          [pages[b] EXCEPT !.ref = x, !.state = "freed", !.prot = "none"] \in CodePages
    BY <2>1 DEF CodePages
  <2> QED
    BY <2>1, <2>2, <2>3 DEF PagesAfter
<1> QED
  BY <1>1 DEF PagesAfter

\* FreeOnesOf is a number for each batch.
LEMMA FreeOnesAreCounted ==
  ASSUME Chain(FreeList, head, next)
  PROVE  FreeOnesOf \in [Batches -> Nat]
<1>1. ASSUME NEW c \in Batches
      PROVE  Cardinality({i \in DOMAIN FreeList : FreeList[i][1] = c}) \in Nat
  <2>1. Len(FreeList) \in Nat /\ DOMAIN FreeList = 1 .. Len(FreeList)
    BY LenProperties DEF Chain
  <2>2. IsFiniteSet(DOMAIN FreeList)
    BY <2>1, FS_Interval
  <2>3. IsFiniteSet({i \in DOMAIN FreeList : FreeList[i][1] = c})
    BY <2>2, FS_Subset
  <2> QED
    BY <2>3, FS_CardinalityType
<1> QED
  BY <1>1 DEF FreeOnesOf

\* Giving a slice back keeps the types ...
LEMMA SliceUnrefTypes ==
  ASSUME Types, NEW t \in Threads, NEW s \in Slices, SliceUnref(t, s),
         fresh' \subseteq Slices, failed' \in Nat
  PROVE  Types'
<1>1. users' \in [Slices -> Seq(Request)]
  <2>1. users[s] \in Seq(Request) /\ users[s] # <<>>
    BY TypeFacts DEF SliceUnref
  <2>2. Tail(users[s]) \in Seq(Request)
    BY <2>1, HeadTailProperties
  <2> QED
    BY <2>2, TypeFacts DEF SliceUnref
<1>2. \A x \in Slices : \A i \in DOMAIN users'[x] : users'[x][i] \in Request
  BY <1>1, UsersAreTyped
<1>3. refs' \in [Slices -> Int] /\ \A x \in Slices : refs'[x] <= 1
  <2>1. refs[s] \in Int /\ refs[s] <= 1 /\ refs' = [refs EXCEPT ![s] = @ - 1]
    BY TypeFacts DEF SliceUnref, Types, AllocatorTypeOK
  <2>2. refs[s] - 1 \in Int /\ refs[s] - 1 <= 1
    BY <2>1
  <2> QED
    BY <2>1, <2>2, TypeFacts DEF Types, AllocatorTypeOK
<1>4. step' \in [Threads -> Steps]
  <2>1. [NoStep EXCEPT !.at = "link", !.slice = s] \in Steps
    BY DEF NoStep, Steps, Anything, Request
  <2> QED
    BY <2>1, TypeFacts DEF SliceUnref
<1>5. pages' \in [Batches -> CodePages]
  <2>1. OneOf(s[1]) \in [Batches -> Int]
    BY DEF OneOf
  <2> QED
    BY <2>1, TypeFacts, PagesAfterType DEF SliceUnref
<1>6. UNCHANGED <<platform, owner, head, next, prev, uncommitted, dirty, alive>>
  BY DEF SliceUnref
<1> QED
  BY <1>1, <1>2, <1>3, <1>4, <1>5, <1>6 DEF Types, AllocatorTypeOK

\* ... on whichever occasion.
LEMMA UnrefTypes ==
  ASSUME Types, NEW t \in Threads, NEW s \in Slices, Fail(t, s) \/ Retire(t, s)
  PROVE  Types'
<1>1. SliceUnref(t, s)
  BY DEF Fail, Retire
<1>2. fresh' \subseteq Slices /\ failed' \in Nat
  BY DEF Fail, Retire, Types, AllocatorTypeOK
<1> QED
  BY <1>1, <1>2, SliceUnrefTypes

\* Pushing a slice keeps the types ...
LEMMA LinkTypes ==
  ASSUME Types, StepInv, NEW t \in Threads, LinkSlice(t) \/ PublishSlice(t)
  PROVE  Types'
<1>1. step[t].slice \in Slices /\ step[t] \in Steps
  BY TypeFacts DEF StepInv, LinkSlice, PublishSlice
<1>2. step' \in [Threads -> Steps]
  <2>1. NoStep \in Steps /\ [step[t] EXCEPT !.at = "publish"] \in Steps
    BY <1>1 DEF NoStep, Steps, Anything, Request
  <2> QED
    BY <2>1, TypeFacts DEF LinkSlice, PublishSlice
<1>3. next' \in [Slices -> Slices \cup {None}] /\ prev' \in [Slices -> Slices \cup {None}]
      /\ head' \in Slices \cup {None}
  <2>0. /\ head \in Slices \cup {None} /\ next \in [Slices -> Slices \cup {None}]
        /\ prev \in [Slices -> Slices \cup {None}]
    BY TypeFacts
  <2>1. CASE LinkSlice(t)
    <3>1. next' = [next EXCEPT ![step[t].slice] = head] /\ head' = head
      BY <2>1 DEF LinkSlice
    <3>2. prev' = prev \/ prev' = [prev EXCEPT ![head] = step[t].slice]
      BY <2>1 DEF LinkSlice
    <3> QED
      BY <1>1, <2>0, <3>1, <3>2
  <2>2. CASE PublishSlice(t)
    <3>1. next' = next /\ prev' = prev /\ head' = step[t].slice
      BY <2>2 DEF PublishSlice
    <3> QED
      BY <1>1, <2>0, <3>1
  <2> QED
    BY <2>1, <2>2
<1>4. UNCHANGED <<platform, owner, pages, refs, uncommitted, dirty, users, fresh,
                  failed, alive>>
  BY DEF LinkSlice, PublishSlice
<1> QED
  BY <1>2, <1>3, <1>4 DEF Types, AllocatorTypeOK

\* What commit makes of a batch.
LEMMA CommittedType ==
  ASSUME NEW p \in CodePages
  PROVE  Committed(p) \in CodePages /\ Committed(p).state = p.state /\ Committed(p).ref = p.ref
BY DEF Committed, CodePages

\* ... as does a commit ...
LEMMA CommitTypes ==
  ASSUME Types, Chain(FreeList, head, next), NEW t \in Threads, Commit(t)
  PROVE  Types'
<1> DEFINE protected == [b \in Batches |-> IF b \in uncommitted
                                           THEN Committed(pages[b]) ELSE pages[b]]
           after == PagesAfter(FreeOnesOf)
<1>1. protected \in [Batches -> CodePages]
  BY TypeFacts, CommittedType
<1>2. after \in [Batches -> CodePages]
  <2>1. FreeOnesOf \in [Batches -> Int]
    BY FreeOnesAreCounted
  <2> QED
    BY <2>1, PagesAfterType
<1>3. pages' = IF GivesUpFree
               THEN [b \in Batches |->
                       IF after[b].state = "live"
                       THEN [after[b] EXCEPT !.prot = protected[b].prot]
                       ELSE after[b]]
               ELSE protected
  BY DEF Commit
<1>4. \A b \in Batches : [after[b] EXCEPT !.prot = protected[b].prot] \in CodePages
  <2>. HIDE DEF after, protected
  <2> QED
    BY <1>1, <1>2 DEF CodePages
<1>5. pages' \in [Batches -> CodePages]
  <2>. HIDE DEF after, protected
  <2> QED
    BY <1>1, <1>2, <1>3, <1>4
<1>6. head' \in Slices \cup {None}
  BY TypeFacts DEF Commit, ListAfterCommit
<1>7. /\ UNCHANGED <<platform, owner, refs, next, prev, users, step, alive>>
      /\ uncommitted' = {} /\ dirty' = {} /\ fresh' = {} /\ failed' = 0
  BY DEF Commit, FlushDirty
<1> QED
  BY <1>5, <1>6, <1>7 DEF Types, AllocatorTypeOK

\* ... and the end.
LEMMA FreeTypes ==
  ASSUME Types, Chain(FreeList, head, next), Free
  PROVE  Types'
<1>1. pages' \in [Batches -> CodePages]
  <2>1. FreeOnesOf \in [Batches -> Int]
    BY FreeOnesAreCounted
  <2> QED
    BY <2>1, PagesAfterType DEF Free
<1> QED
  BY <1>1 DEF Free, Types, AllocatorTypeOK

-----------------------------------------------------------------------------
(* The free list *)

\* A function on 1 .. m is a sequence.
LEMMA SeqOf ==
  ASSUME NEW S, NEW m \in Nat, NEW f \in [1 .. m -> S]
  PROVE  f \in Seq(S) /\ Len(f) = m /\ DOMAIN f = 1 .. m /\ (f = <<>> <=> m = 0)
<1>1. f \in Seq(S)
  BY SeqDef
<1>2. DOMAIN f = 1 .. m
  OBVIOUS
<1>3. Len(f) = m
  BY <1>1, <1>2, LenProperties
<1> QED
  BY <1>1, <1>2, <1>3, EmptySeq

\* What there is to know of a list.
LEMMA ListFacts ==
  ASSUME NEW L \in Seq(Slices)
  PROVE  /\ Len(L) \in Nat /\ DOMAIN L = 1 .. Len(L) /\ (L = <<>> <=> Len(L) = 0)
         /\ \A i \in 1 .. Len(L) : L[i] \in Slices /\ L[i] # None
         /\ Range(L) \subseteq Slices
         /\ \A s : s \in Range(L) <=> \E i \in 1 .. Len(L) : s = L[i]
<1>1. Len(L) \in Nat /\ DOMAIN L = 1 .. Len(L) /\ (L = <<>> <=> Len(L) = 0)
  BY LenProperties, EmptySeq
<1>2. \A i \in 1 .. Len(L) : L[i] \in Slices /\ L[i] # None
  BY <1>1, ElementOfSeq, AllocatorAssumption DEF Slices
<1>3. \A s : s \in Range(L) <=> \E i \in 1 .. Len(L) : s = L[i]
  BY <1>1 DEF Range
<1> QED
  BY <1>1, <1>2, <1>3

Without(L, k) == [j \in 1 .. Len(L) - 1 |-> IF j < k THEN L[j] ELSE L[j + 1]]

\* A list with one slice less.
LEMMA WithoutList ==
  ASSUME NEW L \in Seq(Slices), IsInjective(L), NEW k \in DOMAIN L
  PROVE  /\ Without(L, k) \in Seq(Slices) /\ IsInjective(Without(L, k))
         /\ Len(Without(L, k)) = Len(L) - 1
         /\ DOMAIN Without(L, k) = 1 .. Len(L) - 1
         /\ Range(Without(L, k)) = Range(L) \ {L[k]}
<1> DEFINE W == Without(L, k)
           n == Len(L)
<1>1. n \in Nat /\ DOMAIN L = 1 .. n /\ k \in 1 .. n /\ n - 1 \in Nat
      /\ \A i \in 1 .. n : L[i] \in Slices
  BY ListFacts
<1>2. \A i, j \in 1 .. n : L[i] = L[j] => i = j
  BY <1>1 DEF IsInjective
<1>3. \A j \in 1 .. n - 1 :
        /\ j < k => W[j] = L[j] /\ j \in 1 .. n
        /\ j >= k => W[j] = L[j + 1] /\ j + 1 \in 1 .. n
  BY <1>1 DEF Without
<1>4. W \in [1 .. n - 1 -> Slices]
  BY <1>1 DEF Without
<1>5. W \in Seq(Slices) /\ Len(W) = n - 1 /\ DOMAIN W = 1 .. n - 1
  BY <1>1, <1>4, SeqOf
<1>. HIDE DEF W, n
<1>6. IsInjective(W)
  <2>1. ASSUME NEW i \in 1 .. n - 1, NEW j \in 1 .. n - 1, W[i] = W[j] PROVE i = j
    BY <1>1, <1>2, <1>3, <2>1
  <2> QED
    BY <1>5, <2>1 DEF IsInjective
<1>7. Range(W) = Range(L) \ {L[k]}
  <2>1. ASSUME NEW s \in Range(W) PROVE s \in Range(L) \ {L[k]}
    <3>1. PICK j \in 1 .. n - 1 : s = W[j]
      BY <1>5 DEF Range
    <3>2. PICK i \in 1 .. n : s = L[i] /\ i # k
      BY <1>1, <1>3, <3>1
    <3> QED
      BY <1>1, <1>2, <3>2 DEF Range
  <2>2. ASSUME NEW s \in Range(L), s # L[k] PROVE s \in Range(W)
    <3>1. PICK i \in 1 .. n : s = L[i] /\ i # k
      BY <1>1, <2>2 DEF Range
    <3>2. PICK j \in 1 .. n - 1 : W[j] = s
      <4>1. CASE i < k
        <5>1. i \in 1 .. n - 1
          BY <1>1, <4>1
        <5> QED
          BY <1>3, <3>1, <4>1, <5>1
      <4>2. CASE i > k
        <5>1. i - 1 \in 1 .. n - 1 /\ i - 1 >= k /\ (i - 1) + 1 = i
          BY <1>1, <4>2
        <5> QED
          BY <1>3, <3>1, <5>1
      <4> QED
        BY <1>1, <3>1, <4>1, <4>2
    <3> QED
      BY <1>5, <3>2 DEF Range
  <2> QED
    BY <2>1, <2>2
<1> QED
  BY <1>5, <1>6, <1>7 DEF W, n

Before(L, s) == [j \in 1 .. Len(L) + 1 |-> IF j = 1 THEN s ELSE L[j - 1]]

\* A list with one more, in front.
LEMMA BeforeList ==
  ASSUME NEW L \in Seq(Slices), IsInjective(L), NEW s \in Slices, s \notin Range(L)
  PROVE  /\ Before(L, s) \in Seq(Slices) /\ IsInjective(Before(L, s))
         /\ Len(Before(L, s)) = Len(L) + 1
         /\ DOMAIN Before(L, s) = 1 .. Len(L) + 1
         /\ Range(Before(L, s)) = Range(L) \cup {s}
<1> DEFINE B == Before(L, s)
           n == Len(L)
<1>1. n \in Nat /\ DOMAIN L = 1 .. n /\ n + 1 \in Nat
      /\ \A i \in 1 .. n : L[i] \in Slices /\ L[i] # s
  BY ListFacts DEF Range
<1>2. \A i, j \in 1 .. n : L[i] = L[j] => i = j
  BY <1>1 DEF IsInjective
<1>3. /\ 1 \in 1 .. n + 1 /\ B[1] = s
      /\ \A j \in 1 .. n + 1 : j # 1 => B[j] = L[j - 1] /\ j - 1 \in 1 .. n
      /\ \A i \in 1 .. n : i + 1 \in 1 .. n + 1 /\ B[i + 1] = L[i]
  BY <1>1 DEF Before
<1>4. B \in [1 .. n + 1 -> Slices]
  BY <1>1 DEF Before
<1>5. B \in Seq(Slices) /\ Len(B) = n + 1 /\ DOMAIN B = 1 .. n + 1
  BY <1>1, <1>4, SeqOf
<1>. HIDE DEF B, n
<1>6. IsInjective(B)
  <2>1. ASSUME NEW i \in 1 .. n + 1, NEW j \in 1 .. n + 1, B[i] = B[j] PROVE i = j
    BY <1>1, <1>2, <1>3, <2>1
  <2> QED
    BY <1>5, <2>1 DEF IsInjective
<1>7. Range(B) = Range(L) \cup {s}
  <2>1. ASSUME NEW x \in Range(B) PROVE x \in Range(L) \cup {s}
    <3>1. PICK j \in 1 .. n + 1 : x = B[j]
      BY <1>5 DEF Range
    <3> QED
      BY <1>1, <1>3, <3>1 DEF Range
  <2>2. ASSUME NEW x \in Range(L) PROVE x \in Range(B)
    <3>1. PICK i \in 1 .. n : x = L[i]
      BY <1>1 DEF Range
    <3> QED
      BY <1>3, <1>5, <3>1 DEF Range
  <2>3. s \in Range(B)
    BY <1>3, <1>5 DEF Range
  <2> QED
    BY <2>1, <2>2, <2>3
<1> QED
  BY <1>5, <1>6, <1>7 DEF B, n

NewOnes(b) == {<<b, i>> : i \in 1 .. SlicesPerBatch - 1}
Extended(L, b) ==
  [j \in 1 .. (SlicesPerBatch - 1) + Len(L) |->
     IF j < SlicesPerBatch THEN <<b, j>> ELSE L[j - (SlicesPerBatch - 1)]]

\* A list with the slices of a batch, but the first, in front.
LEMMA ExtendedList ==
  ASSUME NEW L \in Seq(Slices), IsInjective(L), NEW b \in Batches,
         \A s \in Range(L) : s[1] # b
  PROVE  /\ Extended(L, b) \in Seq(Slices) /\ IsInjective(Extended(L, b))
         /\ Len(Extended(L, b)) = (SlicesPerBatch - 1) + Len(L)
         /\ DOMAIN Extended(L, b) = 1 .. (SlicesPerBatch - 1) + Len(L)
         /\ Range(Extended(L, b)) = Range(L) \cup NewOnes(b)
<1> DEFINE E == Extended(L, b)
           n == Len(L)
           m == SlicesPerBatch - 1
<1>1. n \in Nat /\ DOMAIN L = 1 .. n /\ m \in Nat /\ m + n \in Nat /\ SlicesPerBatch = m + 1
      /\ \A i \in 1 .. n : L[i] \in Slices /\ L[i][1] # b
  BY ListFacts, AllocatorAssumption DEF Range
<1>2. \A i, j \in 1 .. n : L[i] = L[j] => i = j
  BY <1>1 DEF IsInjective
<1>3. /\ \A j \in 1 .. m + n :
           /\ j <= m => E[j] = <<b, j>> /\ j \in 1 .. m
           /\ j > m => E[j] = L[j - m] /\ j - m \in 1 .. n
      /\ \A i \in 1 .. n : i + m \in 1 .. m + n /\ E[i + m] = L[i]
      /\ \A i \in 1 .. m : i \in 1 .. m + n /\ E[i] = <<b, i>>
  BY <1>1 DEF Extended
<1>4. \A i \in 1 .. m : <<b, i>> \in Slices
  BY <1>1 DEF Slices
<1>5. E \in [1 .. m + n -> Slices]
  <2>1. E = [j \in 1 .. m + n |-> E[j]]
    BY DEF Extended
  <2>2. \A j \in 1 .. m + n : E[j] \in Slices
    <3>. HIDE DEF E, m, n
    <3>. TAKE j \in 1 .. m + n
    <3>1. CASE j <= m
      BY <1>3, <1>4, <3>1
    <3>2. CASE j > m
      BY <1>1, <1>3, <3>2
    <3> QED
      BY <1>1, <3>1, <3>2
  <2>. HIDE DEF E, m, n
  <2> QED
    BY <2>1, <2>2
<1>6. E \in Seq(Slices) /\ Len(E) = m + n /\ DOMAIN E = 1 .. m + n
  <2>. HIDE DEF E, m, n
  <2> QED
    BY <1>1, <1>5, SeqOf
<1>7. NewOnes(b) = {<<b, i>> : i \in 1 .. m}
  BY DEF NewOnes
<1>. HIDE DEF E, n, m
<1>8. IsInjective(E)
  <2>1. ASSUME NEW i \in 1 .. m + n, NEW j \in 1 .. m + n, E[i] = E[j] PROVE i = j
    <3>1. CASE i <= m /\ j <= m
      BY <1>3, <2>1, <3>1
    <3>2. CASE i > m /\ j > m
      <4>1. i - m = j - m
        BY <1>2, <1>3, <2>1, <3>2
      <4> QED
        BY <1>1, <4>1
    <3>3. CASE i <= m /\ j > m
      <4>1. E[i][1] = b /\ E[j][1] # b
        BY <1>1, <1>3, <3>3
      <4> QED
        BY <2>1, <4>1
    <3>4. CASE i > m /\ j <= m
      <4>1. E[j][1] = b /\ E[i][1] # b
        BY <1>1, <1>3, <3>4
      <4> QED
        BY <2>1, <4>1
    <3> QED
      BY <1>1, <3>1, <3>2, <3>3, <3>4
  <2> QED
    BY <1>6, <2>1 DEF IsInjective
<1>9. Range(E) = Range(L) \cup NewOnes(b)
  <2>1. ASSUME NEW x \in Range(E) PROVE x \in Range(L) \cup NewOnes(b)
    <3>1. PICK j \in 1 .. m + n : x = E[j]
      BY <1>6 DEF Range
    <3>2. CASE j <= m
      BY <1>3, <1>7, <3>1, <3>2
    <3>3. CASE j > m
      BY <1>1, <1>3, <3>1, <3>3, ZenonT(30) DEF Range
    <3> QED
      BY <1>1, <3>2, <3>3
  <2>2. ASSUME NEW x \in Range(L) PROVE x \in Range(E)
    <3>1. PICK i \in 1 .. n : x = L[i]
      BY <1>1 DEF Range
    <3> QED
      BY <1>3, <1>6, <3>1 DEF Range
  <2>3. ASSUME NEW x \in NewOnes(b) PROVE x \in Range(E)
    <3>1. PICK i \in 1 .. m : x = <<b, i>>
      BY <1>7
    <3> QED
      BY <1>3, <1>6, <3>1 DEF Range
  <2> QED
    BY <2>1, <2>2, <2>3
<1> QED
  BY <1>6, <1>8, <1>9 DEF E, n, m

-----------------------------------------------------------------------------
(* The free list, step by step *)

\* It is known by its links.
LEMMA FreeListIs ==
  ASSUME NEW L, Chain(L, head', next')
  PROVE  FreeList' = L /\ On' = Range(L) /\ Chain(FreeList, head, next)'
<1>1. ListFrom(head', next') = L
  BY ListFromIs
<1>2. FreeList' = L
  BY <1>1 DEF FreeList
<1>3. On' = Range(FreeList')
  BY DEF On
<1>4. Chain(FreeList, head, next)' <=> Chain(FreeList', head', next')
  BY DEF Chain
<1> QED
  BY <1>2, <1>3, <1>4

\* ... and stays while they do.
LEMMA SameFreeList ==
  ASSUME UNCHANGED <<head, next>>
  PROVE  FreeList' = FreeList /\ On' = On
BY DEF FreeList, On

\* What the free list and its links are.
LEMMA FreeListFacts ==
  ASSUME ListInv
  PROVE  /\ FreeList \in Seq(Slices) /\ IsInjective(FreeList) /\ On \subseteq Slices
         /\ Len(FreeList) \in Nat /\ DOMAIN FreeList = 1 .. Len(FreeList)
         /\ (FreeList = <<>> <=> Len(FreeList) = 0)
         /\ \A i \in 1 .. Len(FreeList) : FreeList[i] \in On /\ FreeList[i] # None
         /\ \A i, j \in 1 .. Len(FreeList) : FreeList[i] = FreeList[j] => i = j
         /\ \A s : s \in On <=> \E i \in 1 .. Len(FreeList) : s = FreeList[i]
         /\ head = IF Len(FreeList) = 0 THEN None ELSE FreeList[1]
         /\ \A i \in 1 .. Len(FreeList) :
              next[FreeList[i]] = IF i < Len(FreeList) THEN FreeList[i + 1] ELSE None
         /\ \A i \in 1 .. Len(FreeList) : i > 1 => prev[FreeList[i]] = FreeList[i - 1]
<1>1. FreeList \in Seq(Slices) /\ IsInjective(FreeList)
  BY DEF ListInv, Chain
<1>2. /\ Len(FreeList) \in Nat /\ DOMAIN FreeList = 1 .. Len(FreeList)
      /\ (FreeList = <<>> <=> Len(FreeList) = 0)
      /\ \A i \in 1 .. Len(FreeList) : FreeList[i] \in Slices /\ FreeList[i] # None
      /\ On \subseteq Slices
      /\ \A s : s \in On <=> \E i \in 1 .. Len(FreeList) : s = FreeList[i]
  BY <1>1, ListFacts DEF On
<1>3. \A i, j \in 1 .. Len(FreeList) : FreeList[i] = FreeList[j] => i = j
  BY <1>1, <1>2 DEF IsInjective
<1>4. /\ head = IF Len(FreeList) = 0 THEN None ELSE FreeList[1]
      /\ \A i \in 1 .. Len(FreeList) :
           next[FreeList[i]] = IF i < Len(FreeList) THEN FreeList[i + 1] ELSE None
      /\ \A i \in 1 .. Len(FreeList) : i > 1 => prev[FreeList[i]] = FreeList[i - 1]
  BY <1>2 DEF ListInv, Chain
<1> QED
  BY <1>1, <1>2, <1>3, <1>4

\* Batches are not unmade.
LEMMA StillBorn ==
  ASSUME Types, NEW n \in [Batches -> Int], NEW b \in Batches, pages[b].state # "unborn"
  PROVE  PagesAfter(n)[b].state # "unborn"
<1>1. pages[b] \in CodePages
  BY TypeFacts
<1>2. \/ PagesAfter(n)[b] = pages[b] \/ PagesAfter(n)[b].state = "freed"
      \/ PagesAfter(n)[b].state = pages[b].state
  BY <1>1 DEF PagesAfter, CodePages
<1> QED
  BY <1>2

\* Steps that neither move slices nor change links.
LEMMA SameListInv ==
  ASSUME ListInv, UNCHANGED <<head, next, prev, platform>>, alive' => alive,
         \A t \in Threads : step[t].at # "publish" /\ step'[t].at # "publish"
  PROVE  ListInv'
<1>1. FreeList' = FreeList /\ On' = On
  BY SameFreeList
<1>2. Chain(FreeList, head, next)'
  BY <1>1 DEF ListInv, Chain
<1> QED
  BY <1>1, <1>2 DEF ListInv

\* The list, the users and the steps survive each step.
LEMMA LockSlices ==
  ASSUME SlicesInv, NEW t \in Threads, Undisturbed(t), Lock(t) \/ Unlock(t)
  PROVE  SlicesInv'
<1>1. /\ UNCHANGED <<head, next, prev, platform, alive, step, users, pages>>
      /\ \A u \in Threads : step[u].at = "none"
  BY DEF Lock, Unlock, Undisturbed
<1>2. ListInv'
  BY <1>1, SameListInv DEF SlicesInv
<1>3. On' = On
  BY <1>1, SameFreeList
<1>4. UserInv' /\ StepInv'
  BY <1>1, <1>3 DEF SlicesInv, UserInv, StepInv
<1> QED
  BY <1>2, <1>4 DEF SlicesInv

\* A slice picked is on the list until it is unlinked ...
LEMMA TakeSlices ==
  ASSUME Types, SlicesInv, NEW t \in Threads, Undisturbed(t), NEW r \in Request,
         TryAllocSliceNear(t, r)
  PROVE  SlicesInv'
<1>1. PICK i \in DOMAIN FreeList :
        step' = [step EXCEPT ![t] = [at |-> "unlink", slice |-> FreeList[i], request |-> r]]
  BY DEF TryAllocSliceNear
<1>2. /\ UNCHANGED <<head, next, prev, platform, alive, users, pages, owner>>
      /\ owner = t /\ step[t].at = "none" /\ \A u \in Threads : u # t => step[u].at = "none"
  BY DEF TryAllocSliceNear, Undisturbed
<1>3. /\ step'[t] = [at |-> "unlink", slice |-> FreeList[i], request |-> r]
      /\ \A u \in Threads : u # t => step'[u] = step[u]
  BY <1>1, TypeFacts
<1>4. ListInv'
  BY <1>2, <1>3, SameListInv DEF SlicesInv
<1>5. On' = On
  BY <1>2, SameFreeList
<1>6. FreeList[i] \in On /\ FreeList[i] \in Slices
  BY FreeListFacts DEF SlicesInv
<1>7. UserInv'
  BY <1>2, <1>5 DEF SlicesInv, UserInv
<1>8. pages[FreeList[i][1]].state # "unborn"
  BY <1>6 DEF SlicesInv, UserInv
<1>9. StepInv'
  BY <1>2, <1>3, <1>5, <1>6, <1>8 DEF StepInv
<1> QED
  BY <1>4, <1>7, <1>9 DEF SlicesInv

\* Taking a slice off the list leaves a list.
LEMMA UnlinkList ==
  ASSUME Types, SlicesInv, NEW t \in Threads, Undisturbed(t), Unlink(t)
  PROVE  /\ ListInv' /\ On' = On \ {step[t].slice}
         /\ Len(FreeList') = Len(FreeList) - 1
<1> DEFINE L == FreeList
           s == step[t].slice
           n == Len(L)
<1>1. /\ L \in Seq(Slices) /\ IsInjective(L) /\ n \in Nat /\ DOMAIN L = 1 .. n
      /\ \A i \in 1 .. n : L[i] \in Slices /\ L[i] # None /\ L[i] \in On
      /\ \A i, j \in 1 .. n : L[i] = L[j] => i = j
      /\ head = IF n = 0 THEN None ELSE L[1]
      /\ \A i \in 1 .. n : next[L[i]] = IF i < n THEN L[i + 1] ELSE None
      /\ \A i \in 1 .. n : i > 1 => prev[L[i]] = L[i - 1]
  BY FreeListFacts DEF SlicesInv
<1>2. /\ step[t].at = "unlink" /\ \A u \in Threads : u # t => step[u].at = "none"
      /\ next' = [x \in Slices |->
                IF x = s THEN None ELSE IF x = prev[s] THEN next[s] ELSE next[x]]
      /\ prev' = [x \in Slices |->
                IF x = s THEN None ELSE IF x = next[s] THEN prev[s] ELSE prev[x]]
      /\ head' = IF s = head THEN next[s] ELSE head
      /\ UNCHANGED <<platform, alive>>
  BY DEF Unlink, Undisturbed, HeadWithout
<1>3. PICK k \in 1 .. n : L[k] = s
  <2>1. s \in On
    BY <1>2 DEF SlicesInv, StepInv
  <2> QED
    BY <2>1, FreeListFacts DEF SlicesInv
<1>4. step'[t] = NoStep /\ \A u \in Threads : step'[u].at = "none"
  BY <1>2, TypeFacts DEF Unlink, NoStep
<1>5. n # 0 => prev[L[1]] = None
  BY <1>1, <1>2 DEF SlicesInv, ListInv
<1> DEFINE W == Without(L, k)
<1>6. /\ W \in Seq(Slices) /\ IsInjective(W) /\ Len(W) = n - 1 /\ DOMAIN W = 1 .. n - 1
      /\ Range(W) = Range(L) \ {s}
  <2>1. L \in Seq(Slices) /\ IsInjective(L) /\ k \in DOMAIN L
    BY <1>1, <1>3
  <2>2. /\ W \in Seq(Slices) /\ IsInjective(W) /\ Len(W) = Len(L) - 1
        /\ DOMAIN W = 1 .. Len(L) - 1 /\ Range(W) = Range(L) \ {L[k]}
    <3>. HIDE DEF L
    <3> QED
      BY <2>1, WithoutList
  <2> QED
    BY <1>3, <2>2
<1>7. \A j \in 1 .. n - 1 : W[j] = IF j < k THEN L[j] ELSE L[j + 1]
  BY DEF Without
<1>8. W = <<>> <=> n = 1
  BY <1>1, <1>3, <1>6, ListFacts
<1>9. s \in Slices /\ s # None
  BY <1>1, <1>3
<1>. HIDE DEF W, L, n, s
<1>10. head' = IF W = <<>> THEN None ELSE W[1]
  <2>1. CASE k = 1
    <3>1. s = head /\ next[s] = IF 1 < n THEN L[2] ELSE None
      BY <1>1, <1>3, <2>1
    <3>2. 1 < n => 1 \in 1 .. n - 1 /\ W[1] = L[2]
      BY <1>1, <1>7, <2>1
    <3> QED
      BY <1>1, <1>2, <1>3, <1>8, <3>1, <3>2
  <2>2. CASE k # 1
    <3>1. s # head /\ head = L[1] /\ 1 \in 1 .. n - 1 /\ n # 1
      BY <1>1, <1>3, <2>2
    <3>2. W[1] = L[1]
      BY <1>7, <1>3, <2>2, <3>1
    <3> QED
      BY <1>2, <1>8, <3>1, <3>2
  <2> QED
    BY <2>1, <2>2
<1>11. ASSUME NEW j \in 1 .. n - 1
       PROVE  next'[W[j]] = IF j < n - 1 THEN W[j + 1] ELSE None
  <2>1. CASE j < k
    <3>1. W[j] = L[j] /\ j \in 1 .. n /\ W[j] \in Slices /\ L[j] # s
      BY <1>1, <1>3, <1>7, <2>1
    <3>2. CASE j = k - 1
      <4>1. prev[s] = L[j] /\ next[s] = IF k < n THEN L[k + 1] ELSE None
        BY <1>1, <1>3, <3>2
      <4>2. next'[W[j]] = next[s]
        BY <1>2, <3>1, <4>1
      <4>3. j < n - 1 => W[j + 1] = L[k + 1] /\ k < n
        BY <1>1, <1>3, <1>7, <3>2
      <4> QED
        BY <1>1, <1>3, <3>2, <4>1, <4>2, <4>3
    <3>3. CASE j # k - 1
      <4>1. L[j] # prev[s]
        <5>1. k > 1 /\ prev[s] = L[k - 1] /\ k - 1 \in 1 .. n
          BY <1>1, <1>3, <2>1
        <5> QED
          BY <1>1, <3>1, <3>3, <5>1
      <4>2. next'[W[j]] = next[L[j]]
        BY <1>2, <3>1, <4>1
      <4>3. j < n - 1 /\ j < n /\ j + 1 \in 1 .. n - 1 /\ j + 1 < k
        BY <1>1, <1>3, <2>1, <3>3
      <4>4. W[j + 1] = L[j + 1]
        BY <1>7, <4>3
      <4> QED
        BY <1>1, <3>1, <4>2, <4>3, <4>4
    <3> QED
      BY <3>2, <3>3
  <2>2. CASE ~(j < k)
    <3>1. W[j] = L[j + 1] /\ j + 1 \in 1 .. n /\ L[j + 1] \in Slices /\ L[j + 1] # s
      BY <1>1, <1>3, <1>7, <2>2
    <3>2. L[j + 1] # prev[s]
      <4>1. CASE k = 1
        BY <1>1, <1>3, <1>5, <3>1, <4>1
      <4>2. CASE k # 1
        <5>1. prev[s] = L[k - 1] /\ k - 1 \in 1 .. n
          BY <1>1, <1>3, <4>2
        <5>2. k - 1 # j + 1
          BY <1>1, <1>3, <2>2
        <5> QED
          BY <1>1, <3>1, <5>1, <5>2
      <4> QED
        BY <4>1, <4>2
    <3>3. next'[W[j]] = next[L[j + 1]]
      BY <1>2, <3>1, <3>2
    <3>4. next[L[j + 1]] = IF j + 1 < n THEN L[(j + 1) + 1] ELSE None
      BY <1>1, <3>1
    <3>5. j < n - 1 => j + 1 < n /\ W[j + 1] = L[(j + 1) + 1]
      BY <1>1, <1>3, <1>7, <2>2
    <3>6. j + 1 < n => j < n - 1
      BY <1>1
    <3> QED
      BY <3>3, <3>4, <3>5, <3>6
  <2> QED
    BY <2>1, <2>2
<1>12. ASSUME NEW j \in 1 .. n - 1, j > 1
       PROVE  prev'[W[j]] = W[j - 1]
  <2>0. k \in Nat /\ n \in Nat /\ j \in Nat /\ j - 1 \in 1 .. n - 1
    BY <1>1, <1>12
  <2>1. CASE j < k
    <3>1. W[j] = L[j] /\ W[j - 1] = L[j - 1] /\ j \in 1 .. n /\ L[j] \in Slices /\ L[j] # s
      BY <1>1, <1>3, <1>7, <2>0, <2>1
    <3>2. L[j] # next[s]
      <4>1. next[s] = IF k < n THEN L[k + 1] ELSE None
        BY <1>1, <1>3
      <4>2. k < n => k + 1 \in 1 .. n /\ k + 1 # j
        BY <2>0, <2>1
      <4> QED
        BY <1>1, <3>1, <4>1, <4>2
    <3>3. prev'[W[j]] = prev[L[j]]
      BY <1>2, <3>1, <3>2
    <3> QED
      BY <1>1, <1>12, <3>1, <3>3
  <2>2. CASE j = k
    <3>1. W[j] = L[k + 1] /\ W[j - 1] = L[k - 1] /\ k + 1 \in 1 .. n /\ k < n /\ k > 1
      BY <1>7, <1>12, <2>0, <2>2
    <3>2. L[k + 1] \in Slices /\ L[k + 1] # s
      BY <1>1, <1>3, <2>0, <3>1
    <3>3. next[s] = L[k + 1] /\ prev[s] = L[k - 1]
      BY <1>1, <1>3, <3>1
    <3> QED
      BY <1>2, <3>1, <3>2, <3>3
  <2>3. CASE j > k
    <3>1. W[j] = L[j + 1] /\ j + 1 \in 1 .. n /\ ~(j < k) /\ ~(j - 1 < k)
      BY <1>7, <2>0, <2>3
    <3>2. W[j - 1] = L[j]
      <4>1. W[j - 1] = L[(j - 1) + 1] /\ (j - 1) + 1 = j
        BY <1>7, <2>0, <3>1
      <4> QED
        BY <4>1
    <3>3. L[j + 1] \in Slices /\ L[j + 1] # s
      BY <1>1, <1>3, <2>0, <2>3, <3>1
    <3>4. L[j + 1] # next[s]
      <4>1. next[s] = IF k < n THEN L[k + 1] ELSE None
        BY <1>1, <1>3
      <4>2. k < n => k + 1 \in 1 .. n /\ k + 1 # j + 1
        BY <2>0, <2>3
      <4> QED
        BY <1>1, <3>1, <4>1, <4>2
    <3>5. prev'[W[j]] = prev[L[j + 1]]
      BY <1>2, <3>1, <3>3, <3>4
    <3>6. prev[L[j + 1]] = L[(j + 1) - 1] /\ (j + 1) - 1 = j
      BY <1>1, <1>12, <2>0, <3>1
    <3> QED
      BY <3>2, <3>5, <3>6
  <2> QED
    BY <2>0, <2>1, <2>2, <2>3
<1>13. n # 1 => prev'[W[1]] = None
  <2>1. SUFFICES ASSUME n # 1 PROVE prev'[W[1]] = None
    OBVIOUS
  <2>2. 1 \in 1 .. n - 1 /\ n # 0 /\ n > 1
    BY <1>1, <1>3, <2>1
  <2>3. next[s] = IF k < n THEN L[k + 1] ELSE None
    BY <1>1, <1>3
  <2>4. CASE k = 1
    <3>0. 2 \in 1 .. n /\ ~(1 < k) /\ k < n /\ k + 1 = 2
      BY <1>1, <2>2, <2>4
    <3>1. W[1] = L[2] /\ 2 \in 1 .. n /\ next[s] = L[2] /\ prev[s] = None
      <4>1. W[1] = L[1 + 1]
        BY <1>7, <2>2, <3>0
      <4> QED
        BY <1>3, <1>5, <2>2, <2>3, <2>4, <3>0, <4>1
    <3>2. L[2] \in Slices /\ L[2] # s
      BY <1>1, <1>3, <2>4, <3>1
    <3> QED
      BY <1>2, <3>1, <3>2
  <2>5. CASE k # 1
    <3>1. W[1] = L[1] /\ 1 \in 1 .. n
      <4>1. 1 < k /\ 1 \in 1 .. n
        BY <1>1, <1>3, <2>5
      <4> QED
        BY <1>7, <2>2, <4>1
    <3>2. L[1] \in Slices /\ L[1] # s
      BY <1>1, <1>3, <2>5, <3>1
    <3>3. L[1] # next[s]
      <4>1. k < n => k + 1 \in 1 .. n /\ k + 1 # 1
        BY <1>1, <1>3
      <4> QED
        BY <1>1, <2>3, <3>1, <4>1
    <3> QED
      BY <1>2, <1>5, <2>2, <3>1, <3>2, <3>3
  <2> QED
    BY <2>4, <2>5
<1>14. Chain(W, head', next')
  BY <1>6, <1>10, <1>11 DEF Chain
<1>15. FreeList' = W /\ On' = Range(W) /\ Chain(FreeList, head, next)'
  BY <1>14, FreeListIs
<1>16. On' = On \ {s}
  BY <1>6, <1>15 DEF On, L
<1>17. platform'.rwx /\ alive' => \A x \in Slices \ On' : prev'[x] = None
  <2>1. SUFFICES ASSUME platform.rwx, alive, NEW x \in Slices, x \notin On' PROVE prev'[x] = None
    BY <1>2
  <2>2. CASE x = s
    BY <1>2, <2>2
  <2>3. CASE x # s
    <3>1. x \notin On
      BY <1>16, <2>1, <2>3
    <3>2. prev[x] = None
      BY <2>1, <3>1 DEF SlicesInv, ListInv
    <3>3. x # next[s]
      <4>1. next[s] = IF k < n THEN L[k + 1] ELSE None
        BY <1>1, <1>3
      <4>2. k < n => L[k + 1] \in On
        BY <1>1
      <4>3. x # None
        BY TypeFacts
      <4> QED
        BY <3>1, <4>1, <4>2, <4>3
    <3> QED
      BY <1>2, <2>3, <3>2, <3>3
  <2> QED
    BY <2>2, <2>3
<1>18. \A i \in DOMAIN FreeList' : i > 1 => prev'[FreeList'[i]] = FreeList'[i - 1]
  BY <1>6, <1>12, <1>15
<1>19. FreeList' # <<>> => prev'[FreeList'[1]] = None
  BY <1>8, <1>13, <1>15
<1>20. ListInv'
  BY <1>4, <1>15, <1>17, <1>18, <1>19 DEF ListInv
<1> QED
  BY <1>6, <1>15, <1>16, <1>20 DEF L, n, s


\* ... and in use from then on.
LEMMA UnlinkSlices ==
  ASSUME Types, SlicesInv, NEW t \in Threads, Undisturbed(t), Unlink(t)
  PROVE  SlicesInv'
<1> DEFINE s == step[t].slice
<1>1. ListInv' /\ On' = On \ {s}
  BY UnlinkList
<1>2. s \in On /\ s \in Slices /\ users[s] = <<>> /\ pages[s[1]].state # "unborn"
  BY DEF Unlink, SlicesInv, StepInv, UserInv
<1>3. step'[t] = NoStep /\ \A u \in Threads : step'[u].at = "none"
  BY TypeFacts DEF Unlink, NoStep, Undisturbed
<1>4. users' = [users EXCEPT ![s] = Append(@, step[t].request)] /\ pages' = pages
  BY DEF Unlink
<1>. HIDE DEF s
<1>5. Len(users'[s]) = 1 /\ \A x \in Slices : x # s => users'[x] = users[x]
  <2>1. step[t].request \in Request
    BY TypeFacts DEF Steps
  <2>2. Append(<<>>, step[t].request) \in Seq(Request) /\ Len(Append(<<>>, step[t].request)) = 1
    BY <2>1, EmptySeq, AppendProperties
  <2>3. users'[s] = Append(<<>>, step[t].request)
    BY <1>2, <1>4, TypeFacts
  <2> QED
    BY <1>4, <2>2, <2>3, TypeFacts
<1>6. UserInv'
  BY <1>1, <1>2, <1>4, <1>5 DEF SlicesInv, UserInv
<1>7. StepInv'
  BY <1>3 DEF StepInv
<1> QED
  BY <1>1, <1>6, <1>7 DEF SlicesInv

\* What is not there yet is not on the list and not in use.
LEMMA UnbornIsUnused ==
  ASSUME Types, SlicesInv, NEW b \in Batches, pages[b].state = "unborn"
  PROVE  \A s \in Slices : s[1] = b => s \notin On /\ users[s] = <<>>
BY DEF SlicesInv, UserInv

\* A batch mapped leaves a list, with its slices but the first.
LEMMA MapList ==
  ASSUME Types, SlicesInv, NEW t \in Threads, Undisturbed(t), step[t].at = "none",
         NEW r \in Request, NEW b \in Batches, NEW base \in Bases, MapBatch(b, base, r),
         UNCHANGED <<platform, owner, failed, step, alive>>
  PROVE  ListInv' /\ On' = On \cup NewOnes(b)
<1> DEFINE L == FreeList
           n == Len(L)
           m == SlicesPerBatch - 1
           E == Extended(L, b)
<1>1. /\ L \in Seq(Slices) /\ IsInjective(L) /\ n \in Nat /\ DOMAIN L = 1 .. n
      /\ \A i \in 1 .. n : L[i] \in Slices /\ L[i] # None /\ L[i] \in On
      /\ \A i, j \in 1 .. n : L[i] = L[j] => i = j
      /\ head = IF n = 0 THEN None ELSE L[1]
      /\ \A i \in 1 .. n : next[L[i]] = IF i < n THEN L[i + 1] ELSE None
      /\ \A i \in 1 .. n : i > 1 => prev[L[i]] = L[i - 1]
      /\ (head # None => head \in On)
  BY FreeListFacts DEF SlicesInv
<1>2. /\ pages[b].state = "unborn"
      /\ \A x \in Slices : next'[x] = IF x[1] # b THEN next[x]
                                      ELSE IF x[2] = 0 THEN None
                                      ELSE IF x[2] < m THEN <<b, x[2] + 1>> ELSE head
      /\ \A x \in Slices : prev'[x] =
               IF x[1] = b
               THEN IF x[2] > 1 THEN <<b, x[2] - 1>> ELSE None
               ELSE IF x = head /\ SlicesPerBatch > 1 THEN <<b, m>> ELSE prev[x]
      /\ head' = IF SlicesPerBatch > 1 THEN <<b, 1>> ELSE head
      /\ UNCHANGED <<platform, alive, step>>
      /\ \A u \in Threads : step[u].at = "none"
  BY DEF MapBatch, Chained, Undisturbed
<1>3. \A x \in On : x[1] # b /\ x \in Slices
  <2>1. On \subseteq Slices
    BY FreeListFacts DEF SlicesInv
  <2> QED
    BY <1>2, <2>1, UnbornIsUnused
<1>4. m \in Nat /\ SlicesPerBatch = m + 1 /\ \A i \in 1 .. m : <<b, i>> \in Slices
  <2>1. m \in Nat /\ SlicesPerBatch = m + 1
    BY TypeFacts
  <2>2. \A i \in 1 .. m : i \in 0 .. SlicesPerBatch - 1
    BY <2>1
  <2> QED
    BY <2>1, <2>2, TypeFacts
<1>5. /\ E \in Seq(Slices) /\ IsInjective(E) /\ Len(E) = m + n /\ DOMAIN E = 1 .. m + n
      /\ Range(E) = Range(L) \cup NewOnes(b)
  <2>1. \A x \in Range(L) : x[1] # b
    BY <1>3 DEF On
  <2>2. /\ Extended(L, b) \in Seq(Slices) /\ IsInjective(Extended(L, b))
        /\ Len(Extended(L, b)) = (SlicesPerBatch - 1) + Len(L)
        /\ DOMAIN Extended(L, b) = 1 .. (SlicesPerBatch - 1) + Len(L)
        /\ Range(Extended(L, b)) = Range(L) \cup NewOnes(b)
    <3>. HIDE DEF L
    <3> QED
      BY <1>1, <2>1, ExtendedList
  <2> QED
    BY <2>2
<1>6. \A j \in 1 .. m + n :
        /\ j <= m => E[j] = <<b, j>> /\ j \in 1 .. m
        /\ j > m => E[j] = L[j - m] /\ j - m \in 1 .. n
  BY <1>1, <1>4 DEF Extended
<1>7. (E = <<>> <=> m + n = 0) /\ m + n \in Nat
  BY <1>1, <1>4, <1>5, ListFacts
<1>8. n # 0 => prev[L[1]] = None
  BY <1>1, <1>2 DEF SlicesInv, ListInv
<1>8a. NewOnes(b) = {<<b, i>> : i \in 1 .. m}
  BY DEF NewOnes
<1>. HIDE DEF L, n, m, E
<1>9. head' = IF E = <<>> THEN None ELSE E[1]
  <2>1. CASE m = 0
    <3>1. n # 0 => 1 \in 1 .. m + n /\ E[1] = L[1]
      BY <1>1, <1>6, <2>1
    <3> QED
      BY <1>1, <1>2, <1>4, <1>7, <2>1, <3>1
  <2>2. CASE m # 0
    <3>1. 1 \in 1 .. m + n /\ E[1] = <<b, 1>> /\ SlicesPerBatch > 1 /\ m + n # 0
      BY <1>1, <1>4, <1>6, <2>2
    <3> QED
      BY <1>2, <1>7, <3>1
  <2> QED
    BY <2>1, <2>2
<1>10. ASSUME NEW j \in 1 .. m + n
       PROVE  next'[E[j]] = IF j < m + n THEN E[j + 1] ELSE None
  <2>1. CASE j < m
    <3>1. E[j] = <<b, j>> /\ E[j + 1] = <<b, j + 1>> /\ <<b, j>> \in Slices /\ j # 0
      BY <1>1, <1>4, <1>6, <2>1
    <3>2. next'[<<b, j>>] = <<b, j + 1>>
      BY <1>2, <2>1, <3>1
    <3> QED
      BY <1>1, <1>4, <2>1, <3>1, <3>2
  <2>2. CASE j = m
    <3>1. E[j] = <<b, m>> /\ <<b, m>> \in Slices /\ m # 0 /\ ~(m < m)
      BY <1>1, <1>4, <1>6, <2>2
    <3>2. next'[<<b, m>>] = head
      BY <1>2, <3>1
    <3>3. n # 0 => j + 1 \in 1 .. m + n /\ E[j + 1] = L[1] /\ j < m + n
      <4>1. n # 0 => j + 1 \in 1 .. m + n /\ j + 1 > m /\ (j + 1) - m = 1
        BY <1>1, <1>4, <2>2
      <4> QED
        BY <1>1, <1>4, <1>6, <2>2, <4>1
    <3> QED
      BY <1>1, <1>4, <2>2, <3>1, <3>2, <3>3
  <2>3. CASE j > m
    <3>1. E[j] = L[j - m] /\ j - m \in 1 .. n /\ L[j - m] \in Slices /\ L[j - m][1] # b
      BY <1>1, <1>3, <1>6, <2>3
    <3>2. next'[E[j]] = next[L[j - m]]
      BY <1>2, <3>1
    <3>3. next[L[j - m]] = IF j - m < n THEN L[(j - m) + 1] ELSE None
      BY <1>1, <3>1
    <3>4. /\ j - m < n <=> j < m + n
          /\ j < m + n => j + 1 \in 1 .. m + n /\ j + 1 > m /\ (j + 1) - m = (j - m) + 1
      BY <1>1, <1>4, <2>3
    <3>5. j < m + n => E[j + 1] = L[(j - m) + 1]
      BY <1>6, <3>4
    <3> QED
      BY <3>2, <3>3, <3>4, <3>5
  <2> QED
    BY <1>1, <1>4, <2>1, <2>2, <2>3
<1>11. ASSUME NEW j \in 1 .. m + n, j > 1
       PROVE  prev'[E[j]] = E[j - 1]
  <2>1. CASE j <= m
    <3>1. E[j] = <<b, j>> /\ E[j - 1] = <<b, j - 1>> /\ <<b, j>> \in Slices
      BY <1>1, <1>4, <1>6, <1>11, <2>1
    <3> QED
      BY <1>2, <1>11, <3>1
  <2>2. CASE j > m
    <3>1. E[j] = L[j - m] /\ j - m \in 1 .. n /\ L[j - m] \in Slices /\ L[j - m][1] # b
      BY <1>1, <1>3, <1>6, <2>2
    <3>2. CASE j = m + 1
      <4>1. m \in 1 .. m + n /\ m <= m /\ SlicesPerBatch > 1 /\ j - m = 1 /\ j - 1 = m /\ n # 0
        BY <1>1, <1>4, <1>11, <3>1, <3>2
      <4>2. E[m] = <<b, m>> /\ E[j] = head
        BY <1>1, <1>6, <3>1, <4>1
      <4> QED
        BY <1>2, <3>1, <4>1, <4>2
    <3>3. CASE j # m + 1
      <4>1. /\ j - m > 1 /\ n # 0 /\ 1 \in 1 .. n /\ j - 1 \in 1 .. m + n
            /\ j - 1 > m /\ (j - 1) - m = (j - m) - 1
        BY <1>1, <1>4, <2>2, <3>1, <3>3
      <4>2. L[j - m] # head
        BY <1>1, <3>1, <4>1
      <4>3. prev'[E[j]] = prev[L[j - m]]
        BY <1>2, <3>1, <4>2
      <4>4. prev[L[j - m]] = L[(j - m) - 1]
        BY <1>1, <3>1, <4>1
      <4>5. E[j - 1] = L[(j - m) - 1]
        BY <1>6, <4>1
      <4> QED
        BY <4>3, <4>4, <4>5
    <3> QED
      BY <3>2, <3>3
  <2> QED
    BY <1>1, <1>4, <2>1, <2>2
<1>12. m + n # 0 => prev'[E[1]] = None
  <2>1. CASE m # 0
    <3>1. 1 \in 1 .. m + n /\ E[1] = <<b, 1>> /\ <<b, 1>> \in Slices
      BY <1>1, <1>4, <1>6, <2>1
    <3>2. <<b, 1>>[1] = b /\ ~(<<b, 1>>[2] > 1)
      OBVIOUS
    <3>3. prev'[<<b, 1>>] = None
      BY <1>2, <3>1, <3>2
    <3> QED
      BY <3>1, <3>3
  <2>2. CASE m = 0 /\ n # 0
    <3>1. 1 \in 1 .. m + n /\ 1 > m /\ 1 - m = 1 /\ ~(SlicesPerBatch > 1) /\ 1 \in 1 .. n
      BY <1>1, <1>4, <2>2
    <3>2. E[1] = L[1] /\ L[1] \in Slices /\ L[1][1] # b
      BY <1>1, <1>3, <1>6, <3>1
    <3> QED
      BY <1>2, <1>8, <2>2, <3>1, <3>2
  <2> QED
    BY <1>1, <1>4, <2>1, <2>2
<1>13. Chain(E, head', next')
  BY <1>5, <1>9, <1>10 DEF Chain
<1>14. FreeList' = E /\ On' = Range(E) /\ Chain(FreeList, head, next)'
  BY <1>13, FreeListIs
<1>15. On' = On \cup NewOnes(b)
  BY <1>5, <1>14 DEF On, L
<1>16. platform'.rwx /\ alive' => \A x \in Slices \ On' : prev'[x] = None
  <2>1. SUFFICES ASSUME platform.rwx, alive, NEW x \in Slices, x \notin On' PROVE prev'[x] = None
    BY <1>2
  <2>2. x \notin On /\ x \notin NewOnes(b) /\ prev[x] = None
    BY <1>15, <2>1 DEF SlicesInv, ListInv
  <2>3. CASE x[1] = b
    <3>1. x = <<b, x[2]>> /\ x[2] \in 0 .. m
      BY <2>3, TypeFacts DEF m
    <3>2. x[2] \notin 1 .. m
      BY <1>8a, <2>2, <3>1
    <3>3. ~(x[2] > 1)
      BY <1>4, <3>1, <3>2
    <3> QED
      BY <1>2, <2>3, <3>3
  <2>4. CASE x[1] # b
    <3>1. x # head
      BY <1>1, <2>2, TypeFacts
    <3> QED
      BY <1>2, <2>2, <2>4, <3>1
  <2> QED
    BY <2>3, <2>4
<1>17. \A i \in DOMAIN FreeList' : i > 1 => prev'[FreeList'[i]] = FreeList'[i - 1]
  BY <1>5, <1>11, <1>14
<1>18. FreeList' # <<>> => prev'[FreeList'[1]] = None
  BY <1>7, <1>12, <1>14
<1>19. ListInv'
  BY <1>2, <1>14, <1>16, <1>17, <1>18 DEF ListInv
<1> QED
  BY <1>15, <1>19

\* The slices of a batch mapped are free but the first.
LEMMA MapSlices ==
  ASSUME Types, SlicesInv, NEW t \in Threads, Undisturbed(t), step[t].at = "none",
         NEW r \in Request, NEW b \in Batches, NEW base \in Bases, MapBatch(b, base, r),
         UNCHANGED <<platform, owner, failed, step, alive>>
  PROVE  SlicesInv'
<1>1. ListInv' /\ On' = On \cup NewOnes(b)
  BY MapList
<1>2. /\ pages[b].state = "unborn" /\ pages'[b].state = "live"
      /\ \A c \in Batches : c # b => pages'[c] = pages[c]
  BY TypeFacts DEF MapBatch
<1>3. <<b, 0>> \in Slices /\ users[<<b, 0>>] = <<>>
  <2>1. <<b, 0>> \in Slices
    <3>1. 0 \in 0 .. SlicesPerBatch - 1
      BY TypeFacts
    <3> QED
      BY <3>1, TypeFacts
  <2> QED
    BY <1>2, <2>1, UnbornIsUnused
<1>4. Len(users'[<<b, 0>>]) = 1 /\ \A x \in Slices : x # <<b, 0>> => users'[x] = users[x]
  <2>1. users' = [users EXCEPT ![<<b, 0>>] = Append(@, r)]
    BY DEF MapBatch
  <2>2. Append(<<>>, r) \in Seq(Request) /\ Len(Append(<<>>, r)) = 1
    BY EmptySeq, AppendProperties
  <2>3. users'[<<b, 0>>] = Append(<<>>, r)
    BY <1>3, <2>1, TypeFacts
  <2> QED
    BY <2>1, <2>2, <2>3, TypeFacts
<1>5. ASSUME NEW x \in Slices, x \in On'
      PROVE  users'[x] = <<>> /\ pages'[x[1]].state # "unborn"
  <2>1. CASE x \in On
    <3>1. users[x] = <<>> /\ pages[x[1]].state # "unborn"
      BY <2>1 DEF SlicesInv, UserInv
    <3>2. x[1] # b /\ x[1] \in Batches /\ x # <<b, 0>>
      BY <1>2, <3>1, TypeFacts
    <3> QED
      BY <1>2, <1>4, <3>1, <3>2
  <2>2. CASE x \in NewOnes(b)
    <3>1. PICK i \in 1 .. SlicesPerBatch - 1 : x = <<b, i>>
      BY <2>2 DEF NewOnes
    <3>2. x[1] = b /\ x # <<b, 0>>
      BY <3>1, TypeFacts
    <3>3. users[x] = <<>>
      BY <1>2, <3>2, UnbornIsUnused
    <3> QED
      BY <1>2, <1>4, <3>2, <3>3
  <2> QED
    BY <1>1, <1>5, <2>1, <2>2
<1>6. ASSUME NEW x \in Slices, users'[x] # <<>>
      PROVE  pages'[x[1]].state # "unborn"
  <2>1. CASE x = <<b, 0>>
    BY <1>2, <2>1
  <2>2. CASE x # <<b, 0>>
    <3>1. users[x] # <<>>
      BY <1>4, <1>6, <2>2
    <3>2. pages[x[1]].state # "unborn" /\ x[1] \in Batches
      BY <3>1, TypeFacts DEF SlicesInv, UserInv
    <3> QED
      BY <1>2, <3>2
  <2> QED
    BY <2>1, <2>2
<1>7. \A x \in Slices : Len(users'[x]) <= 1
  BY <1>4 DEF SlicesInv, UserInv
<1>8. On' \subseteq Slices
  <2>1. ListInv'
    BY <1>1
  <2>2. ListInv' => (On \subseteq Slices)'
    BY FreeListFacts, PTL
  <2> QED
    BY <2>1, <2>2
<1>9. UserInv'
  BY <1>5, <1>6, <1>7, <1>8 DEF UserInv
<1>10. StepInv'
  <2>1. \A u \in Threads : step'[u].at = "none"
    BY DEF Undisturbed
  <2> QED
    BY <2>1 DEF StepInv
<1> QED
  BY <1>1, <1>9, <1>10 DEF SlicesInv

\* What giving a slice back does to its user and the step that follows.
LEMMA SliceUnrefFacts ==
  ASSUME Types, SlicesInv, NEW t \in Threads, Undisturbed(t), NEW s \in Slices, SliceUnref(t, s)
  PROVE  /\ users[s] # <<>> /\ s \notin On /\ users'[s] = <<>>
         /\ \A x \in Slices : x # s => users'[x] = users[x]
         /\ \A u \in Threads : step[u].at = "none" /\ (u # t => step'[u] = step[u])
         /\ \/ step' = step
            \/ platform.rwx /\ step'[t].at = "link" /\ step'[t].slice = s
         /\ \A b \in Batches : pages[b].state # "unborn" => pages'[b].state # "unborn"
         /\ UNCHANGED <<head, next, prev, platform, alive>>
<1>1. users[s] # <<>> /\ Len(users[s]) <= 1 /\ users[s] \in Seq(Request) /\ s \notin On
  BY TypeFacts DEF SliceUnref, SlicesInv, UserInv
<1>2. Tail(users[s]) = <<>>
  <2>0. Len(users[s]) \in Nat /\ Len(users[s]) # 0
    BY <1>1, LenProperties, EmptySeq
  <2>a. \A n \in Nat : n <= 1 /\ n # 0 => n = 1
    OBVIOUS
  <2>b. Len(users[s]) <= 1
    BY <1>1
  <2>1. Len(users[s]) = 1
    BY <2>0, <2>a, <2>b
  <2>2. Tail(users[s]) \in Seq(Request) /\ Len(Tail(users[s])) = Len(users[s]) - 1
    BY <1>1, HeadTailProperties
  <2>3. Len(Tail(users[s])) = 0
    BY <2>1, <2>2
  <2> QED
    BY <2>2, <2>3, EmptySeq
<1>3. users'[s] = <<>> /\ \A x \in Slices : x # s => users'[x] = users[x]
  <2>1. users' = [users EXCEPT ![s] = Tail(@)]
    BY DEF SliceUnref
  <2> QED
    BY <1>2, <2>1, TypeFacts
<1>4. \A u \in Threads : step[u].at = "none" /\ (u # t => step'[u] = step[u])
  BY TypeFacts DEF SliceUnref, Undisturbed
<1>5. \/ step' = step
      \/ platform.rwx /\ step'[t].at = "link" /\ step'[t].slice = s
  <2>1. \/ step' = step
        \/ platform.rwx /\ step' = [step EXCEPT ![t] = [NoStep EXCEPT !.at = "link", !.slice = s]]
    BY DEF SliceUnref
  <2>2. CASE platform.rwx /\ step' = [step EXCEPT ![t] = [NoStep EXCEPT !.at = "link", !.slice = s]]
    <3>1. step'[t] = [NoStep EXCEPT !.at = "link", !.slice = s]
      BY <2>2, TypeFacts
    <3> QED
      BY <2>2, <3>1 DEF NoStep
  <2> QED
    BY <2>1, <2>2
<1>6. \A b \in Batches : pages[b].state # "unborn" => pages'[b].state # "unborn"
  <2>1. OneOf(s[1]) \in [Batches -> Int]
    BY DEF OneOf
  <2>2. pages' = pages \/ pages' = PagesAfter(OneOf(s[1]))
    BY DEF SliceUnref
  <2>3. \A b \in Batches :
          pages[b].state # "unborn" => PagesAfter(OneOf(s[1]))[b].state # "unborn"
    BY <2>1, StillBorn
  <2> QED
    BY <2>2, <2>3
<1>7. UNCHANGED <<head, next, prev, platform, alive>>
  BY DEF SliceUnref
<1> QED
  BY <1>1, <1>3, <1>4, <1>5, <1>6, <1>7

\* A slice given back is neither free nor in use yet ...
LEMMA UnrefSlices ==
  ASSUME Types, SlicesInv, NEW t \in Threads, Undisturbed(t), NEW s \in Slices, SliceUnref(t, s)
  PROVE  SlicesInv'
<1>1. /\ users[s] # <<>> /\ s \notin On /\ users'[s] = <<>>
      /\ \A x \in Slices : x # s => users'[x] = users[x]
      /\ \A u \in Threads : step[u].at = "none" /\ (u # t => step'[u] = step[u])
      /\ \/ step' = step
         \/ platform.rwx /\ step'[t].at = "link" /\ step'[t].slice = s
      /\ \A b \in Batches : pages[b].state # "unborn" => pages'[b].state # "unborn"
      /\ UNCHANGED <<head, next, prev, platform, alive>>
  BY SliceUnrefFacts
<1>2. \A u \in Threads : step[u].at # "publish" /\ step'[u].at # "publish"
  BY <1>1
<1>3. ListInv'
  BY <1>1, <1>2, SameListInv DEF SlicesInv
<1>4. On' = On
  BY <1>1, SameFreeList
<1>5. \A x \in Slices : x[1] \in Batches
  BY TypeFacts
<1>6. UserInv'
  <2>1. \A x \in Slices : Len(users'[x]) <= 1
    <3>1. Len(<<>>) <= 1
      BY EmptySeq
    <3> QED
      BY <1>1, <3>1 DEF SlicesInv, UserInv
  <2>2. \A x \in On' : users'[x] = <<>>
    BY <1>1, <1>4, FreeListFacts DEF SlicesInv, UserInv
  <2>3. \A x \in Slices : x \in On' \/ users'[x] # <<>> => pages'[x[1]].state # "unborn"
    BY <1>1, <1>4, <1>5 DEF SlicesInv, UserInv
  <2> QED
    BY <2>1, <2>2, <2>3 DEF UserInv
<1>7. pages[s[1]].state # "unborn" /\ s[1] \in Batches
  BY <1>1, <1>5 DEF SlicesInv, UserInv
<1>8. StepInv'
  BY <1>1, <1>4, <1>7 DEF StepInv
<1> QED
  BY <1>3, <1>6, <1>8 DEF SlicesInv

\* ... when its link points to the list ...
LEMMA LinkSlices ==
  ASSUME Types, SlicesInv, NEW t \in Threads, Undisturbed(t), LinkSlice(t)
  PROVE  SlicesInv' /\ On' = On
<1> DEFINE s == step[t].slice
<1>1. /\ s \in Slices /\ pages[s[1]].state # "unborn" /\ platform.rwx /\ s \notin On
      /\ users[s] = <<>> /\ \A u \in Threads : u # t => step[u].at = "none"
  BY DEF LinkSlice, SlicesInv, StepInv, Undisturbed
<1>2. /\ step'[t].at = "publish" /\ step'[t].slice = s
      /\ \A u \in Threads : u # t => step'[u] = step[u]
  <2>1. step' = [step EXCEPT ![t].at = "publish"]
    BY DEF LinkSlice
  <2>2. step'[t] = [step[t] EXCEPT !.at = "publish"] /\ step[t] \in Steps
    BY <2>1, TypeFacts
  <2>3. \A u \in Threads : u # t => step'[u] = step[u]
    BY <2>1, TypeFacts
  <2> QED
    BY <2>2, <2>3 DEF Steps
<1>3. /\ prev' = IF head = None THEN prev ELSE [prev EXCEPT ![head] = s]
      /\ next' = [next EXCEPT ![s] = head]
      /\ UNCHANGED <<platform, owner, pages, head, users, alive>>
  BY DEF LinkSlice
<1>. HIDE DEF s
<1>4. /\ FreeList \in Seq(Slices) /\ IsInjective(FreeList) /\ On \subseteq Slices
      /\ Len(FreeList) \in Nat /\ DOMAIN FreeList = 1 .. Len(FreeList)
      /\ (FreeList = <<>> <=> Len(FreeList) = 0)
      /\ \A i \in 1 .. Len(FreeList) : FreeList[i] \in On /\ FreeList[i] # None
      /\ \A i, j \in 1 .. Len(FreeList) : FreeList[i] = FreeList[j] => i = j
      /\ \A x : x \in On <=> \E i \in 1 .. Len(FreeList) : x = FreeList[i]
      /\ head = IF Len(FreeList) = 0 THEN None ELSE FreeList[1]
      /\ \A i \in 1 .. Len(FreeList) :
           next[FreeList[i]] = IF i < Len(FreeList) THEN FreeList[i + 1] ELSE None
      /\ \A i \in 1 .. Len(FreeList) : i > 1 => prev[FreeList[i]] = FreeList[i - 1]
  BY FreeListFacts DEF SlicesInv
<1>5. /\ next'[s] = head /\ \A x \in On : next'[x] = next[x]
      /\ \A x \in Slices : x # head => prev'[x] = prev[x]
      /\ head # None => prev'[head] = s
  <2>1. head # None => head \in Slices
    BY TypeFacts
  <2> QED
    BY <1>1, <1>3, <1>4, <2>1, TypeFacts
<1>6. Chain(FreeList, head', next')
  <2>1. \A i \in 1 .. Len(FreeList) :
          next'[FreeList[i]] = IF i < Len(FreeList) THEN FreeList[i + 1] ELSE None
    BY <1>4, <1>5
  <2>2. head' = IF FreeList = <<>> THEN None ELSE FreeList[1]
    BY <1>3, <1>4
  <2> QED
    BY <1>4, <2>1, <2>2 DEF Chain
<1>7. FreeList' = FreeList /\ On' = On /\ Chain(FreeList, head, next)'
  BY <1>6, FreeListIs DEF On
<1>8. \A i \in DOMAIN FreeList' : i > 1 => prev'[FreeList'[i]] = FreeList'[i - 1]
  <2>1. ASSUME NEW i \in 1 .. Len(FreeList), i > 1 PROVE prev'[FreeList[i]] = FreeList[i - 1]
    <3>1. FreeList[i] # head /\ FreeList[i] \in Slices
      <4>1. 1 \in 1 .. Len(FreeList) /\ Len(FreeList) # 0
        BY <1>4, <2>1
      <4> QED
        BY <1>4, <2>1, <4>1
    <3> QED
      BY <1>4, <1>5, <2>1, <3>1
  <2> QED
    BY <1>4, <1>7, <2>1
<1>9. FreeList' # <<>> => prev'[FreeList'[1]] = s
  <2>1. FreeList # <<>> => head = FreeList[1] /\ head # None
    <3>1. Len(FreeList) # 0 => 1 \in 1 .. Len(FreeList)
      BY <1>4
    <3> QED
      BY <1>4, <3>1
  <2> QED
    BY <1>5, <1>7, <2>1
<1>10. platform'.rwx /\ alive' => \A x \in Slices \ On' : prev'[x] = None
  <2>1. head \in On \/ head = None
    <3>1. Len(FreeList) # 0 => 1 \in 1 .. Len(FreeList)
      BY <1>4
    <3> QED
      BY <1>4, <3>1
  <2>2. \A x \in Slices \ On : x # head
    BY <2>1, TypeFacts
  <2> QED
    BY <1>3, <1>5, <1>7, <2>2 DEF SlicesInv, ListInv
<1>11. ListInv'
  BY <1>1, <1>2, <1>7, <1>8, <1>9, <1>10 DEF ListInv
<1>12. UserInv'
  BY <1>3, <1>7 DEF SlicesInv, UserInv
<1>13. StepInv'
  BY <1>1, <1>2, <1>3, <1>5, <1>7 DEF StepInv
<1> QED
  BY <1>7, <1>11, <1>12, <1>13 DEF SlicesInv

\* ... and when it becomes the head.
LEMMA PublishSlices ==
  ASSUME Types, SlicesInv, NEW t \in Threads, Undisturbed(t), alive, PublishSlice(t)
  PROVE  SlicesInv' /\ On' = On \cup {step[t].slice}
<1> DEFINE s == step[t].slice
           E == Before(FreeList, s)
<1>1. /\ s \in Slices /\ pages[s[1]].state # "unborn" /\ platform.rwx /\ s \notin On
      /\ users[s] = <<>> /\ next[s] = head /\ step[t].at = "publish" /\ \A u \in Threads : u # t => step[u].at = "none"
  BY DEF PublishSlice, SlicesInv, StepInv, Undisturbed
<1>2. \A u \in Threads : step'[u].at = "none"
  BY TypeFacts DEF PublishSlice, NoStep, Undisturbed
<1>3. /\ head' = s /\ UNCHANGED <<platform, owner, pages, next, prev, users, alive>>
  BY DEF PublishSlice
<1>4. /\ FreeList \in Seq(Slices) /\ IsInjective(FreeList) /\ On \subseteq Slices
      /\ Len(FreeList) \in Nat /\ DOMAIN FreeList = 1 .. Len(FreeList)
      /\ (FreeList = <<>> <=> Len(FreeList) = 0)
      /\ \A i \in 1 .. Len(FreeList) : FreeList[i] \in On /\ FreeList[i] # None
      /\ \A i, j \in 1 .. Len(FreeList) : FreeList[i] = FreeList[j] => i = j
      /\ \A x : x \in On <=> \E i \in 1 .. Len(FreeList) : x = FreeList[i]
      /\ head = IF Len(FreeList) = 0 THEN None ELSE FreeList[1]
      /\ \A i \in 1 .. Len(FreeList) :
           next[FreeList[i]] = IF i < Len(FreeList) THEN FreeList[i + 1] ELSE None
      /\ \A i \in 1 .. Len(FreeList) : i > 1 => prev[FreeList[i]] = FreeList[i - 1]
  BY FreeListFacts DEF SlicesInv
<1>5. prev[s] = None
  BY <1>1 DEF SlicesInv, ListInv
<1>6. Len(FreeList) # 0 => prev[FreeList[1]] = s
  BY <1>1, <1>4 DEF SlicesInv, ListInv
<1>. HIDE DEF s
<1>7. /\ E \in Seq(Slices) /\ IsInjective(E) /\ Len(E) = Len(FreeList) + 1
      /\ DOMAIN E = 1 .. Len(FreeList) + 1 /\ Range(E) = On \cup {s}
  <2>1. s \notin Range(FreeList)
    BY <1>1 DEF On
  <2>2. /\ Before(FreeList, s) \in Seq(Slices) /\ IsInjective(Before(FreeList, s))
        /\ Len(Before(FreeList, s)) = Len(FreeList) + 1
        /\ DOMAIN Before(FreeList, s) = 1 .. Len(FreeList) + 1
        /\ Range(Before(FreeList, s)) = Range(FreeList) \cup {s}
    BY <1>1, <1>4, <2>1, BeforeList
  <2> QED
    BY <2>2 DEF On
<1>8. /\ E[1] = s /\ E # <<>> /\ 1 \in 1 .. Len(FreeList) + 1
      /\ \A j \in 1 .. Len(FreeList) + 1 :
           j > 1 => E[j] = FreeList[j - 1] /\ j - 1 \in 1 .. Len(FreeList)
  <2>1. 1 \in 1 .. Len(FreeList) + 1
    BY <1>4
  <2>2. E # <<>>
    <3>1. Len(E) # 0
      BY <1>4, <1>7
    <3> QED
      BY <1>7, <3>1, ListFacts
  <2> QED
    BY <1>4, <2>1, <2>2 DEF Before
<1>. HIDE DEF E
<1>9. Chain(E, head', next')
  <2>1. ASSUME NEW j \in 1 .. Len(FreeList) + 1
        PROVE  next[E[j]] = IF j < Len(FreeList) + 1 THEN E[j + 1] ELSE None
    <3>1. CASE j = 1
      <4>1. Len(FreeList) # 0 => j + 1 \in 1 .. Len(FreeList) + 1 /\ E[j + 1] = FreeList[1]
        BY <1>4, <1>8, <3>1
      <4> QED
        BY <1>1, <1>4, <1>8, <3>1, <4>1
    <3>2. CASE j > 1
      <4>1. E[j] = FreeList[j - 1] /\ j - 1 \in 1 .. Len(FreeList)
        BY <1>8, <3>2
      <4>2. next[E[j]] = IF j - 1 < Len(FreeList) THEN FreeList[(j - 1) + 1] ELSE None
        BY <1>4, <4>1
      <4>3. /\ j - 1 < Len(FreeList) <=> j < Len(FreeList) + 1
            /\ j < Len(FreeList) + 1 =>
                 j + 1 \in 1 .. Len(FreeList) + 1 /\ j + 1 > 1 /\ (j + 1) - 1 = (j - 1) + 1
        BY <1>4, <3>2
      <4>4. j < Len(FreeList) + 1 => E[j + 1] = FreeList[(j - 1) + 1]
        BY <1>8, <4>3
      <4> QED
        BY <4>2, <4>3, <4>4
    <3> QED
      BY <1>4, <3>1, <3>2
  <2> QED
    BY <1>3, <1>7, <1>8, <2>1 DEF Chain
<1>10. FreeList' = E /\ On' = Range(E) /\ Chain(FreeList, head, next)'
  BY <1>9, FreeListIs
<1>11. ASSUME NEW j \in 1 .. Len(FreeList) + 1, j > 1
       PROVE  prev[E[j]] = E[j - 1]
  <2>1. E[j] = FreeList[j - 1] /\ j - 1 \in 1 .. Len(FreeList)
    BY <1>8, <1>11
  <2>2. CASE j - 1 = 1
    BY <1>4, <1>6, <1>8, <2>1, <2>2
  <2>3. CASE j - 1 # 1
    <3>1. j - 1 > 1 /\ j - 1 \in 1 .. Len(FreeList) + 1
      BY <1>4, <2>1, <2>3
    <3>2. E[j - 1] = FreeList[(j - 1) - 1]
      BY <1>8, <3>1
    <3> QED
      BY <1>4, <2>1, <3>1, <3>2
  <2> QED
    BY <2>2, <2>3
<1>12. ListInv'
  BY <1>2, <1>3, <1>5, <1>7, <1>8, <1>10, <1>11 DEF SlicesInv, ListInv
<1>13. On' = On \cup {s}
  BY <1>7, <1>10
<1>14. UserInv'
  BY <1>1, <1>3, <1>13 DEF SlicesInv, UserInv
<1>15. StepInv'
  BY <1>2 DEF StepInv
<1> QED
  BY <1>12, <1>13, <1>14, <1>15 DEF SlicesInv, s

\* An empty list.
LEMMA ForgottenList ==
  ASSUME head' = None
  PROVE  FreeList' = <<>> /\ On' = {} /\ Chain(FreeList, head, next)'
<1>1. <<>> \in Seq(Slices) /\ IsInjective(<<>>) /\ DOMAIN <<>> = {} /\ Range(<<>>) = {}
  BY EmptySeq DEF IsInjective, Range
<1>2. Chain(<<>>, head', next')
  BY <1>1 DEF Chain
<1> QED
  BY <1>1, <1>2, FreeListIs

\* Commit keeps the list or empties it ...
LEMMA CommitSlices ==
  ASSUME Types, SlicesInv, NEW t \in Threads, Undisturbed(t), Commit(t)
  PROVE  /\ SlicesInv'
         /\ ~platform.rwx => On' = {}
         /\ platform.rwx => On' = On
<1>1. /\ UNCHANGED <<platform, owner, next, prev, users, step, alive>>
      /\ \A u \in Threads : step[u].at = "none"
      /\ head' = IF platform.rwx THEN head ELSE None
  BY DEF Commit, ListAfterCommit, GivesUpFree, Undisturbed
<1>2. /\ ListInv'
      /\ ~platform.rwx => On' = {}
      /\ platform.rwx => On' = On
  <2>1. CASE platform.rwx
    <3>1. head' = head
      BY <1>1, <2>1
    <3>2. ListInv'
      BY <1>1, <3>1, SameListInv DEF SlicesInv
    <3>3. On' = On
      BY <1>1, <3>1, SameFreeList
    <3> QED
      BY <2>1, <3>2, <3>3
  <2>2. CASE ~platform.rwx
    <3>1. FreeList' = <<>> /\ On' = {} /\ Chain(FreeList, head, next)'
      BY <1>1, <2>2, ForgottenList
    <3>2. DOMAIN FreeList' = {}
      BY <3>1
    <3>3. ListInv'
      BY <1>1, <2>2, <3>1, <3>2 DEF ListInv
    <3> QED
      BY <2>2, <3>1, <3>3
  <2> QED
    BY <2>1, <2>2
<1>3. \A b \in Batches : pages[b].state # "unborn" => pages'[b].state # "unborn"
  <2>1. TAKE b \in Batches
  <2>2. HAVE pages[b].state # "unborn"
  <2> DEFINE protected == [c \in Batches |-> IF c \in uncommitted
                                             THEN Committed(pages[c]) ELSE pages[c]]
             after == PagesAfter(FreeOnesOf)
  <2>3. after \in [Batches -> CodePages] /\ after[b].state # "unborn"
    <3>1. FreeOnesOf \in [Batches -> Int]
      BY FreeOnesAreCounted DEF SlicesInv, ListInv
    <3> QED
      BY <2>2, <3>1, PagesAfterType, StillBorn
  <2>4. protected[b].state = pages[b].state
    BY CommittedType, TypeFacts
  <2>5. pages' = IF GivesUpFree
                 THEN [c \in Batches |->
                         IF after[c].state = "live"
                         THEN [after[c] EXCEPT !.prot = protected[c].prot]
                         ELSE after[c]]
                 ELSE protected
    BY DEF Commit
  <2>. HIDE DEF after, protected
  <2>6. [after[b] EXCEPT !.prot = protected[b].prot].state = after[b].state
    BY <2>3 DEF CodePages
  <2> QED
    BY <2>2, <2>3, <2>4, <2>5, <2>6
<1>4. \A x \in Slices : x[1] \in Batches
  BY TypeFacts
<1>5. UserInv'
  BY <1>1, <1>2, <1>3, <1>4, FreeListFacts DEF SlicesInv, UserInv
<1>6. StepInv'
  BY <1>1 DEF StepInv
<1> QED
  BY <1>2, <1>5, <1>6 DEF SlicesInv

\* ... and the end empties it.
LEMMA FreeSlices ==
  ASSUME Types, SlicesInv, Free
  PROVE  SlicesInv' /\ On' = {}
<1>1. /\ \A u \in Threads : step[u].at = "none"
      /\ head' = None /\ alive' = FALSE
      /\ UNCHANGED <<platform, owner, refs, next, prev, users, fresh, failed, step>>
      /\ \A s \in Slices : users[s] = <<>>
  BY DEF Free
<1>2. FreeList' = <<>> /\ On' = {} /\ Chain(FreeList, head, next)'
  BY <1>1, ForgottenList
<1>3. DOMAIN FreeList' = {}
  BY <1>2
<1>4. ListInv'
  BY <1>1, <1>2, <1>3 DEF ListInv
<1>5. UserInv'
  BY <1>1, <1>2 DEF SlicesInv, UserInv
<1>6. StepInv'
  BY <1>1 DEF StepInv
<1> QED
  BY <1>2, <1>4, <1>5, <1>6 DEF SlicesInv

-----------------------------------------------------------------------------
(* Counts of slices *)

SlicesOf(b) == {s \in Slices : s[1] = b}

\* A batch has SlicesPerBatch slices.
LEMMA BatchesAreCounted ==
  ASSUME NEW b \in Batches
  PROVE  /\ IsFiniteSet(SlicesOf(b)) /\ Cardinality(SlicesOf(b)) = SlicesPerBatch
         /\ SlicesPerBatch \in Nat \ {0}
<1>1. SlicesPerBatch \in Nat \ {0} /\ IsFiniteSet(0 .. SlicesPerBatch - 1)
  BY FS_Interval, AllocatorAssumption
<1>2. Cardinality(0 .. SlicesPerBatch - 1) = SlicesPerBatch
  <2>1. 0 \in Int /\ SlicesPerBatch - 1 \in Int /\ ~(0 > SlicesPerBatch - 1)
    BY <1>1
  <2>2. Cardinality(0 .. SlicesPerBatch - 1) = (SlicesPerBatch - 1) - 0 + 1
    BY <2>1, FS_Interval
  <2> QED
    BY <1>1, <2>2
<1>3. SlicesOf(b) = {b} \X (0 .. SlicesPerBatch - 1)
  BY DEF SlicesOf, Slices
<1>4. IsFiniteSet({b}) /\ Cardinality({b}) = 1
  BY FS_Singleton
<1>5. /\ IsFiniteSet({b} \X (0 .. SlicesPerBatch - 1))
      /\ Cardinality({b} \X (0 .. SlicesPerBatch - 1)) = 1 * SlicesPerBatch
  BY <1>1, <1>2, <1>4, FS_Product
<1> QED
  BY <1>1, <1>3, <1>5

\* Slices of one batch are counted, and no more than it has.
LEMMA SomeOfThem ==
  ASSUME NEW b \in Batches, NEW S \in SUBSET SlicesOf(b)
  PROVE  /\ IsFiniteSet(S) /\ Cardinality(S) \in 0 .. SlicesPerBatch
         /\ (Cardinality(S) = SlicesPerBatch <=> S = SlicesOf(b))
<1>1. /\ IsFiniteSet(SlicesOf(b)) /\ Cardinality(SlicesOf(b)) = SlicesPerBatch
      /\ SlicesPerBatch \in Nat \ {0}
  BY BatchesAreCounted
<1>2. /\ IsFiniteSet(S) /\ Cardinality(S) <= SlicesPerBatch
      /\ (Cardinality(S) = SlicesPerBatch => S = SlicesOf(b))
  BY <1>1, FS_Subset
<1>3. Cardinality(S) \in Nat
  BY <1>2, FS_CardinalityType
<1> QED
  BY <1>1, <1>2, <1>3

\* The slices given back for good are some of a batch's.
LEMMA LostOnes ==
  ASSUME NEW b \in Batches
  PROVE  /\ Lost(b) \subseteq SlicesOf(b) /\ IsFiniteSet(Lost(b))
         /\ Cardinality(Lost(b)) \in 0 .. SlicesPerBatch
<1>1. Lost(b) \in SUBSET SlicesOf(b)
  BY DEF Lost, SlicesOf
<1> QED
  BY <1>1, SomeOfThem

\* A slice in use or free is not among them, so that they are not all.
LEMMA NotAllAreLost ==
  ASSUME NEW b \in Batches, NEW s \in SlicesOf(b), s \notin Lost(b)
  PROVE  Cardinality(Lost(b)) < SlicesPerBatch
<1>1. /\ Lost(b) \in SUBSET SlicesOf(b) /\ Lost(b) # SlicesOf(b)
  BY LostOnes
<1>2. /\ Cardinality(Lost(b)) \in 0 .. SlicesPerBatch
      /\ Cardinality(Lost(b)) # SlicesPerBatch
  BY <1>1, SomeOfThem
<1>3. SlicesPerBatch \in Nat
  BY AllocatorAssumption
<1> QED
  BY <1>2, <1>3

\* FreeOnesOf counts a batch's slices on the list.
LEMMA FreeOnesAreThose ==
  ASSUME ListInv, NEW b \in Batches
  PROVE  FreeOnesOf[b] = Cardinality({s \in On : s[1] = b})
<1> DEFINE I == {i \in DOMAIN FreeList : FreeList[i][1] = b}
           T == {s \in On : s[1] = b}
           f == [i \in I |-> FreeList[i]]
<1>1. /\ Len(FreeList) \in Nat /\ DOMAIN FreeList = 1 .. Len(FreeList)
      /\ \A i \in 1 .. Len(FreeList) : FreeList[i] \in On
      /\ \A i, j \in 1 .. Len(FreeList) : FreeList[i] = FreeList[j] => i = j
      /\ \A s : s \in On <=> \E i \in 1 .. Len(FreeList) : s = FreeList[i]
  BY FreeListFacts
<1>2. f \in [I -> T]
  BY <1>1
<1>3. \A i, j \in I : f[i] = f[j] => i = j
  BY <1>1
<1>4. \A s \in T : \E i \in I : f[i] = s
  BY <1>1
<1>5. IsFiniteSet(I)
  <2>1. IsFiniteSet(1 .. Len(FreeList))
    BY <1>1, FS_Interval
  <2>2. I \in SUBSET (1 .. Len(FreeList))
    BY <1>1
  <2> QED
    BY <2>1, <2>2, FS_Subset
<1>6. FreeOnesOf[b] = Cardinality(I)
  BY DEF FreeOnesOf
<1>. HIDE DEF I, T, f
<1>7. f \in Bijection(I, T)
  BY <1>2, <1>3, <1>4 DEF Bijection, Injection, Surjection, IsInjective
<1>8. ExistsBijection(I, T)
  BY <1>7 DEF ExistsBijection
<1>9. Cardinality(T) = Cardinality(I)
  BY <1>5, <1>8, FS_Bijection
<1> QED
  BY <1>6, <1>9 DEF T

-----------------------------------------------------------------------------
(* Batches, step by step *)

\* While a thread is at work on a list or in a transaction, the allocator lives.
LEMMA AtWork ==
  ASSUME Types, QuietInv, NEW t \in Threads,
         owner = t \/ step[t].at # "none" \/ \E s \in Slices : users[s] # <<>>
  PROVE  alive
<1>1. t # None
  BY AllocatorAssumption
<1> QED
  BY <1>1 DEF QuietInv, Types

\* With no transaction no batch waits for anything, where slices are not reused.
LEMMA NothingIsPending ==
  ASSUME QuietInv, owner = None, ~platform.rwx
  PROVE  Pending = {} /\ FreeList = <<>> /\ On = {}
<1>1. dirty = {} /\ uncommitted = {} /\ FreeList = <<>>
  BY DEF QuietInv
<1>2. On = {}
  BY <1>1 DEF On, Range
<1> QED
  BY <1>1, <1>2 DEF Pending

\* Steps that leave batches, slices and the list as they are.
LEMMA SamePages ==
  ASSUME PagesInv, UNCHANGED <<platform, alive, pages, refs, head, next, uncommitted,
                               dirty, users, fresh, failed>>,
         owner' = None => fresh = {} /\ failed = 0, alive
  PROVE  PagesInv'
<1>1. FreeList' = FreeList /\ On' = On
  BY SameFreeList
<1>2. Pending' = Pending /\ \A b : Lost(b)' = Lost(b)
  BY <1>1 DEF Pending, Lost
<1>3. QuietInv'
  BY <1>1 DEF PagesInv, QuietInv
<1>4. LiveInv'
  BY <1>1, <1>2 DEF PagesInv, LiveInv
<1> QED
  BY <1>3, <1>4 DEF PagesInv

\* Locks and picking a slice leave batches as they are ...
LEMMA LockPages ==
  ASSUME Types, PagesInv, NEW t \in Threads, NEW r \in Request,
         Lock(t) \/ Unlock(t) \/ TryAllocSliceNear(t, r)
  PROVE  PagesInv'
<1>1. /\ UNCHANGED <<platform, alive, pages, refs, head, next, uncommitted,
                     dirty, users, fresh, failed>>
      /\ t # None
  BY AllocatorAssumption DEF Lock, Unlock, TryAllocSliceNear
<1>2. owner' = None => fresh = {} /\ failed = 0
  BY <1>1 DEF Lock, Unlock, TryAllocSliceNear
<1>3. alive
  BY AtWork DEF Lock, Unlock, TryAllocSliceNear, PagesInv
<1> QED
  BY <1>1, <1>2, <1>3, SamePages

\* ... and unlinking a slice makes none lost.
LEMMA UnlinkPages ==
  ASSUME Types, SlicesInv, PagesInv, NEW t \in Threads, Undisturbed(t), Unlink(t), SlicesInv'
  PROVE  PagesInv'
<1> DEFINE s == step[t].slice
<1>1. On' = On \ {s}
  BY UnlinkList
<1>2. /\ s \in On /\ s \in Slices /\ step[t].at # "none" /\ users[s] = <<>>
      /\ owner = t /\ s[1] \in Batches
  BY TypeFacts DEF Unlink, SlicesInv, StepInv, UserInv
<1>3. alive /\ t # None
  BY <1>2, AtWork, AllocatorAssumption DEF PagesInv
<1>4. /\ UNCHANGED <<platform, owner, pages, refs, uncommitted, failed, alive>>
      /\ dirty' = dirty \cup {s[1]} /\ fresh' = fresh \cup {s}
  BY DEF Unlink
<1>5. users'[s] # <<>> /\ \A x \in Slices : x # s => users'[x] = users[x]
  <2>1. users' = [users EXCEPT ![s] = Append(@, step[t].request)]
    BY DEF Unlink
  <2>2. step[t].request \in Request
    BY TypeFacts DEF Steps
  <2>3. Append(<<>>, step[t].request) # <<>>
    <3>1. Append(<<>>, step[t].request) \in Seq(Request) /\ Len(Append(<<>>, step[t].request)) = 0 + 1
      BY <2>2, EmptySeq, AppendProperties
    <3> QED
      BY <3>1, EmptySeq
  <2> QED
    BY <1>2, <2>1, <2>3, TypeFacts
<1>. HIDE DEF s
<1>6. Pending' = Pending
  BY <1>1, <1>2, <1>4 DEF Pending
<1>7. \A b : Lost(b)' = Lost(b)
  <2>1. \A x \in Slices : x \notin On' /\ users'[x] = <<>> <=> x \notin On /\ users[x] = <<>>
    BY <1>1, <1>2, <1>5
  <2> QED
    BY <2>1 DEF Lost
<1>8. QuietInv'
  <2>1. fresh' # {}
    BY <1>4
  <2> QED
    BY <1>2, <1>3, <1>4, <2>1 DEF PagesInv, QuietInv
<1>9. LiveInv'
  <2>1. \A x \in Slices : x \in On' \/ users'[x] # <<>> => x \in On \/ users[x] # <<>>
    BY <1>1, <1>2, <1>5
  <2> QED
    BY <1>4, <1>6, <1>7, <2>1 DEF PagesInv, LiveInv
<1> QED
  BY <1>8, <1>9 DEF PagesInv

\* A batch mapped has lost no slice.
LEMMA MapPages ==
  ASSUME Types, SlicesInv, PagesInv, NEW t \in Threads, Undisturbed(t), owner = t, step[t].at = "none",
         NEW r \in Request, NEW b \in Batches, NEW base \in Bases, MapBatch(b, base, r),
         UNCHANGED <<platform, owner, failed, step, alive>>
  PROVE  PagesInv'
<1>1. On' = On \cup NewOnes(b)
  BY MapList
<1>2. /\ pages[b].state = "unborn" /\ pages'[b].state = "live" /\ pages'[b].ref = SlicesPerBatch
      /\ \A c \in Batches : c # b => pages'[c] = pages[c]
  BY TypeFacts DEF MapBatch
<1>3. alive /\ t # None
  BY AtWork, AllocatorAssumption DEF PagesInv
<1>4. \A x \in Slices : x[1] = b => x \notin On /\ users[x] = <<>>
  BY <1>2, UnbornIsUnused
<1>5. /\ <<b, 0>> \in Slices /\ users'[<<b, 0>>] # <<>>
      /\ \A x \in Slices : x # <<b, 0>> => users'[x] = users[x]
  <2>1. <<b, 0>> \in Slices
    <3>1. 0 \in 0 .. SlicesPerBatch - 1
      BY TypeFacts
    <3> QED
      BY <3>1, TypeFacts
  <2>2. users' = [users EXCEPT ![<<b, 0>>] = Append(@, r)]
    BY DEF MapBatch
  <2>3. Append(<<>>, r) # <<>>
    <3>1. Append(<<>>, r) \in Seq(Request) /\ Len(Append(<<>>, r)) = 0 + 1
      BY EmptySeq, AppendProperties
    <3> QED
      BY <3>1, EmptySeq
  <2> QED
    BY <1>4, <2>1, <2>2, <2>3, TypeFacts
<1>6. /\ dirty' = dirty \cup {b} /\ fresh' = fresh \cup {<<b, 0>>}
      /\ uncommitted' = IF platform.rwx THEN uncommitted ELSE uncommitted \cup {b}
      /\ \A x \in Slices : refs'[x] = IF x[1] = b THEN 1 ELSE refs[x]
  BY DEF MapBatch
<1>7. \A x \in NewOnes(b) : x[1] = b
  BY DEF NewOnes
<1>8. \A x \in Slices : x[1] # b => (x \in On' <=> x \in On) /\ users'[x] = users[x]
  BY <1>1, <1>5, <1>7
<1>9. Pending' = Pending \cup {b}
  BY <1>1, <1>6, <1>7 DEF Pending
<1>10. \A c \in Batches : c # b => Lost(c)' = Lost(c)
  BY <1>8 DEF Lost
<1>11. Lost(b)' = {}
  <2>1. ASSUME NEW x \in Slices, x[1] = b, x \notin On', users'[x] = <<>> PROVE FALSE
    <3>1. x = <<b, x[2]>> /\ x[2] \in 0 .. SlicesPerBatch - 1 /\ x # <<b, 0>>
      BY <1>5, <2>1, TypeFacts
    <3>2. x[2] \in 1 .. SlicesPerBatch - 1
      BY <3>1, TypeFacts
    <3>3. x \in NewOnes(b)
      BY <3>1, <3>2 DEF NewOnes
    <3> QED
      BY <1>1, <2>1, <3>3
  <2> QED
    BY <2>1 DEF Lost
<1>12. QuietInv'
  <2>1. fresh' # {}
    BY <1>6
  <2> QED
    BY <1>3, <2>1 DEF PagesInv, QuietInv
<1>13. LiveInv'
  <2>1. \A c \in Pending' : pages'[c].state # "unborn"
    <3>1. Pending \subseteq Batches
      BY FreeListFacts, TypeFacts DEF Pending, SlicesInv, Types, AllocatorTypeOK
    <3> QED
      BY <1>2, <1>9, <3>1 DEF PagesInv, LiveInv
  <2>2. platform.rwx => /\ uncommitted' = {}
                        /\ \A c \in Batches : pages'[c].state # "freed"
    BY <1>2, <1>3, <1>6 DEF PagesInv, LiveInv
  <2>3. ASSUME ~platform.rwx
        PROVE  /\ \A x \in Slices : x \in On' \/ users'[x] # <<>> => refs'[x] = 1
               /\ \A c \in Batches : pages'[c].state # "unborn" =>
                    /\ pages'[c].ref = SlicesPerBatch - Cardinality(Lost(c)')
                    /\ pages'[c].state = IF pages'[c].ref > 0 THEN "live" ELSE "freed"
               /\ \A c \in Pending' : Cardinality(Lost(c)') <= failed
    <3>1. \A x \in Slices : x \in On' \/ users'[x] # <<>> => refs'[x] = 1
      BY <1>6, <1>8, <2>3 DEF PagesInv, LiveInv
    <3>2. Cardinality(Lost(b)') = 0 /\ SlicesPerBatch \in Nat \ {0} /\ failed \in Nat
      BY <1>11, FS_EmptySet, AllocatorAssumption DEF Types
    <3>3. SlicesPerBatch - Cardinality(Lost(b)') = SlicesPerBatch /\ SlicesPerBatch > 0
      BY <3>2
    <3>4. \A c \in Batches : c # b /\ pages'[c].state # "unborn" =>
                    /\ pages'[c].ref = SlicesPerBatch - Cardinality(Lost(c)')
                    /\ pages'[c].state = IF pages'[c].ref > 0 THEN "live" ELSE "freed"
      BY <1>2, <1>10, <2>3 DEF PagesInv, LiveInv
    <3>5. \A c \in Pending' : Cardinality(Lost(c)') <= failed
      <4>1. Pending \subseteq Batches
        BY FreeListFacts, TypeFacts DEF Pending, SlicesInv, Types, AllocatorTypeOK
      <4>2. \A c \in Pending : Cardinality(Lost(c)) <= failed
        BY <2>3 DEF PagesInv, LiveInv
      <4>3. 0 <= failed
        BY <3>2
      <4> QED
        BY <1>9, <1>10, <3>2, <4>1, <4>2, <4>3
    <3> QED
      BY <1>2, <3>1, <3>3, <3>4, <3>5
  <2> QED
    BY <1>3, <2>1, <2>2, <2>3 DEF LiveInv
<1> QED
  BY <1>12, <1>13 DEF PagesInv

\* What is left of a batch when n references are given back.
LEMMA PagesAfterFacts ==
  ASSUME Types, NEW n \in [Batches -> Int], NEW b \in Batches
  PROVE  /\ PagesAfter(n)[b].ref = pages[b].ref - n[b]
         /\ PagesAfter(n)[b].state =
              IF n[b] # 0 /\ pages[b].ref - n[b] <= 0 /\ pages[b].ref > 0
              THEN "freed" ELSE pages[b].state
<1>1. pages[b] \in CodePages /\ pages[b].ref \in Int /\ n[b] \in Int
  BY TypeFacts DEF CodePages
<1>2. PagesAfter(n)[b] =
        IF n[b] = 0 THEN pages[b]
        ELSE IF pages[b].ref - n[b] <= 0 /\ pages[b].ref > 0
        THEN [pages[b] EXCEPT !.ref = pages[b].ref - n[b], !.state = "freed", !.prot = "none"]
        ELSE [pages[b] EXCEPT !.ref = pages[b].ref - n[b]]
  BY DEF PagesAfter
<1>3. \A x \in Int :
        /\ [pages[b] EXCEPT !.ref = x, !.state = "freed", !.prot = "none"].ref = x
        /\ [pages[b] EXCEPT !.ref = x, !.state = "freed", !.prot = "none"].state = "freed"
        /\ [pages[b] EXCEPT !.ref = x].ref = x
        /\ [pages[b] EXCEPT !.ref = x].state = pages[b].state
  BY <1>1 DEF CodePages
<1>4. pages[b].ref - n[b] \in Int /\ (n[b] = 0 => pages[b].ref - n[b] = pages[b].ref)
  BY <1>1
<1> QED
  BY <1>2, <1>3, <1>4

\* Giving a slice back where slices are reused.
LEMMA ReusedPages ==
  ASSUME Types, SlicesInv, PagesInv, NEW t \in Threads, Undisturbed(t), NEW s \in Slices,
         SliceUnref(t, s), platform.rwx, owner' = owner
  PROVE  LiveInv'
<1>1. alive
  BY AtWork DEF SliceUnref, PagesInv
<1>2. UNCHANGED <<pages, head, next, uncommitted, dirty, alive, platform>>
  BY DEF SliceUnref
<1>3. Pending' = Pending
  BY <1>2, SameFreeList DEF Pending
<1> QED
  BY <1>1, <1>2, <1>3 DEF PagesInv, LiveInv

\* ... and where they are not: there is one more that is lost, its batch counts
\* one less, and goes with the last.
LEMMA LostPages ==
  ASSUME Types, SlicesInv, PagesInv, NEW t \in Threads, Undisturbed(t), NEW s \in Slices,
         SliceUnref(t, s), ~platform.rwx,
         failed' \in Nat, failed <= failed', Pending = {} \/ failed + 1 <= failed'
  PROVE  LiveInv'
<1> DEFINE c == s[1]
<1>1. /\ users[s] # <<>> /\ s \notin On /\ users'[s] = <<>>
      /\ \A x \in Slices : x # s => users'[x] = users[x]
      /\ \A b \in Batches : pages[b].state # "unborn" => pages'[b].state # "unborn"
      /\ UNCHANGED <<head, next, prev, platform, alive>>
  BY SliceUnrefFacts
<1>2. alive
  BY <1>1, AtWork DEF PagesInv
<1>3. On' = On
  BY <1>1, SameFreeList
<1>4. /\ refs[s] = 1 /\ refs' = [refs EXCEPT ![s] = @ - 1] /\ UNCHANGED <<uncommitted, dirty>>
      /\ pages' = PagesAfter(OneOf(c))
  <2>1. refs[s] = 1
    BY <1>1 DEF PagesInv, LiveInv
  <2> QED
    BY <2>1 DEF SliceUnref
<1>5. c \in Batches /\ s \in SlicesOf(c) /\ s \notin Lost(c) /\ pages[c].state # "unborn"
  BY <1>1, TypeFacts DEF SlicesInv, UserInv, Lost, SlicesOf
<1>6. Pending' = Pending /\ Pending \subseteq Batches
  BY <1>3, <1>4, FreeListFacts, TypeFacts DEF Pending, SlicesInv, Types, AllocatorTypeOK
<1>. HIDE DEF c
<1>7. Lost(c)' = Lost(c) \cup {s} /\ \A b : b # c => Lost(b)' = Lost(b)
  <2>1. s[1] = c
    BY DEF c
  <2>2. \A x \in Slices : x # s => (x \notin On' /\ users'[x] = <<>> <=> x \notin On /\ users[x] = <<>>)
    BY <1>1, <1>3
  <2>3. s \notin On' /\ users'[s] = <<>>
    BY <1>1, <1>3
  <2> QED
    BY <2>1, <2>2, <2>3 DEF Lost
<1> DEFINE k == Cardinality(Lost(c))
<1>8. Cardinality(Lost(c)') = k + 1 /\ k \in Nat /\ k < SlicesPerBatch /\ SlicesPerBatch \in Nat
  <2>1. IsFiniteSet(Lost(c)) /\ k \in 0 .. SlicesPerBatch
    BY <1>5, LostOnes
  <2>2. k < SlicesPerBatch
    BY <1>5, NotAllAreLost
  <2>3. Cardinality(Lost(c) \cup {s}) = k + 1
    BY <1>5, <2>1, FS_AddElement
  <2>4. SlicesPerBatch \in Nat
    BY AllocatorAssumption
  <2> QED
    BY <1>7, <2>1, <2>2, <2>3, <2>4
<1>9. /\ pages[c].ref = SlicesPerBatch - k
      /\ pages[c].state = IF pages[c].ref > 0 THEN "live" ELSE "freed"
  BY <1>5 DEF PagesInv, LiveInv
<1>10. \A b \in Batches : b # c => pages'[b] = pages[b]
  BY <1>4 DEF PagesAfter, OneOf
<1>11. /\ pages'[c].ref = pages[c].ref - 1
       /\ pages'[c].state = IF pages[c].ref - 1 <= 0 /\ pages[c].ref > 0 THEN "freed" ELSE pages[c].state
  <2>1. OneOf(c) \in [Batches -> Int] /\ OneOf(c)[c] = 1
    BY <1>5 DEF OneOf
  <2>2. /\ PagesAfter(OneOf(c))[c].ref = pages[c].ref - OneOf(c)[c]
        /\ PagesAfter(OneOf(c))[c].state =
             IF OneOf(c)[c] # 0 /\ pages[c].ref - OneOf(c)[c] <= 0 /\ pages[c].ref > 0
             THEN "freed" ELSE pages[c].state
    BY <1>5, <2>1, PagesAfterFacts
  <2> QED
    BY <1>4, <2>1, <2>2
<1>. HIDE DEF k
<1>12. /\ pages'[c].ref = SlicesPerBatch - (k + 1)
       /\ pages'[c].state = IF pages'[c].ref > 0 THEN "live" ELSE "freed"
  <2>1. SlicesPerBatch - k > 0 /\ (SlicesPerBatch - k) - 1 = SlicesPerBatch - (k + 1)
        /\ (SlicesPerBatch - (k + 1) <= 0 <=> ~(SlicesPerBatch - (k + 1) > 0))
    BY <1>8
  <2> QED
    BY <1>9, <1>11, <2>1
<1>13. \A b \in Pending' : pages'[b].state # "unborn"
  BY <1>1, <1>6 DEF PagesInv, LiveInv
<1>14. \A x \in Slices : x \in On' \/ users'[x] # <<>> => refs'[x] = 1
  <2>1. \A x \in Slices : x # s => refs'[x] = refs[x]
    BY <1>4, TypeFacts
  <2> QED
    BY <1>1, <1>3, <2>1 DEF PagesInv, LiveInv
<1>15. \A b \in Batches : pages'[b].state # "unborn" =>
            /\ pages'[b].ref = SlicesPerBatch - Cardinality(Lost(b)')
            /\ pages'[b].state = IF pages'[b].ref > 0 THEN "live" ELSE "freed"
  <2>1. \A b \in Batches : pages[b].state # "unborn" =>
            /\ pages[b].ref = SlicesPerBatch - Cardinality(Lost(b))
            /\ pages[b].state = IF pages[b].ref > 0 THEN "live" ELSE "freed"
    BY DEF PagesInv, LiveInv
  <2> QED
    BY <1>7, <1>8, <1>10, <1>12, <2>1
<1>16. \A b \in Pending' : Cardinality(Lost(b)') <= failed'
  <2>1. SUFFICES ASSUME NEW b \in Pending PROVE Cardinality(Lost(b)') <= failed'
    BY <1>6
  <2>2. failed \in Nat /\ failed + 1 <= failed' /\ Cardinality(Lost(b)) <= failed
    BY DEF Types, PagesInv, LiveInv
  <2>3. CASE b = c
    <3>1. k <= failed
      BY <2>2, <2>3 DEF k
    <3> QED
      BY <1>8, <2>2, <2>3, <3>1
  <2>4. CASE b # c
    <3>1. Cardinality(Lost(b)') = Cardinality(Lost(b)) /\ b \in Batches
      BY <1>6, <1>7, <2>4
    <3>2. Cardinality(Lost(b)) \in Nat
      <4>1. Cardinality(Lost(b)) \in 0 .. SlicesPerBatch
        BY <3>1, LostOnes
      <4> QED
        BY <4>1
    <3> QED
      BY <2>2, <3>1, <3>2
  <2> QED
    BY <2>3, <2>4
<1> QED
  BY <1>1, <1>13, <1>14, <1>15, <1>16 DEF LiveInv

\* A slice given back in a transaction is counted as failed ...
LEMMA FailPages ==
  ASSUME Types, SlicesInv, PagesInv, NEW t \in Threads, Undisturbed(t), NEW s \in Slices, Fail(t, s)
  PROVE  PagesInv'
<1>1. /\ SliceUnref(t, s) /\ owner = t /\ t # None /\ failed < MaxFailed /\ failed' = failed + 1
      /\ failed \in Nat /\ MaxFailed \in Nat /\ alive
      /\ UNCHANGED <<platform, owner, alive>>
  BY AtWork, AllocatorAssumption DEF Fail, SliceUnref, PagesInv, Types
<1>2. failed' \in Nat /\ failed <= failed' /\ failed + 1 <= failed' /\ failed' # 0
      /\ failed' \in 0 .. MaxFailed
  BY <1>1
<1>3. QuietInv'
  BY <1>1, <1>2 DEF PagesInv, QuietInv
<1>4. LiveInv'
  <2>1. CASE platform.rwx
    BY <1>1, <2>1, ReusedPages
  <2>2. CASE ~platform.rwx
    BY <1>1, <1>2, <2>2, LostPages
  <2> QED
    BY <2>1, <2>2
<1> QED
  BY <1>3, <1>4 DEF PagesInv

\* ... and outside one there is nothing pending.
LEMMA RetirePages ==
  ASSUME Types, SlicesInv, PagesInv, NEW t \in Threads, Undisturbed(t), NEW s \in Slices, Retire(t, s)
  PROVE  PagesInv'
<1>1. /\ SliceUnref(t, s) /\ owner = None /\ failed' = failed /\ failed \in Nat /\ alive
      /\ UNCHANGED <<platform, owner, alive, head, next, uncommitted, dirty, fresh, failed>>
  BY AtWork DEF Retire, SliceUnref, PagesInv, Types, AllocatorTypeOK, Undisturbed
<1>2. FreeList' = FreeList
  BY <1>1, SameFreeList
<1>3. QuietInv'
  BY <1>1, <1>2 DEF PagesInv, QuietInv
<1>4. LiveInv'
  <2>1. CASE platform.rwx
    BY <1>1, <2>1, ReusedPages
  <2>2. CASE ~platform.rwx
    <3>1. Pending = {}
      BY <1>1, <2>2, NothingIsPending DEF PagesInv
    <3>2. failed' \in Nat /\ failed <= failed'
      BY <1>1
    <3> QED
      BY <1>1, <2>2, <3>1, <3>2, LostPages
  <2> QED
    BY <2>1, <2>2
<1> QED
  BY <1>3, <1>4 DEF PagesInv

\* A slice pushed is of a batch that is there.
LEMMA LinkPages ==
  ASSUME Types, SlicesInv, PagesInv, NEW t \in Threads, Undisturbed(t), LinkSlice(t) \/ PublishSlice(t)
  PROVE  PagesInv'
<1> DEFINE s == step[t].slice
<1>1. /\ platform.rwx /\ alive /\ s \in Slices /\ pages[s[1]].state # "unborn" /\ s[1] \in Batches
      /\ UNCHANGED <<platform, owner, pages, uncommitted, dirty, fresh, failed, alive>>
  BY AtWork, TypeFacts DEF LinkSlice, PublishSlice, SlicesInv, StepInv, PagesInv
<1>2. On' \subseteq On \cup {s}
  BY <1>1, LinkSlices, PublishSlices
<1>. HIDE DEF s
<1>3. Pending' \subseteq Pending \cup {s[1]}
  BY <1>1, <1>2 DEF Pending
<1>4. QuietInv'
  BY <1>1 DEF PagesInv, QuietInv
<1>5. LiveInv'
  BY <1>1, <1>3 DEF PagesInv, LiveInv
<1> QED
  BY <1>4, <1>5 DEF PagesInv

\* Commit gives up the free slices, where they are not reused.
LEMMA GivenUpPages ==
  ASSUME Types, SlicesInv, PagesInv, NEW t \in Threads, Undisturbed(t), Commit(t), ~platform.rwx
  PROVE  LiveInv'
<1>1. /\ UNCHANGED <<platform, owner, refs, users, step, alive>>
      /\ owner = t /\ alive /\ uncommitted' = {} /\ dirty' = {} /\ failed' = 0
  BY AtWork DEF Commit, FlushDirty, PagesInv
<1>2. On' = {}
  BY CommitSlices
<1>3. Pending' = {}
  BY <1>1, <1>2 DEF Pending
<1>4. FreeOnesOf \in [Batches -> Nat] /\ ListInv
  BY FreeOnesAreCounted DEF SlicesInv, ListInv
<1>5. ASSUME NEW b \in Batches
      PROVE  /\ pages'[b].ref = PagesAfter(FreeOnesOf)[b].ref
             /\ pages'[b].state = PagesAfter(FreeOnesOf)[b].state
  <2> DEFINE protected == [c \in Batches |-> IF c \in uncommitted
                                             THEN Committed(pages[c]) ELSE pages[c]]
             after == PagesAfter(FreeOnesOf)
  <2>1. after \in [Batches -> CodePages]
    <3>1. FreeOnesOf \in [Batches -> Int]
      BY <1>4
    <3> QED
      BY <3>1, PagesAfterType
  <2>2. pages' = [c \in Batches |->
                    IF after[c].state = "live"
                    THEN [after[c] EXCEPT !.prot = protected[c].prot]
                    ELSE after[c]]
    BY DEF Commit, GivesUpFree
  <2>. HIDE DEF after, protected
  <2>3. /\ [after[b] EXCEPT !.prot = protected[b].prot].ref = after[b].ref
        /\ [after[b] EXCEPT !.prot = protected[b].prot].state = after[b].state
    BY <2>1 DEF CodePages
  <2>4. pages'[b].ref = after[b].ref /\ pages'[b].state = after[b].state
    BY <2>2, <2>3
  <2> QED
    BY <2>4 DEF after
<1>6. ASSUME NEW b \in Batches, pages'[b].state # "unborn"
      PROVE  /\ pages'[b].ref = SlicesPerBatch - Cardinality(Lost(b)')
             /\ pages'[b].state = IF pages'[b].ref > 0 THEN "live" ELSE "freed"
  <2> DEFINE Free1 == {s \in On : s[1] = b}
             k == Cardinality(Lost(b))
             n == Cardinality(Free1)
  <2>1. Free1 \subseteq SlicesOf(b) /\ Free1 \cap Lost(b) = {}
    BY <1>4, FreeListFacts DEF SlicesOf, Lost
  <2>2. Lost(b)' = Lost(b) \cup Free1
    <3>1. \A x \in On : x \in Slices /\ users[x] = <<>>
      BY <1>4, FreeListFacts DEF SlicesInv, UserInv
    <3> QED
      BY <1>1, <1>2, <3>1 DEF Lost
  <2>. HIDE DEF Free1
  <2>3. /\ IsFiniteSet(Free1) /\ n \in Nat /\ IsFiniteSet(Lost(b)) /\ k \in Nat
        /\ SlicesPerBatch \in Nat
    <3>1. IsFiniteSet(Free1) /\ n \in 0 .. SlicesPerBatch
      BY <2>1, SomeOfThem
    <3>2. IsFiniteSet(Lost(b)) /\ k \in 0 .. SlicesPerBatch
      BY LostOnes
    <3> QED
      BY <3>1, <3>2, AllocatorAssumption
  <2>4. Cardinality(Lost(b)') = k + n
    <3>1. Cardinality(Lost(b) \cup Free1) = k + n - Cardinality(Lost(b) \cap Free1)
      BY <2>3, FS_Union
    <3>2. Cardinality(Lost(b) \cap Free1) = 0
      BY <2>1, FS_EmptySet
    <3> QED
      BY <2>2, <2>3, <3>1, <3>2
  <2>5. k + n <= SlicesPerBatch
    <3>1. Lost(b) \cup Free1 \in SUBSET SlicesOf(b)
      BY <2>1, LostOnes
    <3>2. Cardinality(Lost(b) \cup Free1) \in 0 .. SlicesPerBatch
      BY <3>1, SomeOfThem
    <3> QED
      BY <2>2, <2>3, <2>4, <3>2
  <2>6. FreeOnesOf[b] = n
    BY <1>4, FreeOnesAreThose DEF Free1
  <2>7. pages[b].state # "unborn"
    <3>1. SUFFICES ASSUME pages[b].state = "unborn" PROVE FALSE
      OBVIOUS
    <3>2. \A x \in On : x[1] # b
      BY <1>4, <3>1, FreeListFacts, UnbornIsUnused
    <3>3. n = 0
      BY <3>2, FS_EmptySet DEF Free1
    <3>4. PagesAfter(FreeOnesOf)[b] = pages[b]
      BY <2>6, <3>3 DEF PagesAfter
    <3> QED
      BY <1>5, <1>6, <3>1, <3>4
  <2>8. /\ pages[b].ref = SlicesPerBatch - k
        /\ pages[b].state = IF pages[b].ref > 0 THEN "live" ELSE "freed"
    BY <2>7 DEF PagesInv, LiveInv
  <2>9. /\ PagesAfter(FreeOnesOf)[b].ref = pages[b].ref - n
        /\ PagesAfter(FreeOnesOf)[b].state =
             IF n # 0 /\ pages[b].ref - n <= 0 /\ pages[b].ref > 0 THEN "freed" ELSE pages[b].state
    <3>1. FreeOnesOf \in [Batches -> Int]
      BY <1>4
    <3> QED
      BY <2>6, <3>1, PagesAfterFacts
  <2>. HIDE DEF k, n
  <2>10. /\ (SlicesPerBatch - k) - n = SlicesPerBatch - (k + n)
         /\ n # 0 => SlicesPerBatch - k > 0
         /\ n = 0 => SlicesPerBatch - (k + n) = SlicesPerBatch - k
         /\ (SlicesPerBatch - (k + n) <= 0 <=> ~(SlicesPerBatch - (k + n) > 0))
    BY <2>3, <2>5
  <2> QED
    BY <1>5, <2>4, <2>8, <2>9, <2>10
<1>7. \A x \in Slices : x \in On' \/ users'[x] # <<>> => refs'[x] = 1
  BY <1>1, <1>2 DEF PagesInv, LiveInv
<1> QED
  BY <1>1, <1>3, <1>6, <1>7 DEF LiveInv

\* After a commit nothing is pending but reused slices.
LEMMA CommitPages ==
  ASSUME Types, SlicesInv, PagesInv, NEW t \in Threads, Undisturbed(t), Commit(t)
  PROVE  PagesInv'
<1>1. /\ UNCHANGED <<platform, owner, refs, users, step, alive>>
      /\ alive /\ uncommitted' = {} /\ dirty' = {} /\ fresh' = {} /\ failed' = 0
      /\ head' = IF platform.rwx THEN head ELSE None
  BY AtWork DEF Commit, FlushDirty, PagesInv, ListAfterCommit, GivesUpFree
<1>2. ~platform.rwx => FreeList' = <<>>
  BY <1>1, ForgottenList
<1>3. QuietInv'
  <2>1. 0 \in 0 .. MaxFailed
    BY AllocatorAssumption
  <2> QED
    BY <1>1, <1>2, <2>1 DEF QuietInv
<1>4. LiveInv'
  <2>1. CASE platform.rwx
    <3>1. \A b \in Batches : pages'[b].state = pages[b].state
      BY <2>1, CommittedType, TypeFacts DEF Commit, GivesUpFree
    <3>2. Pending' \subseteq Pending /\ Pending \subseteq Batches
      <4>1. On' = On
        BY <2>1, CommitSlices
      <4> QED
        BY <1>1, <4>1, FreeListFacts, TypeFacts DEF Pending, SlicesInv, Types, AllocatorTypeOK
    <3> QED
      BY <1>1, <2>1, <3>1, <3>2 DEF PagesInv, LiveInv
  <2>2. CASE ~platform.rwx
    BY <2>2, GivenUpPages
  <2> QED
    BY <2>1, <2>2
<1> QED
  BY <1>3, <1>4 DEF PagesInv

\* At the end nothing is.
LEMMA FreePages ==
  ASSUME Types, SlicesInv, PagesInv, Free
  PROVE  PagesInv'
<1>1. /\ UNCHANGED <<platform, owner, refs, next, prev, users, fresh, failed, step>>
      /\ owner = None /\ fresh = {} /\ failed = 0
      /\ \A t \in Threads : step[t].at = "none"
      /\ \A s \in Slices : users[s] = <<>>
      /\ pages' = PagesAfter(FreeOnesOf) /\ alive' = FALSE
      /\ head' = None /\ uncommitted' = {} /\ dirty' = {}
  BY DEF Free, PagesInv, QuietInv
<1>2. FreeList' = <<>> /\ On' = {}
  BY <1>1, ForgottenList
<1>3. Pending' = {}
  BY <1>1, <1>2 DEF Pending
<1>4. QuietInv'
  BY <1>1, <1>2 DEF PagesInv, QuietInv
<1>5. LiveInv'
  <2>1. CASE platform.rwx
    BY <1>1, <1>3, <2>1 DEF LiveInv
  <2>2. CASE ~platform.rwx
    <3>1. On = {} /\ ListInv
      BY <1>1, <2>2, NothingIsPending DEF PagesInv, SlicesInv
    <3>2. \A b \in Batches : FreeOnesOf[b] = 0
      BY <3>1, FreeOnesAreThose, FS_EmptySet
    <3>3. \A b \in Batches : pages'[b] = pages[b]
      BY <1>1, <3>2 DEF PagesAfter
    <3>4. \A b : Lost(b)' = Lost(b)
      BY <1>1, <1>2, <3>1 DEF Lost
    <3> QED
      BY <1>1, <1>2, <1>3, <2>2, <3>3, <3>4 DEF PagesInv, LiveInv
  <2> QED
    BY <2>1, <2>2
<1> QED
  BY <1>4, <1>5 DEF PagesInv

-----------------------------------------------------------------------------
(* The theorems *)

\* The allocator starts without batches.
LEMMA InitAllocator == Init => AllocatorInv
<1> SUFFICES ASSUME Init PROVE AllocatorInv
  OBVIOUS
<1>1. Types
  BY InitTypes
<1>2. Chain(<<>>, head, next)
  BY EmptySeq DEF Init, Chain, IsInjective
<1>3. FreeList = <<>> /\ On = {} /\ DOMAIN FreeList = {} /\ Chain(FreeList, head, next)
  BY <1>2, ListFromIs DEF FreeList, On, Range
<1>4. ListInv
  BY <1>3 DEF Init, ListInv
<1>5. UserInv
  <2>1. Len(<<>>) <= 1
    BY EmptySeq
  <2> QED
    BY <1>3, <2>1 DEF Init, UserInv
<1>6. StepInv
  BY DEF Init, StepInv, NoStep
<1>7. QuietInv
  BY <1>3, AllocatorAssumption DEF Init, QuietInv
<1>8. LiveInv
  <2>1. Pending = {}
    BY <1>3 DEF Init, Pending
  <2>2. \A b \in Batches : pages[b].state = "unborn"
    BY DEF Init, UnbornPages
  <2> QED
    BY <1>3, <2>1, <2>2 DEF Init, LiveInv
<1> QED
  BY <1>1, <1>4, <1>5, <1>6, <1>7, <1>8 DEF AllocatorInv, SlicesInv, PagesInv

\* No step of one thread at a time breaks the list or miscounts a batch.
LEMMA AllocatorSteps ==
  AllocatorInv /\ [Next]_vars /\ [OneAtATime]_vars => AllocatorInv'
<1> SUFFICES ASSUME Types, SlicesInv, PagesInv, [Next]_vars, [OneAtATime]_vars
             PROVE  Types' /\ SlicesInv' /\ PagesInv'
  BY DEF AllocatorInv
<1>0. Chain(FreeList, head, next) /\ StepInv
  BY DEF SlicesInv, ListInv
<1>1. ASSUME NEW t \in Threads, Undisturbed(t), Lock(t) \/ Unlock(t)
      PROVE  Types' /\ SlicesInv' /\ PagesInv'
  <2>1. Anything \in Request
    BY DEF Anything, Request
  <2> QED
    BY <1>1, <2>1, LockTypes, LockSlices, LockPages
<1>2. ASSUME NEW t \in Threads, Undisturbed(t), NEW r \in Request, TryAllocSliceNear(t, r)
      PROVE  Types' /\ SlicesInv' /\ PagesInv'
  BY <1>0, <1>2, TakesTypes, TakeSlices, LockPages
<1>3. ASSUME NEW t \in Threads, Undisturbed(t), NEW r \in Request, TryAllocBatchNear(t, r)
      PROVE  Types' /\ SlicesInv' /\ PagesInv'
  <2>1. PICK b \in Batches, base \in Bases : MapBatch(b, base, r)
    BY <1>3 DEF TryAllocBatchNear
  <2>2. /\ owner = t /\ step[t].at = "none"
        /\ UNCHANGED <<platform, owner, failed, step, alive>>
    BY <1>3 DEF TryAllocBatchNear
  <2> QED
    BY <1>3, <2>1, <2>2, MapTypes, MapSlices, MapPages
<1>4. ASSUME NEW t \in Threads, Undisturbed(t), Unlink(t)
      PROVE  Types' /\ SlicesInv' /\ PagesInv'
  BY <1>0, <1>4, UnlinkTypes, UnlinkSlices, UnlinkPages
<1>5. ASSUME NEW t \in Threads, Undisturbed(t), NEW s \in Slices, Fail(t, s)
      PROVE  Types' /\ SlicesInv' /\ PagesInv'
  <2>1. SliceUnref(t, s)
    BY <1>5 DEF Fail
  <2> QED
    BY <1>5, <2>1, UnrefTypes, UnrefSlices, FailPages
<1>6. ASSUME NEW t \in Threads, Undisturbed(t), NEW s \in Slices, Retire(t, s)
      PROVE  Types' /\ SlicesInv' /\ PagesInv'
  <2>1. SliceUnref(t, s)
    BY <1>6 DEF Retire
  <2> QED
    BY <1>6, <2>1, UnrefTypes, UnrefSlices, RetirePages
<1>7. ASSUME NEW t \in Threads, Undisturbed(t), LinkSlice(t)
      PROVE  Types' /\ SlicesInv' /\ PagesInv'
  BY <1>0, <1>7, LinkTypes, LinkSlices, LinkPages
<1>8. ASSUME NEW t \in Threads, Undisturbed(t), PublishSlice(t)
      PROVE  Types' /\ SlicesInv' /\ PagesInv'
  <2>1. alive
    BY <1>8, AtWork DEF PublishSlice, PagesInv
  <2> QED
    BY <1>0, <1>8, <2>1, LinkTypes, PublishSlices, LinkPages
<1>9. ASSUME NEW t \in Threads, Undisturbed(t), Commit(t)
      PROVE  Types' /\ SlicesInv' /\ PagesInv'
  BY <1>0, <1>9, CommitTypes, CommitSlices, CommitPages
<1>10. ASSUME Free
       PROVE  Types' /\ SlicesInv' /\ PagesInv'
  BY <1>0, <1>10, FreeTypes, FreeSlices, FreePages
<1>11. ASSUME UNCHANGED vars
       PROVE  Types' /\ SlicesInv' /\ PagesInv'
  <2>1. FreeList' = FreeList /\ On' = On
    BY <1>11, SameFreeList DEF vars
  <2>2. Types'
    BY <1>11 DEF vars, Types, AllocatorTypeOK
  <2>3. ListInv'
    BY <1>11, <2>1 DEF vars, SlicesInv, ListInv, Chain
  <2>4. UserInv' /\ StepInv'
    BY <1>11, <2>1 DEF vars, SlicesInv, UserInv, StepInv
  <2>5. Pending' = Pending /\ \A b : Lost(b)' = Lost(b)
    BY <1>11, <2>1 DEF vars, Pending, Lost
  <2>6. QuietInv' /\ LiveInv'
    BY <1>11, <2>1, <2>5 DEF vars, PagesInv, QuietInv, LiveInv
  <2> QED
    BY <2>2, <2>3, <2>4, <2>6 DEF SlicesInv, PagesInv
<1>12. CASE Next /\ OneAtATime
  <2>1. CASE Free
    BY <1>10, <2>1
  <2>2. CASE \E t \in Threads : ThreadNext(t)
    <3>1. PICK t \in Threads : ThreadNext(t)
      BY <2>2
    <3>2. Undisturbed(t)
      BY <1>12, <3>1 DEF OneAtATime
    <3> QED
      BY <1>1, <1>2, <1>3, <1>4, <1>5, <1>6, <1>7, <1>8, <1>9, <3>1, <3>2 DEF ThreadNext
  <2> QED
    BY <1>12, <2>1, <2>2 DEF Next
<1> QED
  BY <1>11, <1>12

\* One thread is undisturbed.
LEMMA OneThreadIsUndisturbed ==
  (\A t, u \in Threads : t = u) => (Spec => [][OneAtATime]_vars)
<1>1. SUFFICES ASSUME \A t, u \in Threads : t = u PROVE Spec => [][OneAtATime]_vars
  OBVIOUS
<1>2. OneAtATime
  BY <1>1 DEF OneAtATime, Undisturbed
<1> QED
  BY <1>2, PTL

\* Of a program that allocates and gives back one at a time the free list is a
\* list, and every batch counts its slices.
THEOREM AllocatorHolds == Spec /\ [][OneAtATime]_vars => []AllocatorInv
BY InitAllocator, AllocatorSteps, PTL DEF Spec

\* No two trampolines share memory, when the destroy notifications of listeners
\* and replacements run one at a time and not beside an allocation: for any
\* number of batches, slices, failures and commits
\* (hoox_code_allocator_alloc_slice, hoox_code_slice_unref).
THEOREM SlicesHaveOneUser == Spec /\ [][OneAtATime]_vars => []OneUserEach
<1>1. AllocatorInv => OneUserEach
  <2>1. SUFFICES ASSUME ListInv, UserInv PROVE OneUserEach
    BY DEF AllocatorInv, SlicesInv
  <2>2. /\ DOMAIN FreeList = 1 .. Len(FreeList)
        /\ \A i \in 1 .. Len(FreeList) : FreeList[i] \in On
        /\ \A i, j \in 1 .. Len(FreeList) : FreeList[i] = FreeList[j] => i = j
    BY <2>1, FreeListFacts
  <2> QED
    BY <2>1, <2>2 DEF UserInv, OneUserEach
<1> QED
  BY AllocatorHolds, <1>1, PTL

\* As long as fewer trampolines fail in a transaction than a batch has slices,
\* commit changes the protection of, and flushes, and the next request looks at,
\* memory that is still mapped (hoox_code_allocator_commit).
THEOREM WaitingBatchesAreLive ==
  MaxFailed < SlicesPerBatch => (Spec /\ [][OneAtATime]_vars => []PendingPagesAreLive)
<1>1. SUFFICES ASSUME MaxFailed < SlicesPerBatch
               PROVE  Spec /\ [][OneAtATime]_vars => []PendingPagesAreLive
  OBVIOUS
<1>2. AllocatorInv => PendingPagesAreLive
  <2>1. SUFFICES ASSUME Types, SlicesInv, PagesInv PROVE PendingPagesAreLive
    BY DEF AllocatorInv
  <2>2. ASSUME NEW b \in Pending PROVE pages[b].state = "live"
    <3>1. b \in Batches
      BY FreeListFacts, TypeFacts, <2>1, <2>2 DEF Pending, SlicesInv, Types, AllocatorTypeOK
    <3>2. pages[b].state \in {"unborn", "live", "freed"} /\ pages[b].state # "unborn"
      BY <2>1, <2>2, <3>1, TypeFacts DEF CodePages, PagesInv, LiveInv
    <3>3. CASE platform.rwx
      BY <2>1, <2>2, <3>1, <3>2, <3>3 DEF PagesInv, LiveInv
    <3>4. CASE ~platform.rwx
      <4>1. /\ pages[b].ref = SlicesPerBatch - Cardinality(Lost(b))
            /\ pages[b].state = IF pages[b].ref > 0 THEN "live" ELSE "freed"
            /\ Cardinality(Lost(b)) <= failed /\ failed \in 0 .. MaxFailed
        BY <2>1, <2>2, <3>1, <3>2, <3>4 DEF PagesInv, LiveInv, QuietInv
      <4>2. Cardinality(Lost(b)) \in 0 .. SlicesPerBatch
        BY <3>1, LostOnes
      <4>3. SlicesPerBatch \in Nat /\ MaxFailed \in Nat
        BY AllocatorAssumption
      <4>4. SlicesPerBatch - Cardinality(Lost(b)) > 0
        BY <1>1, <4>1, <4>2, <4>3
      <4> QED
        BY <4>1, <4>4
    <3> QED
      BY <3>3, <3>4
  <2>3. \A i \in DOMAIN FreeList : FreeList[i] \in On
    BY DEF On, Range
  <2> QED
    BY <2>2, <2>3 DEF Pending, PendingPagesAreLive
<1> QED
  BY <1>1, AllocatorHolds, <1>2, PTL

\* hoox_code_allocator_free leaves no batch mapped where slices are not reused:
\* each has counted down to its last slice by then.
THEOREM NoBatchStays == Spec /\ [][OneAtATime]_vars => []NothingLeftBehind
<1>1. AllocatorInv => NothingLeftBehind
  <2>1. SUFFICES ASSUME Types, SlicesInv, PagesInv, ~alive, ~platform.rwx, NEW b \in Batches,
                        pages[b].state = "live"
                 PROVE  FALSE
    BY DEF AllocatorInv, NothingLeftBehind
  <2>2. owner = None /\ \A s \in Slices : users[s] = <<>>
    BY <2>1 DEF PagesInv, QuietInv
  <2>3. On = {}
    BY <2>1, <2>2, NothingIsPending DEF PagesInv
  <2>4. Lost(b) = SlicesOf(b)
    BY <2>2, <2>3 DEF Lost, SlicesOf
  <2>5. Cardinality(Lost(b)) = SlicesPerBatch /\ SlicesPerBatch \in Nat
    BY <2>4, BatchesAreCounted
  <2>6. /\ pages[b].ref = SlicesPerBatch - Cardinality(Lost(b))
        /\ pages[b].state = IF pages[b].ref > 0 THEN "live" ELSE "freed"
    BY <2>1 DEF PagesInv, LiveInv
  <2>7. ~(pages[b].ref > 0)
    BY <2>5, <2>6
  <2> QED
    BY <2>1, <2>6, <2>7
<1> QED
  BY AllocatorHolds, <1>1, PTL

=============================================================================
