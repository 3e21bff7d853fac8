----------------------------- MODULE CodeAllocator -----------------------------
(***************************************************************************)
(* The allocator of the memory trampolines and thunks are written to       *)
(* (src/src/core/hooxcodeallocator.c): batches of pages cut into slices, a *)
(* doubly linked list of the free ones, the batches not yet made           *)
(* executable and those whose caches are to be flushed.                    *)
(*                                                                         *)
(* Slices are handed out, given back by a failing create_trampoline and    *)
(* committed by the thread that holds the interceptor's lock; destroy      *)
(* notifications give them back without it, so pushing a slice on the free *)
(* list is two steps.  Addresses are counted in slices.                    *)
(***************************************************************************)
EXTENDS Integers, Sequences, FiniteSets

CONSTANTS
  Threads,
  Batches,         \* HooxCodePages objects, each allocated at most once
  SlicesPerBatch,
  Bases,           \* the addresses memory can be mapped at
  NearAddress, MaxDistance,  \* the HooxAddressSpec of near requests
  Alignment,       \* the alignment asked for, in slices
  Platforms,       \* what the host supports: [rwx, segment, remap : BOOLEAN]
  None,
  MaxFailed        \* bound: slices given back before the commit

ASSUME AllocatorAssumption ==
  /\ IsFiniteSet(Batches) /\ MaxFailed \in Nat
  /\ SlicesPerBatch \in Nat \ {0} /\ Alignment \in Nat \ {0}
  /\ None \notin Threads /\ None \notin Batches \X (0 .. SlicesPerBatch - 1)
  /\ Bases \subseteq Nat
  /\ \A b \in Bases : b % SlicesPerBatch = 0 /\ b % Alignment = 0
  /\ Platforms \subseteq [rwx : BOOLEAN, segment : BOOLEAN, remap : BOOLEAN]

VARIABLES
  platform,     \* the member of Platforms the process runs on
  owner,        \* the thread that holds the interceptor's lock
  pages,        \* the HooxCodePages
  refs,         \* ref_count of each slice
  head, next, prev,  \* free_slices and the links of its elements
  uncommitted,  \* uncommitted_pages
  dirty,        \* dirty_pages
  users,        \* what was asked for the slices in use
  fresh,        \* the slices in use that were handed out since the last commit
  failed,       \* number of slices given back since the last commit
  step,         \* what each thread is in the middle of
  alive         \* hoox_code_allocator_free was not called

pageVars == <<pages, uncommitted, dirty>>
listVars == <<head, next, prev>>
vars == <<platform, owner, pages, refs, head, next, prev, uncommitted, dirty,
          users, fresh, failed, step, alive>>

Slices == Batches \X (0 .. SlicesPerBatch - 1)

\* HooxCodePages: ref_count, where it is, how its pages can be accessed, and
\* whether they are written through a second mapping or belong to a segment.
CodePages ==
  [state : {"unborn", "live", "freed"}, ref : Int, base : Nat \cup {None},
   prot : {"none", "rw", "rx", "rwx"}, remapped : BOOLEAN, segment : BOOLEAN]

UnbornPages ==
  [state |-> "unborn", ref |-> 0, base |-> None, prot |-> "none",
   remapped |-> FALSE, segment |-> FALSE]

\* What a caller asks for: anything, or a place near NearAddress, and aligned.
Request == [near : BOOLEAN, alignment : {0, Alignment}]
Anything == [near |-> FALSE, alignment |-> 0]

NoStep == [at |-> "none", slice |-> None, request |-> Anything]
Steps == [at : {"none", "unlink", "link", "publish"}, slice : Slices \cup {None},
          request : Request]

\* The slices from h on, by the links nx; cut off where a cycle would make it
\* endless.
ListFrom(h, nx) ==
  LET at[n \in 1 .. Cardinality(Slices)] ==
        IF n = 1 THEN h ELSE IF at[n - 1] = None THEN None ELSE nx[at[n - 1]]
  IN SubSeq(at, 1, Cardinality({n \in DOMAIN at : at[n] # None}))

FreeList == ListFrom(head, next)

-----------------------------------------------------------------------------
(* Requests *)

Address(s) == pages[s[1]].base + s[2]
Distance(a, b) == IF a < b THEN b - a ELSE a - b

\* Addresses count slices, so that a slice starts and ends at one address.
IsNear(s, request) ==
  request.near => Distance(NearAddress, Address(s)) <= MaxDistance

IsAligned(s, request) ==
  request.alignment = 0 \/ Address(s) % request.alignment = 0

SatisfiesAlignedOnly(s, request) == IsAligned(s, request)
Satisfies(s, request) == IsNear(s, request) /\ IsAligned(s, request)

\* hoox_try_alloc_n_pages_near, and the segment's own placing: the first and
\* the last byte of what is mapped are near enough.
Placed(base, request) ==
  request.near =>
    /\ Distance(NearAddress, base) <= MaxDistance
    /\ Distance(NearAddress, base + SlicesPerBatch - 1) <= MaxDistance

BatchProtection ==
  IF platform.rwx THEN "rwx"
  ELSE IF ~platform.segment THEN IF platform.remap THEN "rx" ELSE "rw"
  ELSE "rw"

-----------------------------------------------------------------------------
(* Taking slices, with the lock held *)

Lock(t) ==
  /\ alive /\ owner = None /\ step[t].at = "none"
  /\ owner' = t
  /\ UNCHANGED <<platform, pages, refs, head, next, prev, uncommitted, dirty,
                 users, fresh, failed, step, alive>>

Unlock(t) ==
  /\ owner = t /\ step[t].at = "none" /\ fresh = {} /\ failed = 0
  /\ owner' = None
  /\ UNCHANGED <<platform, pages, refs, head, next, prev, uncommitted, dirty,
                 users, fresh, failed, step, alive>>

\* The first free slice that will do is taken off the list ...
TryAllocSliceNear(t, request) ==
  LET free == FreeList
      fitting == {i \in DOMAIN free : Satisfies(free[i], request)}
  IN
  /\ owner = t /\ step[t].at = "none"
  /\ \E i \in fitting :
       /\ \A j \in fitting : i <= j
       /\ step' = [step EXCEPT ![t] =
                    [at |-> "unlink", slice |-> free[i], request |-> request]]
  /\ UNCHANGED <<platform, owner, pages, refs, head, next, prev, uncommitted,
                 dirty, users, fresh, failed, alive>>

HeadAsItWas(s) == head
HeadWithout(s) == IF s = head THEN next[s] ELSE head

\* ... by what its own links say.  Its reference count stays as it is.
Unlink(t) ==
  LET s == step[t].slice IN
  /\ step[t].at = "unlink"
  /\ next' = [x \in Slices |->
                IF x = s THEN None ELSE IF x = prev[s] THEN next[s] ELSE next[x]]
  /\ prev' = [x \in Slices |->
                IF x = s THEN None ELSE IF x = next[s] THEN prev[s] ELSE prev[x]]
  /\ head' = HeadWithout(s)
  /\ dirty' = dirty \cup {s[1]}
  /\ users' = [users EXCEPT ![s] = Append(@, step[t].request)]
  /\ fresh' = fresh \cup {s}
  /\ step' = [step EXCEPT ![t] = NoStep]
  /\ UNCHANGED <<platform, owner, pages, refs, uncommitted, failed, alive>>

ChainedPastEnd(b) ==
  [x \in Slices |->
     IF x[1] # b THEN next[x]
     ELSE IF x[2] = 0 THEN None ELSE <<b, x[2] + 1>>]

\* The new slices but the first, in front of those that were free.
Chained(b) ==
  [x \in Slices |->
     IF x[1] # b THEN next[x]
     ELSE IF x[2] = 0 THEN None
     ELSE IF x[2] < SlicesPerBatch - 1 THEN <<b, x[2] + 1>>
     ELSE head]

\* Batch b is mapped at base, and its first slice handed out: the alignment asked
\* for is not looked at.
MapBatch(b, base, request) ==
  /\ pages[b].state = "unborn" /\ Placed(base, request)
  /\ \A c \in Batches : pages[c].state = "live" => pages[c].base # base
  /\ pages' = [pages EXCEPT ![b] =
       [state |-> "live", ref |-> SlicesPerBatch, base |-> base,
        prot |-> BatchProtection,
        remapped |-> (platform.rwx \/ ~platform.segment) /\ platform.remap,
        segment |-> ~platform.rwx /\ platform.segment]]
  /\ refs' = [x \in Slices |-> IF x[1] = b THEN 1 ELSE refs[x]]
  /\ next' = Chained(b)
  /\ prev' = [x \in Slices |->
               IF x[1] = b
               THEN IF x[2] > 1 THEN <<b, x[2] - 1>> ELSE None
               ELSE IF x = head /\ SlicesPerBatch > 1
                    THEN <<b, SlicesPerBatch - 1>> ELSE prev[x]]
  /\ head' = IF SlicesPerBatch > 1 THEN <<b, 1>> ELSE head
  /\ uncommitted' = IF platform.rwx THEN uncommitted ELSE uncommitted \cup {b}
  /\ dirty' = dirty \cup {b}
  /\ users' = [users EXCEPT ![<<b, 0>>] = Append(@, request)]
  /\ fresh' = fresh \cup {<<b, 0>>}

\* With no fitting slice a batch is mapped.
TryAllocBatchNear(t, request) ==
  /\ owner = t /\ step[t].at = "none"
  /\ LET free == FreeList IN \A i \in DOMAIN free : ~Satisfies(free[i], request)
  /\ \E b \in Batches, base \in Bases : MapBatch(b, base, request)
  /\ UNCHANGED <<platform, owner, failed, step, alive>>

-----------------------------------------------------------------------------
(* Giving them back *)

\* hoox_code_pages_unref, n times.
PagesAfter(n) ==
  [b \in Batches |->
     IF n[b] = 0 THEN pages[b]
     ELSE LET ref == pages[b].ref - n[b] IN
          IF ref <= 0 /\ pages[b].ref > 0
          THEN [pages[b] EXCEPT !.ref = ref, !.state = "freed", !.prot = "none"]
          ELSE [pages[b] EXCEPT !.ref = ref]]

OneOf(b) == [c \in Batches |-> IF c = b THEN 1 ELSE 0]
FreeOnesForgotten == [c \in Batches |-> 0]
FreeOnesOf == [c \in Batches |-> Cardinality({i \in DOMAIN FreeList : FreeList[i][1] = c})]

\* A slice whose count does not become zero stays where it is, for good if it
\* had been given back before.  The links come next; otherwise the batch goes
\* with its last slice.
SliceUnref(t, s) ==
  /\ step[t].at = "none" /\ users[s] # <<>>
  /\ users' = [users EXCEPT ![s] = Tail(@)]
  /\ refs' = [refs EXCEPT ![s] = @ - 1]
  /\ IF refs[s] # 1
     THEN UNCHANGED <<pages, step>>
     ELSE IF platform.rwx
     THEN /\ step' = [step EXCEPT ![t] = [NoStep EXCEPT !.at = "link", !.slice = s]]
          /\ UNCHANGED pages
     ELSE /\ pages' = PagesAfter(OneOf(s[1]))
          /\ UNCHANGED step
  /\ UNCHANGED <<platform, owner, head, next, prev, uncommitted, dirty, alive>>

\* A trampoline that could not be made gives its slice back at once ...
Fail(t, s) ==
  /\ owner = t /\ s \in fresh /\ failed < MaxFailed
  /\ SliceUnref(t, s)
  /\ fresh' = fresh \ {s} /\ failed' = failed + 1

\* ... a context or backend destroyed does so after the commit, unlocked.
Retire(t, s) ==
  /\ owner # t /\ s \notin fresh
  /\ SliceUnref(t, s)
  /\ UNCHANGED <<fresh, failed>>

LinkSlice(t) ==
  LET s == step[t].slice IN
  /\ step[t].at = "link"
  /\ prev' = IF head = None THEN prev ELSE [prev EXCEPT ![head] = s]
  /\ next' = [next EXCEPT ![s] = head]
  /\ step' = [step EXCEPT ![t].at = "publish"]
  /\ UNCHANGED <<platform, owner, pages, refs, head, uncommitted, dirty, users,
                 fresh, failed, alive>>

PublishSlice(t) ==
  /\ step[t].at = "publish"
  /\ head' = step[t].slice
  /\ step' = [step EXCEPT ![t] = NoStep]
  /\ UNCHANGED <<platform, owner, pages, refs, next, prev, uncommitted, dirty,
                 users, fresh, failed, alive>>

-----------------------------------------------------------------------------
(* Commit and free *)

CommittedUnlessSegment(p) ==
  IF ~p.segment /\ ~platform.remap THEN [p EXCEPT !.prot = "rx"] ELSE p

\* What mapping a segment or mprotect makes of an uncommitted batch.
Committed(p) ==
  IF p.segment \/ ~platform.remap THEN [p EXCEPT !.prot = "rx"] ELSE p

\* Where pages cannot be written and executed, free slices are given up.
GivesUpFreeNever == FALSE
GivesUpFree == ~platform.rwx
ListKept == head
ListAfterCommit == IF GivesUpFree THEN None ELSE head

FlushNone == dirty
FlushDirty == {}

Commit(t) ==
  /\ owner = t /\ step[t].at = "none"
  /\ fresh # {} \/ failed > 0
  /\ LET protected == [b \in Batches |-> IF b \in uncommitted
                                         THEN Committed(pages[b]) ELSE pages[b]]
         after == PagesAfter(FreeOnesOf)
     IN pages' = IF GivesUpFree
                 THEN [b \in Batches |->
                         IF after[b].state = "live"
                         THEN [after[b] EXCEPT !.prot = protected[b].prot]
                         ELSE after[b]]
                 ELSE protected
  /\ head' = ListAfterCommit
  /\ uncommitted' = {}
  /\ dirty' = FlushDirty
  /\ fresh' = {} /\ failed' = 0
  /\ UNCHANGED <<platform, owner, refs, next, prev, users, step, alive>>

\* hoox_code_allocator_free, when everything it handed out is given back.
Free ==
  /\ alive /\ owner = None
  /\ \A t \in Threads : step[t].at = "none"
  /\ \A s \in Slices : users[s] = <<>>
  /\ pages' = PagesAfter(FreeOnesOf)
  /\ alive' = FALSE
  /\ head' = None /\ uncommitted' = {} /\ dirty' = {}
  /\ UNCHANGED <<platform, owner, refs, next, prev, users, fresh, failed, step>>

-----------------------------------------------------------------------------

Init ==
  /\ platform \in Platforms
  /\ owner = None
  /\ pages = [b \in Batches |-> UnbornPages]
  /\ refs = [s \in Slices |-> 0]
  /\ head = None
  /\ next = [s \in Slices |-> None] /\ prev = [s \in Slices |-> None]
  /\ uncommitted = {} /\ dirty = {}
  /\ users = [s \in Slices |-> <<>>]
  /\ fresh = {} /\ failed = 0
  /\ step = [t \in Threads |-> NoStep]
  /\ alive = TRUE

ThreadNext(t) ==
  \/ Lock(t) \/ Unlock(t)
  \/ \E request \in Request :
       TryAllocSliceNear(t, request) \/ TryAllocBatchNear(t, request)
  \/ Unlink(t)
  \/ \E s \in Slices : Fail(t, s) \/ Retire(t, s)
  \/ LinkSlice(t) \/ PublishSlice(t)
  \/ Commit(t)

Next == (\E t \in Threads : ThreadNext(t)) \/ Free

Spec == Init /\ [][Next]_vars

-----------------------------------------------------------------------------
(* Properties *)

\* Batches, slices, lists and steps are what the declarations say; a slice
\* never has a count above one.
AllocatorTypeOK ==
  /\ platform \in Platforms
  /\ owner \in Threads \cup {None}
  /\ pages \in [Batches -> CodePages]
  /\ refs \in [Slices -> Int] /\ \A s \in Slices : refs[s] <= 1
  /\ head \in Slices \cup {None}
  /\ next \in [Slices -> Slices \cup {None}]
  /\ prev \in [Slices -> Slices \cup {None}]
  /\ uncommitted \subseteq Batches /\ dirty \subseteq Batches
  /\ \A s \in Slices : \A i \in DOMAIN users[s] : users[s][i] \in Request
  /\ fresh \subseteq Slices
  /\ step \in [Threads -> Steps]

\* A slice has one user at a time, is not on the free list meanwhile, and is
\* on the list once: no two trampolines share memory.  (Destroy notifications
\* of two threads, or of one beside an allocation of another, break this: the
\* push of hoox_code_slice_unref is not atomic and not under the lock.)
OneUserEach ==
  /\ \A s \in Slices : Len(users[s]) <= 1
  /\ \A i, j \in DOMAIN FreeList : FreeList[i] = FreeList[j] => i = j
  /\ \A i \in DOMAIN FreeList :
       users[FreeList[i]] # <<>> =>
         \E t \in Threads : step[t].slice = FreeList[i]

\* Every batch that commit or the next request will touch is still allocated:
\* as long as fewer trampolines fail in a transaction than a batch has slices.
PendingPagesAreLive ==
  /\ \A b \in uncommitted \cup dirty : pages[b].state = "live"
  /\ \A i \in DOMAIN FreeList : pages[FreeList[i][1]].state = "live"

\* Once the transaction that made them is committed, trampolines are in memory
\* that is allocated and executable, and no cache holds what was there before.
CommittedIsExecutable ==
  \A s \in Slices :
    users[s] # <<>> /\ s \notin fresh =>
      /\ pages[s[1]].state = "live"
      /\ pages[s[1]].prot \in {"rx", "rwx"}
      /\ owner = None => s[1] \notin dirty

\* A slice just handed out can be written to: at its address or through the
\* second mapping.
HandedOutIsWritable ==
  \A s \in fresh :
    pages[s[1]].state = "live"
    /\ (pages[s[1]].prot \in {"rw", "rwx"} \/ pages[s[1]].remapped)

\* A slice asked for near an address or aligned is, also when it is a reused
\* one or the first of a batch.
AsAskedFor ==
  \A s \in Slices : \A i \in DOMAIN users[s] :
    IsNear(s, users[s][i]) /\ IsAligned(s, users[s][i])

\* A batch counts its slices that are free or in use and, where slices are
\* reused, all of them.
BatchesCountSlices ==
  alive => \A b \in Batches :
    pages[b].state = "live" =>
      pages[b].ref =
        IF platform.rwx THEN SlicesPerBatch
        ELSE Cardinality({s \in Slices :
               s[1] = b /\ (users[s] # <<>> \/ \E i \in DOMAIN FreeList : FreeList[i] = s)}
               \cup {s \in {step[t].slice : t \in Threads} \ {None} : s[1] = b})

\* Where slices are not reused, the allocator leaves no memory behind.  (Where
\* they are, a slice reused keeps a count of zero, is never seen to be given
\* back a second time, and keeps its batch.)
NothingLeftBehind ==
  ~alive /\ ~platform.rwx => \A b \in Batches : pages[b].state # "live"

=============================================================================
