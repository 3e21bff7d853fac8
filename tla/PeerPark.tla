------------------------------- MODULE PeerPark -------------------------------
(***************************************************************************)
(* Writing code while every other thread of the process is stopped:        *)
(* hoox_memory_patch_code_pages_guarded (src/src/core/hooxmemory.c), which *)
(* makes pages writable and restores them, and the signal-driven parking   *)
(* of src/src/backend/linux/hooxpark-linux.c that it tries again and again.*)
(*                                                                         *)
(* A thread takes the parking signal between any two of its steps, also    *)
(* while it is itself about to patch; the handler runs with the signal     *)
(* blocked, and signals sent meanwhile queue.  What other threads execute  *)
(* is only told apart by whether it is one of the bytes to be written.     *)
(***************************************************************************)
EXTENDS Integers, Sequences, FiniteSets

CONSTANTS
  Threads,
  Patchers,       \* the threads that call hoox_memory_patch_code_pages_guarded
  FirstThreads,   \* the threads there are at first; the others can be created
  Guarded,        \* the caller passes the bytes to be written as guard ranges
  Parks,          \* built with HOOX_POSIX_PATCH_PC_GUARD
  Pages,
  FirstProtection,
  PagesOf,        \* the pages each patcher is to write, in order
  MaxSlots,       \* HOOX_PEER_PARK_MAX_THREADS
  Refusable,      \* bound: the patchers the system may refuse a protection
  None,
  Attempts        \* bound: each patcher's attempts at a park, 1 + max_guard_attempts

ASSUME ParkAssumption ==
  /\ IsFiniteSet(Threads)
  /\ Refusable \subseteq Patchers /\ Patchers \subseteq FirstThreads /\ FirstThreads \subseteq Threads
  /\ Guarded \in BOOLEAN /\ Parks \in BOOLEAN
  /\ FirstProtection \in [Pages -> {"rx", "rwx"}]
  /\ PagesOf \in [Patchers -> Seq(Pages) \ {<<>>}]
  /\ MaxSlots \in Nat
  /\ Attempts \in [Patchers -> Nat \ {0}]
  /\ None \notin Threads

VARIABLES
  busy,      \* hoox_peer_park_busy
  release,   \* hoox_the_peer_park.release ...
  count,     \* ... its count ...
  slots,     \* ... and its slots, those past count being left from before
  alive,     \* the threads of the process
  inside,    \* those about to execute one of the bytes in question
  pending,   \* the parking signals queued for each thread
  handler,   \* where each thread is in the signal handler
  patcher,   \* where each patcher is in its call
  pages,     \* the protection of each page
  writing,   \* the patchers that have begun to write and not finished
  overlap    \* a park began while a thread was in the handler of one before

vars == <<busy, release, count, slots, alive, inside, pending, handler, patcher,
          pages, writing, overlap>>
park == <<release, count, slots>>
world == <<alive, inside>>

\* A slot: the thread it is for, whether the instruction pointer it stored was
\* one of the guarded ones, and its arrival.  (The flag `done' is left out: it
\* only shortens a wait that can time out at any moment.)
Slot == [tid : Threads \cup {None}, inside : BOOLEAN, arrived : BOOLEAN]
FreshSlot(t) == [tid |-> t, inside |-> FALSE, arrived |-> FALSE]

Outside == [at |-> "none", slot |-> 0]
Handler == [at : {"none", "pc", "arrive", "spin", "done"},
            slot : 0 .. MaxSlots]

\* todo: the threads enumerated and not yet looked at; new: whether this pass
\* has signalled any; gone: whether one of them had exited when it was to be
\* signalled; left: the further attempts allowed; wrote: the bytes are written;
\* original: the original_protections; page: the page whose protection is changed
\* next; refused: a protection could not be changed.
Protection == {"rx", "rwx"}
Patcher == [at : {"query", "idle", "reset", "collect", "scan", "signal", "held",
                  "unprotect", "write", "protect", "release", "leave", "given up",
                  "done"},
            todo : SUBSET Threads, new : BOOLEAN, gone : BOOLEAN, left : Nat,
            wrote : BOOLEAN, original : [Pages -> Protection], page : Nat,
            refused : BOOLEAN]
NotBegun(p) == [at |-> "query", todo |-> {}, new |-> FALSE, gone |-> FALSE,
                left |-> Attempts[p] - 1, wrote |-> FALSE, original |-> FirstProtection, page |-> 1,
                refused |-> FALSE]

Used == 1 .. count
Executes(t) == t \in alive /\ handler[t].at = "none"
At(p, place) == Executes(p) /\ patcher[p].at = place
Goes(p, place) == patcher' = [patcher EXCEPT ![p].at = place]

TriesAgainForever(p) == patcher' = [patcher EXCEPT ![p].at = "idle"]

\* After a failed attempt.
TriesAgain(p) ==
  patcher' = [patcher EXCEPT
    ![p].at = IF patcher[p].left = 0 THEN "given up" ELSE "idle",
    ![p].left = IF @ = 0 THEN 0 ELSE @ - 1]

-----------------------------------------------------------------------------
(* The handler *)

\* A thread that has no slot in the current park leaves at once.
TakeSignal(t) ==
  LET mine == {i \in Used : slots[i].tid = t} IN
  /\ Executes(t) /\ pending[t] > 0
  /\ pending' = [pending EXCEPT ![t] = @ - 1]
  /\ handler' =
       IF mine = {} THEN handler
       ELSE [handler EXCEPT ![t] =
              [at |-> "pc", slot |-> CHOOSE i \in mine : \A j \in mine : i <= j]]
  /\ UNCHANGED <<busy, park, world, patcher, pages, writing, overlap>>

StorePc(t) ==
  /\ handler[t].at = "pc"
  /\ slots' = [slots EXCEPT ![handler[t].slot].inside = (t \in inside)]
  /\ handler' = [handler EXCEPT ![t].at = "arrive"]
  /\ UNCHANGED <<busy, release, count, world, pending, patcher, pages, writing, overlap>>

Arrive(t) ==
  /\ handler[t].at = "arrive"
  /\ slots' = [slots EXCEPT ![handler[t].slot].arrived = TRUE]
  /\ handler' = [handler EXCEPT ![t].at = "spin"]
  /\ UNCHANGED <<busy, release, count, world, pending, patcher, pages, writing, overlap>>

LeaveHandler(t) ==
  /\ handler[t].at = "spin" /\ release
  /\ handler' = [handler EXCEPT ![t] = Outside]
  /\ UNCHANGED <<busy, park, world, pending, patcher, pages, writing, overlap>>

-----------------------------------------------------------------------------
(* hoox_peer_park_begin *)

TestNothing == FALSE
TestAndSet == busy

\* One at a time: an attempt that finds another park held has failed.  So has
\* one that cannot install the handler.
Acquire(p) ==
  /\ At(p, "idle")
  /\ IF TestAndSet THEN TriesAgain(p) ELSE Goes(p, "reset") \/ Goes(p, "release")
  /\ busy' = TRUE
  /\ UNCHANGED <<park, world, pending, handler, pages, writing, overlap>>

Reset(p) ==
  /\ At(p, "reset")
  /\ release' = FALSE /\ count' = 0
  /\ overlap' = (overlap \/ \E t \in Threads : handler[t].at # "none")
  /\ Goes(p, "collect")
  /\ UNCHANGED <<busy, slots, world, pending, handler, pages, writing>>

\* hoox_peer_park_collect_tids can fail, too.
CollectTids(p) ==
  /\ At(p, "collect")
  /\ \/ patcher' = [patcher EXCEPT ![p] =
           [@ EXCEPT !.at = "scan", !.todo = alive \ {p}, !.new = FALSE, !.gone = FALSE]]
     \/ Goes(p, "release")
  /\ UNCHANGED <<busy, park, world, pending, handler, pages, writing, overlap>>

KnowsNobody(t) == FALSE
Knows(t) == \E i \in Used : slots[i].tid = t

\* A thread without a slot gets one before it is signalled, if there is one ...
TakeSlot(p) ==
  /\ At(p, "scan")
  /\ \E t \in patcher[p].todo :
       IF Knows(t)
       THEN /\ patcher' = [patcher EXCEPT ![p].todo = @ \ {t}]
            /\ UNCHANGED park
       ELSE IF count = MaxSlots THEN Goes(p, "release") /\ UNCHANGED park
       ELSE /\ slots' = [slots EXCEPT ![count + 1] = FreshSlot(t)]
            /\ count' = count + 1
            /\ Goes(p, "signal")
            /\ UNCHANGED release
  /\ UNCHANGED <<busy, world, pending, handler, pages, writing, overlap>>

\* ... and loses it when it has exited.
Tgkill(p) ==
  LET t == slots[count].tid IN
  /\ At(p, "signal")
  /\ IF t \in alive
     THEN /\ patcher' = [patcher EXCEPT
               ![p].at = "scan", ![p].todo = @ \ {t}, ![p].new = TRUE]
          /\ pending' = [pending EXCEPT ![t] = @ + 1]
          /\ UNCHANGED count
     ELSE /\ patcher' = [patcher EXCEPT
               ![p].at = "scan", ![p].todo = @ \ {t}, ![p].gone = TRUE]
          /\ count' = count - 1
          /\ UNCHANGED pending
  /\ UNCHANGED <<busy, release, slots, world, handler, pages, writing, overlap>>

NobodyAwaited == TRUE
AllArrived == \A i \in Used : slots[i].arrived

\* Only a pass that has signalled nobody ends the search.
AfterFirstPass(p) == "held"
AfterPass(p) == IF patcher[p].new THEN "collect" ELSE "held"

WaitArrived(p) ==
  /\ At(p, "scan") /\ patcher[p].todo = {} /\ AllArrived
  /\ Goes(p, AfterPass(p))
  /\ UNCHANGED <<busy, park, world, pending, handler, pages, writing, overlap>>

\* The deadline passes, with threads that have not arrived.
WaitTimesOut(p) ==
  /\ At(p, "scan") /\ patcher[p].todo = {} /\ ~AllArrived
  /\ Goes(p, "release")
  /\ UNCHANGED <<busy, park, world, pending, handler, pages, writing, overlap>>

-----------------------------------------------------------------------------
(* The guarded write and the end of a park *)

\* hoox_peer_park_all_clear_of, of the ranges the caller passed.
AlwaysClear == TRUE
AllClear == Guarded => \A i \in Used : ~slots[i].inside

CheckRanges(p) ==
  /\ At(p, "held")
  /\ Goes(p, IF AllClear THEN "unprotect" ELSE "release")
  /\ UNCHANGED <<busy, park, world, pending, handler, pages, writing, overlap>>

\* The protections are looked up before any attempt at a park.
Query(p) ==
  /\ At(p, "query")
  /\ patcher' = [patcher EXCEPT ![p].original = pages,
                                ![p].at = IF Parks THEN "idle" ELSE "unprotect"]
  /\ UNCHANGED <<busy, park, world, pending, handler, pages, writing, overlap>>

\* All pages in order, then on to what follows; where the system refuses one,
\* the call ends, and leaves the others as they are.
Ending == IF Parks THEN "release" ELSE "done"

Refused(p) ==
  /\ p \in Refusable
  /\ patcher' = [patcher EXCEPT ![p].at = Ending, ![p].refused = TRUE, ![p].left = 0]
  /\ UNCHANGED pages

Changed(p, protection, follows) ==
  LET k == patcher[p].page
      last == k = Len(PagesOf[p]) IN
  /\ pages' = [pages EXCEPT ![PagesOf[p][k]] = protection]
  /\ patcher' = [patcher EXCEPT ![p].page = IF last THEN 1 ELSE k + 1,
                                ![p].at = IF last THEN follows ELSE @]

Unprotect(p) ==
  /\ At(p, "unprotect")
  /\ Changed(p, "rwx", "write") \/ Refused(p)
  /\ UNCHANGED <<busy, park, world, pending, handler, writing, overlap>>

BeginWrite(p) ==
  /\ At(p, "write") /\ p \notin writing
  /\ writing' = writing \cup {p}
  /\ UNCHANGED <<busy, park, world, pending, handler, patcher, pages, overlap>>

EndWrite(p) ==
  /\ At(p, "write") /\ p \in writing
  /\ writing' = writing \ {p}
  /\ patcher' = [patcher EXCEPT ![p].at = "protect", ![p].wrote = TRUE]
  /\ UNCHANGED <<busy, park, world, pending, handler, pages, overlap>>

RestoredToRx(p) == "rx"
Restored(p) == patcher[p].original[PagesOf[p][patcher[p].page]]

Protect(p) ==
  /\ At(p, "protect")
  /\ Changed(p, Restored(p), Ending) \/ Refused(p)
  /\ UNCHANGED <<busy, park, world, pending, handler, writing, overlap>>

\* hoox_peer_park_release_all, of a park that failed or is over: wait for the
\* handlers that arrived, up to a deadline.
ReleaseAllOnlyAfterWrite(p) ==
  /\ At(p, "release")
  /\ release' = patcher[p].wrote
  /\ Goes(p, "leave")
  /\ UNCHANGED <<busy, count, slots, world, pending, handler, pages, writing, overlap>>

ReleaseAll(p) ==
  /\ At(p, "release")
  /\ release' = TRUE
  /\ Goes(p, "leave")
  /\ UNCHANGED <<busy, count, slots, world, pending, handler, pages, writing, overlap>>

LeavePark(p) ==
  /\ At(p, "leave")
  /\ busy' = FALSE
  /\ IF patcher[p].wrote THEN Goes(p, "done") ELSE TriesAgain(p)
  /\ UNCHANGED <<park, world, pending, handler, pages, writing, overlap>>

-----------------------------------------------------------------------------
(* What the other threads do meanwhile *)

Move(t) ==
  /\ Executes(t) /\ t \notin Patchers
  /\ inside' = IF t \in inside THEN inside \ {t} ELSE inside \cup {t}
  /\ UNCHANGED <<busy, park, alive, pending, handler, patcher, pages, writing, overlap>>

Create(t, n) ==
  /\ Executes(t) /\ n \notin alive
  /\ t \in Patchers => patcher[t].at \in {"query", "given up", "done"}
  /\ alive' = alive \cup {n}
  /\ UNCHANGED <<busy, park, inside, pending, handler, patcher, pages, writing, overlap>>

\* Signals of a thread that exits go with it; its id can be used again.
Exit(t) ==
  /\ Executes(t) /\ t \notin Patchers
  /\ alive' = alive \ {t} /\ inside' = inside \ {t}
  /\ pending' = [pending EXCEPT ![t] = 0]
  /\ UNCHANGED <<busy, park, handler, patcher, pages, writing, overlap>>

-----------------------------------------------------------------------------

Init ==
  /\ busy = FALSE /\ release = FALSE /\ count = 0
  /\ slots = [i \in 1 .. MaxSlots |-> FreshSlot(None)]
  /\ alive = FirstThreads /\ inside = {}
  /\ pending = [t \in Threads |-> 0]
  /\ handler = [t \in Threads |-> Outside]
  /\ patcher = [p \in Patchers |-> NotBegun(p)]
  /\ pages = FirstProtection
  /\ writing = {} /\ overlap = FALSE

HandlerStep(t) ==
  TakeSignal(t) \/ StorePc(t) \/ Arrive(t) \/ LeaveHandler(t)

PatcherStep(p) ==
  \/ Query(p) \/ Acquire(p) \/ Reset(p) \/ CollectTids(p) \/ TakeSlot(p)
  \/ Tgkill(p) \/ WaitArrived(p) \/ WaitTimesOut(p)
  \/ CheckRanges(p) \/ Unprotect(p) \/ BeginWrite(p) \/ EndWrite(p) \/ Protect(p)
  \/ ReleaseAll(p) \/ LeavePark(p)

Next ==
  \/ \E t \in Threads :
       HandlerStep(t) \/ Move(t) \/ Exit(t) \/ \E n \in Threads : Create(t, n)
  \/ \E p \in Patchers : PatcherStep(p)

\* Every thread gets to run, in the handler as outside.
Spec ==
  /\ Init /\ [][Next]_vars
  /\ \A t \in Threads : WF_vars(HandlerStep(t))
  /\ \A p \in Patchers : WF_vars(PatcherStep(p))

-----------------------------------------------------------------------------
(* Properties *)

\* The park, the handlers and the calls are what the declarations say, and no
\* slot is written past the last.
ParkTypeOK ==
  /\ busy \in BOOLEAN /\ release \in BOOLEAN
  /\ count \in 0 .. MaxSlots
  /\ slots \in [1 .. MaxSlots -> Slot]
  /\ alive \subseteq Threads /\ inside \subseteq alive
  /\ pending \in [Threads -> Nat]
  /\ handler \in [Threads -> Handler]
  /\ patcher \in [Patchers -> Patcher]
  /\ pages \in [Pages -> Protection]
  /\ writing \subseteq Patchers /\ overlap \in BOOLEAN

\* "A full pass found no new threads: every peer is parked": while a park is
\* held, each of the threads there are then waits in its handler for the
\* release, whatever threads were created or have exited during the search.
EveryPeerIsParked ==
  \A p \in Patchers :
    patcher[p].at \in {"held", "unprotect", "write", "protect"} =>
      \A t \in alive \ {p} : handler[t].at = "spin"

\* It is not so when a thread that the last pass was to signal had exited: that
\* pass has signalled nobody then, and what the thread created before it exited
\* runs.  Otherwise it is so, and the threads that patch, which do not exit, are
\* parked in any case; none of those parked is released before the write is over.
PeersAreParked ==
  \A p \in Patchers :
    patcher[p].at \in {"held", "unprotect", "write", "protect"} =>
      /\ ~release
      /\ \A t \in (IF patcher[p].gone THEN Patchers ELSE alive) \ {p} :
           handler[t].at = "spin"

\* No byte is written while a thread is about to execute one of them: "the
\* no-thread-in-transit guarantee" that parking is there for.
NoThreadInTransit == writing # {} => inside = {}

\* It is given as long as each park begins after every thread has left the
\* handler of the parks before, as a thread that takes its signal in time does,
\* and no thread exits between being listed and being signalled by the last pass.
TransitGuardedUnlessLate ==
  ~overlap /\ (\A p \in writing : ~patcher[p].gone) => NoThreadInTransit

\* Pages are writable while they are written, and afterwards what they were at
\* first, unless the system refused, however the calls for them overlap: a call
\* that looked them up while another had made them writable would leave them so,
\* and one that ended during another's write would take the permission away.
PagesComeBack ==
  /\ \A p \in writing : \A i \in DOMAIN PagesOf[p] : pages[PagesOf[p][i]] = "rwx"
  /\ (\A p \in Patchers :
        patcher[p].at \notin {"unprotect", "write", "protect"} /\ ~patcher[p].refused)
       => pages = FirstProtection

\* Parks do not overlap, although they share one set of slots, and a thread
\* that waits to patch can be parked by the one that does.
OneParkAtATime ==
  \A p, q \in Patchers :
    {patcher[p].at, patcher[q].at} \cap {"query", "idle", "given up", "done"} = {} => p = q

\* A thread that entered the handler leaves it again: of a park that succeeded
\* as of one that timed out, or that began while the thread was leaving.
ParkedThreadsComeBack ==
  \A t \in Threads : handler[t].at # "none" ~> handler[t].at = "none"

\* The call ends, with the bytes written or not, however threads are created
\* and whichever of them do not take their signal in time.
PatchingEnds ==
  \A p \in Patchers : <>(patcher[p].at \in {"done", "given up"})

=============================================================================
