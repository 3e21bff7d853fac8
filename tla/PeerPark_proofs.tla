--------------------------- MODULE PeerPark_proofs ---------------------------
(***************************************************************************)
(* Proofs about PeerPark, for any number of threads, patchers, pages and   *)
(* slots: while a park is held every other thread waits for its release,   *)
(* nothing is written under a thread, and the pages get back their         *)
(* protection.  All but the type invariant are about builds that park; of  *)
(* those that do not, TLC refutes the last.                                *)
(***************************************************************************)
EXTENDS PeerPark, FiniteSetTheorems, TLAPS

-----------------------------------------------------------------------------
(* The inductive invariant *)

KnownSet == {t \in Threads : Knows(t)}
HandlerSet == {t \in Threads : handler[t].at # "none"}
SpinSet == {t \in Threads : handler[t].at = "spin"}
ArrivedSet == {i \in Used : slots[i].arrived}

\* From taking the park to giving it back, and the part of it in which what
\* the handlers have done counts.
Critical == {"unprotect", "write", "protect"}
Held == {"held"} \cup Critical
Active == {"collect", "scan", "signal"} \cup Held
InPark == Active \cup {"reset", "release", "leave"}

\* Patchers do not exit, nor are they among those about to execute the bytes;
\* who is in the handler is alive and has been there through a slot.
WorldInv ==
  /\ Patchers \subseteq alive /\ inside \cap Patchers = {}
  /\ \A t \in HandlerSet : t \in alive /\ handler[t].slot \in 1 .. MaxSlots

\* One patcher at a time has the park.
BusyInv ==
  /\ \A p \in Patchers : patcher[p].at \in InPark => busy
  /\ \A p, q \in Patchers : patcher[p].at \in InPark /\ patcher[q].at \in InPark => p = q

\* Each slot in use is for a thread of its own.
SlotsInv ==
  \A i, j \in Used : slots[i].tid \in Threads /\ (slots[i].tid = slots[j].tid => i = j)

\* Exactly the threads with a slot are in the handler, waiting.
AllParked ==
  /\ HandlerSet = SpinSet
  /\ SpinSet = KnownSet

\* What an active park of p can rely on.  A thread that is in the handler, from
\* an earlier park as well, has a slot or is to be looked at, so that as many
\* threads wait as there are slots once all of these have been marked, no matter
\* who marked them.
ActiveInv(p) ==
  /\ ~release
  /\ handler[p].at = "none" /\ ~Knows(p)
  /\ Cardinality(ArrivedSet) <= Cardinality(SpinSet)

CollectInv(p) == count = 0 \/ AllParked

ScanInv(p) ==
  /\ p \notin patcher[p].todo
  /\ HandlerSet \subseteq KnownSet \cup patcher[p].todo
  /\ Patchers \ {p} \subseteq KnownSet \cup patcher[p].todo

\* A pass that has signalled nobody so far, and found nobody gone: it has still
\* to come to somebody new, or there is nobody new.
PassInv(p) ==
  ~patcher[p].new /\ ~patcher[p].gone =>
    /\ count = 0 \/ AllParked
    /\ (\E t \in patcher[p].todo : ~Knows(t)) \/ alive \ {p} \subseteq KnownSet

SignalInv(p) == count > 0 /\ slots[count].tid \in patcher[p].todo

HeldInv(p) ==
  /\ AllParked
  /\ Patchers \ {p} \subseteq KnownSet
  /\ ~patcher[p].gone => alive \ {p} \subseteq KnownSet

ParkInv ==
  \A p \in Patchers :
    /\ patcher[p].at \in Active => ActiveInv(p)
    /\ patcher[p].at = "collect" => CollectInv(p)
    /\ patcher[p].at \in {"scan", "signal"} => ScanInv(p)
    /\ patcher[p].at = "scan" => PassInv(p)
    /\ patcher[p].at = "signal" => SignalInv(p)
    /\ patcher[p].at \in Held => HeldInv(p)

\* Without an overlap a slot in use says where the thread it is for was.
ReportInv ==
  ~overlap => \A t \in HandlerSet :
    /\ handler[t].slot \in Used /\ slots[handler[t].slot].tid = t
    /\ handler[t].at \in {"arrive", "spin"} => slots[handler[t].slot].inside = (t \in inside)

TransitInv ==
  \A p \in Patchers :
    patcher[p].at \in Critical /\ Guarded /\ ~overlap /\ ~patcher[p].gone => inside = {}

\* Which page is next, and what has become of the ones before.
PageInv ==
  \A p \in Patchers :
    /\ p \in writing => patcher[p].at = "write"
    /\ patcher[p].page \in DOMAIN PagesOf[p]
    /\ patcher[p].page # 1 =>
         \/ patcher[p].at \in {"unprotect", "protect"}
         \/ /\ patcher[p].refused /\ patcher[p].left = 0
            /\ patcher[p].at \in {"release", "leave", "given up", "done"}
    /\ patcher[p].at = "unprotect" =>
         \A i \in 1 .. patcher[p].page - 1 : pages[PagesOf[p][i]] = "rwx"
    /\ patcher[p].at = "write" =>
         \A i \in DOMAIN PagesOf[p] : pages[PagesOf[p][i]] = "rwx"

\* The pages that p may have left writable.
Open(p) ==
  IF patcher[p].at \in {"unprotect", "write"}
  THEN {PagesOf[p][i] : i \in DOMAIN PagesOf[p]}
  ELSE IF patcher[p].at = "protect"
  THEN {PagesOf[p][i] : i \in patcher[p].page .. Len(PagesOf[p])}
  ELSE {}

ProtectionInv ==
  (\A p \in Patchers : ~patcher[p].refused) =>
    /\ \A p \in Patchers : patcher[p].at # "query" => patcher[p].original = FirstProtection
    /\ \A x \in Pages : (\A p \in Patchers : x \notin Open(p)) => pages[x] = FirstProtection[x]

Inv ==
  /\ ParkTypeOK
  /\ WorldInv /\ BusyInv /\ SlotsInv /\ ParkInv /\ ReportInv /\ TransitInv
  /\ PageInv /\ ProtectionInv

-----------------------------------------------------------------------------
(* Types *)

\* What every leaf relies on.
LEMMA Facts ==
  ASSUME ParkTypeOK
  PROVE  /\ \A t \in Threads : handler[t] \in Handler /\ pending[t] \in Nat
         /\ \A p \in Patchers : p \in Threads /\ patcher[p] \in Patcher
         /\ \A i \in Used : i \in 1 .. MaxSlots /\ slots[i] \in Slot
         /\ count \in Nat /\ MaxSlots \in Nat /\ count <= MaxSlots
  BY ParkAssumption DEF ParkTypeOK, Used

LEMMA PageFacts ==
  ASSUME NEW p \in Patchers, NEW k \in DOMAIN PagesOf[p]
  PROVE  /\ PagesOf[p][k] \in Pages
         /\ DOMAIN PagesOf[p] = 1 .. Len(PagesOf[p]) /\ Len(PagesOf[p]) \in Nat \ {0}
         /\ k \in 1 .. Len(PagesOf[p])
  BY ParkAssumption

\* The slot a thread that takes the signal finds: there is only one.
LEMMA FirstSlot ==
  ASSUME ParkTypeOK, SlotsInv, NEW t \in Threads, {i \in Used : slots[i].tid = t} # {}
  PROVE  LET mine == {i \in Used : slots[i].tid = t}
             first == CHOOSE i \in mine : \A j \in mine : i <= j
         IN  first \in Used /\ slots[first].tid = t
<1> DEFINE mine == {i \in Used : slots[i].tid = t}
<1>1. PICK i \in mine : TRUE
  OBVIOUS
<1>2. \A j \in mine : i <= j
  BY <1>1, Facts DEF SlotsInv
<1> QED
  BY <1>1, <1>2

LEMMA InitTypeOK == Init => ParkTypeOK
<1> SUFFICES ASSUME Init PROVE ParkTypeOK
  OBVIOUS
<1>1. \A p \in Patchers : NotBegun(p) \in Patcher
  BY ParkAssumption DEF NotBegun, Patcher, Protection
<1>2. patcher \in [Patchers -> Patcher]
  BY <1>1 DEF Init
<1>3. slots \in [1 .. MaxSlots -> Slot]
  BY DEF Init, Slot, FreshSlot
<1>4. handler \in [Threads -> Handler]
  BY ParkAssumption DEF Init, Handler, Outside
<1>5. pages \in [Pages -> Protection]
  BY ParkAssumption DEF Init, Protection
<1>6. FirstThreads \subseteq Threads /\ 0 \in 0 .. MaxSlots
  BY ParkAssumption
<1> QED
  BY <1>2, <1>3, <1>4, <1>5, <1>6 DEF Init, ParkTypeOK

LEMMA HandlerTypeOK ==
  ASSUME ParkTypeOK, SlotsInv, NEW t \in Threads, HandlerStep(t)
  PROVE  ParkTypeOK'
<1>1. CASE TakeSignal(t)
  <2> DEFINE mine == {i \in Used : slots[i].tid = t}
             first == CHOOSE i \in mine : \A j \in mine : i <= j
  <2>1. mine # {} => first \in Used
    BY FirstSlot
  <2>2. handler' \in [Threads -> Handler]
    <3>1. mine # {} => [at |-> "pc", slot |-> first] \in Handler
      BY <2>1, Facts DEF Handler, Used
    <3> HIDE DEF first
    <3> QED
      BY <1>1, <3>1 DEF TakeSignal, ParkTypeOK, first
  <2> QED
    BY <1>1, <2>2, Facts DEF TakeSignal, ParkTypeOK, park, world
<1>2. CASE StorePc(t)
  <2> DEFINE b == t \in inside
  <2>1. b \in BOOLEAN
    OBVIOUS
  <2>2. slots' = [slots EXCEPT ![handler[t].slot].inside = b]
    BY <1>2 DEF StorePc
  <2> HIDE DEF b
  <2>3. slots' \in [1 .. MaxSlots -> Slot]
    BY <2>1, <2>2 DEF ParkTypeOK, Slot
  <2>4. handler' \in [Threads -> Handler]
    BY <1>2 DEF StorePc, ParkTypeOK, Handler
  <2> QED
    BY <1>2, <2>3, <2>4 DEF StorePc, ParkTypeOK, world
<1>3. CASE Arrive(t)
  <2>1. /\ slots' = [slots EXCEPT ![handler[t].slot].arrived = TRUE]
        /\ handler' = [handler EXCEPT ![t].at = "spin"]
    BY <1>3 DEF Arrive
  <2>2. slots' \in [1 .. MaxSlots -> Slot]
    BY <2>1 DEF ParkTypeOK, Slot
  <2>3. handler' \in [Threads -> Handler]
    BY <2>1 DEF ParkTypeOK, Handler
  <2> QED
    BY <1>3, <2>2, <2>3 DEF Arrive, ParkTypeOK, world
<1>4. CASE LeaveHandler(t)
  <2>1. Outside \in Handler
    BY Facts DEF Outside, Handler
  <2> QED
    BY <1>4, <2>1 DEF LeaveHandler, ParkTypeOK, park, world
<1> QED
  BY <1>1, <1>2, <1>3, <1>4 DEF HandlerStep

LEMMA OtherTypeOK ==
  ASSUME ParkTypeOK, NEW t \in Threads,
         Move(t) \/ Exit(t) \/ \E n \in Threads : Create(t, n)
  PROVE  ParkTypeOK'
<1>1. CASE Move(t)
  BY <1>1, Facts DEF Move, Executes, ParkTypeOK, park
<1>2. CASE Exit(t)
  BY <1>2, Facts DEF Exit, Executes, ParkTypeOK, park
<1>3. CASE \E n \in Threads : Create(t, n)
  BY <1>3, Facts DEF Create, Executes, ParkTypeOK, park
<1> QED
  BY <1>1, <1>2, <1>3

Places == {"query", "idle", "reset", "collect", "scan", "signal", "held", "unprotect",
           "write", "protect", "release", "leave", "given up", "done"}

\* A step of p that only moves it.
LEMMA GoesTo ==
  ASSUME ParkTypeOK, NEW p \in Patchers, NEW place \in Places, Goes(p, place)
  PROVE  /\ patcher' \in [Patchers -> Patcher]
         /\ \A q \in Patchers \ {p} : patcher'[q] = patcher[q]
         /\ patcher'[p].at = place
         /\ patcher'[p].todo = patcher[p].todo
         /\ patcher'[p].new = patcher[p].new
         /\ patcher'[p].gone = patcher[p].gone
         /\ patcher'[p].left = patcher[p].left
         /\ patcher'[p].wrote = patcher[p].wrote
         /\ patcher'[p].original = patcher[p].original
         /\ patcher'[p].page = patcher[p].page
         /\ patcher'[p].refused = patcher[p].refused
<1> DEFINE x == [patcher[p] EXCEPT !.at = place]
<1>1. patcher[p] \in Patcher
  BY DEF ParkTypeOK
<1>2. x \in Patcher
  BY <1>1 DEF Patcher, Places
<1>3. patcher' = [patcher EXCEPT ![p] = x]
  BY DEF Goes
<1>4. /\ x.at = place /\ x.todo = patcher[p].todo /\ x.new = patcher[p].new
      /\ x.gone = patcher[p].gone /\ x.left = patcher[p].left /\ x.wrote = patcher[p].wrote
      /\ x.original = patcher[p].original /\ x.page = patcher[p].page
      /\ x.refused = patcher[p].refused
  BY <1>1 DEF Patcher
<1> HIDE DEF x
<1> QED
  BY <1>2, <1>3, <1>4 DEF ParkTypeOK

\* A step of p after a failed attempt.
LEMMA TriesAgainTo ==
  ASSUME ParkTypeOK, NEW p \in Patchers, TriesAgain(p)
  PROVE  /\ patcher' \in [Patchers -> Patcher]
         /\ \A q \in Patchers \ {p} : patcher'[q] = patcher[q]
         /\ patcher'[p].at = (IF patcher[p].left = 0 THEN "given up" ELSE "idle")
         /\ patcher'[p].todo = patcher[p].todo
         /\ patcher'[p].new = patcher[p].new
         /\ patcher'[p].gone = patcher[p].gone
         /\ patcher'[p].left = (IF patcher[p].left = 0 THEN 0 ELSE patcher[p].left - 1)
         /\ patcher'[p].wrote = patcher[p].wrote
         /\ patcher'[p].original = patcher[p].original
         /\ patcher'[p].page = patcher[p].page
         /\ patcher'[p].refused = patcher[p].refused
<1> DEFINE new_at == IF patcher[p].left = 0 THEN "given up" ELSE "idle"
<1> DEFINE new_left == IF patcher[p].left = 0 THEN 0 ELSE patcher[p].left - 1
<1>1. patcher[p] \in Patcher
  BY DEF ParkTypeOK
<1>2. patcher[p].at \in Places /\ patcher[p].left \in Nat /\ patcher[p].page \in Nat
  BY <1>1 DEF Patcher, Places
<1>3. patcher[p].left # 0 => patcher[p].left - 1 \in Nat
  BY <1>2
<1>4. new_at \in Places
  BY <1>2 DEF Places
<1>5. new_left \in Nat
  BY <1>2, <1>3
<1> DEFINE x == [patcher[p] EXCEPT !.at = new_at, !.left = new_left]
<1> HIDE DEF new_at, new_left
<1>6. x \in Patcher
  BY <1>1, <1>4, <1>5 DEF Patcher, Protection, Places
<1>7. patcher' = [patcher EXCEPT ![p] = x]
  BY DEF TriesAgain, new_at, new_left
<1>8. /\ x.at = new_at
      /\ x.todo = patcher[p].todo
      /\ x.new = patcher[p].new
      /\ x.gone = patcher[p].gone
      /\ x.left = new_left
      /\ x.wrote = patcher[p].wrote
      /\ x.original = patcher[p].original
      /\ x.page = patcher[p].page
      /\ x.refused = patcher[p].refused
  BY <1>1 DEF Patcher
<1> HIDE DEF x
<1> QED
  BY <1>6, <1>7, <1>8 DEF ParkTypeOK, new_at, new_left

\* The steps of p that change more of its call.
LEMMA CollectTo ==
  ASSUME ParkTypeOK, NEW p \in Patchers,
         patcher' = [patcher EXCEPT ![p] =
           [@ EXCEPT !.at = "scan", !.todo = alive \ {p}, !.new = FALSE, !.gone = FALSE]]
  PROVE  /\ patcher' \in [Patchers -> Patcher]
         /\ \A q \in Patchers \ {p} : patcher'[q] = patcher[q]
         /\ patcher'[p].at = "scan"
         /\ patcher'[p].todo = alive \ {p}
         /\ patcher'[p].new = FALSE
         /\ patcher'[p].gone = FALSE
         /\ patcher'[p].left = patcher[p].left
         /\ patcher'[p].wrote = patcher[p].wrote
         /\ patcher'[p].original = patcher[p].original
         /\ patcher'[p].page = patcher[p].page
         /\ patcher'[p].refused = patcher[p].refused
<1> DEFINE x == [patcher[p] EXCEPT !.at = "scan", !.todo = alive \ {p},
                                   !.new = FALSE, !.gone = FALSE]
<1>1. patcher[p] \in Patcher
  BY DEF ParkTypeOK
<1>2. x \in Patcher
  BY <1>1 DEF Patcher, Protection, Places, ParkTypeOK
<1>3. patcher' = [patcher EXCEPT ![p] = x]
  OBVIOUS
<1>4. /\ x.at = "scan"
      /\ x.todo = alive \ {p}
      /\ x.new = FALSE
      /\ x.gone = FALSE
      /\ x.left = patcher[p].left
      /\ x.wrote = patcher[p].wrote
      /\ x.original = patcher[p].original
      /\ x.page = patcher[p].page
      /\ x.refused = patcher[p].refused
  BY <1>1 DEF Patcher
<1> HIDE DEF x
<1> QED
  BY <1>2, <1>3, <1>4 DEF ParkTypeOK

LEMMA SignalledTo ==
  ASSUME ParkTypeOK, NEW p \in Patchers, NEW t,
         patcher' = [patcher EXCEPT
           ![p].at = "scan", ![p].todo = @ \ {t}, ![p].new = TRUE]
  PROVE  /\ patcher' \in [Patchers -> Patcher]
         /\ \A q \in Patchers \ {p} : patcher'[q] = patcher[q]
         /\ patcher'[p].at = "scan"
         /\ patcher'[p].todo = patcher[p].todo \ {t}
         /\ patcher'[p].new = TRUE
         /\ patcher'[p].gone = patcher[p].gone
         /\ patcher'[p].left = patcher[p].left
         /\ patcher'[p].wrote = patcher[p].wrote
         /\ patcher'[p].original = patcher[p].original
         /\ patcher'[p].page = patcher[p].page
         /\ patcher'[p].refused = patcher[p].refused
<1> DEFINE x == [patcher[p] EXCEPT !.at = "scan", !.todo = patcher[p].todo \ {t}, !.new = TRUE]
<1>1. patcher[p] \in Patcher
  BY DEF ParkTypeOK
<1>2. x \in Patcher
  BY <1>1 DEF Patcher, Protection, Places
<1>3. patcher' = [patcher EXCEPT ![p] = x]
  OBVIOUS
<1>4. /\ x.at = "scan"
      /\ x.todo = patcher[p].todo \ {t}
      /\ x.new = TRUE
      /\ x.gone = patcher[p].gone
      /\ x.left = patcher[p].left
      /\ x.wrote = patcher[p].wrote
      /\ x.original = patcher[p].original
      /\ x.page = patcher[p].page
      /\ x.refused = patcher[p].refused
  BY <1>1 DEF Patcher
<1> HIDE DEF x
<1> QED
  BY <1>2, <1>3, <1>4, ZenonT(30) DEF ParkTypeOK

LEMMA DroppedTo ==
  ASSUME ParkTypeOK, NEW p \in Patchers, NEW t,
         patcher' = [patcher EXCEPT
           ![p].at = "scan", ![p].todo = @ \ {t}, ![p].gone = TRUE]
  PROVE  /\ patcher' \in [Patchers -> Patcher]
         /\ \A q \in Patchers \ {p} : patcher'[q] = patcher[q]
         /\ patcher'[p].at = "scan"
         /\ patcher'[p].todo = patcher[p].todo \ {t}
         /\ patcher'[p].new = patcher[p].new
         /\ patcher'[p].gone = TRUE
         /\ patcher'[p].left = patcher[p].left
         /\ patcher'[p].wrote = patcher[p].wrote
         /\ patcher'[p].original = patcher[p].original
         /\ patcher'[p].page = patcher[p].page
         /\ patcher'[p].refused = patcher[p].refused
<1> DEFINE x == [patcher[p] EXCEPT !.at = "scan", !.todo = patcher[p].todo \ {t}, !.gone = TRUE]
<1>1. patcher[p] \in Patcher
  BY DEF ParkTypeOK
<1>2. x \in Patcher
  BY <1>1 DEF Patcher, Protection, Places
<1>3. patcher' = [patcher EXCEPT ![p] = x]
  OBVIOUS
<1>4. /\ x.at = "scan"
      /\ x.todo = patcher[p].todo \ {t}
      /\ x.new = patcher[p].new
      /\ x.gone = TRUE
      /\ x.left = patcher[p].left
      /\ x.wrote = patcher[p].wrote
      /\ x.original = patcher[p].original
      /\ x.page = patcher[p].page
      /\ x.refused = patcher[p].refused
  BY <1>1 DEF Patcher
<1> HIDE DEF x
<1> QED
  BY <1>2, <1>3, <1>4, ZenonT(30) DEF ParkTypeOK

LEMMA LooksTo ==
  ASSUME ParkTypeOK, NEW p \in Patchers, NEW t,
         patcher' = [patcher EXCEPT ![p].todo = @ \ {t}]
  PROVE  /\ patcher' \in [Patchers -> Patcher]
         /\ \A q \in Patchers \ {p} : patcher'[q] = patcher[q]
         /\ patcher'[p].at = patcher[p].at
         /\ patcher'[p].todo = patcher[p].todo \ {t}
         /\ patcher'[p].new = patcher[p].new
         /\ patcher'[p].gone = patcher[p].gone
         /\ patcher'[p].left = patcher[p].left
         /\ patcher'[p].wrote = patcher[p].wrote
         /\ patcher'[p].original = patcher[p].original
         /\ patcher'[p].page = patcher[p].page
         /\ patcher'[p].refused = patcher[p].refused
<1> DEFINE x == [patcher[p] EXCEPT !.todo = patcher[p].todo \ {t}]
<1>1. patcher[p] \in Patcher
  BY DEF ParkTypeOK
<1>2. x \in Patcher
  BY <1>1 DEF Patcher, Protection, Places
<1>3. patcher' = [patcher EXCEPT ![p] = x]
  OBVIOUS
<1>4. /\ x.at = patcher[p].at
      /\ x.todo = patcher[p].todo \ {t}
      /\ x.new = patcher[p].new
      /\ x.gone = patcher[p].gone
      /\ x.left = patcher[p].left
      /\ x.wrote = patcher[p].wrote
      /\ x.original = patcher[p].original
      /\ x.page = patcher[p].page
      /\ x.refused = patcher[p].refused
  BY <1>1 DEF Patcher
<1> HIDE DEF x
<1> QED
  BY <1>2, <1>3, <1>4 DEF ParkTypeOK

LEMMA QueryTo ==
  ASSUME ParkTypeOK, NEW p \in Patchers, Query(p)
  PROVE  /\ patcher' \in [Patchers -> Patcher]
         /\ \A q \in Patchers \ {p} : patcher'[q] = patcher[q]
         /\ patcher'[p].at = (IF Parks THEN "idle" ELSE "unprotect")
         /\ patcher'[p].todo = patcher[p].todo
         /\ patcher'[p].new = patcher[p].new
         /\ patcher'[p].gone = patcher[p].gone
         /\ patcher'[p].left = patcher[p].left
         /\ patcher'[p].wrote = patcher[p].wrote
         /\ patcher'[p].original = pages
         /\ patcher'[p].page = patcher[p].page
         /\ patcher'[p].refused = patcher[p].refused
<1> DEFINE x == [patcher[p] EXCEPT !.original = pages,
                                   !.at = (IF Parks THEN "idle" ELSE "unprotect")]
<1>1. patcher[p] \in Patcher
  BY DEF ParkTypeOK
<1>2. x \in Patcher
  BY <1>1 DEF Patcher, Protection, Places, ParkTypeOK
<1>3. patcher' = [patcher EXCEPT ![p] = x]
  BY DEF Query
<1>4. /\ x.at = (IF Parks THEN "idle" ELSE "unprotect")
      /\ x.todo = patcher[p].todo
      /\ x.new = patcher[p].new
      /\ x.gone = patcher[p].gone
      /\ x.left = patcher[p].left
      /\ x.wrote = patcher[p].wrote
      /\ x.original = pages
      /\ x.page = patcher[p].page
      /\ x.refused = patcher[p].refused
  BY <1>1 DEF Patcher
<1> HIDE DEF x
<1> QED
  BY <1>2, <1>3, <1>4 DEF ParkTypeOK

LEMMA RefusedTo ==
  ASSUME ParkTypeOK, NEW p \in Patchers, Refused(p)
  PROVE  /\ patcher' \in [Patchers -> Patcher]
         /\ \A q \in Patchers \ {p} : patcher'[q] = patcher[q]
         /\ patcher'[p].at = Ending
         /\ patcher'[p].todo = patcher[p].todo
         /\ patcher'[p].new = patcher[p].new
         /\ patcher'[p].gone = patcher[p].gone
         /\ patcher'[p].left = 0
         /\ patcher'[p].wrote = patcher[p].wrote
         /\ patcher'[p].original = patcher[p].original
         /\ patcher'[p].page = patcher[p].page
         /\ patcher'[p].refused = TRUE
<1> DEFINE x == [patcher[p] EXCEPT !.at = Ending, !.refused = TRUE, !.left = 0]
<1>1. patcher[p] \in Patcher
  BY DEF ParkTypeOK
<1>2. x \in Patcher
  BY <1>1 DEF Patcher, Protection, Places, Ending
<1>3. patcher' = [patcher EXCEPT ![p] = x]
  BY DEF Refused
<1>4. /\ x.at = Ending
      /\ x.todo = patcher[p].todo
      /\ x.new = patcher[p].new
      /\ x.gone = patcher[p].gone
      /\ x.left = 0
      /\ x.wrote = patcher[p].wrote
      /\ x.original = patcher[p].original
      /\ x.page = patcher[p].page
      /\ x.refused = TRUE
  BY <1>1 DEF Patcher
<1> HIDE DEF x
<1> QED
  BY <1>2, <1>3, <1>4 DEF ParkTypeOK

LEMMA EndWriteTo ==
  ASSUME ParkTypeOK, NEW p \in Patchers, EndWrite(p)
  PROVE  /\ patcher' \in [Patchers -> Patcher]
         /\ \A q \in Patchers \ {p} : patcher'[q] = patcher[q]
         /\ patcher'[p].at = "protect"
         /\ patcher'[p].todo = patcher[p].todo
         /\ patcher'[p].new = patcher[p].new
         /\ patcher'[p].gone = patcher[p].gone
         /\ patcher'[p].left = patcher[p].left
         /\ patcher'[p].wrote = TRUE
         /\ patcher'[p].original = patcher[p].original
         /\ patcher'[p].page = patcher[p].page
         /\ patcher'[p].refused = patcher[p].refused
<1> DEFINE x == [patcher[p] EXCEPT !.at = "protect", !.wrote = TRUE]
<1>1. patcher[p] \in Patcher
  BY DEF ParkTypeOK
<1>2. x \in Patcher
  BY <1>1 DEF Patcher, Protection, Places
<1>3. patcher' = [patcher EXCEPT ![p] = x]
  BY DEF EndWrite
<1>4. /\ x.at = "protect"
      /\ x.todo = patcher[p].todo
      /\ x.new = patcher[p].new
      /\ x.gone = patcher[p].gone
      /\ x.left = patcher[p].left
      /\ x.wrote = TRUE
      /\ x.original = patcher[p].original
      /\ x.page = patcher[p].page
      /\ x.refused = patcher[p].refused
  BY <1>1 DEF Patcher
<1> HIDE DEF x
<1> QED
  BY <1>2, <1>3, <1>4 DEF ParkTypeOK

LEMMA ChangedTo ==
  ASSUME ParkTypeOK, NEW p \in Patchers, NEW protection, NEW follows \in Places,
         patcher[p].page \in DOMAIN PagesOf[p], Changed(p, protection, follows)
  PROVE  /\ patcher' \in [Patchers -> Patcher]
         /\ \A q \in Patchers \ {p} : patcher'[q] = patcher[q]
         /\ patcher'[p].at =
              (IF patcher[p].page = Len(PagesOf[p]) THEN follows ELSE patcher[p].at)
         /\ patcher'[p].todo = patcher[p].todo
         /\ patcher'[p].new = patcher[p].new
         /\ patcher'[p].gone = patcher[p].gone
         /\ patcher'[p].left = patcher[p].left
         /\ patcher'[p].wrote = patcher[p].wrote
         /\ patcher'[p].original = patcher[p].original
         /\ patcher'[p].page =
              (IF patcher[p].page = Len(PagesOf[p]) THEN 1 ELSE patcher[p].page + 1)
         /\ patcher'[p].refused = patcher[p].refused
<1> DEFINE new_page == IF patcher[p].page = Len(PagesOf[p]) THEN 1 ELSE patcher[p].page + 1
<1> DEFINE new_at == IF patcher[p].page = Len(PagesOf[p]) THEN follows ELSE patcher[p].at
<1>1. patcher[p] \in Patcher
  BY DEF ParkTypeOK
<1>2. patcher[p].at \in Places /\ patcher[p].left \in Nat /\ patcher[p].page \in Nat
  BY <1>1 DEF Patcher, Places
<1>3. new_at \in Places
  BY <1>2 DEF Places
<1>4. new_page \in Nat
  BY <1>2
<1> DEFINE x == [patcher[p] EXCEPT !.page = new_page, !.at = new_at]
<1> HIDE DEF new_page, new_at
<1>5. x \in Patcher
  BY <1>1, <1>3, <1>4 DEF Patcher, Protection, Places
<1>6. patcher' = [patcher EXCEPT ![p] = x]
  BY DEF Changed, new_page, new_at
<1>7. /\ x.at = new_at
      /\ x.todo = patcher[p].todo
      /\ x.new = patcher[p].new
      /\ x.gone = patcher[p].gone
      /\ x.left = patcher[p].left
      /\ x.wrote = patcher[p].wrote
      /\ x.original = patcher[p].original
      /\ x.page = new_page
      /\ x.refused = patcher[p].refused
  BY <1>1 DEF Patcher
<1> HIDE DEF x
<1> QED
  BY <1>5, <1>6, <1>7 DEF ParkTypeOK, new_page, new_at

\* Where a step may take its patcher, whatever else it does.
LEMMA AfterPlaces ==
  ASSUME NEW p \in Patchers
  PROVE  AfterPass(p) \in Places /\ Ending \in Places
  BY DEF AfterPass, Ending, Places

LEMMA PatcherTypeOK ==
  ASSUME ParkTypeOK, PageInv, NEW p \in Patchers, PatcherStep(p),
         patcher[p].at = "signal" => count > 0
  PROVE  ParkTypeOK'
<1>1. CASE Query(p)
  BY <1>1, Facts, QueryTo DEF Query, ParkTypeOK, park, world
<1>2. CASE Acquire(p)
  BY <1>2, Facts, GoesTo, TriesAgainTo DEF Acquire, Places, ParkTypeOK, park, world
<1>3. CASE Reset(p)
  <2>1. UNCHANGED <<busy, slots, world, pending, handler, pages, writing>>
    BY <1>3 DEF Reset
  <2>2. patcher' \in [Patchers -> Patcher]
    BY <1>3, GoesTo DEF Reset, Places
  <2>3. release' \in BOOLEAN /\ count' \in 0 .. MaxSlots
    <3>1. release' = FALSE /\ count' = 0
      BY <1>3 DEF Reset
    <3>2. 0 \in 0 .. MaxSlots
      BY Facts
    <3> QED
      BY <3>1, <3>2
  <2>4. overlap' \in BOOLEAN
    BY <1>3 DEF Reset
  <2> QED
    BY <2>1, <2>2, <2>3, <2>4 DEF ParkTypeOK, world
<1>4. CASE CollectTids(p)
  <2>1. UNCHANGED <<busy, park, world, pending, handler, pages, writing, overlap>>
    BY <1>4 DEF CollectTids
  <2>2. patcher' \in [Patchers -> Patcher]
    BY <1>4, CollectTo, GoesTo DEF CollectTids, Places
  <2> QED
    BY <2>1, <2>2 DEF ParkTypeOK, park, world
<1>5. CASE TakeSlot(p)
  <2>1. UNCHANGED <<busy, release, world, pending, handler, pages, writing, overlap>>
    BY <1>5 DEF TakeSlot, park
  <2>2. PICK t \in patcher[p].todo :
          IF Knows(t)
          THEN /\ patcher' = [patcher EXCEPT ![p].todo = @ \ {t}]
               /\ UNCHANGED park
          ELSE IF count = MaxSlots THEN Goes(p, "release") /\ UNCHANGED park
          ELSE /\ slots' = [slots EXCEPT ![count + 1] = FreshSlot(t)]
               /\ count' = count + 1
               /\ Goes(p, "signal")
    BY <1>5 DEF TakeSlot
  <2>3. t \in Threads
    BY Facts DEF Patcher
  <2>4. patcher' \in [Patchers -> Patcher]
    BY <2>2, LooksTo, GoesTo DEF Places
  <2>5. FreshSlot(t) \in Slot
    BY <2>3 DEF FreshSlot, Slot
  <2>6. count' \in 0 .. MaxSlots /\ slots' \in [1 .. MaxSlots -> Slot]
    <3>1. CASE UNCHANGED park
      BY <3>1 DEF ParkTypeOK, park
    <3>2. CASE ~ UNCHANGED park
      <4>1. count # MaxSlots /\ count' = count + 1
        BY <2>2, <3>2
      <4>2. slots' = [slots EXCEPT ![count + 1] = FreshSlot(t)]
        BY <2>2, <3>2
      <4> QED
        BY <2>5, <4>1, <4>2, Facts DEF ParkTypeOK
    <3> QED
      BY <3>1, <3>2
  <2> QED
    BY <2>1, <2>4, <2>6 DEF ParkTypeOK, world
<1>6. CASE Tgkill(p)
  <2>1. UNCHANGED <<busy, release, slots, world, handler, pages, writing, overlap>>
    BY <1>6 DEF Tgkill
  <2>2. patcher' \in [Patchers -> Patcher]
    BY <1>6, SignalledTo, DroppedTo DEF Tgkill
  <2>3. count' \in 0 .. MaxSlots /\ pending' \in [Threads -> Nat]
    BY <1>6, Facts DEF Tgkill, At, ParkTypeOK
  <2> QED
    BY <2>1, <2>2, <2>3 DEF ParkTypeOK, world
<1>7. CASE WaitArrived(p)
  BY <1>7, Facts, GoesTo, AfterPlaces DEF WaitArrived, Places, ParkTypeOK, park, world
<1>8. CASE WaitTimesOut(p)
  BY <1>8, Facts, GoesTo DEF WaitTimesOut, Places, ParkTypeOK, park, world
<1>9. CASE CheckRanges(p)
  BY <1>9, Facts, GoesTo DEF CheckRanges, Places, ParkTypeOK, park, world
<1>10. CASE Unprotect(p)
  <2>1. UNCHANGED <<busy, park, world, pending, handler, writing, overlap>>
    BY <1>10 DEF Unprotect
  <2>2. patcher[p].page \in DOMAIN PagesOf[p]
    BY DEF PageInv
  <2>3. CASE Changed(p, "rwx", "write")
    <3>1. patcher' \in [Patchers -> Patcher]
      BY <2>2, <2>3, AfterPlaces, ChangedTo DEF Places
    <3>2. "rwx" \in Protection
      BY DEF Protection
    <3>3. pages' \in [Pages -> Protection]
      BY <2>3, <3>2 DEF Changed, ParkTypeOK
    <3> QED
      BY <2>1, <3>1, <3>3 DEF ParkTypeOK, park, world
  <2>4. CASE Refused(p)
    BY <2>1, <2>4, RefusedTo DEF Refused, ParkTypeOK, park, world
  <2> QED
    BY <1>10, <2>3, <2>4 DEF Unprotect
<1>11. CASE BeginWrite(p)
  BY <1>11, Facts DEF BeginWrite, ParkTypeOK, park, world
<1>12. CASE EndWrite(p)
  BY <1>12, Facts, EndWriteTo DEF EndWrite, ParkTypeOK, park, world
<1>13. CASE Protect(p)
  <2>1. UNCHANGED <<busy, park, world, pending, handler, writing, overlap>>
    BY <1>13 DEF Protect
  <2>2. patcher[p].page \in DOMAIN PagesOf[p]
    BY DEF PageInv
  <2>3. CASE Changed(p, Restored(p), Ending)
    <3>1. patcher' \in [Patchers -> Patcher]
      BY <2>2, <2>3, AfterPlaces, ChangedTo DEF Places
    <3>2. Restored(p) \in Protection
      BY <2>2, Facts, PageFacts DEF Restored, Patcher
    <3>3. pages' \in [Pages -> Protection]
      BY <2>3, <3>2 DEF Changed, ParkTypeOK
    <3> QED
      BY <2>1, <3>1, <3>3 DEF ParkTypeOK, park, world
  <2>4. CASE Refused(p)
    BY <2>1, <2>4, RefusedTo DEF Refused, ParkTypeOK, park, world
  <2> QED
    BY <1>13, <2>3, <2>4 DEF Protect
<1>14. CASE ReleaseAll(p)
  BY <1>14, Facts, GoesTo DEF ReleaseAll, Places, ParkTypeOK, park, world
<1>15. CASE LeavePark(p)
  BY <1>15, Facts, GoesTo, TriesAgainTo DEF LeavePark, Places, ParkTypeOK, park, world
<1> QED
  BY <1>1, <1>2, <1>3, <1>4, <1>5, <1>6, <1>7, <1>8,
     <1>9, <1>10, <1>11, <1>12, <1>13, <1>14, <1>15 DEF PatcherStep

-----------------------------------------------------------------------------
(* What a step leaves alone *)

LEMMA HandlerFrame ==
  ASSUME NEW t \in Threads, HandlerStep(t)
  PROVE  /\ UNCHANGED <<busy, release, count, world, patcher, pages, writing, overlap>>
         /\ UNCHANGED <<alive, inside>>
  BY DEF HandlerStep, TakeSignal, StorePc, Arrive, LeaveHandler, park, world

OtherStep(t) == Move(t) \/ Exit(t) \/ \E n \in Threads : Create(t, n)

LEMMA OtherFrame ==
  ASSUME NEW t \in Threads, OtherStep(t)
  PROVE  /\ UNCHANGED <<busy, park, handler, patcher, pages, writing, overlap>>
         /\ UNCHANGED <<release, count, slots>>
         /\ Executes(t)
  BY DEF OtherStep, Move, Exit, Create, park

LEMMA PatcherFrame ==
  ASSUME ParkTypeOK, PageInv, NEW p \in Patchers, PatcherStep(p)
  PROVE  /\ UNCHANGED <<world, handler>>
         /\ UNCHANGED <<alive, inside>>
         /\ Executes(p)
  BY DEF PatcherStep, Query, Acquire, Reset, CollectTids, TakeSlot, Tgkill, WaitArrived,
     WaitTimesOut, CheckRanges, Unprotect, BeginWrite, EndWrite, Protect, ReleaseAll,
     LeavePark, At, world

LEMMA StepCases ==
  ASSUME Next
  PROVE  \/ \E t \in Threads : HandlerStep(t)
         \/ \E t \in Threads : OtherStep(t)
         \/ \E p \in Patchers : PatcherStep(p)
  BY DEF Next, OtherStep

-----------------------------------------------------------------------------
(* The threads and the handler *)

LEMMA HandlerWorld ==
  ASSUME ParkTypeOK, SlotsInv, WorldInv, NEW t \in Threads, HandlerStep(t)
  PROVE  WorldInv'
<1>1. UNCHANGED <<alive, inside>>
  BY HandlerFrame
<1>2. CASE TakeSignal(t)
  <2> DEFINE mine == {i \in Used : slots[i].tid = t}
             first == CHOOSE i \in mine : \A j \in mine : i <= j
  <2>1. CASE mine = {}
    BY <1>1, <1>2, <2>1 DEF TakeSignal, WorldInv, HandlerSet
  <2>2. CASE mine # {}
    <3>1. first \in 1 .. MaxSlots
      BY <2>2, FirstSlot, Facts
    <3>2. handler' = [handler EXCEPT ![t] = [at |-> "pc", slot |-> first]]
      BY <1>2, <2>2 DEF TakeSignal
    <3>3. t \in alive
      BY <1>2 DEF TakeSignal, Executes
    <3> HIDE DEF first
    <3> QED
      BY <1>1, <3>1, <3>2, <3>3 DEF ParkTypeOK, WorldInv, HandlerSet
  <2> QED
    BY <2>1, <2>2
<1>3. CASE StorePc(t)
  BY <1>1, <1>3, Facts DEF StorePc, ParkTypeOK, WorldInv, HandlerSet, Handler
<1>4. CASE Arrive(t)
  BY <1>1, <1>4, Facts DEF Arrive, ParkTypeOK, WorldInv, HandlerSet, Handler
<1>5. CASE LeaveHandler(t)
  BY <1>1, <1>5, Facts DEF LeaveHandler, ParkTypeOK, WorldInv, HandlerSet, Outside
<1> QED
  BY <1>2, <1>3, <1>4, <1>5 DEF HandlerStep

LEMMA OtherWorld ==
  ASSUME ParkTypeOK, WorldInv, NEW t \in Threads, OtherStep(t)
  PROVE  WorldInv'
<1>1. UNCHANGED handler
  BY OtherFrame
<1>2. CASE Move(t)
  BY <1>1, <1>2 DEF Move, WorldInv, HandlerSet
<1>3. CASE Exit(t)
  BY <1>1, <1>3 DEF Exit, Executes, WorldInv, HandlerSet
<1>4. CASE \E n \in Threads : Create(t, n)
  BY <1>1, <1>4 DEF Create, WorldInv, HandlerSet
<1> QED
  BY <1>2, <1>3, <1>4 DEF OtherStep

LEMMA PatcherWorld ==
  ASSUME ParkTypeOK, PageInv, WorldInv, NEW p \in Patchers, PatcherStep(p)
  PROVE  WorldInv'
  BY PatcherFrame DEF WorldInv, HandlerSet

-----------------------------------------------------------------------------
(* One park at a time *)

\* A step of p leaves the other calls alone; it takes p into the park if that
\* was free, and it is free again when p has left it.
LEMMA PatcherMoves ==
  ASSUME Parks, ParkTypeOK, PageInv, NEW p \in Patchers, PatcherStep(p)
  PROVE  /\ \A q \in Patchers \ {p} : patcher'[q] = patcher[q]
         /\ \/ UNCHANGED busy /\ (patcher'[p].at \in InPark => patcher[p].at \in InPark)
            \/ ~busy /\ busy'
            \/ ~busy' /\ patcher[p].at \in InPark /\ patcher'[p].at \notin InPark
<1> USE DEF InPark, Active, Held, Critical
<1>1. CASE Query(p)
  <2>1. patcher'[p].at = "idle" /\ UNCHANGED busy
    BY <1>1, QueryTo DEF Query
  <2> QED
    BY <1>1, <2>1, QueryTo
<1>2. CASE Acquire(p)
  <2>1. CASE busy
    BY <1>2, <2>1, TriesAgainTo DEF Acquire, TestAndSet
  <2>2. CASE ~busy
    BY <1>2, <2>2, GoesTo DEF Acquire, TestAndSet, Places
  <2> QED
    BY <2>1, <2>2
<1>3. CASE Reset(p)
  BY <1>3, GoesTo DEF Reset, At, Places
<1>4. CASE CollectTids(p)
  <2>1. UNCHANGED busy /\ patcher[p].at \in InPark
    BY <1>4 DEF CollectTids, At
  <2> QED
    BY <1>4, <2>1, CollectTo, GoesTo DEF CollectTids, Places
<1>5. CASE TakeSlot(p)
  <2>1. UNCHANGED busy /\ patcher[p].at \in InPark
    BY <1>5 DEF TakeSlot, At
  <2>2. PICK t \in patcher[p].todo :
          \/ patcher' = [patcher EXCEPT ![p].todo = @ \ {t}]
          \/ Goes(p, "release") \/ Goes(p, "signal")
    BY <1>5 DEF TakeSlot
  <2> QED
    BY <2>1, <2>2, LooksTo, GoesTo DEF Places
<1>6. CASE Tgkill(p)
  <2>1. UNCHANGED busy /\ patcher[p].at \in InPark
    BY <1>6 DEF Tgkill, At
  <2> QED
    BY <1>6, <2>1, SignalledTo, DroppedTo, ZenonT(30) DEF Tgkill
<1>7. CASE WaitArrived(p)
  <2>1. UNCHANGED busy /\ patcher[p].at \in InPark /\ Goes(p, AfterPass(p))
    BY <1>7 DEF WaitArrived, At
  <2> QED
    BY <2>1, AfterPlaces, GoesTo
<1>8. CASE WaitTimesOut(p)
  BY <1>8, GoesTo DEF WaitTimesOut, At, Places
<1>9. CASE CheckRanges(p)
  <2>1. UNCHANGED busy /\ patcher[p].at \in InPark
    BY <1>9 DEF CheckRanges, At
  <2> QED
    BY <1>9, <2>1, GoesTo DEF CheckRanges, Places
<1>10. CASE Unprotect(p)
  <2>1. UNCHANGED busy /\ patcher[p].at \in InPark
    BY <1>10 DEF Unprotect, At
  <2>2. CASE Changed(p, "rwx", "write")
    BY <2>1, <2>2, ChangedTo DEF PageInv, Places, Ending
  <2>3. CASE Refused(p)
    BY <2>1, <2>3, RefusedTo
  <2> QED
    BY <1>10, <2>2, <2>3 DEF Unprotect
<1>11. CASE BeginWrite(p)
  BY <1>11 DEF BeginWrite
<1>12. CASE EndWrite(p)
  BY <1>12, EndWriteTo DEF EndWrite, At
<1>13. CASE Protect(p)
  <2>1. UNCHANGED busy /\ patcher[p].at \in InPark
    BY <1>13 DEF Protect, At
  <2>2. CASE Changed(p, Restored(p), Ending)
    BY <2>1, <2>2, ChangedTo DEF PageInv, Places, Ending
  <2>3. CASE Refused(p)
    BY <2>1, <2>3, RefusedTo
  <2> QED
    BY <1>13, <2>2, <2>3 DEF Protect
<1>14. CASE ReleaseAll(p)
  BY <1>14, GoesTo DEF ReleaseAll, At, Places
<1>15. CASE LeavePark(p)
  <2>1. ~busy' /\ patcher[p].at \in InPark
    BY <1>15 DEF LeavePark, At
  <2> QED
    BY <1>15, <2>1, GoesTo, TriesAgainTo DEF LeavePark, Places
<1> QED
  BY <1>1, <1>2, <1>3, <1>4, <1>5, <1>6, <1>7, <1>8,
     <1>9, <1>10, <1>11, <1>12, <1>13, <1>14, <1>15 DEF PatcherStep

LEMMA PatcherBusy ==
  ASSUME Parks, ParkTypeOK, PageInv, BusyInv, NEW p \in Patchers, PatcherStep(p)
  PROVE  BusyInv'
<1>1. \A q \in Patchers : patcher'[q].at \in InPark => busy'
  <2> SUFFICES ASSUME NEW q \in Patchers, patcher'[q].at \in InPark PROVE busy'
    OBVIOUS
  <2>1. CASE q = p
    BY <2>1, PatcherMoves DEF BusyInv
  <2>2. CASE q # p
    <3>1. patcher[q].at \in InPark /\ busy
      BY <2>2, PatcherMoves DEF BusyInv
    <3>2. patcher[p].at \notin InPark
      BY <2>2, <3>1 DEF BusyInv
    <3> QED
      BY <3>1, <3>2, PatcherMoves
  <2> QED
    BY <2>1, <2>2
<1>2. ASSUME NEW q \in Patchers, NEW r \in Patchers,
             patcher'[q].at \in InPark, patcher'[r].at \in InPark
      PROVE  q = r
  BY <1>1, <1>2, PatcherMoves DEF BusyInv
<1> QED
  BY <1>1, <1>2 DEF BusyInv

-----------------------------------------------------------------------------
(* The slots *)

LEMMA HandlerSlots ==
  ASSUME ParkTypeOK, NEW t \in Threads, HandlerStep(t)
  PROVE  \A i \in 1 .. MaxSlots :
           /\ slots'[i].tid = slots[i].tid
           /\ ~Arrive(t) => slots'[i].arrived = slots[i].arrived
           /\ i # handler[t].slot =>
                slots'[i].arrived = slots[i].arrived /\ slots'[i].inside = slots[i].inside
<1>1. CASE TakeSignal(t)
  BY <1>1 DEF TakeSignal, park
<1>2. CASE StorePc(t)
  BY <1>2 DEF StorePc, ParkTypeOK, Slot
<1>3. CASE Arrive(t)
  BY <1>3 DEF Arrive, ParkTypeOK, Slot
<1>4. CASE LeaveHandler(t)
  BY <1>4 DEF LeaveHandler, park
<1> QED
  BY <1>1, <1>2, <1>3, <1>4 DEF HandlerStep

LEMMA HandlerKnows ==
  ASSUME ParkTypeOK, NEW t \in Threads, HandlerStep(t)
  PROVE  /\ Used' = Used
         /\ \A u : Knows(u)' <=> Knows(u)
         /\ KnownSet' = KnownSet
<1>1. Used' = Used
  BY HandlerFrame DEF Used
<1>2. \A u : Knows(u)' <=> Knows(u)
  BY <1>1, HandlerSlots, Facts DEF Knows
<1> QED
  BY <1>1, <1>2 DEF KnownSet

LEMMA OtherKnows ==
  ASSUME NEW t \in Threads, OtherStep(t)
  PROVE  /\ Used' = Used
         /\ \A u : Knows(u)' <=> Knows(u)
         /\ KnownSet' = KnownSet
         /\ HandlerSet' = HandlerSet /\ SpinSet' = SpinSet /\ ArrivedSet' = ArrivedSet
  BY OtherFrame DEF Used, Knows, KnownSet, HandlerSet, SpinSet, ArrivedSet

LEMMA PatcherKnows ==
  ASSUME ParkTypeOK, PageInv, NEW p \in Patchers, PatcherStep(p)
  PROVE  /\ HandlerSet' = HandlerSet /\ SpinSet' = SpinSet
         /\ UNCHANGED <<count, slots>> =>
              /\ Used' = Used
              /\ \A u : Knows(u)' <=> Knows(u)
              /\ KnownSet' = KnownSet
              /\ ArrivedSet' = ArrivedSet
  BY PatcherFrame DEF Used, Knows, KnownSet, HandlerSet, SpinSet, ArrivedSet

\* The steps that use the slots are steps of the patcher that has the park.
LEMMA SlotsFrame ==
  ASSUME NEW p \in Patchers, PatcherStep(p)
  PROVE  \/ UNCHANGED <<count, slots>>
         \/ Reset(p) \/ TakeSlot(p) \/ Tgkill(p)
  BY DEF PatcherStep, Query, Acquire, CollectTids, WaitArrived, WaitTimesOut, CheckRanges,
     Unprotect, BeginWrite, EndWrite, Protect, ReleaseAll, LeavePark, park

\* A new slot is one behind those in use.
LEMMA NewSlot ==
  ASSUME ParkTypeOK, NEW t \in Threads, count # MaxSlots, ~Knows(t),
         slots' = [slots EXCEPT ![count + 1] = FreshSlot(t)], count' = count + 1
  PROVE  /\ Used' = Used \cup {count + 1} /\ count + 1 \notin Used
         /\ \A i \in Used : slots'[i] = slots[i]
         /\ slots'[count + 1] = FreshSlot(t)
         /\ \A u : Knows(u)' <=> Knows(u) \/ u = t
         /\ ArrivedSet' = ArrivedSet
<1>1. Used' = Used \cup {count + 1} /\ count + 1 \notin Used
  BY Facts DEF Used
<1>2. /\ \A i \in Used : slots'[i] = slots[i]
      /\ slots'[count + 1] = FreshSlot(t)
  BY <1>1, Facts DEF ParkTypeOK, Used
<1>3. FreshSlot(t).tid = t /\ ~FreshSlot(t).arrived
  BY DEF FreshSlot
<1>4. \A u : Knows(u)' <=> Knows(u) \/ u = t
  BY <1>1, <1>2, <1>3 DEF Knows
<1>5. ArrivedSet' = ArrivedSet
  BY <1>1, <1>2, <1>3 DEF ArrivedSet
<1> QED
  BY <1>1, <1>2, <1>4, <1>5

\* The slot that is dropped is the last.
LEMMA DroppedSlot ==
  ASSUME ParkTypeOK, SlotsInv, count > 0, count' = count - 1, UNCHANGED slots
  PROVE  /\ Used' = Used \ {count} /\ count \in Used
         /\ \A u : Knows(u)' <=> Knows(u) /\ u # slots[count].tid
         /\ ArrivedSet' \subseteq ArrivedSet
<1>1. Used' = Used \ {count} /\ count \in Used
  BY Facts DEF Used
<1>2. \A u : Knows(u)' <=> Knows(u) /\ u # slots[count].tid
  BY <1>1 DEF Knows, SlotsInv
<1>3. ArrivedSet' \subseteq ArrivedSet
  BY <1>1 DEF ArrivedSet
<1> QED
  BY <1>1, <1>2, <1>3

LEMMA TakeSlotCases ==
  ASSUME ParkTypeOK, NEW p \in Patchers, TakeSlot(p)
  PROVE  \E t \in patcher[p].todo \cap Threads :
           \/ /\ Knows(t)
              /\ patcher' = [patcher EXCEPT ![p].todo = @ \ {t}]
              /\ UNCHANGED <<release, count, slots>>
           \/ Goes(p, "release") /\ UNCHANGED <<release, count, slots>>
           \/ /\ ~Knows(t) /\ count # MaxSlots
              /\ slots' = [slots EXCEPT ![count + 1] = FreshSlot(t)]
              /\ count' = count + 1
              /\ Goes(p, "signal")
              /\ UNCHANGED release
<1>1. patcher[p].todo \subseteq Threads
  BY Facts DEF Patcher
<1> QED
  BY <1>1 DEF TakeSlot, park

LEMMA HandlerSlotsInv ==
  ASSUME ParkTypeOK, SlotsInv, NEW t \in Threads, HandlerStep(t)
  PROVE  SlotsInv'
  BY HandlerSlots, HandlerKnows, Facts DEF SlotsInv

LEMMA OtherSlotsInv ==
  ASSUME SlotsInv, NEW t \in Threads, OtherStep(t)
  PROVE  SlotsInv'
  BY OtherFrame, OtherKnows DEF SlotsInv

LEMMA PatcherSlotsInv ==
  ASSUME ParkTypeOK, PageInv, SlotsInv, NEW p \in Patchers, PatcherStep(p),
         patcher[p].at = "signal" => count > 0
  PROVE  SlotsInv'
<1>1. CASE UNCHANGED <<count, slots>>
  BY <1>1, PatcherKnows DEF SlotsInv
<1>2. CASE Reset(p)
  BY <1>2 DEF Reset, SlotsInv, Used
<1>3. CASE TakeSlot(p)
  <2>1. PICK t \in patcher[p].todo \cap Threads :
          \/ UNCHANGED <<count, slots>>
          \/ /\ ~Knows(t) /\ count # MaxSlots
             /\ slots' = [slots EXCEPT ![count + 1] = FreshSlot(t)]
             /\ count' = count + 1
    BY <1>3, TakeSlotCases
  <2>2. CASE ~ UNCHANGED <<count, slots>>
    <3>1. /\ Used' = Used \cup {count + 1} /\ count + 1 \notin Used
          /\ \A i \in Used : slots'[i] = slots[i]
          /\ slots'[count + 1].tid = t
      BY <2>1, <2>2, NewSlot DEF FreshSlot
    <3>2. \A i \in Used : slots[i].tid # t
      BY <2>1, <2>2 DEF Knows
    <3> QED
      BY <3>1, <3>2 DEF SlotsInv
  <2> QED
    BY <1>1, <2>2
<1>4. CASE Tgkill(p)
  <2>1. CASE UNCHANGED count
    BY <1>1, <1>4, <2>1 DEF Tgkill
  <2>2. CASE ~ UNCHANGED count
    <3>1. count > 0 /\ count' = count - 1 /\ UNCHANGED slots
      BY <1>4, <2>2 DEF Tgkill, At
    <3> QED
      BY <3>1, DroppedSlot DEF SlotsInv
  <2> QED
    BY <2>1, <2>2
<1> QED
  BY <1>1, <1>2, <1>3, <1>4, SlotsFrame

-----------------------------------------------------------------------------
(* Counting: as many threads wait as slots were marked *)

LEMMA Finite ==
  ASSUME ParkTypeOK
  PROVE  /\ IsFiniteSet(KnownSet) /\ IsFiniteSet(HandlerSet) /\ IsFiniteSet(SpinSet)
         /\ IsFiniteSet(ArrivedSet) /\ IsFiniteSet(Used)
         /\ Cardinality(KnownSet) \in Nat /\ Cardinality(HandlerSet) \in Nat
         /\ Cardinality(SpinSet) \in Nat /\ Cardinality(ArrivedSet) \in Nat
         /\ Cardinality(Used) = count
<1>1. IsFiniteSet(Threads)
  BY ParkAssumption
<1>2. KnownSet \in SUBSET Threads /\ HandlerSet \in SUBSET Threads /\ SpinSet \in SUBSET Threads
  BY DEF KnownSet, HandlerSet, SpinSet
<1>3. IsFiniteSet(KnownSet) /\ IsFiniteSet(HandlerSet) /\ IsFiniteSet(SpinSet)
  BY <1>1, <1>2, FS_Subset
<1>4. IsFiniteSet(Used) /\ Cardinality(Used) = count
  BY Facts, FS_Interval DEF Used
<1>5. ArrivedSet \in SUBSET Used
  BY DEF ArrivedSet
<1>6. IsFiniteSet(ArrivedSet)
  BY <1>4, <1>5, FS_Subset
<1> QED
  BY <1>3, <1>4, <1>6, FS_CardinalityType

LEMMA KnownCount ==
  ASSUME ParkTypeOK
  PROVE  Cardinality(KnownSet) <= count
<1> DEFINE f == [i \in {j \in Used : slots[j].tid \in Threads} |-> slots[i].tid]
           S == {j \in Used : slots[j].tid \in Threads}
<1>1. S \in SUBSET Used
  OBVIOUS
<1>2. IsFiniteSet(S) /\ Cardinality(S) <= count
  BY <1>1, Finite, FS_Subset
<1>3. f \in Surjection(S, KnownSet)
  BY DEF Surjection, KnownSet, Knows
<1>4. Cardinality(KnownSet) <= Cardinality(S)
  BY <1>2, <1>3, FS_Surjection
<1> QED
  BY <1>2, <1>4, Finite, FS_CardinalityType

\* All slots marked, and everybody in the handler known: everybody known waits.
LEMMA ArrivedMeansParked ==
  ASSUME ParkTypeOK, AllArrived, HandlerSet \subseteq KnownSet,
         Cardinality(ArrivedSet) <= Cardinality(SpinSet)
  PROVE  AllParked
<1>1. ArrivedSet = Used
  BY DEF ArrivedSet, AllArrived
<1>2. SpinSet \in SUBSET HandlerSet
  BY DEF SpinSet, HandlerSet
<1>3. HandlerSet \in SUBSET KnownSet
  OBVIOUS
<1>4. Cardinality(SpinSet) <= Cardinality(HandlerSet)
  BY <1>2, Finite, FS_Subset
<1>5. Cardinality(HandlerSet) <= Cardinality(KnownSet)
  BY <1>3, Finite, FS_Subset
<1>6. Cardinality(KnownSet) <= Cardinality(SpinSet)
  BY <1>1, Finite, KnownCount, Facts
<1>7. Cardinality(SpinSet) = Cardinality(HandlerSet)
      /\ Cardinality(HandlerSet) = Cardinality(KnownSet)
  BY <1>4, <1>5, <1>6, Finite
<1>8. HandlerSet = SpinSet
  BY <1>2, <1>7, Finite, FS_Subset
<1>9. HandlerSet = KnownSet
  BY <1>3, <1>7, Finite, FS_Subset
<1> QED
  BY <1>8, <1>9 DEF AllParked

\* A thread in the handler marks one slot, and waits.
LEMMA HandlerCount ==
  ASSUME ParkTypeOK, SlotsInv, ~release, NEW t \in Threads, HandlerStep(t),
         Cardinality(ArrivedSet) <= Cardinality(SpinSet)
  PROVE  Cardinality(ArrivedSet') <= Cardinality(SpinSet')
<1>1. Used' = Used
  BY HandlerKnows
<1>2. CASE ~Arrive(t)
  <2>1. ArrivedSet' = ArrivedSet
    BY <1>1, <1>2, HandlerSlots, Facts DEF ArrivedSet
  <2>2. SpinSet' = SpinSet
    <3>1. CASE TakeSignal(t)
      BY <3>1 DEF TakeSignal, Executes, SpinSet, ParkTypeOK
    <3>2. CASE StorePc(t)
      BY <3>2, Facts DEF StorePc, SpinSet, ParkTypeOK, Handler
    <3>3. ~LeaveHandler(t)
      BY DEF LeaveHandler
    <3> QED
      BY <1>2, <3>1, <3>2, <3>3 DEF HandlerStep
  <2> QED
    BY <2>1, <2>2
<1>3. CASE Arrive(t)
  <2>1. SpinSet' = SpinSet \cup {t} /\ t \notin SpinSet
    BY <1>3, Facts DEF Arrive, SpinSet, ParkTypeOK, Handler
  <2>2. ArrivedSet' \in SUBSET (ArrivedSet \cup {handler[t].slot})
    BY <1>1, HandlerSlots, Facts DEF ArrivedSet
  <2>3. Cardinality(SpinSet') = Cardinality(SpinSet) + 1
    BY <2>1, Finite, FS_AddElement
  <2>4. IsFiniteSet(ArrivedSet \cup {handler[t].slot})
        /\ Cardinality(ArrivedSet \cup {handler[t].slot}) <= Cardinality(ArrivedSet) + 1
    <3>1. IsFiniteSet(ArrivedSet) /\ Cardinality(ArrivedSet) \in Nat
      BY Finite
    <3>2. /\ IsFiniteSet(ArrivedSet \cup {handler[t].slot})
          /\ Cardinality(ArrivedSet \cup {handler[t].slot}) =
               IF handler[t].slot \in ArrivedSet THEN Cardinality(ArrivedSet)
               ELSE Cardinality(ArrivedSet) + 1
      BY <3>1, FS_AddElement, Zenon
    <3> QED
      BY <3>1, <3>2
  <2>5. Cardinality(ArrivedSet') <= Cardinality(ArrivedSet \cup {handler[t].slot})
    BY <2>2, <2>4, FS_Subset
  <2>6. IsFiniteSet(ArrivedSet') /\ Cardinality(ArrivedSet') \in Nat
    BY <2>2, <2>4, FS_Subset, FS_CardinalityType
  <2>7. Cardinality(ArrivedSet \cup {handler[t].slot}) \in Nat
    BY <2>4, FS_CardinalityType
  <2> QED
    BY <2>3, <2>4, <2>5, <2>6, <2>7, Finite
<1> QED
  BY <1>2, <1>3

\* Nobody enters, moves on or leaves while all those known wait.
LEMMA HandlerParked ==
  ASSUME ParkTypeOK, ~release, AllParked, NEW t \in Threads, HandlerStep(t)
  PROVE  UNCHANGED handler /\ AllParked'
<1>1. CASE TakeSignal(t)
  <2>1. t \notin KnownSet
    BY <1>1 DEF TakeSignal, Executes, AllParked, SpinSet
  <2>2. {i \in Used : slots[i].tid = t} = {}
    BY <2>1 DEF KnownSet, Knows
  <2>3. UNCHANGED handler
    BY <1>1, <2>2 DEF TakeSignal
  <2> QED
    BY <2>3, HandlerKnows DEF AllParked, HandlerSet, SpinSet
<1>2. handler[t].at \in {"none", "spin"}
  BY DEF AllParked, HandlerSet, SpinSet
<1> QED
  BY <1>1, <1>2 DEF HandlerStep, StorePc, Arrive, LeaveHandler

-----------------------------------------------------------------------------
(* The park *)

LEMMA HandlerMoves ==
  ASSUME ParkTypeOK, NEW t \in Threads, HandlerStep(t)
  PROVE  /\ \A u \in Threads \ {t} : handler'[u] = handler[u]
         /\ handler'[t].at # "none" => handler[t].at # "none" \/ Knows(t)
<1>1. CASE TakeSignal(t)
  <2>1. handler' # handler => Knows(t)
    BY <1>1 DEF TakeSignal, Knows
  <2>2. \A u \in Threads \ {t} : handler'[u] = handler[u]
    BY <1>1 DEF TakeSignal, ParkTypeOK
  <2> QED
    BY <2>1, <2>2
<1>2. CASE StorePc(t)
  BY <1>2 DEF StorePc, ParkTypeOK
<1>3. CASE Arrive(t)
  BY <1>3 DEF Arrive, ParkTypeOK
<1>4. CASE LeaveHandler(t)
  BY <1>4 DEF LeaveHandler, ParkTypeOK, Outside
<1> QED
  BY <1>1, <1>2, <1>3, <1>4 DEF HandlerStep

\* A step in the handler leaves everything a park relies on as it is.
LEMMA HandlerPark ==
  ASSUME ParkTypeOK, SlotsInv, ParkInv, NEW t \in Threads, HandlerStep(t)
  PROVE  ParkInv'
<1> SUFFICES ASSUME NEW p \in Patchers
             PROVE  /\ patcher[p].at \in Active => ActiveInv(p)'
                    /\ patcher[p].at = "collect" => CollectInv(p)'
                    /\ patcher[p].at \in {"scan", "signal"} => ScanInv(p)'
                    /\ patcher[p].at = "scan" => PassInv(p)'
                    /\ patcher[p].at = "signal" => SignalInv(p)'
                    /\ patcher[p].at \in Held => HeldInv(p)'
  BY HandlerFrame DEF ParkInv
<1>1. UNCHANGED <<release, count, patcher, alive>>
  BY HandlerFrame
<1>2. /\ \A u : Knows(u)' <=> Knows(u)
      /\ KnownSet' = KnownSet /\ Used' = Used
  BY HandlerKnows
<1>3. /\ patcher[p].at \in Active => ActiveInv(p)
      /\ patcher[p].at = "collect" => CollectInv(p)
      /\ patcher[p].at \in {"scan", "signal"} => ScanInv(p)
      /\ patcher[p].at = "scan" => PassInv(p)
      /\ patcher[p].at = "signal" => SignalInv(p)
      /\ patcher[p].at \in Held => HeldInv(p)
  BY DEF ParkInv
<1>4. patcher[p].at \in Active /\ AllParked => AllParked'
  BY <1>3, HandlerParked DEF ActiveInv
<1>5. ASSUME patcher[p].at \in Active PROVE ActiveInv(p)'
  <2>1. ActiveInv(p)
    BY <1>3, <1>5
  <2>2. Cardinality(ArrivedSet') <= Cardinality(SpinSet')
    BY <2>1, HandlerCount DEF ActiveInv
  <2>3. handler'[p].at = "none"
    BY <2>1, HandlerMoves, Facts DEF ActiveInv
  <2> QED
    BY <1>1, <1>2, <2>1, <2>2, <2>3 DEF ActiveInv
<1>6. ASSUME patcher[p].at = "collect" PROVE CollectInv(p)'
  BY <1>1, <1>3, <1>4, <1>6 DEF CollectInv, Active
<1>7. ASSUME patcher[p].at \in {"scan", "signal"} PROVE ScanInv(p)'
  <2>1. HandlerSet' \subseteq HandlerSet \cup KnownSet
    BY HandlerMoves DEF HandlerSet, KnownSet
  <2> QED
    BY <1>1, <1>2, <1>3, <1>7, <2>1 DEF ScanInv
<1>8. ASSUME patcher[p].at = "scan" PROVE PassInv(p)'
  BY <1>1, <1>2, <1>3, <1>4, <1>8 DEF PassInv, Active
<1>9. ASSUME patcher[p].at = "signal" PROVE SignalInv(p)'
  BY <1>1, <1>3, <1>9, HandlerSlots, Facts DEF SignalInv, Used
<1>10. ASSUME patcher[p].at \in Held PROVE HeldInv(p)'
  BY <1>1, <1>2, <1>3, <1>4, <1>10 DEF HeldInv, Active
<1> QED
  BY <1>5, <1>6, <1>7, <1>8, <1>9, <1>10

\* Nor does what the other threads do meanwhile: who waits creates nobody.
LEMMA OtherPark ==
  ASSUME ParkTypeOK, WorldInv, ParkInv, NEW t \in Threads, OtherStep(t)
  PROVE  ParkInv'
<1>1. UNCHANGED <<release, count, slots, patcher, handler>>
  BY OtherFrame
<1>2. /\ \A u : Knows(u)' <=> Knows(u)
      /\ KnownSet' = KnownSet /\ HandlerSet' = HandlerSet
      /\ SpinSet' = SpinSet /\ ArrivedSet' = ArrivedSet
  BY OtherKnows
<1>3. AllParked' <=> AllParked
  BY <1>2 DEF AllParked
<1>4. ASSUME NEW p \in Patchers, patcher[p].at \in Active, t # p => t \in KnownSet,
             count = 0 \/ AllParked
      PROVE  alive' \subseteq alive
  <2>1. t \in alive /\ handler[t].at = "none"
    BY OtherFrame DEF Executes
  <2>2. t = p
    BY <1>4, <2>1 DEF AllParked, SpinSet, KnownSet, Knows, Used
  <2>3. ~ \E n \in Threads : Create(t, n)
    BY <1>4, <2>2 DEF Create, Active, Held, Critical
  <2> QED
    BY <2>3 DEF OtherStep, Move, Exit
<1>5. ASSUME NEW p \in Patchers, patcher[p].at = "scan" PROVE PassInv(p)'
  <2> SUFFICES ASSUME ~patcher[p].new, ~patcher[p].gone, alive \ {p} \subseteq KnownSet
               PROVE  alive' \ {p} \subseteq KnownSet
    BY <1>1, <1>2, <1>3, <1>5 DEF ParkInv, PassInv
  <2>1. count = 0 \/ AllParked
    BY <1>5 DEF ParkInv, PassInv
  <2>2. t # p => t \in KnownSet
    BY OtherFrame DEF Executes
  <2> QED
    BY <1>4, <1>5, <2>1, <2>2 DEF Active
<1>6. ASSUME NEW p \in Patchers, patcher[p].at \in Held PROVE HeldInv(p)'
  <2>1. HeldInv(p)
    BY <1>6 DEF ParkInv
  <2> SUFFICES ASSUME ~patcher[p].gone
               PROVE  alive' \ {p} \subseteq KnownSet
    BY <1>1, <1>2, <1>3, <2>1 DEF HeldInv
  <2>2. t # p => t \in KnownSet
    BY <2>1, OtherFrame DEF Executes, HeldInv
  <2> QED
    BY <1>4, <1>6, <2>1, <2>2 DEF Active, HeldInv
<1>7. ASSUME NEW p \in Patchers
      PROVE  /\ patcher[p].at \in Active => ActiveInv(p)'
             /\ patcher[p].at = "collect" => CollectInv(p)'
             /\ patcher[p].at \in {"scan", "signal"} => ScanInv(p)'
             /\ patcher[p].at = "signal" => SignalInv(p)'
  BY <1>1, <1>2, <1>3 DEF ParkInv, ActiveInv, CollectInv, ScanInv, SignalInv
<1> QED
  BY <1>1, <1>5, <1>6, <1>7 DEF ParkInv

\* What a patcher with a park relies on, in one piece.
ParkInvOf(p) ==
  /\ patcher[p].at \in Active => ActiveInv(p)
  /\ patcher[p].at = "collect" => CollectInv(p)
  /\ patcher[p].at \in {"scan", "signal"} => ScanInv(p)
  /\ patcher[p].at = "scan" => PassInv(p)
  /\ patcher[p].at = "signal" => SignalInv(p)
  /\ patcher[p].at \in Held => HeldInv(p)

LEMMA NotActive ==
  ASSUME NEW p \in Patchers, patcher'[p].at \notin Active
  PROVE  ParkInvOf(p)'
  BY DEF ParkInvOf, Active, Held, Critical

\* The park of another is not touched.
LEMMA OthersPark ==
  ASSUME Parks, ParkTypeOK, PageInv, BusyInv, ParkInv, NEW p \in Patchers, PatcherStep(p),
         NEW q \in Patchers \ {p}
  PROVE  ParkInvOf(q)'
<1>1. patcher'[q] = patcher[q]
  BY PatcherMoves
<1>2. CASE patcher[q].at \notin Active
  BY <1>1, <1>2, NotActive
<1>3. CASE patcher[q].at \in Active
  <2>1. patcher[p].at \notin InPark
    BY <1>3 DEF BusyInv, InPark
  <2>2. UNCHANGED <<release, count, slots>>
    BY <2>1 DEF PatcherStep, Query, Acquire, Reset, CollectTids, TakeSlot, Tgkill,
       WaitArrived, WaitTimesOut, CheckRanges, Unprotect, BeginWrite, EndWrite, Protect,
       ReleaseAll, LeavePark, At, park, InPark, Active, Held, Critical
  <2>3. UNCHANGED <<alive, handler>>
    BY PatcherFrame
  <2>4. /\ Used' = Used
        /\ \A u : Knows(u)' <=> Knows(u)
        /\ KnownSet' = KnownSet /\ ArrivedSet' = ArrivedSet
        /\ HandlerSet' = HandlerSet /\ SpinSet' = SpinSet
    BY <2>2, PatcherKnows
  <2> QED
    BY <1>1, <2>2, <2>3, <2>4
       DEF ParkInv, ParkInvOf, ActiveInv, CollectInv, ScanInv, PassInv, SignalInv, HeldInv,
           AllParked
<1> QED
  BY <1>2, <1>3

\* A step of the patcher that leaves the slots and the handlers as they are.
LEMMA SameSlots ==
  ASSUME ParkTypeOK, PageInv, NEW p \in Patchers, PatcherStep(p),
         UNCHANGED <<release, count, slots>>
  PROVE  /\ ActiveInv(p) => ActiveInv(p)'
         /\ AllParked' <=> AllParked
         /\ KnownSet' = KnownSet /\ HandlerSet' = HandlerSet
         /\ \A u : Knows(u)' <=> Knows(u)
         /\ UNCHANGED alive
<1>1. UNCHANGED <<alive, handler>>
  BY PatcherFrame
<1> QED
  BY <1>1, PatcherKnows DEF ActiveInv, AllParked

LEMMA ResetPark ==
  ASSUME ParkTypeOK, PageInv, NEW p \in Patchers, Reset(p)
  PROVE  ParkInvOf(p)'
<1>1. PatcherStep(p)
  BY DEF PatcherStep
<1>2. patcher'[p].at = "collect" /\ ~release' /\ count' = 0
  BY GoesTo DEF Reset, Places
<1>3. handler'[p].at = "none"
  BY <1>1, PatcherFrame DEF Executes
<1>4. Used' = {}
  BY <1>2 DEF Used
<1>5. ~Knows(p)'
  BY <1>4 DEF Knows
<1>6. ArrivedSet' = {}
  BY <1>4 DEF ArrivedSet
<1>7. Cardinality(ArrivedSet') <= Cardinality(SpinSet')
  <2>1. Cardinality(SpinSet') \in Nat /\ Cardinality(ArrivedSet') = 0
    BY <1>1, <1>6, PatcherKnows, Finite, FS_EmptySet
  <2> QED
    BY <2>1
<1>8. ActiveInv(p)' /\ CollectInv(p)'
  BY <1>2, <1>3, <1>5, <1>7 DEF ActiveInv, CollectInv
<1> QED
  BY <1>2, <1>8 DEF ParkInvOf, Held, Critical

LEMMA CollectPark ==
  ASSUME ParkTypeOK, WorldInv, PageInv, NEW p \in Patchers, ParkInvOf(p), CollectTids(p)
  PROVE  ParkInvOf(p)'
<1>1. PatcherStep(p) /\ UNCHANGED <<release, count, slots>>
  BY DEF PatcherStep, CollectTids, park
<1>2. CASE Goes(p, "release")
  BY <1>2, GoesTo, NotActive DEF Places, Active, Held, Critical
<1>3. CASE patcher' = [patcher EXCEPT ![p] =
             [@ EXCEPT !.at = "scan", !.todo = alive \ {p}, !.new = FALSE, !.gone = FALSE]]
  <2>1. /\ patcher'[p].at = "scan" /\ patcher'[p].todo = alive \ {p}
        /\ ~patcher'[p].new /\ ~patcher'[p].gone
    BY <1>3, CollectTo
  <2>2. ActiveInv(p) /\ CollectInv(p)
    BY DEF CollectTids, At, ParkInvOf, Active
  <2>3. ActiveInv(p)'
    BY <1>1, <2>2, SameSlots
  <2>4. ScanInv(p)'
    <3>1. HandlerSet \subseteq alive \ {p}
      BY <2>2 DEF WorldInv, ActiveInv, HandlerSet
    <3> QED
      BY <1>1, <2>1, <3>1, SameSlots DEF ScanInv, WorldInv
  <2>5. PassInv(p)'
    <3>1. (count = 0 \/ AllParked)'
      BY <1>1, <2>2, SameSlots DEF CollectInv
    <3>2. (\E t \in alive \ {p} : ~Knows(t)) \/ alive \ {p} \subseteq KnownSet
      BY DEF KnownSet, ParkTypeOK
    <3> QED
      BY <1>1, <2>1, <3>1, <3>2, SameSlots DEF PassInv
  <2> QED
    BY <2>1, <2>3, <2>4, <2>5 DEF ParkInvOf, Held, Critical
<1> QED
  BY <1>2, <1>3 DEF CollectTids

LEMMA TakeSlotPark ==
  ASSUME ParkTypeOK, PageInv, NEW p \in Patchers, ParkInvOf(p), TakeSlot(p)
  PROVE  ParkInvOf(p)'
<1>1. PatcherStep(p) /\ patcher[p].at = "scan"
  BY DEF PatcherStep, TakeSlot, At
<1>2. ActiveInv(p) /\ ScanInv(p) /\ PassInv(p)
  BY <1>1 DEF ParkInvOf, Active
<1>3. PICK t \in patcher[p].todo \cap Threads :
        \/ /\ Knows(t)
           /\ patcher' = [patcher EXCEPT ![p].todo = @ \ {t}]
           /\ UNCHANGED <<release, count, slots>>
        \/ Goes(p, "release") /\ UNCHANGED <<release, count, slots>>
        \/ /\ ~Knows(t) /\ count # MaxSlots
           /\ slots' = [slots EXCEPT ![count + 1] = FreshSlot(t)]
           /\ count' = count + 1
           /\ Goes(p, "signal")
           /\ UNCHANGED release
  BY TakeSlotCases
<1>4. CASE Goes(p, "release")
  BY <1>4, GoesTo, NotActive DEF Places, Active, Held, Critical
<1>5. CASE /\ Knows(t)
           /\ patcher' = [patcher EXCEPT ![p].todo = @ \ {t}]
           /\ UNCHANGED <<release, count, slots>>
  <2>1. /\ patcher'[p].at = "scan" /\ patcher'[p].todo = patcher[p].todo \ {t}
        /\ patcher'[p].new = patcher[p].new /\ patcher'[p].gone = patcher[p].gone
    BY <1>1, <1>5, LooksTo
  <2>2. /\ ActiveInv(p)' /\ (AllParked' <=> AllParked)
        /\ KnownSet' = KnownSet /\ HandlerSet' = HandlerSet
        /\ \A u : Knows(u)' <=> Knows(u)
        /\ UNCHANGED <<alive, count>>
    BY <1>1, <1>2, <1>5, SameSlots
  <2>3. t \in KnownSet
    BY <1>5 DEF KnownSet
  <2>4. ScanInv(p)'
    BY <1>2, <2>1, <2>2, <2>3 DEF ScanInv
  <2>5. PassInv(p)'
    BY <1>2, <1>5, <2>1, <2>2 DEF PassInv
  <2> QED
    BY <2>1, <2>2, <2>4, <2>5 DEF ParkInvOf, Held, Critical
<1>6. CASE /\ ~Knows(t) /\ count # MaxSlots
           /\ slots' = [slots EXCEPT ![count + 1] = FreshSlot(t)]
           /\ count' = count + 1
           /\ Goes(p, "signal")
           /\ UNCHANGED release
  <2>1. patcher'[p].at = "signal" /\ patcher'[p].todo = patcher[p].todo
    BY <1>6, GoesTo DEF Places
  <2>2. /\ slots'[count + 1] = FreshSlot(t)
        /\ \A u : Knows(u)' <=> Knows(u) \/ u = t
        /\ ArrivedSet' = ArrivedSet
    BY <1>6, NewSlot
  <2>3. UNCHANGED <<handler, alive>> /\ HandlerSet' = HandlerSet /\ SpinSet' = SpinSet
    BY <1>1, PatcherFrame, PatcherKnows
  <2>4. ActiveInv(p)'
    BY <1>2, <1>6, <2>2, <2>3 DEF ActiveInv, ScanInv
  <2>5. ScanInv(p)'
    BY <1>2, <2>1, <2>2, <2>3 DEF ScanInv, KnownSet
  <2>6. SignalInv(p)'
    BY <1>6, <2>1, <2>2, Facts DEF SignalInv, FreshSlot
  <2> QED
    BY <2>1, <2>4, <2>5, <2>6 DEF ParkInvOf, Held, Critical
<1> QED
  BY <1>3, <1>4, <1>5, <1>6

LEMMA TgkillPark ==
  ASSUME ParkTypeOK, SlotsInv, WorldInv, PageInv, NEW p \in Patchers, ParkInvOf(p), Tgkill(p)
  PROVE  ParkInvOf(p)'
<1> DEFINE t == slots[count].tid
<1>1. PatcherStep(p) /\ patcher[p].at = "signal" /\ UNCHANGED <<release, slots>>
  BY DEF PatcherStep, Tgkill, At
<1>2. ActiveInv(p) /\ ScanInv(p) /\ count > 0 /\ t \in patcher[p].todo
  BY <1>1 DEF ParkInvOf, Active, SignalInv
<1>3. t \in Threads /\ Knows(t)
  <2>1. count \in Used
    BY <1>2, Facts DEF Used
  <2> QED
    BY <2>1 DEF SlotsInv, Knows
<1>4. UNCHANGED <<handler, alive>> /\ HandlerSet' = HandlerSet /\ SpinSet' = SpinSet
  BY <1>1, PatcherFrame, PatcherKnows
<1>5. CASE t \in alive
  <2>1. /\ patcher'[p].at = "scan" /\ patcher'[p].todo = patcher[p].todo \ {t}
        /\ patcher'[p].new = TRUE /\ UNCHANGED count
    BY <1>5, SignalledTo DEF Tgkill
  <2>2. /\ ActiveInv(p)' /\ KnownSet' = KnownSet
    BY <1>1, <1>2, <2>1, SameSlots
  <2>3. ScanInv(p)'
    BY <1>2, <1>3, <1>4, <2>1, <2>2 DEF ScanInv, KnownSet
  <2>4. PassInv(p)'
    BY <2>1 DEF PassInv
  <2> QED
    BY <2>1, <2>2, <2>3, <2>4 DEF ParkInvOf, Held, Critical
<1>6. CASE t \notin alive
  <2>1. /\ patcher'[p].at = "scan" /\ patcher'[p].todo = patcher[p].todo \ {t}
        /\ patcher'[p].gone = TRUE /\ count' = count - 1
    BY <1>6, DroppedTo DEF Tgkill
  <2>2. /\ \A u : Knows(u)' <=> Knows(u) /\ u # t
        /\ ArrivedSet' \subseteq ArrivedSet
    BY <1>1, <1>2, <2>1, DroppedSlot
  <2>3. KnownSet' = KnownSet \ {t}
    BY <2>2 DEF KnownSet
  <2>4. t \notin HandlerSet /\ t \notin Patchers
    BY <1>6 DEF WorldInv
  <2>5. ScanInv(p)'
    BY <1>2, <1>4, <2>1, <2>3, <2>4 DEF ScanInv
  <2>6. Cardinality(ArrivedSet') <= Cardinality(SpinSet')
    <3>1. ArrivedSet' \in SUBSET ArrivedSet
      BY <2>2
    <3>2. Cardinality(ArrivedSet') <= Cardinality(ArrivedSet) /\ IsFiniteSet(ArrivedSet')
      BY <3>1, Finite, FS_Subset
    <3>3. Cardinality(ArrivedSet') \in Nat
      BY <3>2, FS_CardinalityType
    <3> QED
      BY <1>2, <1>4, <3>2, <3>3, Finite DEF ActiveInv
  <2>7. ActiveInv(p)'
    BY <1>1, <1>2, <1>4, <2>2, <2>6 DEF ActiveInv
  <2>8. PassInv(p)'
    BY <2>1 DEF PassInv
  <2> QED
    BY <2>1, <2>5, <2>7, <2>8 DEF ParkInvOf, Held, Critical
<1> QED
  BY <1>5, <1>6

\* The end of a pass: all those known wait, and after a pass that signalled
\* nobody and found nobody gone there is nobody else.
LEMMA ArrivedPark ==
  ASSUME ParkTypeOK, PageInv, NEW p \in Patchers, ParkInvOf(p), WaitArrived(p)
  PROVE  ParkInvOf(p)'
<1>1. /\ PatcherStep(p) /\ patcher[p].at = "scan" /\ patcher[p].todo = {} /\ AllArrived
      /\ UNCHANGED <<release, count, slots>>
  BY DEF PatcherStep, WaitArrived, At, park
<1>2. ActiveInv(p) /\ ScanInv(p) /\ PassInv(p)
  BY <1>1 DEF ParkInvOf, Active
<1>3. AllParked
  BY <1>1, <1>2, ArrivedMeansParked DEF ActiveInv, ScanInv
<1>4. /\ patcher'[p].at = AfterPass(p) /\ patcher'[p].gone = patcher[p].gone
  BY AfterPlaces, GoesTo DEF WaitArrived
<1>5. /\ ActiveInv(p)' /\ AllParked' /\ KnownSet' = KnownSet /\ UNCHANGED alive
  BY <1>1, <1>2, <1>3, SameSlots
<1>6. CASE patcher[p].new
  BY <1>4, <1>5, <1>6 DEF AfterPass, ParkInvOf, CollectInv, Held, Critical
<1>7. CASE ~patcher[p].new
  <2>1. patcher'[p].at = "held"
    BY <1>4, <1>7 DEF AfterPass
  <2>2. Patchers \ {p} \subseteq KnownSet
    BY <1>1, <1>2 DEF ScanInv
  <2>3. ~patcher[p].gone => alive \ {p} \subseteq KnownSet
    BY <1>1, <1>2, <1>7 DEF PassInv
  <2>4. HeldInv(p)'
    BY <1>4, <1>5, <2>2, <2>3 DEF HeldInv
  <2> QED
    BY <1>5, <2>1, <2>4 DEF ParkInvOf
<1> QED
  BY <1>6, <1>7

\* A park that is held stays so until it is released.
LEMMA HeldPark ==
  ASSUME ParkTypeOK, PageInv, NEW p \in Patchers, ParkInvOf(p), PatcherStep(p),
         UNCHANGED <<release, count, slots>>, patcher[p].at \in Held,
         patcher'[p].gone = patcher[p].gone, patcher'[p].at \in Critical \cup {"release"}
  PROVE  ParkInvOf(p)'
<1>1. ActiveInv(p) /\ HeldInv(p)
  BY DEF ParkInvOf, Active
<1>2. ActiveInv(p)' /\ HeldInv(p)'
  BY <1>1, SameSlots DEF HeldInv
<1> QED
  BY <1>2 DEF ParkInvOf, Held, Critical, Active

LEMMA PatcherPark ==
  ASSUME Parks, ParkTypeOK, WorldInv, BusyInv, SlotsInv, PageInv, ParkInv,
         NEW p \in Patchers, PatcherStep(p)
  PROVE  ParkInv'
<1> SUFFICES ParkInvOf(p)'
  BY OthersPark DEF ParkInv, ParkInvOf
<1>1. ParkInvOf(p)
  BY DEF ParkInv, ParkInvOf
<1> USE DEF Places
<1>2. CASE Query(p)
  BY <1>2, QueryTo, NotActive DEF Active, Held, Critical
<1>3. CASE Acquire(p)
  BY <1>3, GoesTo, TriesAgainTo, NotActive DEF Acquire, Active, Held, Critical
<1>4. CASE WaitTimesOut(p)
  BY <1>4, GoesTo, NotActive DEF WaitTimesOut, Active, Held, Critical
<1>5. CASE ReleaseAll(p)
  BY <1>5, GoesTo, NotActive DEF ReleaseAll, Active, Held, Critical
<1>6. CASE LeavePark(p)
  BY <1>6, GoesTo, TriesAgainTo, NotActive DEF LeavePark, Active, Held, Critical
<1>7. CASE CheckRanges(p)
  <2>1. patcher[p].at = "held" /\ UNCHANGED <<release, count, slots>>
    BY <1>7 DEF CheckRanges, At, park
  <2>2. patcher'[p].gone = patcher[p].gone /\ patcher'[p].at \in {"unprotect", "release"}
    BY <1>7, GoesTo DEF CheckRanges
  <2> QED
    BY <1>1, <2>1, <2>2, HeldPark DEF Held, Critical
<1>8. CASE Unprotect(p)
  <2>1. patcher[p].at = "unprotect" /\ UNCHANGED <<release, count, slots>>
    BY <1>8 DEF Unprotect, At, park
  <2>2. CASE Changed(p, "rwx", "write")
    <3>1. patcher'[p].gone = patcher[p].gone /\ patcher'[p].at \in {"unprotect", "write"}
      BY <2>1, <2>2, ChangedTo DEF PageInv
    <3> QED
      BY <1>1, <2>1, <3>1, HeldPark DEF Held, Critical
  <2>3. CASE Refused(p)
    <3>1. patcher'[p].gone = patcher[p].gone /\ patcher'[p].at = "release"
      BY <2>3, RefusedTo DEF Ending
    <3> QED
      BY <1>1, <2>1, <3>1, HeldPark DEF Held, Critical
  <2> QED
    BY <1>8, <2>2, <2>3 DEF Unprotect
<1>9. CASE BeginWrite(p)
  <2>1. patcher[p].at = "write" /\ UNCHANGED <<release, count, slots, patcher>>
    BY <1>9 DEF BeginWrite, At, park
  <2> QED
    BY <1>1, <2>1, HeldPark DEF Held, Critical
<1>10. CASE EndWrite(p)
  <2>1. patcher[p].at = "write" /\ UNCHANGED <<release, count, slots>>
    BY <1>10 DEF EndWrite, At, park
  <2>2. patcher'[p].gone = patcher[p].gone /\ patcher'[p].at = "protect"
    BY <1>10, EndWriteTo
  <2> QED
    BY <1>1, <2>1, <2>2, HeldPark DEF Held, Critical
<1>11. CASE Protect(p)
  <2>1. patcher[p].at = "protect" /\ UNCHANGED <<release, count, slots>>
    BY <1>11 DEF Protect, At, park
  <2>2. CASE Changed(p, Restored(p), Ending)
    <3>1. patcher'[p].gone = patcher[p].gone /\ patcher'[p].at \in {"protect", "release"}
      BY <2>1, <2>2, ChangedTo DEF PageInv, Ending
    <3> QED
      BY <1>1, <2>1, <3>1, HeldPark DEF Held, Critical
  <2>3. CASE Refused(p)
    <3>1. patcher'[p].gone = patcher[p].gone /\ patcher'[p].at = "release"
      BY <2>3, RefusedTo DEF Ending
    <3> QED
      BY <1>1, <2>1, <3>1, HeldPark DEF Held, Critical
  <2> QED
    BY <1>11, <2>2, <2>3 DEF Protect
<1> QED
  BY <1>1, <1>2, <1>3, <1>4, <1>5, <1>6, <1>7, <1>8, <1>9, <1>10, <1>11,
     ResetPark, CollectPark, TakeSlotPark, TgkillPark, ArrivedPark DEF PatcherStep

-----------------------------------------------------------------------------
(* What the slots report, and what it is for *)

\* A slot in use has one thread: the one in the handler that marks it does not
\* touch what another has stored.
LEMMA HandlerReport ==
  ASSUME ParkTypeOK, SlotsInv, WorldInv, ReportInv, NEW t \in Threads, HandlerStep(t)
  PROVE  ReportInv'
<1>1. UNCHANGED <<overlap, inside, count>> /\ Used' = Used
  BY HandlerFrame, HandlerKnows
<1> SUFFICES ASSUME ~overlap, NEW u \in Threads, handler'[u].at # "none"
             PROVE  /\ handler'[u].slot \in Used /\ slots'[handler'[u].slot].tid = u
                    /\ handler'[u].at \in {"arrive", "spin"} =>
                         slots'[handler'[u].slot].inside = (u \in inside)
  BY <1>1 DEF ReportInv, HandlerSet
<1>2. CASE u # t
  <2>1. handler'[u] = handler[u]
    BY <1>2, HandlerMoves
  <2>2. /\ handler[u].slot \in Used /\ slots[handler[u].slot].tid = u
        /\ handler[u].at \in {"arrive", "spin"} => slots[handler[u].slot].inside = (u \in inside)
    BY <2>1 DEF ReportInv, HandlerSet
  <2>3. slots'[handler[u].slot].tid = u
    BY <2>2, HandlerSlots, Facts
  <2>4. ASSUME handler[u].at \in {"arrive", "spin"}
        PROVE  slots'[handler[u].slot].inside = slots[handler[u].slot].inside
    <3>1. CASE UNCHANGED slots
      BY <3>1
    <3>2. CASE handler[t].at # "none"
      <4>1. slots[handler[t].slot].tid = t
        BY <3>2 DEF ReportInv, HandlerSet
      <4>2. handler[u].slot # handler[t].slot
        BY <1>2, <2>2, <4>1
      <4> QED
        BY <2>2, <4>2, HandlerSlots, Facts
    <3> QED
      BY <3>1, <3>2 DEF HandlerStep, TakeSignal, StorePc, Arrive, LeaveHandler, park
  <2> QED
    BY <2>1, <2>2, <2>3, <2>4
<1>3. CASE u = t
  <2>1. CASE TakeSignal(t)
    <3> DEFINE mine == {i \in Used : slots[i].tid = t}
               first == CHOOSE i \in mine : \A j \in mine : i <= j
    <3>1. handler[t].at = "none" /\ UNCHANGED slots
      BY <2>1 DEF TakeSignal, Executes, park
    <3>2. mine # {}
      BY <1>3, <2>1, <3>1 DEF TakeSignal
    <3>3. first \in Used /\ slots[first].tid = t
      BY <3>2, FirstSlot
    <3>4. handler' = [handler EXCEPT ![t] = [at |-> "pc", slot |-> first]]
      BY <2>1, <3>2 DEF TakeSignal
    <3> HIDE DEF first
    <3>5. handler'[t].at = "pc" /\ handler'[t].slot = first
      BY <3>4 DEF ParkTypeOK
    <3> QED
      BY <1>3, <3>1, <3>3, <3>5
  <2>2. ASSUME ~TakeSignal(t)
        PROVE  handler[t].slot \in Used /\ slots[handler[t].slot].tid = t
    BY <2>2 DEF HandlerStep, StorePc, Arrive, LeaveHandler, ReportInv, HandlerSet
  <2>3. CASE StorePc(t)
    <3> DEFINE b == t \in inside
    <3>1. handler[t].slot \in Used /\ slots[handler[t].slot].tid = t
      BY <2>2, <2>3 DEF StorePc, TakeSignal, Executes
    <3>2. handler[t].slot \in 1 .. MaxSlots
      BY <3>1, Facts
    <3>3. handler'[t].at = "arrive" /\ handler'[t].slot = handler[t].slot
      BY <2>3 DEF StorePc, ParkTypeOK, Handler
    <3>4. slots'[handler[t].slot].tid = t
      BY <3>1, <3>2, HandlerSlots
    <3>5. slots'[handler[t].slot].inside <=> t \in inside
      <4>1. slots' = [slots EXCEPT ![handler[t].slot].inside = b]
        BY <2>3 DEF StorePc
      <4> HIDE DEF b
      <4>2. slots'[handler[t].slot].inside = b
        BY <3>2, <4>1 DEF ParkTypeOK, Slot
      <4> QED
        BY <4>2 DEF b
    <3>6. slots'[handler[t].slot].inside \in BOOLEAN
      BY <2>3, <3>2, HandlerTypeOK, ParkAssumption DEF ParkTypeOK, Slot, HandlerStep
    <3> QED
      BY <1>3, <3>1, <3>3, <3>4, <3>5, <3>6
  <2>4. CASE Arrive(t)
    <3>1. handler[t].slot \in Used /\ slots[handler[t].slot].tid = t
      BY <2>2, <2>4 DEF Arrive, TakeSignal, Executes
    <3>2. handler'[t].at = "spin" /\ handler'[t].slot = handler[t].slot
      BY <2>4 DEF Arrive, ParkTypeOK, Handler
    <3>3. slots[handler[t].slot].inside = (t \in inside)
      BY <2>4 DEF Arrive, ReportInv, HandlerSet
    <3>4. slots'[handler[t].slot].tid = t
          /\ slots'[handler[t].slot].inside = slots[handler[t].slot].inside
      BY <2>4, <3>1, Facts DEF Arrive, ParkTypeOK, Slot
    <3> QED
      BY <1>3, <3>1, <3>2, <3>3, <3>4
  <2>5. CASE LeaveHandler(t)
    BY <1>3, <2>5 DEF LeaveHandler, ParkTypeOK, Outside
  <2> QED
    BY <2>1, <2>3, <2>4, <2>5 DEF HandlerStep
<1> QED
  BY <1>2, <1>3

LEMMA OtherReport ==
  ASSUME ParkTypeOK, ReportInv, NEW t \in Threads, OtherStep(t)
  PROVE  ReportInv'
<1>1. UNCHANGED <<overlap, handler, slots, count>>
  BY OtherFrame
<1>2. Used' = Used /\ HandlerSet' = HandlerSet /\ t \notin HandlerSet
  BY OtherFrame, OtherKnows DEF Executes, HandlerSet
<1>3. \A u \in Threads \ {t} : u \in inside' <=> u \in inside
  BY DEF OtherStep, Move, Exit, Create
<1>4. \A u \in HandlerSet : (u \in inside') = (u \in inside)
  BY <1>2, <1>3 DEF HandlerSet
<1> QED
  BY <1>1, <1>2, <1>4 DEF ReportInv

LEMMA OverlapGrows ==
  ASSUME NEW p \in Patchers, PatcherStep(p)
  PROVE  /\ UNCHANGED overlap \/ Reset(p)
         /\ ~overlap' => ~overlap
<1>1. UNCHANGED overlap \/ Reset(p)
  BY DEF PatcherStep, Query, Acquire, CollectTids, TakeSlot, Tgkill, WaitArrived,
     WaitTimesOut, CheckRanges, Unprotect, BeginWrite, EndWrite, Protect, ReleaseAll,
     LeavePark
<1>2. Reset(p) => (~overlap' => ~overlap)
  BY Zenon DEF Reset
<1> QED
  BY <1>1, <1>2

LEMMA PatcherReport ==
  ASSUME ParkTypeOK, SlotsInv, WorldInv, PageInv, ReportInv, NEW p \in Patchers, PatcherStep(p),
         patcher[p].at = "signal" => count > 0
  PROVE  ReportInv'
<1> SUFFICES ASSUME ~overlap'
             PROVE  \A u \in HandlerSet : handler[u].slot \in Used' /\
                      slots'[handler[u].slot] = slots[handler[u].slot]
  <2>1. UNCHANGED <<handler, inside>> /\ HandlerSet' = HandlerSet
    BY PatcherFrame, PatcherKnows
  <2> QED
    BY <2>1, OverlapGrows DEF ReportInv
<1>1. \A u \in HandlerSet : handler[u].slot \in Used /\ slots[handler[u].slot].tid = u
  BY OverlapGrows DEF ReportInv
<1>2. CASE UNCHANGED <<count, slots>>
  BY <1>1, <1>2 DEF Used
<1>3. CASE Reset(p)
  BY <1>3 DEF Reset, HandlerSet
<1>4. CASE TakeSlot(p)
  <2>1. PICK t \in patcher[p].todo \cap Threads :
          \/ UNCHANGED <<count, slots>>
          \/ /\ ~Knows(t) /\ count # MaxSlots
             /\ slots' = [slots EXCEPT ![count + 1] = FreshSlot(t)]
             /\ count' = count + 1
    BY <1>4, TakeSlotCases
  <2>2. CASE ~ UNCHANGED <<count, slots>>
    BY <1>1, <2>1, <2>2, NewSlot
  <2> QED
    BY <1>2, <2>2
<1>5. CASE Tgkill(p)
  <2>1. CASE UNCHANGED count
    BY <1>2, <1>5, <2>1 DEF Tgkill
  <2>2. CASE ~ UNCHANGED count
    <3>1. count > 0 /\ count' = count - 1 /\ UNCHANGED slots /\ slots[count].tid \notin alive
      BY <1>5, <2>2 DEF Tgkill, At
    <3>2. Used' = Used \ {count}
      BY <3>1, DroppedSlot
    <3> QED
      BY <1>1, <3>1, <3>2 DEF WorldInv
  <2> QED
    BY <2>1, <2>2
<1> QED
  BY <1>2, <1>3, <1>4, <1>5, SlotsFrame

\* Nobody moves towards the bytes or creates a thread, as everybody waits.
LEMMA OtherTransit ==
  ASSUME ParkTypeOK, ParkInv, TransitInv, NEW t \in Threads, OtherStep(t)
  PROVE  TransitInv'
<1>1. UNCHANGED <<patcher, overlap>>
  BY OtherFrame
<1> SUFFICES ASSUME NEW p \in Patchers, patcher[p].at \in Critical, ~patcher[p].gone, inside = {}
             PROVE  inside' = {}
  BY <1>1 DEF TransitInv
<1>2. HeldInv(p)
  BY DEF ParkInv, Held
<1>3. t \in alive /\ handler[t].at = "none"
  BY OtherFrame DEF Executes
<1>4. t = p
  BY <1>2, <1>3 DEF HeldInv, AllParked, SpinSet
<1> QED
  BY <1>4 DEF OtherStep, Move, Exit, Create

\* The only way to the critical part is through the check of the slots.
LEMMA CriticalFrom ==
  ASSUME Parks, ParkTypeOK, PageInv, NEW p \in Patchers, PatcherStep(p),
         patcher'[p].at \in Critical
  PROVE  /\ patcher'[p].gone = patcher[p].gone
         /\ patcher[p].at \in Critical \/ (patcher[p].at = "held" /\ AllClear)
<1> USE DEF Critical, Places
<1>1. CASE Query(p)
  BY <1>1, QueryTo
<1>2. CASE Acquire(p)
  BY <1>2, GoesTo, TriesAgainTo DEF Acquire
<1>3. CASE Reset(p)
  BY <1>3, GoesTo DEF Reset
<1>4. CASE CollectTids(p)
  BY <1>4, GoesTo, CollectTo DEF CollectTids
<1>5. CASE TakeSlot(p)
  <2>1. patcher[p].at = "scan"
    BY <1>5 DEF TakeSlot, At
  <2>2. PICK t \in patcher[p].todo :
          \/ patcher' = [patcher EXCEPT ![p].todo = @ \ {t}]
          \/ Goes(p, "release") \/ Goes(p, "signal")
    BY <1>5 DEF TakeSlot
  <2> QED
    BY <2>1, <2>2, LooksTo, GoesTo
<1>6. CASE Tgkill(p)
  BY <1>6, SignalledTo, DroppedTo DEF Tgkill
<1>7. CASE WaitArrived(p)
  <2>1. Goes(p, AfterPass(p)) /\ AfterPass(p) \notin Critical
    BY <1>7 DEF WaitArrived, AfterPass
  <2> QED
    BY <2>1, AfterPlaces, GoesTo
<1>8. CASE WaitTimesOut(p)
  BY <1>8, GoesTo DEF WaitTimesOut
<1>9. CASE CheckRanges(p)
  <2>1. patcher[p].at = "held"
    BY <1>9 DEF CheckRanges, At
  <2> QED
    BY <1>9, <2>1, GoesTo DEF CheckRanges
<1>10. CASE Unprotect(p)
  <2>1. patcher[p].at = "unprotect"
    BY <1>10 DEF Unprotect, At
  <2>2. CASE Changed(p, "rwx", "write")
    BY <2>1, <2>2, ChangedTo DEF PageInv
  <2>3. CASE Refused(p)
    BY <2>1, <2>3, RefusedTo
  <2> QED
    BY <1>10, <2>2, <2>3 DEF Unprotect
<1>11. CASE BeginWrite(p)
  BY <1>11 DEF BeginWrite
<1>12. CASE EndWrite(p)
  BY <1>12, EndWriteTo DEF EndWrite, At
<1>13. CASE Protect(p)
  <2>1. patcher[p].at = "protect"
    BY <1>13 DEF Protect, At
  <2>2. CASE Changed(p, Restored(p), Ending)
    BY <2>1, <2>2, AfterPlaces, ChangedTo DEF PageInv
  <2>3. CASE Refused(p)
    BY <2>1, <2>3, RefusedTo
  <2> QED
    BY <1>13, <2>2, <2>3 DEF Protect
<1>14. CASE ReleaseAll(p)
  BY <1>14, GoesTo DEF ReleaseAll
<1>15. CASE LeavePark(p)
  BY <1>15, GoesTo, TriesAgainTo DEF LeavePark
<1> QED
  BY <1>1, <1>2, <1>3, <1>4, <1>5, <1>6, <1>7, <1>8,
     <1>9, <1>10, <1>11, <1>12, <1>13, <1>14, <1>15 DEF PatcherStep

LEMMA PatcherTransit ==
  ASSUME Parks, ParkTypeOK, WorldInv, PageInv, ParkInv, ReportInv, TransitInv,
         NEW p \in Patchers, PatcherStep(p)
  PROVE  TransitInv'
<1>1. UNCHANGED inside
  BY PatcherFrame
<1> SUFFICES ASSUME NEW q \in Patchers, patcher'[q].at \in Critical, Guarded, ~overlap,
                    ~patcher'[q].gone
             PROVE  inside = {}
  BY <1>1, OverlapGrows DEF TransitInv
<1>2. CASE q # p
  BY <1>2, PatcherMoves DEF TransitInv
<1>3. CASE q = p /\ patcher[p].at \in Critical
  BY <1>3, CriticalFrom DEF TransitInv
<1>4. CASE q = p /\ patcher[p].at = "held" /\ AllClear
  <2> SUFFICES ASSUME NEW t \in inside PROVE FALSE
    OBVIOUS
  <2>1. HeldInv(p) /\ ~patcher[p].gone
    BY <1>4, CriticalFrom DEF ParkInv, Held
  <2>2. t \in alive \ {p} /\ t \in Threads
    BY DEF WorldInv, ParkTypeOK
  <2>3. handler[t].at = "spin"
    BY <2>1, <2>2 DEF HeldInv, AllParked, SpinSet
  <2>4. handler[t].slot \in Used /\ slots[handler[t].slot].inside
    BY <2>2, <2>3 DEF ReportInv, HandlerSet
  <2> QED
    BY <1>4, <2>4 DEF AllClear
<1> QED
  BY <1>2, <1>3, <1>4, CriticalFrom

-----------------------------------------------------------------------------
(* The pages *)

\* What the pages are for is changed by patchers only.
LEMMA OtherPages ==
  ASSUME UNCHANGED <<patcher, pages, writing>>, PageInv, ProtectionInv
  PROVE  PageInv' /\ ProtectionInv'
<1>1. \A p : Open(p)' = Open(p)
  BY DEF Open
<1> QED
  BY <1>1 DEF PageInv, ProtectionInv

\* PageInv about one patcher.
PageInvOf(p) ==
  /\ p \in writing => patcher[p].at = "write"
  /\ patcher[p].page \in DOMAIN PagesOf[p]
  /\ patcher[p].page # 1 =>
       \/ patcher[p].at \in {"unprotect", "protect"}
       \/ /\ patcher[p].refused /\ patcher[p].left = 0
          /\ patcher[p].at \in {"release", "leave", "given up", "done"}
  /\ patcher[p].at = "unprotect" =>
       \A i \in 1 .. patcher[p].page - 1 : pages[PagesOf[p][i]] = "rwx"
  /\ patcher[p].at = "write" =>
       \A i \in DOMAIN PagesOf[p] : pages[PagesOf[p][i]] = "rwx"

LEMMA PagesFrame ==
  ASSUME NEW p \in Patchers, PatcherStep(p)
  PROVE  /\ \A q \in Patchers \ {p} : q \in writing' <=> q \in writing
         /\ UNCHANGED writing \/ patcher[p].at = "write"
         /\ UNCHANGED pages \/ patcher[p].at \in {"unprotect", "protect"}
  BY DEF PatcherStep, Query, Acquire, Reset, CollectTids, TakeSlot, Tgkill, WaitArrived,
     WaitTimesOut, CheckRanges, Unprotect, BeginWrite, EndWrite, Protect, ReleaseAll,
     LeavePark, At

\* The pages of another patcher are its own while it changes them.
LEMMA OthersPages ==
  ASSUME Parks, ParkTypeOK, PageInv, BusyInv, NEW p \in Patchers, PatcherStep(p),
         NEW q \in Patchers \ {p}
  PROVE  PageInvOf(q)'
<1>1. PageInvOf(q) /\ patcher'[q] = patcher[q] /\ (q \in writing' <=> q \in writing)
  BY PatcherMoves, PagesFrame DEF PageInv, PageInvOf
<1>2. CASE UNCHANGED pages
  BY <1>1, <1>2 DEF PageInvOf
<1>3. CASE patcher[p].at \in {"unprotect", "protect"}
  <2>1. patcher[q].at \notin {"unprotect", "write"}
    BY <1>3 DEF BusyInv, InPark, Active, Held, Critical
  <2> QED
    BY <1>1, <2>1 DEF PageInvOf
<1> QED
  BY <1>2, <1>3, PagesFrame

\* What a step must show that is not one of those that change pages.
LEMMA SamePage ==
  ASSUME NEW p \in Patchers, PageInvOf(p), patcher[p].at # "write",
         UNCHANGED writing, patcher'[p].page = patcher[p].page,
         patcher'[p].at # "write", patcher'[p].at = "unprotect" => patcher[p].page = 1,
         patcher[p].page # 1 =>
           /\ patcher'[p].refused /\ patcher'[p].left = 0
           /\ patcher'[p].at \in {"release", "leave", "given up", "done"}
  PROVE  PageInvOf(p)'
<1>1. p \notin writing
  BY DEF PageInvOf
<1>2. patcher'[p].at = "unprotect" =>
        \A i \in 1 .. patcher'[p].page - 1 : pages'[PagesOf[p][i]] = "rwx"
  OBVIOUS
<1> QED
  BY <1>1, <1>2 DEF PageInvOf

\* The page a change is for becomes the next one's predecessor.
LEMMA NextPage ==
  ASSUME ParkTypeOK, NEW p \in Patchers, patcher[p].page \in DOMAIN PagesOf[p]
  PROVE  LET k == patcher[p].page
             last == k = Len(PagesOf[p])
             n == IF last THEN 1 ELSE k + 1
         IN  /\ n \in DOMAIN PagesOf[p]
             /\ PagesOf[p][k] \in Pages
             /\ last => DOMAIN PagesOf[p] = 1 .. k
             /\ ~last => n - 1 = k
             /\ k \in Nat \ {0}
             /\ 1 .. k = (1 .. k - 1) \cup {k}
             /\ DOMAIN PagesOf[p] = 1 .. Len(PagesOf[p])
             /\ ~last => k .. Len(PagesOf[p]) = {k} \cup (n .. Len(PagesOf[p]))
             /\ last => k .. Len(PagesOf[p]) = {k}
<1> DEFINE k == patcher[p].page
           l == Len(PagesOf[p])
<1>1. /\ PagesOf[p][k] \in Pages
      /\ DOMAIN PagesOf[p] = 1 .. l /\ l \in Nat \ {0}
      /\ k \in 1 .. l
  BY PageFacts
<1> HIDE DEF k, l
<1> QED
  BY <1>1 DEF k, l

LEMMA UnprotectPages ==
  ASSUME ParkTypeOK, NEW p \in Patchers, PageInvOf(p), patcher[p].at = "unprotect",
         UNCHANGED writing, Changed(p, "rwx", "write")
  PROVE  PageInvOf(p)'
<1> DEFINE k == patcher[p].page
           last == k = Len(PagesOf[p])
           n == IF last THEN 1 ELSE k + 1
<1>1. k \in DOMAIN PagesOf[p] /\ p \notin writing
  BY DEF PageInvOf
<1>2. /\ n \in DOMAIN PagesOf[p] /\ PagesOf[p][k] \in Pages
      /\ last => DOMAIN PagesOf[p] = 1 .. k
      /\ ~last => n - 1 = k
      /\ 1 .. k = (1 .. k - 1) \cup {k}
  BY <1>1, NextPage
<1>3. /\ patcher'[p].at = (IF last THEN "write" ELSE "unprotect")
      /\ patcher'[p].page = n
  BY <1>1, ChangedTo DEF Places
<1>4. /\ pages' = [pages EXCEPT ![PagesOf[p][k]] = "rwx"]
      /\ DOMAIN pages = Pages
  BY DEF Changed, ParkTypeOK
<1>5. \A i \in 1 .. k - 1 : pages[PagesOf[p][i]] = "rwx" /\ i \in DOMAIN PagesOf[p]
  BY <1>1, NextPage DEF PageInvOf
<1>6. \A i \in 1 .. k : pages'[PagesOf[p][i]] = "rwx"
  <2>1. pages'[PagesOf[p][k]] = "rwx"
    BY <1>2, <1>4
  <2>2. \A i \in 1 .. k - 1 : PagesOf[p][i] \in Pages
    BY <1>5, PageFacts
  <2>3. \A i \in 1 .. k - 1 : pages'[PagesOf[p][i]] = "rwx"
    BY <1>4, <1>5, <2>2
  <2> QED
    BY <1>2, <2>1, <2>3
<1> HIDE DEF k, n, last
<1>7. patcher'[p].at = "unprotect" =>
        \A i \in 1 .. patcher'[p].page - 1 : pages'[PagesOf[p][i]] = "rwx"
  BY <1>2, <1>3, <1>6
<1>8. patcher'[p].at = "write" => \A i \in DOMAIN PagesOf[p] : pages'[PagesOf[p][i]] = "rwx"
  BY <1>2, <1>3, <1>6
<1>9. patcher'[p].page # 1 => patcher'[p].at = "unprotect"
  BY <1>3 DEF n
<1>10. patcher'[p].page \in DOMAIN PagesOf[p] /\ p \notin writing'
  BY <1>1, <1>2, <1>3
<1> QED
  BY <1>7, <1>8, <1>9, <1>10 DEF PageInvOf

LEMMA ProtectPages ==
  ASSUME ParkTypeOK, Parks, NEW p \in Patchers, PageInvOf(p), patcher[p].at = "protect",
         UNCHANGED writing, Changed(p, Restored(p), Ending)
  PROVE  PageInvOf(p)'
<1> DEFINE last == patcher[p].page = Len(PagesOf[p])
<1>1. patcher[p].page \in DOMAIN PagesOf[p] /\ p \notin writing
  BY DEF PageInvOf
<1>2. /\ patcher'[p].at = (IF last THEN "release" ELSE "protect")
      /\ patcher'[p].page = (IF last THEN 1 ELSE patcher[p].page + 1)
  BY <1>1, AfterPlaces, ChangedTo DEF Ending
<1>3. patcher'[p].page \in DOMAIN PagesOf[p]
  BY <1>1, <1>2, NextPage
<1> HIDE DEF last
<1> QED
  BY <1>1, <1>2, <1>3 DEF PageInvOf

LEMMA PatcherPages ==
  ASSUME Parks, ParkTypeOK, BusyInv, PageInv, NEW p \in Patchers, PatcherStep(p)
  PROVE  PageInv'
<1> SUFFICES PageInvOf(p)'
  <2>1. ASSUME PageInvOf(p)', NEW q \in Patchers PROVE PageInvOf(q)'
    <3>1. CASE q = p
      BY <2>1, <3>1
    <3>2. CASE q # p
      BY <3>2, OthersPages
    <3> QED
      BY <3>1, <3>2
  <2>2. (\A q \in Patchers : PageInvOf(q)') => PageInv'
    BY DEF PageInv, PageInvOf
  <2> QED
    BY <2>1, <2>2
<1>1. PageInvOf(p)
  BY DEF PageInv, PageInvOf
<1> USE DEF Places
<1>2. CASE Query(p)
  <2>1. patcher[p].at = "query" /\ UNCHANGED writing
    BY <1>2 DEF Query, At
  <2>2. patcher[p].page = 1
    BY <1>1, <2>1 DEF PageInvOf
  <2> QED
    BY <1>1, <1>2, <2>1, <2>2, QueryTo, SamePage
<1>3. CASE Acquire(p)
  <2>1. patcher[p].at = "idle" /\ UNCHANGED writing
    BY <1>3 DEF Acquire, At
  <2>2. patcher[p].page = 1
    BY <1>1, <2>1 DEF PageInvOf
  <2>3. patcher'[p].at \notin {"unprotect", "write"} /\ patcher'[p].page = patcher[p].page
    BY <1>3, GoesTo, TriesAgainTo DEF Acquire
  <2> QED
    BY <1>1, <2>1, <2>2, <2>3, SamePage
<1>4. CASE Reset(p)
  <2>1. patcher[p].at = "reset" /\ UNCHANGED writing
    BY <1>4 DEF Reset, At
  <2>2. patcher[p].page = 1
    BY <1>1, <2>1 DEF PageInvOf
  <2>3. patcher'[p].at = "collect" /\ patcher'[p].page = patcher[p].page
    BY <1>4, GoesTo DEF Reset
  <2> QED
    BY <1>1, <2>1, <2>2, <2>3, SamePage
<1>5. CASE CollectTids(p)
  <2>1. patcher[p].at = "collect" /\ UNCHANGED writing
    BY <1>5 DEF CollectTids, At
  <2>2. patcher[p].page = 1
    BY <1>1, <2>1 DEF PageInvOf
  <2>3. patcher'[p].at \in {"scan", "release"} /\ patcher'[p].page = patcher[p].page
    BY <1>5, GoesTo, CollectTo DEF CollectTids
  <2> QED
    BY <1>1, <2>1, <2>2, <2>3, SamePage
<1>6. CASE TakeSlot(p)
  <2>1. patcher[p].at = "scan" /\ UNCHANGED writing
    BY <1>6 DEF TakeSlot, At
  <2>2. patcher[p].page = 1
    BY <1>1, <2>1 DEF PageInvOf
  <2>3. PICK t \in patcher[p].todo :
          \/ patcher' = [patcher EXCEPT ![p].todo = @ \ {t}]
          \/ Goes(p, "release") \/ Goes(p, "signal")
    BY <1>6 DEF TakeSlot
  <2>4. patcher'[p].at \notin {"unprotect", "write"} /\ patcher'[p].page = patcher[p].page
    BY <2>1, <2>3, LooksTo, GoesTo
  <2> QED
    BY <1>1, <2>1, <2>2, <2>4, SamePage
<1>7. CASE Tgkill(p)
  <2>1. patcher[p].at = "signal" /\ UNCHANGED writing
    BY <1>7 DEF Tgkill, At
  <2>2. patcher[p].page = 1
    BY <1>1, <2>1 DEF PageInvOf
  <2>3. patcher'[p].at = "scan" /\ patcher'[p].page = patcher[p].page
    <3>1. PICK t :
            \/ patcher' = [patcher EXCEPT
                 ![p].at = "scan", ![p].todo = @ \ {t}, ![p].new = TRUE]
            \/ patcher' = [patcher EXCEPT
                 ![p].at = "scan", ![p].todo = @ \ {t}, ![p].gone = TRUE]
      BY <1>7 DEF Tgkill
    <3>2. CASE patcher' = [patcher EXCEPT
                 ![p].at = "scan", ![p].todo = @ \ {t}, ![p].new = TRUE]
      BY <3>2, SignalledTo
    <3>3. CASE patcher' = [patcher EXCEPT
                 ![p].at = "scan", ![p].todo = @ \ {t}, ![p].gone = TRUE]
      BY <3>3, DroppedTo
    <3> QED
      BY <3>1, <3>2, <3>3
  <2> QED
    BY <1>1, <2>1, <2>2, <2>3, SamePage
<1>8. CASE WaitArrived(p)
  <2>1. patcher[p].at = "scan" /\ UNCHANGED writing
    BY <1>8 DEF WaitArrived, At
  <2>2. patcher[p].page = 1
    BY <1>1, <2>1 DEF PageInvOf
  <2>3. Goes(p, AfterPass(p)) /\ AfterPass(p) \in {"collect", "held"}
    BY <1>8 DEF WaitArrived, AfterPass
  <2>4. patcher'[p].at \in {"collect", "held"} /\ patcher'[p].page = patcher[p].page
    BY <2>3, GoesTo
  <2> QED
    BY <1>1, <2>1, <2>2, <2>4, SamePage
<1>9. CASE WaitTimesOut(p)
  <2>1. patcher[p].at = "scan" /\ UNCHANGED writing
    BY <1>9 DEF WaitTimesOut, At
  <2>2. patcher[p].page = 1
    BY <1>1, <2>1 DEF PageInvOf
  <2>3. patcher'[p].at = "release" /\ patcher'[p].page = patcher[p].page
    BY <1>9, GoesTo DEF WaitTimesOut
  <2> QED
    BY <1>1, <2>1, <2>2, <2>3, SamePage
<1>10. CASE CheckRanges(p)
  <2>1. patcher[p].at = "held" /\ UNCHANGED writing
    BY <1>10 DEF CheckRanges, At
  <2>2. patcher[p].page = 1
    BY <1>1, <2>1 DEF PageInvOf
  <2>3. patcher'[p].at \in {"unprotect", "release"} /\ patcher'[p].page = patcher[p].page
    BY <1>10, GoesTo DEF CheckRanges
  <2> QED
    BY <1>1, <2>1, <2>2, <2>3, SamePage
<1>11. ASSUME Refused(p), patcher[p].at \in {"unprotect", "protect"}, UNCHANGED writing
       PROVE  PageInvOf(p)'
  <2>1. /\ patcher'[p].at = "release" /\ patcher'[p].page = patcher[p].page
        /\ patcher'[p].refused /\ patcher'[p].left = 0
    BY <1>11, RefusedTo DEF Ending
  <2> QED
    BY <1>1, <1>11, <2>1, SamePage
<1>12. CASE Unprotect(p)
  BY <1>1, <1>11, <1>12, UnprotectPages DEF Unprotect, At
<1>13. CASE BeginWrite(p)
  BY <1>1, <1>13 DEF BeginWrite, At, PageInvOf
<1>14. CASE EndWrite(p)
  <2>1. patcher[p].at = "write" /\ writing' = writing \ {p} /\ patcher[p].page = 1
    BY <1>1, <1>14 DEF EndWrite, At, PageInvOf
  <2>2. patcher'[p].at = "protect" /\ patcher'[p].page = patcher[p].page
    BY <1>14, EndWriteTo
  <2> QED
    BY <1>1, <2>1, <2>2 DEF PageInvOf
<1>15. CASE Protect(p)
  BY <1>1, <1>11, <1>15, ProtectPages DEF Protect, At
<1>16. CASE ReleaseAll(p)
  <2>1. patcher[p].at = "release" /\ UNCHANGED writing
    BY <1>16 DEF ReleaseAll, At
  <2>2. /\ patcher'[p].at = "leave" /\ patcher'[p].page = patcher[p].page
        /\ patcher'[p].refused = patcher[p].refused /\ patcher'[p].left = patcher[p].left
    BY <1>16, GoesTo DEF ReleaseAll
  <2>3. patcher[p].page # 1 => patcher[p].refused /\ patcher[p].left = 0
    BY <1>1, <2>1 DEF PageInvOf
  <2> QED
    BY <1>1, <2>1, <2>2, <2>3, SamePage
<1>17. CASE LeavePark(p)
  <2>1. patcher[p].at = "leave" /\ UNCHANGED writing
    BY <1>17 DEF LeavePark, At
  <2>2. patcher[p].page # 1 => patcher[p].refused /\ patcher[p].left = 0
    BY <1>1, <2>1 DEF PageInvOf
  <2>3. /\ patcher'[p].at \in {"done", "given up", "idle"} /\ patcher'[p].page = patcher[p].page
        /\ patcher'[p].refused = patcher[p].refused
        /\ patcher[p].left = 0 => patcher'[p].left = 0 /\ patcher'[p].at # "idle"
    BY <1>17, GoesTo, TriesAgainTo DEF LeavePark
  <2> QED
    BY <1>1, <2>1, <2>2, <2>3, SamePage
<1> QED
  BY <1>2, <1>3, <1>4, <1>5, <1>6, <1>7, <1>8, <1>9, <1>10, <1>12, <1>13, <1>14, <1>15, <1>16,
     <1>17 DEF PatcherStep

\* Nobody looks protections up while another has changed them: it is parked.
LEMMA QueryFindsPagesClosed ==
  ASSUME ParkTypeOK, ParkInv, NEW p \in Patchers, At(p, "query"), NEW q \in Patchers
  PROVE  Open(q) = {}
<1> SUFFICES ASSUME patcher[q].at \in Critical PROVE FALSE
  BY DEF Open, Critical
<1>1. HeldInv(q) /\ q # p
  BY DEF ParkInv, Held, Critical, At
<1>2. handler[p].at = "spin"
  BY <1>1 DEF HeldInv, AllParked, SpinSet
<1> QED
  BY <1>2 DEF At, Executes

LEMMA AllClosed ==
  ASSUME ParkTypeOK, ProtectionInv, \A p \in Patchers : ~patcher[p].refused,
         \A p \in Patchers : Open(p) = {}
  PROVE  pages = FirstProtection
<1>1. \A x \in Pages : pages[x] = FirstProtection[x]
  BY DEF ProtectionInv
<1>2. pages \in [Pages -> Protection] /\ FirstProtection \in [Pages -> Protection]
  BY ParkAssumption DEF ParkTypeOK, Protection
<1> QED
  BY <1>1, <1>2

LEMMA NotCriticalIsClosed ==
  ASSUME NEW p \in Patchers, patcher[p].at \notin Critical
  PROVE  Open(p) = {}
  BY DEF Open, Critical

\* A page that no call has open after a step had its first protection before,
\* or the step gives it back.
LEMMA PatcherPage ==
  ASSUME Parks, ParkTypeOK, PageInv, ProtectionInv, NEW p \in Patchers, PatcherStep(p),
         \A q \in Patchers : ~patcher'[q].refused /\ ~patcher[q].refused,
         NEW x \in Pages, \A q \in Patchers : x \notin Open(q)'
  PROVE  pages'[x] = FirstProtection[x]
<1> DEFINE k == patcher[p].page
           last == k = Len(PagesOf[p])
           n == IF last THEN 1 ELSE k + 1
<1>1. \A q \in Patchers \ {p} : x \notin Open(q)
  BY PatcherMoves DEF Open
<1>2. x \notin Open(p) => pages[x] = FirstProtection[x]
  BY <1>1 DEF ProtectionInv
<1>3. ~Refused(p)
  BY RefusedTo
<1>4. /\ k \in DOMAIN PagesOf[p]
      /\ n \in DOMAIN PagesOf[p] /\ PagesOf[p][k] \in Pages
      /\ DOMAIN PagesOf[p] = 1 .. Len(PagesOf[p])
      /\ ~last => k .. Len(PagesOf[p]) = {k} \cup (n .. Len(PagesOf[p]))
      /\ last => k .. Len(PagesOf[p]) = {k}
  <2>1. k \in DOMAIN PagesOf[p]
    BY DEF PageInv
  <2> QED
    BY <2>1, NextPage
<1>5. CASE Unprotect(p)
  <2>1. Changed(p, "rwx", "write") /\ patcher[p].at = "unprotect"
    BY <1>3, <1>5 DEF Unprotect, At
  <2>2. patcher'[p].at \in {"unprotect", "write"}
    BY <1>4, <2>1, ChangedTo DEF Places
  <2>3. Open(p)' = Open(p) /\ PagesOf[p][k] \in Open(p)
    BY <1>4, <2>1, <2>2 DEF Open
  <2>4. pages' = [pages EXCEPT ![PagesOf[p][k]] = "rwx"]
    BY <2>1 DEF Changed
  <2>5. pages'[x] = pages[x]
    BY <2>3, <2>4 DEF ParkTypeOK
  <2> QED
    BY <1>2, <2>3, <2>5
<1>6. CASE Protect(p)
  <2>1. Changed(p, Restored(p), Ending) /\ patcher[p].at = "protect"
    BY <1>3, <1>6 DEF Protect, At
  <2>2. Open(p) = {PagesOf[p][i] : i \in k .. Len(PagesOf[p])}
    BY <2>1 DEF Open
  <2>3. /\ patcher'[p].at = (IF last THEN "release" ELSE "protect")
        /\ patcher'[p].page = n
    BY <1>4, <2>1, AfterPlaces, ChangedTo DEF Ending
  <2>4. pages' = [pages EXCEPT ![PagesOf[p][k]] = FirstProtection[PagesOf[p][k]]]
    <3>1. patcher[p].original = FirstProtection
      BY <2>1 DEF ProtectionInv
    <3> QED
      BY <2>1, <3>1 DEF Changed, Restored
  <2>5. CASE x = PagesOf[p][k]
    BY <2>4, <2>5 DEF ParkTypeOK
  <2>6. CASE x # PagesOf[p][k]
    <3>1. ~last => x \notin {PagesOf[p][i] : i \in n .. Len(PagesOf[p])}
      BY <2>3 DEF Open
    <3> HIDE DEF k, n, last
    <3>2. x \notin Open(p)
      BY <1>4, <2>2, <2>6, <3>1
    <3> QED
      BY <1>2, <2>4, <2>6, <3>2 DEF ParkTypeOK
  <2> QED
    BY <2>5, <2>6
<1>7. CASE EndWrite(p)
  <2>1. patcher[p].at = "write" /\ patcher[p].page = 1 /\ UNCHANGED pages
    BY <1>7 DEF EndWrite, At, PageInv
  <2>2. patcher'[p].at = "protect" /\ patcher'[p].page = 1
    BY <1>7, <2>1, EndWriteTo
  <2>3. Open(p)' = Open(p)
    BY <1>4, <2>1, <2>2 DEF Open
  <2> QED
    BY <1>2, <2>1, <2>3
<1>8. CASE BeginWrite(p)
  BY <1>2, <1>8 DEF BeginWrite, Open
<1>9. CASE patcher[p].at \notin Critical
  BY <1>2, <1>9, NotCriticalIsClosed, PagesFrame DEF Critical
<1> QED
  BY <1>5, <1>6, <1>7, <1>8, <1>9
     DEF PatcherStep, Query, Acquire, Reset, CollectTids, TakeSlot, Tgkill, WaitArrived,
         WaitTimesOut, CheckRanges, ReleaseAll, LeavePark, At, Critical

\* What a call has looked up, and whether it was refused, stays so.
LEMMA CallKeeps ==
  ASSUME Parks, ParkTypeOK, PageInv, NEW p \in Patchers, PatcherStep(p)
  PROVE  /\ patcher[p].refused => patcher'[p].refused
         /\ patcher[p].at = "query" => Query(p)
         /\ ~Query(p) => patcher'[p].original = patcher[p].original
<1> USE DEF Places
<1>1. CASE Query(p)
  BY <1>1, QueryTo
<1>2. CASE Acquire(p)
  BY <1>2, GoesTo, TriesAgainTo DEF Acquire, At
<1>3. CASE Reset(p)
  BY <1>3, GoesTo DEF Reset, At
<1>4. CASE CollectTids(p)
  BY <1>4, GoesTo, CollectTo DEF CollectTids, At
<1>5. CASE TakeSlot(p)
  <2>1. patcher[p].at = "scan"
    BY <1>5 DEF TakeSlot, At
  <2>2. PICK t \in patcher[p].todo :
          \/ patcher' = [patcher EXCEPT ![p].todo = @ \ {t}]
          \/ Goes(p, "release") \/ Goes(p, "signal")
    BY <1>5 DEF TakeSlot
  <2> QED
    BY <2>1, <2>2, LooksTo, GoesTo
<1>6. CASE Tgkill(p)
  BY <1>6, SignalledTo, DroppedTo DEF Tgkill, At
<1>7. CASE WaitArrived(p)
  <2>1. Goes(p, AfterPass(p)) /\ patcher[p].at = "scan"
    BY <1>7 DEF WaitArrived, At
  <2> QED
    BY <2>1, AfterPlaces, GoesTo
<1>8. CASE WaitTimesOut(p)
  BY <1>8, GoesTo DEF WaitTimesOut, At
<1>9. CASE CheckRanges(p)
  BY <1>9, GoesTo DEF CheckRanges, At
<1>10. CASE Unprotect(p)
  <2>1. patcher[p].at = "unprotect" /\ patcher[p].page \in DOMAIN PagesOf[p]
    BY <1>10 DEF Unprotect, At, PageInv
  <2> QED
    BY <1>10, <2>1, ChangedTo, RefusedTo DEF Unprotect
<1>11. CASE BeginWrite(p)
  BY <1>11 DEF BeginWrite, At
<1>12. CASE EndWrite(p)
  BY <1>12, EndWriteTo DEF EndWrite, At
<1>13. CASE Protect(p)
  <2>1. patcher[p].at = "protect" /\ patcher[p].page \in DOMAIN PagesOf[p]
    BY <1>13 DEF Protect, At, PageInv
  <2> QED
    BY <1>13, <2>1, AfterPlaces, ChangedTo, RefusedTo DEF Protect
<1>14. CASE ReleaseAll(p)
  BY <1>14, GoesTo DEF ReleaseAll, At
<1>15. CASE LeavePark(p)
  BY <1>15, GoesTo, TriesAgainTo DEF LeavePark, At
<1> QED
  BY <1>1, <1>2, <1>3, <1>4, <1>5, <1>6, <1>7, <1>8,
     <1>9, <1>10, <1>11, <1>12, <1>13, <1>14, <1>15 DEF PatcherStep

LEMMA PatcherProtection ==
  ASSUME Parks, ParkTypeOK, PageInv, ParkInv, ProtectionInv, NEW p \in Patchers, PatcherStep(p)
  PROVE  ProtectionInv'
<1> SUFFICES ASSUME \A q \in Patchers : ~patcher'[q].refused
             PROVE  /\ \A q \in Patchers :
                         patcher'[q].at # "query" => patcher'[q].original = FirstProtection
                    /\ \A x \in Pages :
                         (\A q \in Patchers : x \notin Open(q)') => pages'[x] = FirstProtection[x]
  BY DEF ProtectionInv
<1>1. \A q \in Patchers : ~patcher[q].refused
  BY CallKeeps, PatcherMoves
<1>2. \A x \in Pages :
        (\A q \in Patchers : x \notin Open(q)') => pages'[x] = FirstProtection[x]
  BY <1>1, PatcherPage
<1>3. \A q \in Patchers :
        patcher[q].at # "query" => patcher[q].original = FirstProtection
  BY <1>1 DEF ProtectionInv
<1>4. \A q \in Patchers \ {p} :
        patcher'[q].at # "query" => patcher'[q].original = FirstProtection
  BY <1>3, PatcherMoves
<1>5. CASE Query(p)
  <2>1. \A q \in Patchers : Open(q) = {}
    BY <1>5, QueryFindsPagesClosed DEF Query
  <2>2. patcher'[p].original = FirstProtection
    BY <1>1, <1>5, <2>1, AllClosed, QueryTo
  <2> QED
    BY <1>2, <1>4, <2>2
<1>6. CASE ~Query(p)
  BY <1>2, <1>3, <1>4, <1>6, CallKeeps
<1> QED
  BY <1>5, <1>6

-----------------------------------------------------------------------------
(* The invariant is inductive *)

LEMMA InitInv == Init => Inv
<1> SUFFICES ASSUME Init PROVE Inv
  OBVIOUS
<1>1. ParkTypeOK
  BY InitTypeOK
<1>2. /\ Patchers \subseteq FirstThreads /\ FirstThreads \subseteq Threads
      /\ alive = FirstThreads /\ inside = {} /\ count = 0 /\ writing = {}
      /\ pages = FirstProtection
      /\ \A t \in Threads : handler[t].at = "none"
      /\ Used = {}
  BY ParkAssumption DEF Init, Outside, Used
<1>3. \A p \in Patchers :
        /\ patcher[p].at = "query" /\ patcher[p].page = 1
        /\ ~patcher[p].refused
  BY DEF Init, NotBegun
<1>4. WorldInv /\ SlotsInv /\ ReportInv
  BY <1>2 DEF WorldInv, HandlerSet, SlotsInv, ReportInv
<1>5. BusyInv /\ ParkInv /\ TransitInv
  BY <1>3 DEF BusyInv, ParkInv, TransitInv, InPark, Active, Held, Critical
<1>6. PageInv
  <2>1. \A p \in Patchers : 1 \in DOMAIN PagesOf[p]
    BY ParkAssumption
  <2> QED
    BY <1>2, <1>3, <2>1 DEF PageInv
<1>7. ProtectionInv
  BY <1>2, <1>3 DEF ProtectionInv
<1> QED
  BY <1>1, <1>4, <1>5, <1>6, <1>7 DEF Inv

LEMMA HandlerTransit ==
  ASSUME TransitInv, PageInv, ProtectionInv, BusyInv, NEW t \in Threads, HandlerStep(t)
  PROVE  TransitInv' /\ PageInv' /\ ProtectionInv' /\ BusyInv'
  BY HandlerFrame, OtherPages DEF TransitInv, BusyInv

LEMMA StepInv == Parks /\ Inv /\ [Next]_vars => Inv'
<1> SUFFICES ASSUME Parks, Inv, [Next]_vars PROVE Inv'
  OBVIOUS
<1> USE DEF Inv
<1>1. CASE \E t \in Threads : HandlerStep(t)
  <2>1. PICK t \in Threads : HandlerStep(t)
    BY <1>1
  <2> QED
    BY <2>1, HandlerTypeOK, HandlerWorld, HandlerSlotsInv, HandlerPark, HandlerReport,
       HandlerTransit
<1>2. CASE \E t \in Threads : OtherStep(t)
  <2>1. PICK t \in Threads : OtherStep(t)
    BY <1>2
  <2>2. ParkTypeOK'
    BY <2>1, OtherTypeOK DEF OtherStep
  <2>3. BusyInv' /\ PageInv' /\ ProtectionInv'
    BY <2>1, OtherFrame, OtherPages DEF BusyInv
  <2> QED
    BY <2>1, <2>2, <2>3, OtherWorld, OtherSlotsInv, OtherPark, OtherReport, OtherTransit
<1>3. CASE \E p \in Patchers : PatcherStep(p)
  <2>1. PICK p \in Patchers : PatcherStep(p)
    BY <1>3
  <2>2. patcher[p].at = "signal" => count > 0
    BY DEF ParkInv, SignalInv
  <2> QED
    BY <2>1, <2>2, PatcherTypeOK, PatcherWorld, PatcherBusy, PatcherSlotsInv, PatcherPark,
       PatcherReport, PatcherTransit, PatcherPages, PatcherProtection
<1>4. CASE UNCHANGED vars
  <2>1. UNCHANGED <<busy, release, count, slots, alive, inside, pending, handler, patcher,
                    pages, writing, overlap>>
    BY <1>4 DEF vars
  <2>2. ParkTypeOK' /\ WorldInv' /\ BusyInv' /\ SlotsInv' /\ ReportInv' /\ TransitInv'
    BY <2>1 DEF ParkTypeOK, WorldInv, BusyInv, SlotsInv, ReportInv, TransitInv, HandlerSet, Used
  <2>3. PageInv' /\ ProtectionInv'
    BY <2>1, OtherPages
  <2>4. ParkInv'
    <3>1. /\ KnownSet' = KnownSet /\ HandlerSet' = HandlerSet
          /\ SpinSet' = SpinSet /\ ArrivedSet' = ArrivedSet
          /\ \A u : Knows(u)' <=> Knows(u)
      BY <2>1 DEF HandlerSet, SpinSet, KnownSet, ArrivedSet, Knows, Used
    <3> QED
      BY <2>1, <3>1 DEF ParkInv, ActiveInv, CollectInv, ScanInv, PassInv, SignalInv, HeldInv,
         AllParked
  <2> QED
    BY <2>2, <2>3, <2>4
<1> QED
  BY <1>1, <1>2, <1>3, <1>4, StepCases

-----------------------------------------------------------------------------
(* The theorems *)

\* In a build that parks, the inductive invariant holds in every state, for
\* every number of threads, patchers, slots and pages.
THEOREM ParkInvariant == Parks => (Spec => []Inv)
<1> SUFFICES ASSUME Parks PROVE Spec => []Inv
  OBVIOUS
<1>1. Init => Inv
  BY InitInv
<1>2. Inv /\ [Next]_vars => Inv'
  BY StepInv
<1> QED
  BY <1>1, <1>2, PTL DEF Spec

\* No slot is written past the last, whatever the number of threads.
THEOREM ParkTypeCorrect == Parks => (Spec => []ParkTypeOK)
  BY ParkInvariant, PTL DEF Inv

\* hoox_peer_park_begin returns true only with every peer parked that could run
\* into the write: all threads, unless one of them exited between being listed
\* and being signalled; the other patchers in any case.
THEOREM PeersStayParked == Parks => (Spec => []PeersAreParked)
<1> SUFFICES ASSUME Parks PROVE Spec => []PeersAreParked
  OBVIOUS
<1>1. Inv => PeersAreParked
  <2> SUFFICES ASSUME Inv, NEW p \in Patchers, patcher[p].at \in Held
               PROVE  /\ ~release
                      /\ \A t \in (IF patcher[p].gone THEN Patchers ELSE alive) \ {p} :
                           handler[t].at = "spin"
    BY DEF PeersAreParked, Held, Critical
  <2>1. ActiveInv(p) /\ HeldInv(p)
    BY DEF Inv, ParkInv, Active
  <2> QED
    BY <2>1 DEF ActiveInv, HeldInv, AllParked, SpinSet
<1> QED
  BY <1>1, ParkInvariant, PTL

\* With guard ranges, no byte is written under a thread that is about to execute
\* it, provided threads take their signals in time.
THEOREM NothingWrittenUnderAThread ==
  Parks /\ Guarded => (Spec => []TransitGuardedUnlessLate)
<1> SUFFICES ASSUME Parks, Guarded PROVE Spec => []TransitGuardedUnlessLate
  OBVIOUS
<1>1. Inv => TransitGuardedUnlessLate
  <2> SUFFICES ASSUME Inv, ~overlap, NEW p \in writing, ~patcher[p].gone
               PROVE  inside = {}
    BY DEF TransitGuardedUnlessLate, NoThreadInTransit
  <2>1. p \in Patchers /\ patcher[p].at = "write"
    BY DEF Inv, ParkTypeOK, PageInv
  <2> QED
    BY <2>1 DEF Inv, TransitInv, Critical
<1> QED
  BY <1>1, ParkInvariant, PTL

\* The pages are writable while they are written, and get back the protection
\* each had, however many calls change the same ones.
THEOREM ProtectionsComeBack == Parks => (Spec => []PagesComeBack)
<1> SUFFICES ASSUME Parks PROVE Spec => []PagesComeBack
  OBVIOUS
<1>1. Inv => PagesComeBack
  <2> SUFFICES ASSUME Inv PROVE PagesComeBack
    OBVIOUS
  <2>1. \A p \in writing : \A i \in DOMAIN PagesOf[p] : pages[PagesOf[p][i]] = "rwx"
    BY DEF Inv, PageInv, ParkTypeOK
  <2>2. ASSUME \A p \in Patchers : patcher[p].at \notin Critical /\ ~patcher[p].refused
        PROVE  pages = FirstProtection
    BY <2>2, NotCriticalIsClosed, AllClosed DEF Inv
  <2> QED
    BY <2>1, <2>2 DEF PagesComeBack, Critical
<1> QED
  BY <1>1, ParkInvariant, PTL

\* The shared slots serve one park at a time.
THEOREM ParksDoNotOverlap == Parks => (Spec => []OneParkAtATime)
<1> SUFFICES ASSUME Parks PROVE Spec => []OneParkAtATime
  OBVIOUS
<1>1. Inv => OneParkAtATime
  <2> SUFFICES ASSUME Inv, NEW p \in Patchers, NEW q \in Patchers,
                      {patcher[p].at, patcher[q].at}
                        \cap {"query", "idle", "given up", "done"} = {}
               PROVE  p = q
    BY DEF OneParkAtATime
  <2>1. patcher[p].at \in InPark /\ patcher[q].at \in InPark
    BY Facts DEF Inv, Patcher, InPark, Active, Held, Critical
  <2> QED
    BY <2>1 DEF Inv, BusyInv
<1> QED
  BY <1>1, ParkInvariant, PTL

=============================================================================
