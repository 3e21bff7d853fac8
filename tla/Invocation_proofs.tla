-------------------------- MODULE Invocation_proofs --------------------------
(***************************************************************************)
(* Proofs about Invocation, for any number of threads, functions and       *)
(* listeners and any depth of calls: the invocation stack mirrors the      *)
(* native stack, through tail calls and whatever non-local exits leave, so *)
(* that no frame loses an entry and, where exits restore the stack, every  *)
(* frame returns to its caller; listeners are told as is due; counters are *)
(* exact.                                                                  *)
(***************************************************************************)
EXTENDS Invocation, FiniteSetTheorems, FunctionTheorems, SequenceTheorems,
        WellFoundedInduction, TLAPS

-----------------------------------------------------------------------------
(* The inductive invariant, of a thread: its frames, its invocation stack,  *)
(* and whether its guard slot is set                                        *)

\* The entries that a frame accounts for, and whom an entry is for.
Held(fr) == Len(fr.ret) + (IF InCallback(fr) THEN 1 ELSE 0)
Target(e) == IF e.quiet THEN e.snap \cap Unignorable ELSE e.snap
Entering(frs) == \E k \in DOMAIN frs : frs[k].at = "enter"

\* Frames are laid out downwards; above a callback nothing was intercepted,
\* because the guard is set; a frame that has saved runs code of the program.
FramesInv(frs, guarded) ==
  /\ \A j, k \in DOMAIN frs : j < k => frs[j].sp < frs[k].sp
  /\ \A k \in DOMAIN frs : InCallback(frs[k]) =>
       guarded /\ \A j \in DOMAIN frs : k < j => frs[j].at = "body" /\ frs[j].ret = <<>>
  /\ \A k \in DOMAIN frs :
       /\ frs[k].running # None \/ frs[k].todo # {} => InCallback(frs[k])
       /\ frs[k].saved # None => frs[k].at \in {"body", "repl"} \/ frs[k].running # None

\* Entries are laid out in the same order, the stale ones of an address below
\* those of the frame that is there now.
StackInv(stk) ==
  \A i, j \in DOMAIN stk : i < j =>
    /\ stk[i].sp <= stk[j].sp
    /\ stk[i].sp = stk[j].sp /\ stk[i].live => stk[j].live

\* The entries of a frame are consecutive, and those it is to return through
\* come in the order of the trampolines on its return path.
Owns(fr, stk, b) ==
  /\ b + Held(fr) <= Len(stk)
  /\ \A i \in DOMAIN stk :
       stk[i].live /\ stk[i].sp = fr.sp <=> b < i /\ i <= b + Held(fr)
  /\ \A m \in DOMAIN fr.ret : stk[b + m].fn = fr.ret[m]

LinkInv(frs, stk) ==
  /\ \A i \in DOMAIN stk : stk[i].live => \E k \in DOMAIN frs : frs[k].sp = stk[i].sp
  /\ \A k \in DOMAIN frs : \E b \in 0 .. Len(stk) : Owns(frs[k], stk, b)

\* The entry of a callback in progress is the top one.
TellInv(fr, e) ==
  /\ e.live /\ e.sp = fr.sp
  /\ fr.at = "enter" => e.fn = fr.fn /\ e.entered \cup fr.todo = Target(e)
  /\ fr.at = "leave" => fr.todo \subseteq Due(e)
CallbackInv(frs, stk) ==
  \A k \in DOMAIN frs : InCallback(frs[k]) => stk # <<>> /\ TellInv(frs[k], stk[Len(stk)])

\* Whoever is to be told of an entry has been told, but for the top one.
DueInv(frs, stk) ==
  \A i \in DOMAIN stk :
    /\ stk[i].only <=> stk[i].quiet /\ stk[i].snap \cap Unignorable # {}
    /\ stk[i].entered \subseteq Target(stk[i])
    /\ stk[i].live => stk[i].entered = Target(stk[i]) \/ (i = Len(stk) /\ Entering(frs))

\* What restoring gives: nothing is stale, and a saved depth is that of the
\* entries the frame and its callers have.
RestoringInv(frs, stk) ==
  /\ \A i \in DOMAIN stk : stk[i].live
  /\ \A k \in DOMAIN frs :
       /\ frs[k].at # "astray"
       /\ frs[k].saved # None =>
            /\ frs[k].saved <= Len(stk)
            /\ \A i \in DOMAIN stk : i <= frs[k].saved <=> stk[i].sp <= frs[k].sp

ThreadInv(frs, stk, guarded, restored) ==
  /\ frs \in Seq(NativeFrame) /\ stk \in Seq(StackEntry)
  /\ FramesInv(frs, guarded) /\ StackInv(stk) /\ LinkInv(frs, stk)
  /\ CallbackInv(frs, stk) /\ DueInv(frs, stk)
  /\ restored => RestoringInv(frs, stk)

\* The usage counters count entries, the threads' data is apart.
CountInv ==
  \A f \in Functions : IsFiniteSet(EntriesOf(f)) /\ counter[f] = Cardinality(EntriesOf(f))

InvocationInv ==
  /\ TypeOK
  /\ \A t \in Threads : ThreadInv(frames[t], stack[t], t \in guard, restoring)
  /\ CountInv
  /\ ThreadDataIsPrivate

-----------------------------------------------------------------------------
(* The operators of the model *)

\* A set of positions that is not empty has a last one.
LEMMA HasLast ==
  ASSUME NEW n \in Nat, NEW S \in SUBSET (1 .. n), S # {}
  PROVE  \E i \in S : \A j \in S : j <= i
<1> DEFINE Above(i) == i .. n
           F == {Above(i) : i \in S}
<1>1. F \subseteq FiniteSubsetsOf(1 .. n) /\ F # {}
  <2>1. \A i \in S : Above(i) \in SUBSET (1 .. n) /\ IsFiniteSet(Above(i))
    BY FS_Interval
  <2> QED
    BY <2>1 DEF FiniteSubsetsOf
<1>2. PICK x \in F : \A y \in F : <<y, x>> \notin StrictSubsetOrdering(1 .. n)
  BY <1>1, FS_StrictSubsetOrderingWellFounded, WFMin, Zenon
<1>3. PICK i \in S : x = Above(i)
  BY <1>2
<1>4. ASSUME NEW j \in S, j > i PROVE FALSE
  <2>1. /\ Above(j) \subseteq Above(i) /\ Above(i) \in SUBSET (1 .. n)
        /\ i \in Above(i) /\ i \notin Above(j)
    BY <1>4
  <2>2. <<Above(j), Above(i)>> \in StrictSubsetOrdering(1 .. n)
    BY <2>1 DEF StrictSubsetOrdering
  <2> QED
    BY <1>2, <1>3, <2>2
<1> QED
  BY <1>4

\* LastOf gives the last position of a set, or 0.
LEMMA LastOfIsLast ==
  ASSUME NEW n \in Nat, NEW S \in SUBSET (1 .. n)
  PROVE  /\ LastOf(S) \in 0 .. n
         /\ LastOf(S) # 0 => LastOf(S) \in S
         /\ \A i \in S : i <= LastOf(S)
<1>1. CASE S = {}
  BY <1>1 DEF LastOf
<1>2. CASE S # {}
  <2>1. \E i \in S : \A j \in S : j <= i
    BY <1>2, HasLast
  <2>2. LastOf(S) \in S /\ \A j \in S : j <= LastOf(S)
    BY <1>2, <2>1 DEF LastOf
  <2>3. LastOf(S) \in 1 .. n
    BY <2>2
  <2> QED
    BY <2>2, <2>3
<1> QED
  BY <1>1, <1>2

\* What dropping the entries above the n-th leaves.
LEMMA KeptIsPrefix ==
  ASSUME NEW stk \in Seq(StackEntry), NEW n \in 0 .. Len(stk)
  PROVE  /\ Kept(stk, n) \in Seq(StackEntry) /\ Len(Kept(stk, n)) = n
         /\ \A i \in 1 .. n : Kept(stk, n)[i] = stk[i]
<1>1. \A i \in 1 .. n : stk[i] \in StackEntry
  BY ElementOfSeq
<1> QED
  BY <1>1, SubSeqProperties DEF Kept

\* Positions, addresses and numbers of entries are natural numbers.
LEMMA FrameTypes ==
  ASSUME NEW fr \in NativeFrame
  PROVE  /\ fr.sp \in Nat /\ Len(fr.ret) \in Nat /\ DOMAIN fr.ret = 1 .. Len(fr.ret)
         /\ Held(fr) \in Nat
         /\ InCallback(fr) => Held(fr) = Len(fr.ret) + 1
         /\ ~InCallback(fr) => Held(fr) = Len(fr.ret)
<1>1. fr.ret \in Seq(Functions) /\ fr.sp \in Nat
  BY DEF NativeFrame
<1>2. Len(fr.ret) \in Nat /\ DOMAIN fr.ret = 1 .. Len(fr.ret)
  BY <1>1, LenProperties
<1>3. InCallback(fr) => Held(fr) = Len(fr.ret) + 1
  BY DEF Held
<1>4. ~InCallback(fr) => Held(fr) = Len(fr.ret) + 0
  BY DEF Held
<1>5. Held(fr) \in Nat
  BY <1>2, <1>3, <1>4
<1> QED
  BY <1>1, <1>2, <1>3, <1>4, <1>5

\* ... and so are those of the frames and entries of a thread.
LEMMA SequenceTypes ==
  ASSUME NEW frs \in Seq(NativeFrame), NEW stk \in Seq(StackEntry)
  PROVE  /\ Len(frs) \in Nat /\ DOMAIN frs = 1 .. Len(frs)
         /\ Len(stk) \in Nat /\ DOMAIN stk = 1 .. Len(stk)
         /\ \A k \in DOMAIN frs : frs[k] \in NativeFrame
         /\ \A i \in DOMAIN stk : stk[i] \in StackEntry /\ stk[i].sp \in Nat
<1>1. /\ Len(frs) \in Nat /\ DOMAIN frs = 1 .. Len(frs)
      /\ Len(stk) \in Nat /\ DOMAIN stk = 1 .. Len(stk)
  BY LenProperties
<1>2. /\ \A k \in DOMAIN frs : frs[k] \in NativeFrame
      /\ \A i \in DOMAIN stk : stk[i] \in StackEntry
  BY <1>1, ElementOfSeq
<1>3. \A e \in StackEntry : e.sp \in Nat
  BY DEF StackEntry
<1> QED
  BY <1>1, <1>2, <1>3

-----------------------------------------------------------------------------
(* What the invariant says of a thread *)

\* The entries of the frames are those of live frames: none is deeper than the
\* deepest frame, and the ones of the deepest come last.
LEMMA LiveEntries ==
  ASSUME NEW frs, NEW stk, NEW guarded, NEW restored, ThreadInv(frs, stk, guarded, restored),
         NEW i \in DOMAIN stk, stk[i].live
  PROVE  /\ frs # <<>>
         /\ stk[i].sp <= frs[Len(frs)].sp
<1>1. /\ Len(frs) \in Nat /\ DOMAIN frs = 1 .. Len(frs)
      /\ \A k \in DOMAIN frs : frs[k].sp \in Nat
      /\ stk[i].sp \in Nat
  BY SequenceTypes, FrameTypes DEF ThreadInv
<1>2. PICK k \in DOMAIN frs : frs[k].sp = stk[i].sp
  BY DEF ThreadInv, LinkInv
<1>3. \A j, m \in DOMAIN frs : j < m => frs[j].sp < frs[m].sp
  BY DEF ThreadInv, FramesInv
<1>4. frs # <<>>
  BY <1>1, <1>2
<1>5. Len(frs) \in DOMAIN frs /\ (k = Len(frs) \/ k < Len(frs))
  BY <1>1, <1>2
<1> QED
  BY <1>1, <1>2, <1>3, <1>4, <1>5

\* Only one callback is in progress at a time, and a frame that is still to
\* return through a trampoline has none below it.
LEMMA OneCallback ==
  ASSUME NEW frs, NEW stk, NEW guarded, NEW restored, ThreadInv(frs, stk, guarded, restored),
         frs # <<>>, InCallback(frs[Len(frs)]) \/ frs[Len(frs)].ret # <<>>
  PROVE  \A k \in DOMAIN frs : InCallback(frs[k]) => k = Len(frs)
<1>1. Len(frs) \in Nat /\ DOMAIN frs = 1 .. Len(frs) /\ Len(frs) \in DOMAIN frs
  <2>1. Len(frs) # 0
    BY EmptySeq DEF ThreadInv
  <2> QED
    BY <2>1, SequenceTypes DEF ThreadInv
<1>2. ASSUME NEW k \in DOMAIN frs, InCallback(frs[k]), k # Len(frs) PROVE FALSE
  <2>1. k < Len(frs)
    BY <1>1, <1>2
  <2>2. frs[Len(frs)].at = "body" /\ frs[Len(frs)].ret = <<>>
    BY <1>1, <1>2, <2>1 DEF ThreadInv, FramesInv
  <2> QED
    BY <2>2 DEF InCallback
<1> QED
  BY <1>2

-----------------------------------------------------------------------------
(* The steps, of a thread by itself *)

\* A frame that nothing was intercepted for is pushed.
LEMMA PushPlain ==
  ASSUME NEW frs, NEW stk, NEW guarded, NEW restored, ThreadInv(frs, stk, guarded, restored),
         NEW fr \in NativeFrame,
         fr.at = "body", fr.ret = <<>>, fr.running = None, fr.todo = {}, fr.saved = None,
         frs # <<>> => frs[Len(frs)].sp < fr.sp
  PROVE  ThreadInv(Append(frs, fr), stk, guarded, restored)
<1> DEFINE n == Len(frs)
           new == Append(frs, fr)
<1>1. /\ frs \in Seq(NativeFrame) /\ stk \in Seq(StackEntry)
      /\ n \in Nat /\ DOMAIN frs = 1 .. n
      /\ Len(stk) \in Nat /\ DOMAIN stk = 1 .. Len(stk)
      /\ \A k \in DOMAIN frs : frs[k] \in NativeFrame /\ frs[k].sp \in Nat
      /\ \A i \in DOMAIN stk : stk[i].sp \in Nat
      /\ fr.sp \in Nat
  BY SequenceTypes, FrameTypes DEF ThreadInv
<1>2. /\ new \in Seq(NativeFrame) /\ DOMAIN new = 1 .. n + 1
      /\ new[n + 1] = fr /\ \A k \in 1 .. n : new[k] = frs[k]
  <2>1. new \in Seq(NativeFrame) /\ Len(new) = n + 1
    BY <1>1, AppendProperties
  <2>2. DOMAIN new = 1 .. n + 1
    BY <2>1, LenProperties
  <2> QED
    BY <1>1, <2>1, <2>2, AppendProperties
<1>3. \A k \in 1 .. n : frs[k].sp < fr.sp
  <2>1. \A j, k \in DOMAIN frs : j < k => frs[j].sp < frs[k].sp
    BY DEF ThreadInv, FramesInv
  <2>2. ASSUME NEW k \in 1 .. n PROVE frs[k].sp < fr.sp
    <3>1. n # 0 /\ n \in DOMAIN frs /\ (k = n \/ k < n)
      <4>1. n \in Nat /\ k \in Nat /\ 1 <= k /\ k <= n
        BY <1>1, <2>2
      <4>2. n # 0 /\ n \in 1 .. n /\ (k = n \/ k < n)
        BY <4>1
      <4> QED
        BY <1>1, <4>2
    <3>2. frs[n].sp < fr.sp
      BY <3>1, EmptySeq
    <3>3. CASE k = n
      BY <3>2, <3>3
    <3>4. CASE k < n
      <4>1. frs[k].sp < frs[n].sp
        BY <1>1, <2>1, <3>1, <3>4
      <4>2. frs[k].sp \in Nat /\ frs[n].sp \in Nat /\ fr.sp \in Nat
        BY <1>1, <3>1
      <4> QED
        BY <3>2, <4>1, <4>2
    <3> QED
      BY <3>1, <3>3, <3>4
  <2> QED
    BY <2>2
<1>. HIDE DEF new
<1>4. ~InCallback(fr) /\ Held(fr) = 0 /\ fr.at # "enter" /\ fr.at # "astray"
  <2>1. ~InCallback(fr)
    BY DEF InCallback
  <2>2. Len(fr.ret) = 0
    OBVIOUS
  <2> QED
    BY <2>1, <2>2, FrameTypes
<1>5. FramesInv(new, guarded)
  <2>1. FramesInv(frs, guarded)
    BY DEF ThreadInv
  <2>2. \A j, k \in DOMAIN new : j < k => new[j].sp < new[k].sp
    BY <1>1, <1>2, <1>3, <2>1 DEF FramesInv
  <2>3. ASSUME NEW k \in DOMAIN new, InCallback(new[k])
        PROVE  guarded /\ \A j \in DOMAIN new : k < j => new[j].at = "body" /\ new[j].ret = <<>>
    <3>1. k \in DOMAIN frs /\ new[k] = frs[k]
      BY <1>1, <1>2, <1>4, <2>3
    <3> QED
      BY <1>1, <1>2, <2>1, <2>3, <3>1 DEF FramesInv
  <2>4. \A k \in DOMAIN new :
          /\ new[k].running # None \/ new[k].todo # {} => InCallback(new[k])
          /\ new[k].saved # None => new[k].at \in {"body", "repl"} \/ new[k].running # None
    BY <1>1, <1>2, <2>1 DEF FramesInv
  <2> QED
    BY <2>2, <2>3, <2>4 DEF FramesInv
<1>6. LinkInv(new, stk)
  <2>1. LinkInv(frs, stk)
    BY DEF ThreadInv
  <2>2. \A i \in DOMAIN stk : stk[i].live => \E k \in DOMAIN new : new[k].sp = stk[i].sp
    <3>1. ASSUME NEW i \in DOMAIN stk, stk[i].live
          PROVE  \E k \in DOMAIN new : new[k].sp = stk[i].sp
      <4>1. PICK k \in DOMAIN frs : frs[k].sp = stk[i].sp
        BY <2>1, <3>1 DEF LinkInv
      <4> QED
        BY <1>1, <1>2, <4>1
    <3> QED
      BY <3>1
  <2>3. \A k \in 1 .. n : \E b \in 0 .. Len(stk) : Owns(new[k], stk, b)
    BY <1>1, <1>2, <2>1 DEF LinkInv
  <2>4. Owns(fr, stk, 0)
    <3>1. \A i \in DOMAIN stk : ~(stk[i].live /\ stk[i].sp = fr.sp)
      <4>1. ASSUME NEW i \in DOMAIN stk, stk[i].live, stk[i].sp = fr.sp PROVE FALSE
        <5>1. frs # <<>> /\ stk[i].sp <= frs[n].sp
          BY <4>1, LiveEntries
        <5>2. n \in 1 .. n
          BY <1>1, <5>1
        <5> QED
          BY <1>1, <1>3, <4>1, <5>1, <5>2
      <4> QED
        BY <4>1
    <3> QED
      BY <1>1, <1>4, <3>1 DEF Owns
  <2> QED
    BY <1>1, <1>2, <2>2, <2>3, <2>4 DEF LinkInv
<1>7. CallbackInv(new, stk)
  <2>1. CallbackInv(frs, stk)
    BY DEF ThreadInv
  <2> QED
    BY <1>1, <1>2, <1>4, <2>1 DEF CallbackInv
<1>8. DueInv(new, stk)
  <2>1. DueInv(frs, stk)
    BY DEF ThreadInv
  <2>2. Entering(frs) => Entering(new)
    BY <1>1, <1>2 DEF Entering
  <2> QED
    BY <2>1, <2>2 DEF DueInv
<1>9. restored => RestoringInv(new, stk)
  <2>1. restored => RestoringInv(frs, stk)
    BY DEF ThreadInv
  <2> QED
    BY <1>1, <1>2, <1>4, <2>1 DEF RestoringInv
<1> QED
  BY <1>1, <1>2, <1>5, <1>6, <1>7, <1>8, <1>9 DEF ThreadInv, new

\* The deepest frame, and a sequence that differs in it.
LEMMA TopFacts ==
  ASSUME NEW frs \in Seq(NativeFrame), frs # <<>>, NEW fr \in NativeFrame
  PROVE  LET n == Len(frs)
             new == [frs EXCEPT ![n] = fr] IN
         /\ n \in Nat /\ n # 0 /\ DOMAIN frs = 1 .. n /\ n \in DOMAIN frs
         /\ new \in Seq(NativeFrame) /\ Len(new) = n /\ DOMAIN new = 1 .. n
         /\ new[n] = fr /\ \A k \in 1 .. n : k # n => new[k] = frs[k]
<1>1. Len(frs) \in Nat /\ Len(frs) # 0 /\ DOMAIN frs = 1 .. Len(frs)
  BY LenProperties, EmptySeq
<1>2. Len(frs) \in 1 .. Len(frs)
  BY <1>1
<1> DEFINE new == [frs EXCEPT ![Len(frs)] = fr]
<1>3. /\ new \in Seq(NativeFrame) /\ Len(new) = Len(frs)
      /\ \A j \in 1 .. Len(frs) : new[j] = IF j = Len(frs) THEN fr ELSE frs[j]
  BY <1>2, ExceptSeq
<1>. HIDE DEF new
<1>4. DOMAIN new = 1 .. Len(frs)
  BY <1>3, LenProperties
<1>5. new[Len(frs)] = fr /\ \A k \in 1 .. Len(frs) : k # Len(frs) => new[k] = frs[k]
  BY <1>2, <1>3
<1> QED
  BY <1>1, <1>2, <1>3, <1>4, <1>5 DEF new

\* The deepest frame changes, but neither where it is nor what it returns through.
LEMMA ChangeTop ==
  ASSUME NEW frs, NEW stk, NEW guarded, NEW restored, ThreadInv(frs, stk, guarded, restored),
         frs # <<>>, NEW fr \in NativeFrame, NEW top, top = frs[Len(frs)],
         fr.sp = top.sp, fr.ret = top.ret,
         \/ fr.at = top.at /\ fr.fn = top.fn /\ fr.todo = top.todo
         \/ ~InCallback(top) /\ fr.at = "body" /\ fr.todo = {} /\ fr.running = None,
         fr.running # None => InCallback(fr),
         fr.saved # None => fr.at \in {"body", "repl"} \/ fr.running # None,
         fr.saved # None => fr.saved = Len(stk)
  PROVE  ThreadInv([frs EXCEPT ![Len(frs)] = fr], stk, guarded, restored)
<1> DEFINE n == Len(frs)
           new == [frs EXCEPT ![n] = fr]
<1>1. frs \in Seq(NativeFrame) /\ stk \in Seq(StackEntry)
  BY DEF ThreadInv
<1>2. /\ n \in Nat /\ n # 0 /\ DOMAIN frs = 1 .. n /\ n \in DOMAIN frs
      /\ new \in Seq(NativeFrame) /\ DOMAIN new = 1 .. n
      /\ new[n] = fr /\ \A k \in 1 .. n : k # n => new[k] = frs[k]
  BY <1>1, TopFacts
<1>3. /\ Len(stk) \in Nat /\ DOMAIN stk = 1 .. Len(stk)
      /\ \A k \in DOMAIN frs : frs[k] \in NativeFrame
  BY <1>1, SequenceTypes
<1>. HIDE DEF new, n
<1>4. frs[n] = top
  BY DEF n
<1>5. InCallback(fr) <=> InCallback(top)
  BY DEF InCallback
<1>6. Held(fr) = Held(top)
  BY <1>5 DEF Held
<1>7. \A k \in 1 .. n : new[k].sp = frs[k].sp
  BY <1>2, <1>4
<1>8. FramesInv(new, guarded)
  <2>1. FramesInv(frs, guarded)
    BY DEF ThreadInv
  <2>2. \A j, k \in DOMAIN new : j < k => new[j].sp < new[k].sp
    BY <1>2, <1>7, <2>1 DEF FramesInv
  <2>3. ASSUME NEW k \in DOMAIN new, InCallback(new[k])
        PROVE  guarded /\ \A j \in DOMAIN new : k < j => new[j].at = "body" /\ new[j].ret = <<>>
    <3>1. k \in DOMAIN frs /\ InCallback(frs[k])
      BY <1>2, <1>4, <1>5, <2>3
    <3>2. guarded /\ \A j \in DOMAIN frs : k < j => frs[j].at = "body" /\ frs[j].ret = <<>>
      BY <2>1, <3>1 DEF FramesInv
    <3>3. ASSUME NEW j \in DOMAIN new, k < j PROVE new[j].at = "body" /\ new[j].ret = <<>>
      <4>1. frs[j].at = "body" /\ frs[j].ret = <<>>
        BY <1>2, <3>2, <3>3
      <4> QED
        BY <1>2, <1>4, <4>1
    <3> QED
      BY <3>2, <3>3
  <2>4. ASSUME NEW k \in DOMAIN new
        PROVE  /\ new[k].running # None \/ new[k].todo # {} => InCallback(new[k])
               /\ new[k].saved # None => new[k].at \in {"body", "repl"} \/ new[k].running # None
    <3>1. CASE k # n
      BY <1>2, <2>1, <3>1 DEF FramesInv
    <3>2. CASE k = n
      <4>1. top.todo # {} => InCallback(top)
        BY <1>2, <1>4, <2>1 DEF FramesInv
      <4> QED
        BY <1>2, <1>5, <3>2, <4>1
    <3> QED
      BY <3>1, <3>2
  <2> QED
    BY <2>2, <2>3, <2>4 DEF FramesInv
<1>9. LinkInv(new, stk)
  <2>1. LinkInv(frs, stk)
    BY DEF ThreadInv
  <2>2. \A i \in DOMAIN stk : stk[i].live => \E k \in DOMAIN new : new[k].sp = stk[i].sp
    BY <1>2, <1>7, <2>1 DEF LinkInv
  <2>3. ASSUME NEW k \in DOMAIN new PROVE \E b \in 0 .. Len(stk) : Owns(new[k], stk, b)
    <3>1. PICK b \in 0 .. Len(stk) : Owns(frs[k], stk, b)
      BY <1>2, <2>1 DEF LinkInv
    <3>2. CASE k # n
      BY <1>2, <3>1, <3>2
    <3>3. CASE k = n
      BY <1>2, <1>4, <1>6, <3>1, <3>3 DEF Owns
    <3> QED
      BY <3>2, <3>3
  <2> QED
    BY <2>2, <2>3 DEF LinkInv
<1>10. CallbackInv(new, stk)
  <2>1. CallbackInv(frs, stk)
    BY DEF ThreadInv
  <2>2. ASSUME NEW k \in DOMAIN new, InCallback(new[k])
        PROVE  stk # <<>> /\ TellInv(new[k], stk[Len(stk)])
    <3>1. k \in DOMAIN frs /\ InCallback(frs[k])
      BY <1>2, <1>4, <1>5, <2>2
    <3>2. stk # <<>> /\ TellInv(frs[k], stk[Len(stk)])
      BY <2>1, <3>1 DEF CallbackInv
    <3>3. CASE k # n
      BY <1>2, <3>2, <3>3
    <3>4. CASE k = n
      BY <1>2, <1>4, <3>1, <3>2, <3>4 DEF TellInv
    <3> QED
      BY <3>3, <3>4
  <2> QED
    BY <2>2 DEF CallbackInv
<1>11. DueInv(new, stk)
  <2>1. DueInv(frs, stk)
    BY DEF ThreadInv
  <2>2. Entering(frs) => Entering(new)
    <3>1. ASSUME NEW k \in DOMAIN frs, frs[k].at = "enter" PROVE \E j \in DOMAIN new : new[j].at = "enter"
      <4>1. new[k].at = "enter"
        BY <1>2, <1>4, <3>1 DEF InCallback
      <4> QED
        BY <1>2, <4>1
    <3> QED
      BY <3>1 DEF Entering
  <2> QED
    BY <2>1, <2>2 DEF DueInv
<1>12. restored => RestoringInv(new, stk)
  <2>1. SUFFICES ASSUME restored PROVE RestoringInv(new, stk)
    OBVIOUS
  <2>2. RestoringInv(frs, stk)
    BY <2>1 DEF ThreadInv
  <2>3. ASSUME NEW k \in DOMAIN new
        PROVE  /\ new[k].at # "astray"
               /\ new[k].saved # None =>
                    /\ new[k].saved <= Len(stk)
                    /\ \A i \in DOMAIN stk : i <= new[k].saved <=> stk[i].sp <= new[k].sp
    <3>1. CASE k # n
      BY <1>2, <2>2, <3>1 DEF RestoringInv
    <3>2. CASE k = n
      <4>1. new[k] = fr /\ fr.at # "astray"
        BY <1>2, <1>4, <2>2, <3>2 DEF RestoringInv
      <4>2. ASSUME NEW i \in DOMAIN stk PROVE stk[i].sp <= fr.sp
        <5>1. stk[i].live
          BY <2>2 DEF RestoringInv
        <5>2. stk[i].sp <= frs[Len(frs)].sp
          BY <5>1, LiveEntries
        <5> QED
          BY <5>2
      <4>3. fr.saved # None => fr.saved <= Len(stk) /\ \A i \in DOMAIN stk : i <= fr.saved
        BY <1>3
      <4> QED
        BY <4>1, <4>2, <4>3
    <3> QED
      BY <3>1, <3>2
  <2> QED
    BY <2>2, <2>3 DEF RestoringInv
<1> QED
  BY <1>1, <1>2, <1>8, <1>9, <1>10, <1>11, <1>12 DEF ThreadInv, new, n

\* Frames and entries deeper than an address are gone: the frames are no longer
\* there, and their entries are dropped or have become stale.
SameEntry(e, d) ==
  /\ e.fn = d.fn /\ e.sp = d.sp /\ e.only = d.only
  /\ e.quiet = d.quiet /\ e.snap = d.snap /\ e.entered = d.entered

LEMMA Cut ==
  ASSUME NEW frs, NEW stk, NEW guarded, NEW restored, ThreadInv(frs, stk, guarded, restored),
         NEW limit \in Int, NEW new \in Seq(NativeFrame), NEW left \in Seq(StackEntry),
         Len(new) <= Len(frs),
         \A k \in DOMAIN frs :
           IF k <= Len(new) THEN frs[k].sp <= limit /\ new[k] = frs[k] ELSE frs[k].sp > limit,
         Len(left) <= Len(stk),
         \A i \in DOMAIN left : SameEntry(left[i], stk[i]),
         \A i \in DOMAIN left : left[i].live <=> stk[i].live /\ stk[i].sp <= limit,
         \A i \in DOMAIN stk : stk[i].live /\ stk[i].sp <= limit => i <= Len(left),
         restored => \A i \in DOMAIN left : left[i].live
  PROVE  ThreadInv(new, left, guarded, restored)
<1>1. frs \in Seq(NativeFrame) /\ stk \in Seq(StackEntry)
  BY DEF ThreadInv
<1>2. /\ Len(frs) \in Nat /\ DOMAIN frs = 1 .. Len(frs)
      /\ Len(stk) \in Nat /\ DOMAIN stk = 1 .. Len(stk)
      /\ \A k \in DOMAIN frs : frs[k] \in NativeFrame
      /\ \A i \in DOMAIN stk : stk[i].sp \in Nat
  BY <1>1, SequenceTypes
<1>3. /\ Len(new) \in Nat /\ DOMAIN new = 1 .. Len(new)
      /\ Len(left) \in Nat /\ DOMAIN left = 1 .. Len(left)
  BY SequenceTypes
<1>4. \A k \in DOMAIN new : k \in DOMAIN frs /\ new[k] = frs[k] /\ frs[k].sp <= limit
  BY <1>2, <1>3
<1>5. \A i \in DOMAIN left : i \in DOMAIN stk /\ left[i].sp = stk[i].sp /\ left[i].sp \in Nat
  BY <1>2, <1>3 DEF SameEntry
<1>6. \A k \in DOMAIN frs : frs[k].sp \in Nat /\ Held(frs[k]) \in Nat
                            /\ DOMAIN frs[k].ret = 1 .. Len(frs[k].ret)
                            /\ Len(frs[k].ret) \in Nat /\ Len(frs[k].ret) <= Held(frs[k])
  BY <1>2, FrameTypes
<1>7. FramesInv(new, guarded)
  <2>1. FramesInv(frs, guarded)
    BY DEF ThreadInv
  <2> QED
    BY <1>4, <2>1 DEF FramesInv
<1>8. StackInv(left)
  <2>1. StackInv(stk)
    BY DEF ThreadInv
  <2> QED
    BY <1>5, <2>1 DEF StackInv
<1>9. LinkInv(new, left)
  <2>1. LinkInv(frs, stk)
    BY DEF ThreadInv
  <2>2. ASSUME NEW i \in DOMAIN left, left[i].live
        PROVE  \E k \in DOMAIN new : new[k].sp = left[i].sp
    <3>1. PICK k \in DOMAIN frs : frs[k].sp = stk[i].sp
      BY <1>5, <2>1, <2>2 DEF LinkInv
    <3>2. frs[k].sp <= limit
      BY <2>2, <3>1
    <3>3. k <= Len(new)
      BY <1>6, <3>2
    <3> QED
      BY <1>2, <1>3, <1>5, <3>1, <3>3
  <2>3. ASSUME NEW k \in DOMAIN new PROVE \E b \in 0 .. Len(left) : Owns(new[k], left, b)
    <3>1. PICK b \in 0 .. Len(stk) : Owns(frs[k], stk, b)
      BY <1>4, <2>1 DEF LinkInv
    <3> DEFINE fr == frs[k]
               c == Held(fr)
    <3>2. /\ fr.sp \in Nat /\ fr.sp <= limit /\ new[k] = fr
          /\ c \in Nat /\ Len(fr.ret) \in Nat /\ Len(fr.ret) <= c
          /\ DOMAIN fr.ret = 1 .. Len(fr.ret)
      BY <1>4, <1>6
    <3>3. /\ b + c <= Len(stk)
          /\ \A i \in DOMAIN stk : stk[i].live /\ stk[i].sp = fr.sp <=> b < i /\ i <= b + c
          /\ \A m \in DOMAIN fr.ret : stk[b + m].fn = fr.ret[m]
      BY <3>1 DEF Owns
    <3>. HIDE DEF c, fr
    <3>4. \A i \in DOMAIN left : left[i].live /\ left[i].sp = fr.sp <=> b < i /\ i <= b + c
      BY <1>5, <3>2, <3>3
    <3>5. CASE c = 0
      <4>1. \A i \in DOMAIN left : ~(left[i].live /\ left[i].sp = fr.sp)
        BY <1>3, <3>4, <3>5
      <4>2. \A i \in DOMAIN left : ~(0 < i /\ i <= 0 + c)
        BY <1>3, <3>5
      <4>3. DOMAIN fr.ret = {}
        BY <3>2, <3>5
      <4>4. Owns(fr, left, 0)
        BY <1>3, <3>5, <4>1, <4>2, <4>3 DEF Owns, c
      <4> QED
        BY <1>3, <3>2, <4>4
    <3>6. CASE c # 0
      <4>1. b + c \in DOMAIN stk /\ b < b + c
        BY <1>2, <3>2, <3>3, <3>6
      <4>2. b + c <= Len(left)
        BY <3>2, <3>3, <4>1
      <4>3. ASSUME NEW m \in DOMAIN fr.ret PROVE left[b + m].fn = fr.ret[m]
        <5>1. b + m \in DOMAIN left
          BY <1>3, <3>2, <4>2
        <5> QED
          BY <3>3, <5>1 DEF SameEntry
      <4>4. Owns(fr, left, b)
        BY <3>4, <4>2, <4>3 DEF Owns, c
      <4>5. b \in 0 .. Len(left)
        BY <1>3, <3>2, <4>2
      <4> QED
        BY <3>2, <4>4, <4>5
    <3> QED
      BY <3>5, <3>6
  <2> QED
    BY <2>2, <2>3 DEF LinkInv
<1>10. ASSUME NEW k \in DOMAIN frs, InCallback(frs[k]), k <= Len(new) \/ frs[k].sp <= limit
       PROVE  /\ k \in DOMAIN new
              /\ stk # <<>> /\ TellInv(frs[k], stk[Len(stk)])
              /\ Len(left) = Len(stk) /\ Len(stk) \in DOMAIN stk
  <2>1. stk # <<>> /\ TellInv(frs[k], stk[Len(stk)])
    BY <1>10 DEF ThreadInv, CallbackInv
  <2>2. Len(stk) \in DOMAIN stk
    BY <1>1, <1>2, <2>1, EmptySeq
  <2>3. frs[k].sp <= limit /\ k <= Len(new)
    BY <1>6, <1>10
  <2>4. stk[Len(stk)].live /\ stk[Len(stk)].sp <= limit
    BY <2>1, <2>3 DEF TellInv
  <2>5. Len(stk) <= Len(left)
    BY <2>2, <2>4
  <2>6. k \in DOMAIN new
    BY <1>2, <1>3, <2>3
  <2>7. Len(left) = Len(stk)
    <3>1. Len(left) \in Nat /\ Len(stk) \in Nat
      BY <1>2, <1>3
    <3>2. Len(left) <= Len(stk)
      OBVIOUS
    <3> QED
      BY <2>5, <3>1, <3>2
  <2> QED
    BY <2>1, <2>2, <2>6, <2>7
<1>11. CallbackInv(new, left)
  <2>1. ASSUME NEW k \in DOMAIN new, InCallback(new[k])
        PROVE  left # <<>> /\ TellInv(new[k], left[Len(left)])
    <3>1. k \in DOMAIN frs /\ InCallback(frs[k]) /\ k <= Len(new) /\ new[k] = frs[k]
      BY <1>3, <1>4, <2>1
    <3>2. /\ stk # <<>> /\ TellInv(frs[k], stk[Len(stk)])
          /\ Len(left) = Len(stk) /\ Len(stk) \in DOMAIN stk
      BY <1>10, <3>1
    <3>3. Len(left) # 0 /\ Len(left) \in DOMAIN left
      BY <1>2, <1>3, <3>2
    <3>4. left[Len(left)].live
      BY <1>4, <2>1, <3>2, <3>3 DEF TellInv
    <3>5. SameEntry(left[Len(left)], stk[Len(stk)])
      BY <3>2, <3>3
    <3>6. TellInv(new[k], left[Len(left)])
      BY <3>1, <3>2, <3>4, <3>5 DEF TellInv, SameEntry, Target, Due
    <3> QED
      BY <3>3, <3>6, EmptySeq
  <2> QED
    BY <2>1 DEF CallbackInv
<1>12. DueInv(new, left)
  <2>2. DueInv(frs, stk)
    BY DEF ThreadInv
  <2>3. ASSUME NEW i \in DOMAIN left
        PROVE  /\ left[i].only <=> left[i].quiet /\ left[i].snap \cap Unignorable # {}
               /\ left[i].entered \subseteq Target(left[i])
               /\ left[i].live => left[i].entered = Target(left[i]) \/ (i = Len(left) /\ Entering(new))
    <3>1. i \in DOMAIN stk /\ SameEntry(left[i], stk[i])
      BY <1>5
    <3>2. Target(left[i]) = Target(stk[i])
      BY <3>1 DEF SameEntry, Target
    <3>3. ASSUME left[i].live, stk[i].entered # Target(stk[i])
          PROVE  i = Len(left) /\ Entering(new)
      <4>1. stk[i].live /\ stk[i].sp <= limit
        BY <3>3
      <4>2. i = Len(stk) /\ Entering(frs)
        BY <2>2, <3>1, <3>3, <4>1 DEF DueInv
      <4>3. PICK k \in DOMAIN frs : frs[k].at = "enter"
        BY <4>2 DEF Entering
      <4>4. InCallback(frs[k])
        BY <4>3 DEF InCallback
      <4>5. TellInv(frs[k], stk[Len(stk)])
        BY <4>4 DEF ThreadInv, CallbackInv
      <4>6. frs[k].sp <= limit
        BY <4>1, <4>2, <4>5 DEF TellInv
      <4>7. k \in DOMAIN new /\ Len(left) = Len(stk)
        BY <1>10, <4>4, <4>6
      <4>8. new[k].at = "enter"
        BY <1>4, <4>3, <4>7
      <4> QED
        BY <4>2, <4>7, <4>8 DEF Entering
    <3>4. /\ stk[i].only <=> stk[i].quiet /\ stk[i].snap \cap Unignorable # {}
          /\ stk[i].entered \subseteq Target(stk[i])
      BY <2>2, <3>1 DEF DueInv
    <3> QED
      BY <3>1, <3>2, <3>3, <3>4 DEF SameEntry
  <2> QED
    BY <2>3 DEF DueInv
<1>13. restored => RestoringInv(new, left)
  <2>1. SUFFICES ASSUME restored PROVE RestoringInv(new, left)
    OBVIOUS
  <2>2. RestoringInv(frs, stk)
    BY <2>1 DEF ThreadInv
  <2>3. ASSUME NEW k \in DOMAIN new, new[k].saved # None
        PROVE  /\ new[k].saved <= Len(left)
               /\ \A i \in DOMAIN left : i <= new[k].saved <=> left[i].sp <= new[k].sp
    <3>1. k \in DOMAIN frs /\ new[k] = frs[k] /\ frs[k].sp <= limit
      BY <1>4
    <3>2. /\ frs[k].saved <= Len(stk)
          /\ \A i \in DOMAIN stk : i <= frs[k].saved <=> stk[i].sp <= frs[k].sp
      BY <2>2, <2>3, <3>1 DEF RestoringInv
    <3>3. frs[k].saved \in Nat
      BY <1>2, <2>3, <3>1 DEF NativeFrame
    <3>4. frs[k].saved <= Len(left)
      <4>1. CASE frs[k].saved = 0
        BY <1>3, <4>1
      <4>2. CASE frs[k].saved # 0
        <5> DEFINE i == frs[k].saved
        <5>1. i \in DOMAIN stk
          BY <1>2, <3>2, <3>3, <4>2
        <5>2. stk[i].sp <= frs[k].sp
          BY <3>2, <3>3, <5>1
        <5>3. stk[i].sp <= limit
          BY <1>2, <1>6, <3>1, <5>1, <5>2
        <5>4. stk[i].live
          BY <2>2, <5>1 DEF RestoringInv
        <5> QED
          BY <5>1, <5>3, <5>4
      <4> QED
        BY <4>1, <4>2
    <3> QED
      BY <1>5, <3>1, <3>2, <3>4
  <2> QED
    BY <1>4, <2>1, <2>2, <2>3 DEF RestoringInv
<1> QED
  BY <1>7, <1>8, <1>9, <1>11, <1>12, <1>13 DEF ThreadInv

\* A frame whose call is intercepted is pushed, or takes the place of the one
\* that calls in tail position, and an entry is pushed for it.
LEMMA PushEntry ==
  ASSUME NEW frs, NEW stk, NEW guarded, NEW restored, ThreadInv(frs, stk, guarded, restored),
         NEW fr \in NativeFrame, NEW e \in StackEntry, NEW new \in Seq(NativeFrame),
         new # <<>>, new[Len(new)] = fr,
         \A k \in 1 .. Len(new) - 1 : k \in DOMAIN frs /\ new[k] = frs[k] /\ frs[k].sp < fr.sp,
         \A k \in DOMAIN frs : ~InCallback(frs[k]) /\ k <= Len(new),
         Len(new) \in DOMAIN frs => fr.sp = frs[Len(new)].sp /\ fr.ret = frs[Len(new)].ret,
         Len(new) \notin DOMAIN frs => fr.ret = <<>>,
         \A i \in DOMAIN stk : stk[i].sp <= fr.sp,
         fr.at = "enter", fr.running = None, fr.saved = None, fr.todo = Target(e),
         e.fn = fr.fn, e.sp = fr.sp, e.live, e.entered = {},
         e.only <=> e.quiet /\ e.snap \cap Unignorable # {}
  PROVE  ThreadInv(new, Append(stk, e), TRUE, restored)
<1> DEFINE n == Len(new)
           top == Len(stk) + 1
           more == Append(stk, e)
<1>1. frs \in Seq(NativeFrame) /\ stk \in Seq(StackEntry)
  BY DEF ThreadInv
<1>2. /\ n \in Nat /\ n # 0 /\ DOMAIN new = 1 .. n /\ n \in DOMAIN new
      /\ Len(frs) \in Nat /\ DOMAIN frs = 1 .. Len(frs)
  BY <1>1, SequenceTypes, TopFacts
<1>3. Len(stk) \in Nat /\ DOMAIN stk = 1 .. Len(stk) /\ top \in Nat /\ stk # more
  BY <1>1, SequenceTypes, AppendProperties
<1>4. /\ more \in Seq(StackEntry) /\ Len(more) = top /\ DOMAIN more = 1 .. top /\ more # <<>>
      /\ more[top] = e /\ \A i \in 1 .. Len(stk) : more[i] = stk[i]
  <2>1. more \in Seq(StackEntry) /\ Len(more) = top /\ more # <<>>
    BY <1>1, AppendProperties
  <2>2. DOMAIN more = 1 .. top
    BY <2>1, LenProperties
  <2> QED
    BY <1>1, <2>1, <2>2, AppendProperties
<1>. HIDE DEF more
<1>5. \A i \in DOMAIN stk : stk[i].sp \in Nat
  BY <1>1, SequenceTypes
<1>6. \A k \in DOMAIN new : IF k = n THEN new[k] = fr ELSE k < n /\ k \in DOMAIN frs /\ new[k] = frs[k]
  BY <1>2
<1>7. \A i \in DOMAIN more : IF i = top THEN more[i] = e ELSE i \in DOMAIN stk /\ i < top /\ more[i] = stk[i]
  BY <1>3, <1>4
<1>8. fr.sp \in Nat /\ Len(fr.ret) \in Nat /\ DOMAIN fr.ret = 1 .. Len(fr.ret)
      /\ InCallback(fr) /\ Held(fr) = Len(fr.ret) + 1
  BY FrameTypes DEF InCallback
<1>9. FramesInv(new, TRUE)
  <2>1. FramesInv(frs, guarded)
    BY DEF ThreadInv
  <2>2. ASSUME NEW j \in DOMAIN new, NEW k \in DOMAIN new, j < k PROVE new[j].sp < new[k].sp
    <3>1. j # n /\ j \in 1 .. n - 1
      BY <1>2, <2>2
    <3>2. CASE k = n
      BY <1>6, <3>1, <3>2
    <3>3. CASE k # n
      BY <1>6, <2>1, <2>2, <3>1, <3>3 DEF FramesInv
    <3> QED
      BY <3>2, <3>3
  <2>3. ASSUME NEW k \in DOMAIN new, InCallback(new[k]) PROVE k = n
    BY <1>6, <2>3
  <2>4. ASSUME NEW k \in DOMAIN new
        PROVE  /\ new[k].running # None \/ new[k].todo # {} => InCallback(new[k])
               /\ new[k].saved # None => new[k].at \in {"body", "repl"} \/ new[k].running # None
    <3>1. CASE k = n
      BY <1>6, <1>8, <3>1
    <3>2. CASE k # n
      BY <1>6, <2>1, <3>2 DEF FramesInv
    <3> QED
      BY <3>1, <3>2
  <2>5. \A j \in DOMAIN new : ~(n < j)
    BY <1>2
  <2> QED
    BY <2>2, <2>3, <2>4, <2>5 DEF FramesInv
<1>10. StackInv(more)
  <2>1. StackInv(stk)
    BY DEF ThreadInv
  <2>2. ASSUME NEW i \in DOMAIN more, NEW j \in DOMAIN more, i < j
        PROVE  /\ more[i].sp <= more[j].sp
               /\ more[i].sp = more[j].sp /\ more[i].live => more[j].live
    <3>1. i # top
      BY <1>3, <1>4, <2>2
    <3>2. CASE j = top
      BY <1>7, <3>1, <3>2
    <3>3. CASE j # top
      BY <1>7, <2>1, <2>2, <3>1, <3>3 DEF StackInv
    <3> QED
      BY <3>2, <3>3
  <2> QED
    BY <2>2 DEF StackInv
<1>11. LinkInv(new, more)
  <2>1. LinkInv(frs, stk)
    BY DEF ThreadInv
  <2>2. ASSUME NEW i \in DOMAIN more, more[i].live
        PROVE  \E k \in DOMAIN new : new[k].sp = more[i].sp
    <3>1. CASE i = top
      BY <1>2, <1>7, <3>1
    <3>2. CASE i # top
      <4>1. i \in DOMAIN stk /\ more[i] = stk[i]
        BY <1>7, <3>2
      <4>2. PICK k \in DOMAIN frs : frs[k].sp = stk[i].sp
        BY <2>1, <2>2, <4>1 DEF LinkInv
      <4>3. k \in DOMAIN new
        BY <1>2, <4>2
      <4>4. new[k].sp = frs[k].sp
        BY <1>6, <4>3
      <4> QED
        BY <4>1, <4>2, <4>3, <4>4
    <3> QED
      BY <3>1, <3>2
  <2>3. ASSUME NEW k \in DOMAIN new, k # n PROVE \E b \in 0 .. Len(more) : Owns(new[k], more, b)
    <3>1. k \in DOMAIN frs /\ new[k] = frs[k] /\ frs[k].sp < fr.sp
      BY <1>2, <2>3
    <3>2. PICK b \in 0 .. Len(stk) : Owns(frs[k], stk, b)
      BY <2>1, <3>1 DEF LinkInv
    <3> DEFINE f == frs[k]
               c == Held(f)
    <3>3. f \in NativeFrame
      BY <1>1, <3>1, SequenceTypes
    <3>4. f.sp \in Nat /\ c \in Nat /\ Len(f.ret) \in Nat /\ Len(f.ret) <= c
          /\ DOMAIN f.ret = 1 .. Len(f.ret)
      BY <3>3, FrameTypes, SMTT(30)
    <3>5. /\ b + c <= Len(stk)
          /\ \A i \in DOMAIN stk : stk[i].live /\ stk[i].sp = f.sp <=> b < i /\ i <= b + c
          /\ \A m \in DOMAIN f.ret : stk[b + m].fn = f.ret[m]
      BY <3>2 DEF Owns
    <3>6. f.sp < fr.sp
      BY <3>1
    <3>. HIDE DEF c, f
    <3>7. ASSUME NEW i \in DOMAIN more
          PROVE  more[i].live /\ more[i].sp = f.sp <=> b < i /\ i <= b + c
      <4>1. CASE i = top
        <5>1. more[i].sp # f.sp
          BY <1>7, <1>8, <3>4, <3>6, <4>1
        <5>2. ~(i <= b + c)
          BY <1>3, <3>4, <3>5, <4>1
        <5> QED
          BY <5>1, <5>2
      <4>2. CASE i # top
        BY <1>7, <3>5, <4>2
      <4> QED
        BY <4>1, <4>2
    <3>8. ASSUME NEW m \in DOMAIN f.ret PROVE more[b + m].fn = f.ret[m]
      <4>1. b + m \in 1 .. Len(stk)
        BY <1>3, <3>4, <3>5
      <4> QED
        BY <1>4, <3>5, <4>1
    <3>9. b + c <= Len(more) /\ b \in 0 .. Len(more)
      BY <1>3, <1>4, <3>4, <3>5
    <3>10. Owns(f, more, b)
      BY <3>7, <3>8, <3>9 DEF Owns, c
    <3> QED
      BY <3>1, <3>9, <3>10 DEF f
  <2>4. \E b \in 0 .. Len(more) : Owns(fr, more, b)
    <3>1. CASE fr.ret = <<>>
      <4>1. \A i \in DOMAIN stk : ~(stk[i].live /\ stk[i].sp = fr.sp)
        <5>1. CASE n \in DOMAIN frs
          <6>1. PICK b \in 0 .. Len(stk) : Owns(frs[n], stk, b)
            BY <2>1, <5>1 DEF LinkInv
          <6>2. Held(frs[n]) = 0 /\ frs[n].sp = fr.sp
            <7>1. frs[n] \in NativeFrame /\ ~InCallback(frs[n]) /\ frs[n].ret = <<>>
              BY <1>1, <3>1, <5>1, SequenceTypes
            <7> QED
              BY <5>1, <7>1, FrameTypes
          <6> QED
            BY <1>3, <6>1, <6>2 DEF Owns
        <5>2. CASE n \notin DOMAIN frs
          <6>1. ASSUME NEW i \in DOMAIN stk, stk[i].live, stk[i].sp = fr.sp PROVE FALSE
            <7>1. PICK k \in DOMAIN frs : frs[k].sp = stk[i].sp
              BY <2>1, <6>1 DEF LinkInv
            <7>2. k \in 1 .. n - 1
              BY <1>2, <5>2, <7>1
            <7> QED
              BY <1>8, <6>1, <7>1, <7>2
          <6> QED
            BY <6>1
        <5> QED
          BY <5>1, <5>2
      <4>2. Held(fr) = 1
        BY <1>8, <3>1
      <4>3. ASSUME NEW i \in DOMAIN more
            PROVE  more[i].live /\ more[i].sp = fr.sp <=> Len(stk) < i /\ i <= Len(stk) + 1
        <5>1. CASE i = top
          BY <1>3, <1>7, <5>1
        <5>2. CASE i # top
          BY <1>3, <1>7, <4>1, <5>2
        <5> QED
          BY <5>1, <5>2
      <4>4. DOMAIN fr.ret = {}
        BY <3>1
      <4>5. Owns(fr, more, Len(stk))
        BY <1>3, <1>4, <4>2, <4>3, <4>4 DEF Owns
      <4> QED
        BY <1>3, <1>4, <4>5
    <3>2. CASE fr.ret # <<>>
      <4> DEFINE old == frs[n]
                 c == Held(old)
      <4>1. n \in DOMAIN frs /\ old.sp = fr.sp /\ old.ret = fr.ret
        BY <3>2
      <4>2. c = Len(fr.ret) /\ c # 0
        <5>1. old \in NativeFrame /\ ~InCallback(old)
          BY <1>1, <4>1, SequenceTypes
        <5>2. fr.ret \in Seq(Functions)
          BY DEF NativeFrame
        <5> QED
          BY <3>2, <4>1, <5>1, <5>2, FrameTypes, EmptySeq
      <4>3. PICK b \in 0 .. Len(stk) : Owns(old, stk, b)
        BY <2>1, <4>1 DEF LinkInv
      <4>. HIDE DEF c
      <4>4. /\ b + c <= Len(stk)
            /\ \A i \in DOMAIN stk : stk[i].live /\ stk[i].sp = fr.sp <=> b < i /\ i <= b + c
            /\ \A m \in DOMAIN fr.ret : stk[b + m].fn = fr.ret[m]
        BY <4>1, <4>3 DEF Owns, c
      <4>. HIDE DEF old
      <4>. HIDE DEF top
      <4>5. b + c = Len(stk)
        <5>1. b \in Nat /\ c \in Nat /\ c # 0 /\ Len(stk) \in Nat /\ b + c <= Len(stk)
          BY <1>3, <1>8, <4>2, <4>4
        <5>2. ASSUME b + c < Len(stk) PROVE FALSE
          <6>1. Len(stk) \in 1 .. Len(stk) /\ b + c \in 1 .. Len(stk) /\ b < b + c
                /\ b < Len(stk) /\ ~(Len(stk) <= b + c) /\ b + c <= b + c
            BY <5>1, <5>2
          <6>2. Len(stk) \in DOMAIN stk /\ b + c \in DOMAIN stk
            BY <1>3, <6>1
          <6>3. stk[b + c].live /\ stk[b + c].sp = fr.sp
            BY <4>4, <6>1, <6>2
          <6>4. StackInv(stk)
            BY DEF ThreadInv
          <6>5. stk[b + c].sp <= stk[Len(stk)].sp
            BY <5>2, <6>2, <6>4 DEF StackInv
          <6>6. stk[Len(stk)].sp = fr.sp
            <7>1. stk[Len(stk)].sp <= fr.sp
              BY <6>2
            <7>2. stk[Len(stk)].sp \in Nat /\ fr.sp \in Nat
              BY <1>5, <1>8, <6>2
            <7>3. fr.sp <= stk[Len(stk)].sp
              BY <6>3, <6>5
            <7> QED
              BY <7>1, <7>2, <7>3
          <6>7. stk[Len(stk)].live
            BY <5>2, <6>2, <6>3, <6>4, <6>6 DEF StackInv
          <6> QED
            BY <4>4, <6>1, <6>2, <6>6, <6>7
        <5> QED
          BY <5>1, <5>2
      <4>. USE DEF top
      <4>6. ASSUME NEW i \in DOMAIN more
            PROVE  more[i].live /\ more[i].sp = fr.sp <=> b < i /\ i <= b + Held(fr)
        <5>0. b \in Nat /\ c \in Nat /\ c # 0 /\ Held(fr) = c + 1 /\ Len(stk) \in Nat
          BY <1>3, <1>8, <4>2
        <5>1. b + Held(fr) = top /\ b < top /\ top <= top
          BY <4>5, <5>0
        <5>2. CASE i = top
          <6>1. more[i] = e
            BY <1>7, <5>2
          <6> QED
            BY <5>1, <5>2, <6>1
        <5>3. CASE i # top
          <6>1. i <= b + c /\ i <= b + Held(fr)
            BY <1>3, <1>7, <4>5, <5>1, <5>3
          <6> QED
            BY <1>7, <4>4, <5>3, <6>1
        <5> QED
          BY <5>2, <5>3
      <4>7. ASSUME NEW m \in DOMAIN fr.ret PROVE more[b + m].fn = fr.ret[m]
        <5>1. b + m \in 1 .. Len(stk)
          BY <1>3, <1>8, <4>2, <4>4
        <5> QED
          BY <1>4, <4>4, <5>1
      <4>8. b + Held(fr) <= Len(more) /\ b \in 0 .. Len(more)
        BY <1>3, <1>4, <1>8, <4>2, <4>4
      <4>9. Owns(fr, more, b)
        BY <4>6, <4>7, <4>8 DEF Owns
      <4> QED
        BY <4>8, <4>9
    <3> QED
      BY <3>1, <3>2
  <2> QED
    BY <1>6, <2>2, <2>3, <2>4 DEF LinkInv
<1>12. CallbackInv(new, more)
  <2>1. \A k \in DOMAIN new : InCallback(new[k]) => new[k] = fr
    BY <1>6
  <2>2. TellInv(fr, e)
    <3>1. fr.todo = {} \cup fr.todo
      OBVIOUS
    <3> QED
      BY <3>1 DEF TellInv
  <2> QED
    BY <1>4, <2>1, <2>2 DEF CallbackInv
<1>13. DueInv(new, more)
  <2>1. DueInv(frs, stk)
    BY DEF ThreadInv
  <2>2. ~Entering(frs) /\ Entering(new)
    BY <1>2 DEF Entering, InCallback
  <2>3. ASSUME NEW i \in DOMAIN more
        PROVE  /\ more[i].only <=> more[i].quiet /\ more[i].snap \cap Unignorable # {}
               /\ more[i].entered \subseteq Target(more[i])
               /\ more[i].live => more[i].entered = Target(more[i]) \/ (i = Len(more) /\ Entering(new))
    <3>1. CASE i = top
      BY <1>4, <1>7, <2>2, <3>1
    <3>2. CASE i # top
      BY <1>7, <2>1, <2>2, <3>2 DEF DueInv
    <3> QED
      BY <3>1, <3>2
  <2> QED
    BY <2>3 DEF DueInv
<1>14. restored => RestoringInv(new, more)
  <2>1. SUFFICES ASSUME restored PROVE RestoringInv(new, more)
    OBVIOUS
  <2>2. RestoringInv(frs, stk)
    BY <2>1 DEF ThreadInv
  <2>3. \A i \in DOMAIN more : more[i].live
    BY <1>7, <2>2 DEF RestoringInv
  <2>4. ASSUME NEW k \in DOMAIN new, new[k].saved # None
        PROVE  /\ new[k].saved <= Len(more)
               /\ \A i \in DOMAIN more : i <= new[k].saved <=> more[i].sp <= new[k].sp
    <3>1. k # n
      BY <1>6, <2>4
    <3>2. k \in DOMAIN frs /\ new[k] = frs[k] /\ frs[k].sp < fr.sp
      BY <1>2, <3>1
    <3>3. frs[k].saved \in Nat /\ frs[k].sp \in Nat
      <4>1. frs[k] \in NativeFrame
        BY <1>1, <3>2, SequenceTypes
      <4> QED
        BY <2>4, <3>2, <4>1 DEF NativeFrame
    <3>4. /\ frs[k].saved <= Len(stk)
          /\ \A i \in DOMAIN stk : i <= frs[k].saved <=> stk[i].sp <= frs[k].sp
      BY <2>2, <2>4, <3>2 DEF RestoringInv
    <3>5. ASSUME NEW i \in DOMAIN more PROVE i <= frs[k].saved <=> more[i].sp <= frs[k].sp
      <4>1. CASE i = top
        <5>1. ~(i <= frs[k].saved)
          BY <1>3, <3>3, <3>4, <4>1
        <5>2. ~(more[i].sp <= frs[k].sp)
          BY <1>7, <1>8, <3>2, <3>3, <4>1
        <5> QED
          BY <5>1, <5>2
      <4>2. CASE i # top
        BY <1>7, <3>4, <4>2
      <4> QED
        BY <4>1, <4>2
    <3>6. frs[k].saved <= Len(more)
      BY <1>3, <1>4, <3>3, <3>4
    <3> QED
      BY <3>2, <3>5, <3>6
  <2>5. \A k \in DOMAIN new : new[k].at # "astray"
    BY <1>6, <2>2 DEF RestoringInv
  <2> QED
    BY <2>3, <2>4, <2>5 DEF RestoringInv
<1>15. ThreadInv(new, more, TRUE, restored)
  BY <1>4, <1>9, <1>10, <1>11, <1>12, <1>13, <1>14 DEF ThreadInv
<1> QED
  BY <1>15 DEF more

\* A listener has been told of the entry, or of the return.
ToldEntry(d, e, at, l) ==
  /\ d.entered = IF at = "leave" THEN e.entered ELSE e.entered \cup {l}
  /\ d.live = e.live /\ d.sp = e.sp /\ d.fn = e.fn
  /\ d.only = e.only /\ d.quiet = e.quiet /\ d.snap = e.snap

\* A listener is told: of an entry, which records it, or of a return.
LEMMA Tell ==
  ASSUME NEW frs, NEW stk, NEW guarded, NEW restored, ThreadInv(frs, stk, guarded, restored),
         frs # <<>>, NEW top, top = frs[Len(frs)], InCallback(top), top.running = None,
         NEW l \in top.todo, NEW fr \in NativeFrame,
         fr.sp = top.sp, fr.ret = top.ret, fr.at = top.at, fr.fn = top.fn, fr.saved = top.saved,
         fr.todo = top.todo \ {l},
         NEW left \in Seq(StackEntry), Len(left) = Len(stk),
         \A i \in DOMAIN stk : i # Len(stk) => left[i] = stk[i],
         ToldEntry(left[Len(stk)], stk[Len(stk)], top.at, l)
  PROVE  ThreadInv([frs EXCEPT ![Len(frs)] = fr], left, guarded, restored)
<1> DEFINE n == Len(frs)
           new == [frs EXCEPT ![n] = fr]
           m == Len(stk)
<1>1. frs \in Seq(NativeFrame) /\ stk \in Seq(StackEntry)
  BY DEF ThreadInv
<1>2. /\ n \in Nat /\ n # 0 /\ DOMAIN frs = 1 .. n /\ n \in DOMAIN frs
      /\ new \in Seq(NativeFrame) /\ DOMAIN new = 1 .. n
      /\ new[n] = fr /\ \A k \in 1 .. n : k # n => new[k] = frs[k]
  BY <1>1, TopFacts
<1>3. m \in Nat /\ DOMAIN stk = 1 .. m /\ DOMAIN left = 1 .. m
  BY <1>1, SequenceTypes
<1>4. frs[n] = top
  OBVIOUS
<1>told. /\ top.at = "leave" => left[m].entered = stk[m].entered
         /\ top.at # "leave" => left[m].entered = stk[m].entered \cup {l}
         /\ left[m].live = stk[m].live /\ left[m].sp = stk[m].sp /\ left[m].fn = stk[m].fn
         /\ left[m].only = stk[m].only /\ left[m].quiet = stk[m].quiet
         /\ left[m].snap = stk[m].snap
  BY DEF ToldEntry
<1>. HIDE DEF new, n
<1>5. /\ stk # <<>> /\ TellInv(top, stk[m]) /\ InCallback(frs[n]) /\ m \in DOMAIN stk
  <2>1. stk # <<>> /\ TellInv(top, stk[m])
    BY <1>2, <1>4 DEF ThreadInv, CallbackInv
  <2> QED
    BY <1>1, <1>3, <1>4, <2>1, EmptySeq
<1>6. \A k \in DOMAIN frs : InCallback(frs[k]) => k = n
  BY <1>4, OneCallback DEF n
<1>7. top.saved = None
  <2>1. top.saved # None => top.at \in {"body", "repl"} \/ top.running # None
    BY <1>2, <1>4 DEF ThreadInv, FramesInv
  <2> QED
    BY <2>1 DEF InCallback
<1>8. InCallback(fr) /\ Held(fr) = Held(top)
  <2>1. InCallback(fr)
    BY DEF InCallback
  <2> QED
    BY <2>1 DEF Held
<1>9. \A k \in 1 .. n : new[k].sp = frs[k].sp /\ new[k].ret = frs[k].ret /\ new[k].at = frs[k].at
                        /\ new[k].saved = frs[k].saved /\ Held(new[k]) = Held(frs[k])
  BY <1>2, <1>4, <1>8
<1>10. \A i \in 1 .. m : left[i].sp = stk[i].sp /\ left[i].live = stk[i].live
                         /\ left[i].fn = stk[i].fn
  BY <1>told, <1>3
<1>11. FramesInv(new, guarded)
  <2>1. FramesInv(frs, guarded)
    BY DEF ThreadInv
  <2>2. \A j, k \in DOMAIN new : j < k => new[j].sp < new[k].sp
    BY <1>2, <1>9, <2>1 DEF FramesInv
  <2>3. ASSUME NEW k \in DOMAIN new, InCallback(new[k])
        PROVE  guarded /\ \A j \in DOMAIN new : k < j => new[j].at = "body" /\ new[j].ret = <<>>
    <3>1. k \in DOMAIN frs /\ InCallback(frs[k])
      BY <1>2, <1>9, <2>3 DEF InCallback
    <3> QED
      BY <1>2, <1>9, <2>1, <3>1 DEF FramesInv
  <2>4. ASSUME NEW k \in DOMAIN new
        PROVE  /\ new[k].running # None \/ new[k].todo # {} => InCallback(new[k])
               /\ new[k].saved # None => new[k].at \in {"body", "repl"} \/ new[k].running # None
    <3>1. CASE k # n
      BY <1>2, <2>1, <3>1 DEF FramesInv
    <3>2. CASE k = n
      BY <1>2, <1>7, <1>8, <3>2
    <3> QED
      BY <3>1, <3>2
  <2> QED
    BY <2>2, <2>3, <2>4 DEF FramesInv
<1>12. StackInv(left)
  <2>1. StackInv(stk)
    BY DEF ThreadInv
  <2> QED
    BY <1>3, <1>10, <2>1 DEF StackInv
<1>13. LinkInv(new, left)
  <2>1. LinkInv(frs, stk)
    BY DEF ThreadInv
  <2>2. \A i \in DOMAIN left : left[i].live => \E k \in DOMAIN new : new[k].sp = left[i].sp
    <3>1. \A i \in 1 .. m : stk[i].live => \E k \in 1 .. n : frs[k].sp = stk[i].sp
      BY <1>2, <1>3, <2>1 DEF LinkInv
    <3>2. \A i \in 1 .. m : left[i].live => \E k \in 1 .. n : new[k].sp = left[i].sp
      BY <1>9, <1>10, <3>1
    <3> QED
      BY <1>2, <1>3, <3>2
  <2>3. ASSUME NEW k \in DOMAIN new PROVE \E b \in 0 .. Len(left) : Owns(new[k], left, b)
    <3>1. k \in DOMAIN frs /\ frs[k] \in NativeFrame
      BY <1>1, <1>2, SequenceTypes
    <3>2. PICK b \in 0 .. m : Owns(frs[k], stk, b)
      BY <2>1, <3>1 DEF LinkInv
    <3>3. /\ b + Held(frs[k]) <= m
          /\ \A i \in DOMAIN stk :
               stk[i].live /\ stk[i].sp = frs[k].sp <=> b < i /\ i <= b + Held(frs[k])
          /\ \A j \in DOMAIN frs[k].ret : stk[b + j].fn = frs[k].ret[j]
      BY <3>2 DEF Owns
    <3>4. \A i \in DOMAIN left :
            left[i].live /\ left[i].sp = new[k].sp <=> b < i /\ i <= b + Held(new[k])
      BY <1>2, <1>3, <1>9, <1>10, <3>3
    <3>5. ASSUME NEW j \in DOMAIN new[k].ret PROVE left[b + j].fn = new[k].ret[j]
      <4>1. /\ j \in DOMAIN frs[k].ret /\ j \in Nat /\ 1 <= j /\ j <= Held(frs[k])
            /\ Held(frs[k]) \in Nat
        BY <1>2, <1>9, <3>1, FrameTypes
      <4>2. b + j \in 1 .. m
        BY <1>3, <3>3, <4>1
      <4>3. left[b + j].fn = stk[b + j].fn
        BY <1>10, <4>2
      <4>4. new[k].ret = frs[k].ret
        BY <1>2, <1>9
      <4> QED
        BY <3>3, <4>1, <4>3, <4>4
    <3>6. Owns(new[k], left, b)
      BY <1>2, <1>9, <3>3, <3>4, <3>5 DEF Owns
    <3> QED
      BY <3>6
  <2> QED
    BY <2>2, <2>3 DEF LinkInv
<1>14. CallbackInv(new, left)
  <2>1. ASSUME NEW k \in DOMAIN new, InCallback(new[k]) PROVE k = n
    BY <1>2, <1>6, <1>9, <2>1 DEF InCallback
  <2>2. Target(left[m]) = Target(stk[m]) /\ Due(left[m]) = Due(stk[m])
    BY <1>told DEF Target, Due
  <2>3. CASE top.at = "enter"
    <3>1. left[m].entered = stk[m].entered \cup {l}
      BY <1>told, <2>3
    <3>2. stk[m].entered \cup top.todo = Target(stk[m])
      BY <1>5, <2>3 DEF TellInv
    <3>3. left[m].entered \cup fr.todo = Target(left[m])
      BY <2>2, <3>1, <3>2
    <3>4. TellInv(fr, left[m])
      BY <1>told, <1>5, <2>3, <3>3 DEF TellInv
    <3> QED
      BY <1>2, <1>3, <1>5, <2>1, <3>4, EmptySeq DEF CallbackInv
  <2>4. CASE top.at = "leave"
    <3>1. top.todo \subseteq Due(stk[m])
      BY <1>5, <2>4 DEF TellInv
    <3>2. fr.todo \subseteq Due(left[m])
      BY <2>2, <3>1
    <3>3. TellInv(fr, left[m])
      BY <1>told, <1>5, <2>4, <3>2 DEF TellInv
    <3> QED
      BY <1>2, <1>3, <1>5, <2>1, <3>3, EmptySeq DEF CallbackInv
  <2> QED
    BY <2>3, <2>4 DEF InCallback
<1>15. DueInv(new, left)
  <2>1. DueInv(frs, stk)
    BY DEF ThreadInv
  <2>2. Entering(frs) => Entering(new)
    BY <1>2, <1>9 DEF Entering
  <2>3. ASSUME NEW i \in DOMAIN left
        PROVE  /\ left[i].only <=> left[i].quiet /\ left[i].snap \cap Unignorable # {}
               /\ left[i].entered \subseteq Target(left[i])
               /\ left[i].live => left[i].entered = Target(left[i]) \/ (i = Len(left) /\ Entering(new))
    <3>1. CASE i # m
      BY <1>3, <2>1, <2>2, <3>1 DEF DueInv
    <3>2. CASE i = m
      <4>1. Target(left[m]) = Target(stk[m])
        BY <1>told DEF Target
      <4>2. /\ stk[m].only <=> stk[m].quiet /\ stk[m].snap \cap Unignorable # {}
            /\ stk[m].entered \subseteq Target(stk[m])
            /\ stk[m].live => stk[m].entered = Target(stk[m]) \/ Entering(frs)
        BY <1>5, <2>1 DEF DueInv
      <4>3. CASE top.at = "enter"
        <5>1. stk[m].entered \cup top.todo = Target(stk[m])
          BY <1>5, <4>3 DEF TellInv
        <5>2. Entering(new)
          BY <1>2, <4>3 DEF Entering
        <5>3. left[m].entered = stk[m].entered \cup {l}
          BY <1>told, <4>3
        <5> QED
          BY <1>told, <3>2, <4>1, <4>2, <5>1, <5>2, <5>3
      <4>4. CASE top.at = "leave"
        BY <1>told, <2>2, <3>2, <4>1, <4>2, <4>4
      <4> QED
        BY <4>3, <4>4 DEF InCallback
    <3> QED
      BY <3>1, <3>2
  <2> QED
    BY <2>3 DEF DueInv
<1>16. restored => RestoringInv(new, left)
  <2>1. SUFFICES ASSUME restored PROVE RestoringInv(new, left)
    OBVIOUS
  <2>2. RestoringInv(frs, stk)
    BY <2>1 DEF ThreadInv
  <2> QED
    BY <1>2, <1>3, <1>9, <1>10, <2>2 DEF RestoringInv
<1>17. ThreadInv(new, left, guarded, restored)
  BY <1>2, <1>11, <1>12, <1>13, <1>14, <1>15, <1>16 DEF ThreadInv
<1> QED
  BY <1>17 DEF new, n

\* The callbacks of an entry or a return are done: the frame goes on, with the
\* entry as one it will return through or without it.
LEMMA Settle ==
  ASSUME NEW frs, NEW stk, NEW guarded, NEW restored, ThreadInv(frs, stk, guarded, restored),
         frs # <<>>, NEW top, top = frs[Len(frs)],
         InCallback(top), top.running = None, top.todo = {},
         NEW fr \in NativeFrame, fr.sp = top.sp, fr.at \in {"body", "repl", "returning"},
         fr.running = None, fr.todo = {}, fr.saved = None,
         NEW left \in Seq(StackEntry),
         \A i \in DOMAIN left : SameEntry(left[i], stk[i]) /\ left[i].live = stk[i].live,
         Len(left) = Len(stk) \/ Len(left) = Len(stk) - 1,
         Len(left) = Len(stk) => fr.ret = Append(top.ret, stk[Len(stk)].fn),
         Len(left) # Len(stk) => fr.ret = top.ret
  PROVE  ThreadInv([frs EXCEPT ![Len(frs)] = fr], left, FALSE, restored)
<1> DEFINE n == Len(frs)
           new == [frs EXCEPT ![n] = fr]
           m == Len(stk)
           d == Len(left)
<1>1. frs \in Seq(NativeFrame) /\ stk \in Seq(StackEntry)
  BY DEF ThreadInv
<1>2. /\ n \in Nat /\ n # 0 /\ DOMAIN frs = 1 .. n /\ n \in DOMAIN frs
      /\ new \in Seq(NativeFrame) /\ DOMAIN new = 1 .. n
      /\ new[n] = fr /\ \A k \in 1 .. n : k # n => new[k] = frs[k]
  BY <1>1, TopFacts
<1>3. /\ m \in Nat /\ DOMAIN stk = 1 .. m /\ d \in Nat /\ DOMAIN left = 1 .. d
      /\ \A i \in DOMAIN stk : stk[i].sp \in Nat
  BY <1>1, SequenceTypes
<1>4. frs[n] = top
  OBVIOUS
<1>. HIDE DEF new, n
<1>5. m \in Nat /\ d \in Nat /\ d <= m /\ (d = m \/ d = m - 1)
  <2>1. m \in Nat /\ d \in Nat
    BY <1>3
  <2>2. d = m \/ d = m - 1
    OBVIOUS
  <2>. HIDE DEF m, d
  <2> QED
    BY <2>1, <2>2
<1>6. /\ stk # <<>> /\ TellInv(top, stk[m]) /\ m # 0 /\ m \in DOMAIN stk
  <2>1. stk # <<>> /\ TellInv(top, stk[m])
    BY <1>2, <1>4 DEF ThreadInv, CallbackInv
  <2>2. m # 0
    BY <1>1, <2>1, EmptySeq
  <2>. HIDE DEF m, d
  <2>3. m \in 1 .. m
    BY <1>5, <2>2
  <2> QED
    BY <1>3, <2>1, <2>2, <2>3
<1>. HIDE DEF m, d
<1>7. \A k \in DOMAIN frs : InCallback(frs[k]) => k = n
  BY <1>4, OneCallback DEF n
<1>8. \A k \in DOMAIN new : ~InCallback(new[k])
  <2>1. ~InCallback(fr)
    BY DEF InCallback
  <2> QED
    BY <1>2, <1>7, <2>1
<1>9. \A i \in 1 .. d : i \in DOMAIN stk /\ left[i].sp = stk[i].sp /\ left[i].live = stk[i].live
                        /\ left[i].fn = stk[i].fn
  <2>1. \A i \in 1 .. d : i \in 1 .. m
    BY <1>5
  <2> QED
    BY <1>3, <2>1 DEF SameEntry
<1>10. \A k \in 1 .. n : new[k].sp = frs[k].sp
  BY <1>2, <1>4
<1>11. \A k \in 1 .. n : k # n => frs[k].sp < top.sp
  <2>1. FramesInv(frs, guarded)
    BY DEF ThreadInv
  <2>2. \A k \in 1 .. n : k # n => k < n
    BY <1>2
  <2> QED
    BY <1>2, <1>4, <2>1, <2>2 DEF FramesInv
<1>12. FramesInv(new, FALSE)
  <2>1. FramesInv(frs, guarded)
    BY DEF ThreadInv
  <2>2. \A j, k \in DOMAIN new : j < k => new[j].sp < new[k].sp
    BY <1>2, <1>10, <2>1 DEF FramesInv
  <2>3. ASSUME NEW k \in DOMAIN new
        PROVE  /\ new[k].running # None \/ new[k].todo # {} => InCallback(new[k])
               /\ new[k].saved # None => new[k].at \in {"body", "repl"} \/ new[k].running # None
    <3>1. CASE k # n
      BY <1>2, <2>1, <3>1 DEF FramesInv
    <3>2. CASE k = n
      BY <1>2, <3>2
    <3> QED
      BY <3>1, <3>2
  <2> QED
    BY <1>8, <2>2, <2>3 DEF FramesInv
<1>13. StackInv(left)
  <2>1. StackInv(stk)
    BY DEF ThreadInv
  <2> QED
    BY <1>3, <1>9, <2>1 DEF StackInv
<1>14. LinkInv(new, left)
  <2>1. LinkInv(frs, stk)
    BY DEF ThreadInv
  <2>2. \A i \in DOMAIN left : left[i].live => \E k \in DOMAIN new : new[k].sp = left[i].sp
    BY <1>2, <1>3, <1>9, <1>10, <2>1 DEF LinkInv
  <2>3. ASSUME NEW k \in DOMAIN new, k # n PROVE \E b \in 0 .. d : Owns(new[k], left, b)
    <3>1. k \in DOMAIN frs /\ new[k] = frs[k] /\ frs[k] \in NativeFrame /\ frs[k].sp < top.sp
      BY <1>1, <1>2, <1>11, <2>3, SequenceTypes
    <3> DEFINE f == frs[k]
               c == Held(f)
    <3>2. /\ f.sp \in Nat /\ c \in Nat /\ Len(f.ret) \in Nat /\ Len(f.ret) <= c
          /\ DOMAIN f.ret = 1 .. Len(f.ret) /\ top.sp \in Nat
      BY <1>1, <1>2, <1>4, <3>1, FrameTypes, SequenceTypes
    <3>3. PICK b \in 0 .. m : Owns(f, stk, b)
      BY <2>1, <3>1 DEF LinkInv, m
    <3>4. /\ b + c <= m
          /\ \A i \in DOMAIN stk : stk[i].live /\ stk[i].sp = f.sp <=> b < i /\ i <= b + c
          /\ \A j \in DOMAIN f.ret : stk[b + j].fn = f.ret[j]
      BY <3>3 DEF Owns, m
    <3>5. new[k] = f /\ f.sp < top.sp
      BY <3>1
    <3>. HIDE DEF c, f
    <3>6. \A i \in DOMAIN left : left[i].live /\ left[i].sp = f.sp <=> b < i /\ i <= b + c
      BY <1>3, <1>9, <3>4
    <3>7. CASE c = 0
      <4>1. \A i \in DOMAIN left : ~(left[i].live /\ left[i].sp = f.sp)
        BY <1>3, <3>6, <3>7
      <4>2. \A i \in DOMAIN left : ~(0 < i /\ i <= 0 + c)
        BY <1>3, <3>7
      <4>3. DOMAIN f.ret = {}
        BY <3>2, <3>7
      <4>4. Held(f) = 0 /\ 0 + 0 <= d
        BY <1>3, <3>7 DEF c
      <4>5. Owns(f, left, 0)
        BY <3>7, <4>1, <4>2, <4>3, <4>4 DEF Owns, c, d
      <4> QED
        BY <1>3, <3>5, <4>5
    <3>8. CASE c # 0
      <4>1. b + c # m
        <5>1. stk[m].sp # f.sp
          BY <1>6, <3>2, <3>5 DEF TellInv
        <5>2. ~(b < m /\ m <= b + c)
          BY <1>6, <3>4, <5>1
        <5> QED
          BY <1>3, <3>2, <3>8, <5>2
      <4>2. b + c <= d /\ b \in 0 .. d
        BY <1>3, <1>5, <3>2, <3>4, <4>1
      <4>3. ASSUME NEW j \in DOMAIN f.ret PROVE left[b + j].fn = f.ret[j]
        <5>1. b + j \in 1 .. d
          BY <1>3, <3>2, <4>2
        <5> QED
          BY <1>9, <3>4, <5>1
      <4>4. Owns(f, left, b)
        BY <3>6, <4>2, <4>3 DEF Owns, c, d
      <4> QED
        BY <3>5, <4>2, <4>4
    <3> QED
      BY <3>7, <3>8
  <2>4. \E b \in 0 .. d : Owns(fr, left, b)
    <3> DEFINE c == Len(top.ret)
    <3>1. /\ top \in NativeFrame /\ c \in Nat /\ DOMAIN top.ret = 1 .. c /\ Held(top) = c + 1
          /\ Held(fr) = Len(fr.ret) /\ top.ret \in Seq(Functions)
      <4>1. top \in NativeFrame
        BY <1>1, <1>2, <1>4, SequenceTypes
      <4>2. ~InCallback(fr)
        BY DEF InCallback
      <4>3. top.ret \in Seq(Functions)
        BY <4>1 DEF NativeFrame
      <4> QED
        BY <4>1, <4>2, <4>3, FrameTypes
    <3>2. PICK b \in 0 .. m : Owns(top, stk, b)
      BY <1>2, <1>4, <2>1 DEF LinkInv, m
    <3>3. /\ b + (c + 1) <= m
          /\ \A i \in DOMAIN stk : stk[i].live /\ stk[i].sp = top.sp <=> b < i /\ i <= b + (c + 1)
          /\ \A j \in DOMAIN top.ret : stk[b + j].fn = top.ret[j]
      BY <3>1, <3>2 DEF Owns, m
    <3>. HIDE DEF c
    <3>4. b \in Nat /\ b + c + 1 = m
      <4>1. m <= b + (c + 1)
        BY <1>6, <3>3 DEF TellInv
      <4> QED
        BY <1>3, <3>1, <3>3, <4>1
    <3>5. \A i \in DOMAIN left : left[i].live /\ left[i].sp = fr.sp <=> b < i /\ i <= d
      <4>1. ASSUME NEW i \in DOMAIN left
            PROVE  left[i].live /\ left[i].sp = fr.sp <=> b < i /\ i <= d
        <5>1. i \in DOMAIN stk /\ left[i].sp = stk[i].sp /\ left[i].live = stk[i].live
          BY <1>3, <1>9
        <5>2. i <= d /\ i <= b + (c + 1)
          BY <1>3, <3>1, <3>4, <5>1
        <5> QED
          BY <3>3, <5>1, <5>2
      <4> QED
        BY <4>1
    <3>6. ASSUME NEW j \in 1 .. c PROVE b + j \in 1 .. d /\ left[b + j].fn = top.ret[j]
      <4>1. b + j \in 1 .. d
        BY <1>3, <1>5, <3>1, <3>4
      <4> QED
        BY <1>9, <3>1, <3>3, <4>1
    <3>7. CASE d = m - 1
      <4>0. fr.ret = top.ret
        <5>1. d # m
          BY <1>3, <3>7
        <5> QED
          BY <5>1 DEF d, m
      <4>1. Held(fr) = c /\ b + c = d /\ DOMAIN fr.ret = 1 .. c
        BY <1>3, <3>1, <3>4, <3>7, <4>0 DEF c
      <4>2. \A j \in DOMAIN fr.ret : left[b + j].fn = fr.ret[j]
        BY <3>6, <4>0, <4>1
      <4>3. b + Held(fr) <= d /\ b + Held(fr) = d
        BY <1>3, <4>1
      <4>4. Owns(fr, left, b)
        BY <3>5, <4>2, <4>3 DEF Owns, d
      <4> QED
        BY <1>3, <3>1, <3>4, <4>1, <4>4
    <3>8. CASE d = m
      <4>0. fr.ret = Append(top.ret, stk[m].fn)
        BY <3>8 DEF d, m
      <4>1. stk[m].fn \in Functions
        BY <1>1, <1>6, SequenceTypes DEF StackEntry
      <4>2. /\ Len(fr.ret) = c + 1 /\ fr.ret[c + 1] = stk[m].fn
            /\ \A j \in 1 .. c : fr.ret[j] = top.ret[j]
        BY <3>1, <4>0, <4>1, AppendProperties DEF c
      <4>3. DOMAIN fr.ret = 1 .. c + 1 /\ Held(fr) = c + 1 /\ b + (c + 1) = d
        BY <3>1, <3>4, <3>8, <4>2, FrameTypes
      <4>4. ASSUME NEW j \in DOMAIN fr.ret PROVE left[b + j].fn = fr.ret[j]
        <5>1. CASE j = c + 1
          <6>1. b + j = m /\ m \in 1 .. d
            BY <1>3, <1>6, <3>1, <3>4, <3>8, <5>1
          <6> QED
            BY <1>9, <4>2, <5>1, <6>1
        <5>2. CASE j # c + 1
          <6>1. j \in 1 .. c
            BY <3>1, <4>3, <5>2
          <6> QED
            BY <3>6, <4>2, <6>1
        <5> QED
          BY <5>1, <5>2
      <4>5. b + Held(fr) <= d /\ b + Held(fr) = d
        BY <1>3, <4>3
      <4>6. Owns(fr, left, b)
        BY <3>5, <4>4, <4>5 DEF Owns, d
      <4> QED
        BY <1>3, <3>1, <3>4, <4>3, <4>6
    <3> QED
      BY <1>5, <3>7, <3>8
  <2> QED
    BY <1>2, <2>2, <2>3, <2>4 DEF LinkInv, d
<1>15. CallbackInv(new, left)
  BY <1>8 DEF CallbackInv
<1>16. DueInv(new, left)
  <2>1. DueInv(frs, stk)
    BY DEF ThreadInv
  <2>2. ASSUME Entering(frs) PROVE stk[m].entered = Target(stk[m])
    <3>1. PICK k \in DOMAIN frs : frs[k].at = "enter"
      BY <2>2 DEF Entering
    <3>2. top.at = "enter"
      BY <1>4, <1>7, <3>1 DEF InCallback
    <3>3. stk[m].entered \cup top.todo = Target(stk[m])
      BY <1>6, <3>2 DEF TellInv
    <3> QED
      BY <3>3
  <2>3. ASSUME NEW i \in DOMAIN left
        PROVE  /\ left[i].only <=> left[i].quiet /\ left[i].snap \cap Unignorable # {}
               /\ left[i].entered \subseteq Target(left[i])
               /\ left[i].live => left[i].entered = Target(left[i])
    <3>1. i \in DOMAIN stk /\ SameEntry(left[i], stk[i]) /\ left[i].live = stk[i].live
      BY <1>3, <1>9
    <3>2. Target(left[i]) = Target(stk[i])
      BY <3>1 DEF SameEntry, Target
    <3>3. /\ stk[i].only <=> stk[i].quiet /\ stk[i].snap \cap Unignorable # {}
          /\ stk[i].entered \subseteq Target(stk[i])
          /\ stk[i].live => stk[i].entered = Target(stk[i]) \/ (i = m /\ Entering(frs))
      BY <2>1, <3>1 DEF DueInv, m
    <3>4. stk[i].live => stk[i].entered = Target(stk[i])
      BY <2>2, <3>3
    <3> QED
      BY <3>1, <3>2, <3>3, <3>4 DEF SameEntry
  <2> QED
    BY <2>3 DEF DueInv
<1>17. restored => RestoringInv(new, left)
  <2>1. SUFFICES ASSUME restored PROVE RestoringInv(new, left)
    OBVIOUS
  <2>2. RestoringInv(frs, stk)
    BY <2>1 DEF ThreadInv
  <2>3. \A i \in DOMAIN left : left[i].live
    BY <1>3, <1>9, <2>2 DEF RestoringInv
  <2>4. ASSUME NEW k \in DOMAIN new, new[k].saved # None
        PROVE  /\ new[k].saved <= d
               /\ \A i \in DOMAIN left : i <= new[k].saved <=> left[i].sp <= new[k].sp
    <3>1. k # n /\ k \in DOMAIN frs /\ new[k] = frs[k]
      BY <1>2, <2>4
    <3>2. frs[k].saved \in Nat /\ frs[k].sp \in Nat /\ frs[k].sp < top.sp /\ top.sp \in Nat
      <4>1. frs[k] \in NativeFrame /\ top \in NativeFrame
        BY <1>1, <1>2, <1>4, <3>1, SequenceTypes
      <4> QED
        BY <1>2, <1>11, <2>4, <3>1, <4>1 DEF NativeFrame
    <3>3. /\ frs[k].saved <= m
          /\ \A i \in DOMAIN stk : i <= frs[k].saved <=> stk[i].sp <= frs[k].sp
      BY <2>2, <2>4, <3>1 DEF RestoringInv, m
    <3>4. frs[k].saved # m
      <4>1. ~(stk[m].sp <= frs[k].sp)
        BY <1>6, <3>2 DEF TellInv
      <4>2. ~(m <= frs[k].saved)
        BY <1>6, <3>3, <4>1
      <4> QED
        BY <1>3, <4>2
    <3>5. frs[k].saved <= d
      BY <1>3, <1>5, <3>2, <3>3, <3>4
    <3> QED
      BY <1>3, <1>9, <3>1, <3>3, <3>5
  <2>5. \A k \in DOMAIN new : new[k].at # "astray"
    BY <1>2, <2>2 DEF RestoringInv
  <2> QED
    BY <2>3, <2>4, <2>5 DEF RestoringInv, d
<1>18. ThreadInv(new, left, FALSE, restored)
  BY <1>2, <1>12, <1>13, <1>14, <1>15, <1>16, <1>17 DEF ThreadInv
<1> QED
  BY <1>18 DEF new, n

\* A frame returns through a trampoline: to the callbacks of the top entry, if
\* this is its own, or to somewhere else.
LEMMA Leave ==
  ASSUME NEW frs, NEW stk, NEW guarded, NEW restored, ThreadInv(frs, stk, guarded, restored),
         frs # <<>>, NEW top, top = frs[Len(frs)], ~InCallback(top), top.ret # <<>>,
         NEW fr \in NativeFrame, fr.sp = top.sp, fr.running = None, fr.saved = None,
         \/ /\ stk # <<>> /\ stk[Len(stk)].live /\ stk[Len(stk)].sp = top.sp
            /\ fr.at = "leave" /\ fr.ret = SubSeq(top.ret, 1, Len(top.ret) - 1)
            /\ fr.todo \subseteq Due(stk[Len(stk)])
         \/ fr.at = "astray" /\ fr.ret = top.ret /\ fr.todo = {} /\ ~restored
  PROVE  ThreadInv([frs EXCEPT ![Len(frs)] = fr], stk, TRUE, restored)
<1> DEFINE n == Len(frs)
           new == [frs EXCEPT ![n] = fr]
           m == Len(stk)
           own == /\ stk # <<>> /\ stk[Len(stk)].live /\ stk[Len(stk)].sp = top.sp
                  /\ fr.at = "leave" /\ fr.ret = SubSeq(top.ret, 1, Len(top.ret) - 1)
                  /\ fr.todo \subseteq Due(stk[Len(stk)])
           lost == fr.at = "astray" /\ fr.ret = top.ret /\ fr.todo = {} /\ ~restored
<1>1. frs \in Seq(NativeFrame) /\ stk \in Seq(StackEntry)
  BY DEF ThreadInv
<1>2. /\ n \in Nat /\ n # 0 /\ DOMAIN frs = 1 .. n /\ n \in DOMAIN frs
      /\ new \in Seq(NativeFrame) /\ DOMAIN new = 1 .. n
      /\ new[n] = fr /\ \A k \in 1 .. n : k # n => new[k] = frs[k]
  BY <1>1, TopFacts
<1>3. m \in Nat /\ DOMAIN stk = 1 .. m
  BY <1>1, SequenceTypes
<1>4. frs[n] = top
  OBVIOUS
<1>5. own \/ lost
  OBVIOUS
<1>. HIDE DEF new, n, own, lost
<1>6. \A k \in DOMAIN frs : ~InCallback(frs[k])
  BY <1>4, OneCallback DEF n
<1>7. /\ Held(fr) = Held(top) /\ DOMAIN fr.ret \subseteq DOMAIN top.ret
      /\ \A j \in DOMAIN fr.ret : fr.ret[j] = top.ret[j]
  <2>1. top \in NativeFrame
    BY <1>1, <1>2, <1>4, SequenceTypes
  <2>2. /\ top.ret \in Seq(Functions) /\ Len(top.ret) \in Nat /\ Len(top.ret) # 0
        /\ DOMAIN top.ret = 1 .. Len(top.ret) /\ Held(top) = Len(top.ret)
    <3>1. top.ret \in Seq(Functions)
      BY <2>1 DEF NativeFrame
    <3> QED
      BY <2>1, <3>1, FrameTypes, EmptySeq
  <2>3. CASE lost
    <3>1. ~InCallback(fr)
      BY <2>3 DEF lost, InCallback
    <3>2. fr.ret = top.ret
      BY <2>3 DEF lost
    <3> QED
      BY <2>2, <3>1, <3>2, FrameTypes
  <2>4. CASE own
    <3> DEFINE c == Len(top.ret)
    <3>1. fr.ret = SubSeq(top.ret, 1, c - 1) /\ InCallback(fr)
      BY <2>4 DEF own, InCallback
    <3>2. \A j \in 1 .. c - 1 : top.ret[j] \in Functions
      <4>1. \A j \in 1 .. c : top.ret[j] \in Functions
        BY <2>2, ElementOfSeq
      <4> QED
        BY <2>2, <4>1
    <3>3. /\ Len(SubSeq(top.ret, 1, c - 1)) = IF 1 <= c - 1 THEN c - 1 - 1 + 1 ELSE 0
          /\ \A j \in 1 .. c - 1 - 1 + 1 : SubSeq(top.ret, 1, c - 1)[j] = top.ret[1 + j - 1]
      <4>1. c - 1 \in Int /\ 1 \in Int
        BY <2>2
      <4> HIDE DEF c
      <4> QED
        BY <3>2, <4>1, SubSeqProperties
    <3>4. Len(fr.ret) = c - 1 /\ DOMAIN fr.ret = 1 .. c - 1
      <4>1. Len(fr.ret) = c - 1
        BY <2>2, <3>1, <3>3
      <4> QED
        BY <4>1, FrameTypes
    <3>5. Held(fr) = c
      <4>1. Held(fr) = Len(fr.ret) + 1
        BY <3>1, FrameTypes
      <4> QED
        BY <2>2, <3>4, <4>1
    <3>6. \A j \in 1 .. c - 1 : j \in 1 .. c /\ j \in 1 .. c - 1 - 1 + 1 /\ 1 + j - 1 = j
      BY <2>2
    <3>7. \A j \in DOMAIN fr.ret : j \in DOMAIN top.ret /\ fr.ret[j] = top.ret[j]
      BY <2>2, <3>1, <3>3, <3>4, <3>6
    <3> QED
      BY <2>2, <3>5, <3>7
  <2> QED
    BY <1>5, <2>3, <2>4
<1>8. \A k \in 1 .. n : new[k].sp = frs[k].sp /\ Held(new[k]) = Held(frs[k])
  BY <1>2, <1>4, <1>7
<1>9. \A k \in 1 .. n : InCallback(new[k]) => k = n /\ own
  BY <1>2, <1>5, <1>6 DEF lost, InCallback
<1>10. FramesInv(new, TRUE)
  <2>1. FramesInv(frs, guarded)
    BY DEF ThreadInv
  <2>2. \A j, k \in DOMAIN new : j < k => new[j].sp < new[k].sp
    BY <1>2, <1>8, <2>1 DEF FramesInv
  <2>3. \A j, k \in DOMAIN new : InCallback(new[k]) => ~(k < j)
    BY <1>2, <1>9
  <2>4. ASSUME NEW k \in DOMAIN new
        PROVE  /\ new[k].running # None \/ new[k].todo # {} => InCallback(new[k])
               /\ new[k].saved # None => new[k].at \in {"body", "repl"} \/ new[k].running # None
    <3>1. CASE k # n
      BY <1>2, <2>1, <3>1 DEF FramesInv
    <3>2. CASE k = n
      <4>1. fr.todo # {} => InCallback(fr)
        BY <1>5 DEF own, lost, InCallback
      <4> QED
        BY <1>2, <3>2, <4>1
    <3> QED
      BY <3>1, <3>2
  <2> QED
    BY <2>2, <2>3, <2>4 DEF FramesInv
<1>11. StackInv(stk)
  BY DEF ThreadInv
<1>12. LinkInv(new, stk)
  <2>1. LinkInv(frs, stk)
    BY DEF ThreadInv
  <2>2. \A i \in DOMAIN stk : stk[i].live => \E k \in DOMAIN new : new[k].sp = stk[i].sp
    BY <1>2, <1>8, <2>1 DEF LinkInv
  <2>3. ASSUME NEW k \in DOMAIN new PROVE \E b \in 0 .. Len(stk) : Owns(new[k], stk, b)
    <3>1. PICK b \in 0 .. Len(stk) : Owns(frs[k], stk, b)
      BY <1>2, <2>1 DEF LinkInv
    <3>2. CASE k # n
      BY <1>2, <3>1, <3>2
    <3>3. CASE k = n
      <4>1. Owns(fr, stk, b)
        BY <1>2, <1>4, <1>7, <3>1, <3>3 DEF Owns
      <4> QED
        BY <1>2, <3>3, <4>1
    <3> QED
      BY <3>2, <3>3
  <2> QED
    BY <2>2, <2>3 DEF LinkInv
<1>13. CallbackInv(new, stk)
  <2>1. ASSUME NEW k \in DOMAIN new, InCallback(new[k])
        PROVE  stk # <<>> /\ TellInv(new[k], stk[Len(stk)])
    <3>1. k = n /\ own
      BY <1>2, <1>9, <2>1
    <3>2. stk # <<>> /\ TellInv(fr, stk[Len(stk)])
      BY <3>1 DEF own, TellInv
    <3> QED
      BY <1>2, <3>1, <3>2
  <2> QED
    BY <2>1 DEF CallbackInv
<1>14. DueInv(new, stk)
  <2>1. DueInv(frs, stk)
    BY DEF ThreadInv
  <2>2. ~Entering(frs)
    BY <1>6 DEF Entering, InCallback
  <2> QED
    BY <2>1, <2>2 DEF DueInv
<1>15. restored => RestoringInv(new, stk)
  <2>1. SUFFICES ASSUME restored PROVE RestoringInv(new, stk)
    OBVIOUS
  <2>2. RestoringInv(frs, stk)
    BY <2>1 DEF ThreadInv
  <2>3. fr.at = "leave"
    BY <1>5, <2>1 DEF own, lost
  <2> QED
    BY <1>2, <2>2, <2>3 DEF RestoringInv
<1>16. ThreadInv(new, stk, TRUE, restored)
  BY <1>1, <1>2, <1>10, <1>11, <1>12, <1>13, <1>14, <1>15 DEF ThreadInv
<1> QED
  BY <1>16 DEF new, n

-----------------------------------------------------------------------------
(* The actions *)

\* What every step can rely on.
LEMMA StateTypes ==
  ASSUME InvocationInv, NEW t \in Threads
  PROVE  /\ frames \in [Threads -> Seq(NativeFrame)] /\ frames[t] \in Seq(NativeFrame)
         /\ stack \in [Threads -> Seq(StackEntry)] /\ stack[t] \in Seq(StackEntry)
         /\ ThreadInv(frames[t], stack[t], t \in guard, restoring)
         /\ Len(stack[t]) \in Nat /\ DOMAIN stack[t] = 1 .. Len(stack[t])
<1>1. /\ frames \in [Threads -> Seq(NativeFrame)] /\ frames[t] \in Seq(NativeFrame)
      /\ stack \in [Threads -> Seq(StackEntry)] /\ stack[t] \in Seq(StackEntry)
  BY DEF InvocationInv, TypeOK
<1>2. ThreadInv(frames[t], stack[t], t \in guard, restoring)
  BY DEF InvocationInv
<1> QED
  BY <1>1, <1>2, LenProperties

\* The deepest frame of a thread.
LEMMA TopTypes ==
  ASSUME InvocationInv, NEW t \in Threads, frames[t] # <<>>
  PROVE  Top(t) \in NativeFrame /\ Top(t).sp \in Nat /\ Top(t).ret \in Seq(Functions)
<1>1. Len(frames[t]) \in 1 .. Len(frames[t])
  BY StateTypes, LenProperties, EmptySeq
<1>2. Top(t) \in NativeFrame
  BY <1>1, StateTypes, ElementOfSeq DEF Top
<1> QED
  BY <1>2 DEF NativeFrame

-----------------------------------------------------------------------------
(* The usage counters *)

EntriesIn(stks, f) ==
  {e \in UNION {{t} \X DOMAIN stks[t] : t \in Threads} : stks[e[1]][e[2]].fn = f}

\* An entry is given by its thread and its place in the stack.
LEMMA EntriesInMember ==
  ASSUME NEW stks, NEW f, NEW e
  PROVE  e \in EntriesIn(stks, f) <=>
           \E u \in Threads : \E i \in DOMAIN stks[u] : e = <<u, i>> /\ stks[u][i].fn = f
<1>1. ASSUME e \in EntriesIn(stks, f)
      PROVE  \E u \in Threads : \E i \in DOMAIN stks[u] : e = <<u, i>> /\ stks[u][i].fn = f
  <2>1. PICK u \in Threads : e \in {u} \X DOMAIN stks[u]
    BY <1>1 DEF EntriesIn
  <2>2. e = <<u, e[2]>> /\ e[1] = u /\ e[2] \in DOMAIN stks[u]
    BY <2>1
  <2>3. stks[e[1]][e[2]].fn = f
    BY <1>1 DEF EntriesIn
  <2> QED
    BY <2>2, <2>3
<1>2. ASSUME NEW u \in Threads, NEW i \in DOMAIN stks[u], e = <<u, i>>, stks[u][i].fn = f
      PROVE  e \in EntriesIn(stks, f)
  <2>1. e \in {u} \X DOMAIN stks[u] /\ e[1] = u /\ e[2] = i
    BY <1>2
  <2> QED
    BY <1>2, <2>1 DEF EntriesIn
<1> QED
  BY <1>1, <1>2

\* What is counted once the entries of thread t above the n-th are released.
Remaining(t, n, f) == {e \in EntriesOf(f) : e[1] = t => e[2] <= n}

\* Released takes from a counter what is dropped, no more and no less.
LEMMA ReleasedCounts ==
  ASSUME InvocationInv, NEW t \in Threads, NEW n \in 0 .. Len(stack[t]), NEW f \in Functions
  PROVE  /\ IsFiniteSet(Remaining(t, n, f))
         /\ Released(stack[t], n)[f] = Cardinality(Remaining(t, n, f))
<1> DEFINE len == Len(stack[t])
           D == {i \in (n + 1) .. len : stack[t][i].fn = f}
           E == EntriesOf(f)
           P == {<<t, i>> : i \in D}
<1>1. len \in Nat /\ n \in Nat /\ DOMAIN stack[t] = 1 .. len
  BY StateTypes
<1>2. IsFiniteSet(E) /\ counter[f] = Cardinality(E)
  BY DEF InvocationInv, CountInv
<1>3. IsFiniteSet(D)
  <2>1. IsFiniteSet((n + 1) .. len)
    BY <1>1, FS_Interval
  <2>2. D \subseteq (n + 1) .. len
    OBVIOUS
  <2> QED
    BY <2>1, <2>2, FS_Subset
<1>4. IsFiniteSet(P) /\ Cardinality(P) = Cardinality(D)
  <2> DEFINE h == [i \in D |-> <<t, i>>]
  <2>1. h \in Bijection(D, P)
    <3>1. h \in [D -> P]
      OBVIOUS
    <3>2. \A i, j \in D : h[i] = h[j] => i = j
      OBVIOUS
    <3>3. \A p \in P : \E i \in D : h[i] = p
      OBVIOUS
    <3>. HIDE DEF h, D, P
    <3> QED
      BY <3>1, <3>2, <3>3, Fun_IsBij
  <2>2. ExistsBijection(D, P)
    BY <2>1 DEF ExistsBijection
  <2>. HIDE DEF h, D, P
  <2> QED
    BY <1>3, <2>2, FS_Bijection
<1>5. \A e : e \in E <=> \E u \in Threads : \E i \in DOMAIN stack[u] : e = <<u, i>> /\ stack[u][i].fn = f
  BY EntriesInMember DEF EntriesIn, EntriesOf
<1>6. P \subseteq E
  <2>1. \A i \in D : i \in DOMAIN stack[t]
    BY <1>1
  <2> QED
    BY <1>5, <2>1
<1>7. Remaining(t, n, f) = E \ P
  <2>1. ASSUME NEW u \in Threads, NEW i \in DOMAIN stack[u], stack[u][i].fn = f
        PROVE  (u = t => i <= n) <=> <<u, i>> \notin P
    <3>1. u = t => (i \in D <=> ~(i <= n))
      BY <1>1, <2>1
    <3>2. <<u, i>> \in P <=> u = t /\ i \in D
      OBVIOUS
    <3> QED
      BY <3>1, <3>2
  <2>. HIDE DEF P, D, E
  <2>2. \A e \in E : (e[1] = t => e[2] <= n) <=> e \notin P
    BY <1>5, <2>1
  <2> QED
    BY <2>2 DEF Remaining, E
<1>. HIDE DEF E, P
<1>8. IsFiniteSet(E \ P) /\ Cardinality(E \ P) = Cardinality(E) - Cardinality(P)
  <2>1. IsFiniteSet(E \ P) /\ Cardinality(E \ P) = Cardinality(E) - Cardinality(E \cap P)
    BY <1>2, FS_Difference
  <2>2. E \cap P = P
    BY <1>6
  <2> QED
    BY <2>1, <2>2
<1>9. Released(stack[t], n)[f] = counter[f] - Cardinality(D)
  BY DEF Released
<1>. HIDE DEF D
<1> QED
  BY <1>2, <1>4, <1>7, <1>8, <1>9

\* The entries of all threads once those of thread t are stk.
Added(t, n, stk, f) == {<<t, i>> : i \in {j \in (n + 1) .. Len(stk) : stk[j].fn = f}}

\* They are those that remain and those that are added.
LEMMA EntriesAfter ==
  ASSUME InvocationInv, NEW t \in Threads, NEW n \in 0 .. Len(stack[t]),
         NEW stk \in Seq(StackEntry), Len(stk) >= n,
         \A i \in 1 .. n : stk[i].fn = stack[t][i].fn, NEW f \in Functions,
         NEW new, new[t] = stk, \A u \in Threads : u # t => new[u] = stack[u]
  PROVE  EntriesIn(new, f) = Remaining(t, n, f) \cup Added(t, n, stk, f)
<1>1. /\ Len(stk) \in Nat /\ DOMAIN stk = 1 .. Len(stk) /\ n \in Nat
      /\ Len(stack[t]) \in Nat /\ DOMAIN stack[t] = 1 .. Len(stack[t])
  BY StateTypes, LenProperties
<1>2. new[t] = stk /\ \A u \in Threads : u # t => new[u] = stack[u]
  OBVIOUS
<1>3. \A e : e \in EntriesIn(new, f) <=>
               \E u \in Threads : \E i \in DOMAIN new[u] : e = <<u, i>> /\ new[u][i].fn = f
  <2>. TAKE e
  <2> QED
    BY EntriesInMember
<1>4. \A e : e \in EntriesOf(f) <=>
               \E u \in Threads : \E i \in DOMAIN stack[u] : e = <<u, i>> /\ stack[u][i].fn = f
  BY EntriesInMember DEF EntriesIn, EntriesOf
<1>5. ASSUME NEW e \in EntriesIn(new, f) PROVE e \in Remaining(t, n, f) \cup Added(t, n, stk, f)
  <2>1. \E u \in Threads : \E i \in DOMAIN new[u] : e = <<u, i>> /\ new[u][i].fn = f
    BY <1>3, Zenon
  <2>2. PICK u, i : u \in Threads /\ i \in DOMAIN new[u] /\ e = <<u, i>> /\ new[u][i].fn = f
    BY <2>1, Zenon
  <2>3. e[1] = u /\ e[2] = i
    BY <2>2
  <2>4. CASE u # t
    <3>1. e \in EntriesOf(f)
      BY <1>2, <1>4, <2>2, <2>4
    <3> QED
      BY <2>3, <2>4, <3>1 DEF Remaining
  <2>5. CASE u = t /\ i <= n
    <3>1. i \in 1 .. n /\ i \in DOMAIN stack[t] /\ stack[t][i].fn = f
      BY <1>1, <1>2, <2>2, <2>5
    <3>2. e \in EntriesOf(f)
      BY <1>4, <2>2, <2>5, <3>1
    <3> QED
      BY <2>3, <2>5, <3>2 DEF Remaining
  <2>6. CASE u = t /\ ~(i <= n)
    <3>1. i \in (n + 1) .. Len(stk) /\ stk[i].fn = f
      BY <1>1, <1>2, <2>2, <2>6
    <3> QED
      BY <2>2, <2>6, <3>1 DEF Added
  <2> QED
    BY <2>4, <2>5, <2>6
<1>6. ASSUME NEW e \in Remaining(t, n, f) PROVE e \in EntriesIn(new, f)
  <2>1. e \in EntriesOf(f) /\ (e[1] = t => e[2] <= n)
    BY DEF Remaining
  <2>2. PICK u, i : u \in Threads /\ i \in DOMAIN stack[u] /\ e = <<u, i>> /\ stack[u][i].fn = f
    BY <1>4, <2>1
  <2>3. e[1] = u /\ e[2] = i
    BY <2>2
  <2>4. i \in DOMAIN new[u] /\ new[u][i].fn = f
    <3>1. CASE u # t
      BY <1>2, <2>2, <3>1
    <3>2. CASE u = t
      <4>1. i \in 1 .. n /\ i \in 1 .. Len(stk)
        BY <1>1, <2>1, <2>2, <2>3, <3>2
      <4> QED
        BY <1>1, <1>2, <2>2, <3>2, <4>1
    <3> QED
      BY <3>1, <3>2
  <2> QED
    BY <1>3, <2>2, <2>4
<1>7. ASSUME NEW e \in Added(t, n, stk, f) PROVE e \in EntriesIn(new, f)
  <2>1. PICK i \in (n + 1) .. Len(stk) : stk[i].fn = f /\ e = <<t, i>>
    BY DEF Added
  <2>2. i \in DOMAIN new[t] /\ new[t][i].fn = f
    BY <1>1, <1>2, <2>1
  <2> QED
    BY <1>3, <2>1, <2>2
<1> QED
  BY <1>5, <1>6, <1>7

\* ... in terms of a step.
LEMMA EntriesOfAfter ==
  ASSUME InvocationInv, NEW t \in Threads, NEW n \in 0 .. Len(stack[t]),
         NEW stk \in Seq(StackEntry), Len(stk) >= n,
         \A i \in 1 .. n : stk[i].fn = stack[t][i].fn, NEW f \in Functions,
         stack'[t] = stk, \A u \in Threads : u # t => stack'[u] = stack[u]
  PROVE  EntriesOf(f)' = Remaining(t, n, f) \cup Added(t, n, stk, f)
<1>1. \A new : new[t] = stk /\ (\A u \in Threads : u # t => new[u] = stack[u])
                 => EntriesIn(new, f) = Remaining(t, n, f) \cup Added(t, n, stk, f)
  BY EntriesAfter
<1>2. EntriesIn(stack', f) = Remaining(t, n, f) \cup Added(t, n, stk, f)
  BY <1>1, Zenon
<1>3. EntriesOf(f)' = EntriesIn(stack', f)
  BY DEF EntriesOf, EntriesIn
<1> QED
  BY <1>2, <1>3

\* Entries are dropped, and released.
LEMMA CountReleased ==
  ASSUME InvocationInv, NEW t \in Threads, NEW n \in 0 .. Len(stack[t]),
         NEW stk \in Seq(StackEntry), Len(stk) = n,
         \A i \in 1 .. n : stk[i].fn = stack[t][i].fn,
         stack' = [stack EXCEPT ![t] = stk], counter' = Released(stack[t], n)
  PROVE  CountInv' /\ counter' \in [Functions -> Int]
<1>1. n \in Nat /\ Len(stk) >= n /\ (n + 1) .. Len(stk) = {}
  BY StateTypes
<1>2. ASSUME NEW f \in Functions
      PROVE  /\ IsFiniteSet(EntriesOf(f)') /\ counter'[f] = Cardinality(EntriesOf(f)')
             /\ counter'[f] \in Int
  <2>1. EntriesOf(f)' = Remaining(t, n, f) \cup Added(t, n, stk, f)
    <3>1. stack'[t] = stk /\ \A u \in Threads : u # t => stack'[u] = stack[u]
      BY StateTypes
    <3> QED
      BY <1>1, <3>1, EntriesOfAfter
  <2>2. Added(t, n, stk, f) = {}
    BY <1>1 DEF Added
  <2>3. EntriesOf(f)' = Remaining(t, n, f)
    BY <1>1, <2>1, <2>2
  <2>4. /\ IsFiniteSet(Remaining(t, n, f))
        /\ Released(stack[t], n)[f] = Cardinality(Remaining(t, n, f))
    BY ReleasedCounts
  <2>5. Cardinality(Remaining(t, n, f)) \in Nat
    BY <2>4, FS_CardinalityType
  <2> QED
    BY <2>3, <2>4, <2>5
<1>3. counter' = [f \in Functions |-> counter'[f]]
  BY DEF Released
<1>4. CountInv'
  BY <1>2 DEF CountInv
<1>5. \A f \in Functions : counter'[f] \in Int
  BY <1>2
<1> QED
  BY <1>3, <1>4, <1>5

\* ... and then one is pushed.
LEMMA CountPushed ==
  ASSUME InvocationInv, NEW t \in Threads, NEW n \in 0 .. Len(stack[t]),
         NEW stk \in Seq(StackEntry), Len(stk) = n + 1,
         \A i \in 1 .. n : stk[i].fn = stack[t][i].fn,
         NEW g \in Functions, stk[n + 1].fn = g,
         stack' = [stack EXCEPT ![t] = stk],
         counter' = [Released(stack[t], n) EXCEPT ![g] = @ + 1]
  PROVE  CountInv' /\ counter' \in [Functions -> Int]
<1>1. n \in Nat /\ Len(stk) >= n /\ (n + 1) .. Len(stk) = {n + 1}
  BY StateTypes
<1>2. Released(stack[t], n) = [f \in Functions |-> Released(stack[t], n)[f]]
  BY DEF Released
<1>3. ASSUME NEW f \in Functions
      PROVE  /\ IsFiniteSet(EntriesOf(f)') /\ counter'[f] = Cardinality(EntriesOf(f)')
             /\ counter'[f] \in Int
  <2> DEFINE R == Remaining(t, n, f)
  <2>1. EntriesOf(f)' = R \cup Added(t, n, stk, f)
    <3>1. stack'[t] = stk /\ \A u \in Threads : u # t => stack'[u] = stack[u]
      BY StateTypes
    <3>2. Len(stk) >= n
      BY <1>1
    <3>3. EntriesOf(f)' = Remaining(t, n, f) \cup Added(t, n, stk, f)
      BY <3>1, <3>2, EntriesOfAfter
    <3> QED
      BY <3>3
  <2>3. EntriesOf(f)' = IF f = g THEN R \cup {<<t, n + 1>>} ELSE R
    <3>1. {j \in (n + 1) .. Len(stk) : stk[j].fn = f} = IF f = g THEN {n + 1} ELSE {}
      BY <1>1
    <3>2. Added(t, n, stk, f) = IF f = g THEN {<<t, n + 1>>} ELSE {}
      BY <3>1 DEF Added
    <3>. HIDE DEF R
    <3> QED
      BY <2>1, <3>2
  <2>4. IsFiniteSet(R) /\ Released(stack[t], n)[f] = Cardinality(R)
    BY ReleasedCounts
  <2>5. Cardinality(R) \in Nat
    BY <2>4, FS_CardinalityType
  <2>6. <<t, n + 1>> \notin R
    <3>1. <<t, n + 1>>[1] = t /\ <<t, n + 1>>[2] = n + 1
      OBVIOUS
    <3>2. ~(n + 1 <= n)
      BY <1>1
    <3> QED
      BY <3>1, <3>2 DEF Remaining
  <2>7. counter'[f] = IF f = g THEN Released(stack[t], n)[f] + 1 ELSE Released(stack[t], n)[f]
    BY <1>2
  <2>. HIDE DEF R
  <2>8. /\ IsFiniteSet(R \cup {<<t, n + 1>>})
        /\ Cardinality(R \cup {<<t, n + 1>>}) = Cardinality(R) + 1
    BY <2>4, <2>6, FS_AddElement
  <2>9. CASE f = g
    BY <2>3, <2>4, <2>5, <2>7, <2>8, <2>9
  <2>10. CASE f # g
    BY <2>3, <2>4, <2>5, <2>7, <2>10
  <2> QED
    BY <2>9, <2>10
<1>4. counter' = [f \in Functions |-> counter'[f]]
  BY <1>2
<1>5. CountInv'
  BY <1>3 DEF CountInv
<1>6. \A f \in Functions : counter'[f] \in Int
  BY <1>3
<1> QED
  BY <1>4, <1>5, <1>6

\* No entry comes or goes.
LEMMA CountSame ==
  ASSUME InvocationInv, NEW t \in Threads, NEW stk \in Seq(StackEntry),
         Len(stk) = Len(stack[t]), \A i \in 1 .. Len(stk) : stk[i].fn = stack[t][i].fn,
         stack' = [stack EXCEPT ![t] = stk], counter' = counter
  PROVE  CountInv' /\ counter' \in [Functions -> Int]
<1> DEFINE n == Len(stack[t])
<1>1. n \in Nat /\ n \in 0 .. n /\ Len(stk) >= n /\ (n + 1) .. Len(stk) = {}
  BY StateTypes
<1>2. ASSUME NEW f \in Functions PROVE EntriesOf(f)' = EntriesOf(f)
  <2>1. EntriesOf(f)' = Remaining(t, n, f) \cup Added(t, n, stk, f)
    <3>1. stack'[t] = stk /\ \A u \in Threads : u # t => stack'[u] = stack[u]
      BY StateTypes
    <3> QED
      BY <1>1, <3>1, EntriesOfAfter
  <2>2. Added(t, n, stk, f) = {}
    BY <1>1 DEF Added
  <2>3. \A e \in EntriesOf(f) : e[1] = t => e[2] <= n
    <3>1. \A e \in EntriesOf(f) : \E u \in Threads : \E i \in DOMAIN stack[u] :
            e = <<u, i>> /\ stack[u][i].fn = f
      BY EntriesInMember DEF EntriesIn, EntriesOf
    <3>2. \A i \in DOMAIN stack[t] : i <= n
      BY StateTypes
    <3> QED
      BY <3>1, <3>2
  <2>4. Remaining(t, n, f) = EntriesOf(f)
    BY <2>3 DEF Remaining
  <2> QED
    BY <1>1, <2>1, <2>2, <2>4
<1>3. CountInv'
  BY <1>2 DEF InvocationInv, CountInv
<1> QED
  BY <1>3 DEF InvocationInv, TypeOK

CountOK == CountInv /\ counter \in [Functions -> Int]

\* Neither the stacks nor the counters change.
LEMMA CountUntouched ==
  ASSUME InvocationInv, stack' = stack, counter' = counter
  PROVE  CountOK'
<1>1. \A f \in Functions : EntriesOf(f)' = EntriesOf(f)
  BY DEF EntriesOf
<1>2. CountInv'
  BY <1>1 DEF InvocationInv, CountInv
<1>3. counter' \in [Functions -> Int]
  BY DEF InvocationInv, TypeOK
<1> QED
  BY <1>2, <1>3 DEF CountOK

-----------------------------------------------------------------------------
(* The actions *)

\* A step of a thread changes its own frames and its own invocation stack.
ThreadsInv == \A u \in Threads : ThreadInv(frames[u], stack[u], u \in guard, restoring)
ShapeOK ==
  /\ frames \in [Threads -> Seq(NativeFrame)] /\ stack \in [Threads -> Seq(StackEntry)]
  /\ guard \subseteq Threads /\ restoring \in BOOLEAN

\* It leaves the other threads as they are.
LEMMA StepOf ==
  ASSUME InvocationInv, NEW t \in Threads, NEW frs, NEW stk, restoring' = restoring,
         frames' = [frames EXCEPT ![t] = frs], stack' = [stack EXCEPT ![t] = stk],
         guard' \in {guard, guard \cup {t}, guard \ {t}},
         ThreadInv(frs, stk, t \in guard', restoring)
  PROVE  ThreadsInv' /\ ShapeOK'
<1>1. frs \in Seq(NativeFrame) /\ stk \in Seq(StackEntry)
  BY DEF ThreadInv
<1>2. /\ frames' \in [Threads -> Seq(NativeFrame)] /\ frames'[t] = frs
      /\ \A u \in Threads : u # t => frames'[u] = frames[u]
  BY <1>1, StateTypes
<1>3. /\ stack' \in [Threads -> Seq(StackEntry)] /\ stack'[t] = stk
      /\ \A u \in Threads : u # t => stack'[u] = stack[u]
  BY <1>1, StateTypes
<1>4. guard' \subseteq Threads /\ restoring' \in BOOLEAN
  BY DEF InvocationInv, TypeOK
<1>5. ASSUME NEW u \in Threads
      PROVE  ThreadInv(frames'[u], stack'[u], u \in guard', restoring')
  <2>1. CASE u = t
    BY <1>2, <1>3, <2>1
  <2>2. CASE u # t
    <3>1. ThreadInv(frames[u], stack[u], u \in guard, restoring)
      BY DEF InvocationInv
    <3>2. u \in guard' <=> u \in guard
      BY <2>2
    <3>3. frames'[u] = frames[u] /\ stack'[u] = stack[u]
      BY <1>2, <1>3, <2>2
    <3> QED
      BY <3>1, <3>2, <3>3 DEF ThreadInv, FramesInv
  <2> QED
    BY <2>1, <2>2
<1> QED
  BY <1>2, <1>3, <1>4, <1>5 DEF ThreadsInv, ShapeOK

\* The native stack once a function has been entered.
EnteredFrames(t, fr, tail) ==
  IF tail THEN [frames[t] EXCEPT ![Len(frames[t])] = [fr EXCEPT !.ret = Top(t).ret]]
  ELSE Append(frames[t], fr)

\* Entering a function pushes a frame, or replaces the deepest one.
LEMMA EntersOwn ==
  ASSUME InvocationInv, NEW t \in Threads, NEW fr, NEW tail, Enters(t, fr, tail)
  PROVE  frames' = [frames EXCEPT ![t] = EnteredFrames(t, fr, tail)]
BY StateTypes DEF Enters, EnteredFrames

\* A function that nothing is intercepted for is entered.
LEMMA PlainIsEntered ==
  ASSUME InvocationInv, NEW t \in Threads, NEW sp, NEW tail \in BOOLEAN,
         CanCall(t, sp, tail), NEW fr \in NativeFrame, NEW stk,
         ThreadInv(frames[t], stk, t \in guard, restoring),
         fr.at = "body", fr.ret = <<>>, fr.running = None, fr.todo = {}, fr.saved = None,
         fr.sp = sp
  PROVE  ThreadInv(EnteredFrames(t, fr, tail), stk, t \in guard, restoring)
<1>1. CASE tail
  <2>1. frames[t] # <<>> /\ Top(t).running = None /\ sp = Top(t).sp /\ UserCode(t)
    BY <1>1 DEF CanCall
  <2>2. Top(t) \in NativeFrame /\ Top(t).ret \in Seq(Functions)
    BY <2>1, TopTypes
  <2>3. ~InCallback(Top(t))
    BY <2>1 DEF UserCode, InCallback
  <2> DEFINE g == [fr EXCEPT !.ret = Top(t).ret]
  <2>4. /\ g \in NativeFrame /\ g.at = "body" /\ g.ret = Top(t).ret /\ g.running = None
        /\ g.todo = {} /\ g.saved = None /\ g.sp = Top(t).sp
    BY <2>1, <2>2 DEF NativeFrame
  <2>5. EnteredFrames(t, fr, tail) = [frames[t] EXCEPT ![Len(frames[t])] = g]
    BY <1>1 DEF EnteredFrames
  <2>. HIDE DEF g
  <2>6. ThreadInv([frames[t] EXCEPT ![Len(frames[t])] = g], stk, t \in guard, restoring)
    BY <2>1, <2>3, <2>4, ChangeTop DEF Top
  <2> QED
    BY <2>5, <2>6
<1>2. CASE ~tail
  <2>1. sp > Deepest(t)
    BY <1>2 DEF CanCall
  <2>2. frames[t] # <<>> => frames[t][Len(frames[t])].sp < fr.sp
    BY <2>1, TopTypes, ConstantsAssumption DEF Deepest, Top, NativeFrame
  <2>3. ThreadInv(Append(frames[t], fr), stk, t \in guard, restoring)
    BY <2>2, PushPlain
  <2> QED
    BY <1>2, <2>3 DEF EnteredFrames
<1> QED
  BY <1>1, <1>2

\* The frame of a function that nothing is intercepted for.
LEMMA PlainFrameType ==
  ASSUME NEW f \in Functions, NEW sp \in Nat
  PROVE  /\ PlainFrame(f, sp) \in NativeFrame
         /\ PlainFrame(f, sp).at = "body" /\ PlainFrame(f, sp).ret = <<>>
         /\ PlainFrame(f, sp).running = None /\ PlainFrame(f, sp).todo = {}
         /\ PlainFrame(f, sp).saved = None /\ PlainFrame(f, sp).sp = sp
         /\ PlainFrame(f, sp).fn = f
  BY EmptySeq DEF PlainFrame, NativeFrame

\* A call that is not intercepted, or bypassed.
LEMMA CallPlainKeeps ==
  ASSUME InvocationInv, NEW t \in Threads, NEW f \in Functions, NEW sp \in 1 .. MaxSp,
         NEW tail \in BOOLEAN,
         CallPlain(t, f, sp, tail) \/ CallBypassed(t, f, sp, tail)
  PROVE  ThreadsInv' /\ ShapeOK' /\ CountOK'
<1>1. sp \in Nat
  BY ConstantsAssumption
<1>2. PICK fr \in NativeFrame :
        /\ fr.at = "body" /\ fr.ret = <<>> /\ fr.running = None /\ fr.todo = {}
        /\ fr.saved = None /\ fr.sp = sp /\ Enters(t, fr, tail)
  <2>1. CASE CallPlain(t, f, sp, tail)
    BY <1>1, <2>1, PlainFrameType DEF CallPlain
  <2>2. CASE CallBypassed(t, f, sp, tail)
    <3>1. PICK o \in BOOLEAN : o = (t \notin guard)
      OBVIOUS
    <3> DEFINE fr == [PlainFrame(f, sp) EXCEPT !.original = o]
    <3>2. /\ fr \in NativeFrame /\ fr.at = "body" /\ fr.ret = <<>> /\ fr.running = None
          /\ fr.todo = {} /\ fr.saved = None /\ fr.sp = sp
      BY <1>1, EmptySeq DEF PlainFrame, NativeFrame
    <3>3. Enters(t, fr, tail)
      BY <2>2, <3>1 DEF CallBypassed
    <3>. HIDE DEF fr
    <3> QED
      BY <3>2, <3>3
  <2> QED
    BY <2>1, <2>2
<1>3. /\ CanCall(t, sp, tail) /\ stack' = stack /\ guard' = guard /\ restoring' = restoring
      /\ counter' = counter
  BY DEF CallPlain, CallBypassed, settings, GuardOnBypass
<1>4. ThreadInv(frames[t], stack[t], t \in guard, restoring)
  BY StateTypes
<1>5. ThreadInv(EnteredFrames(t, fr, tail), stack[t], t \in guard, restoring)
  BY <1>2, <1>3, <1>4, PlainIsEntered
<1>6. frames' = [frames EXCEPT ![t] = EnteredFrames(t, fr, tail)]
  BY <1>2, EntersOwn
<1>7. stack' = [stack EXCEPT ![t] = stack[t]]
  BY <1>3, StateTypes
<1>. HIDE DEF EnteredFrames
<1>8. ThreadInv(EnteredFrames(t, fr, tail), stack[t], t \in guard', restoring)
  BY <1>3, <1>5
<1>20. ThreadsInv' /\ ShapeOK'
  BY <1>3, <1>6, <1>7, <1>8, StepOf
<1> QED
  BY <1>3, <1>20, CountUntouched

\* Every frame of a thread is above the deepest, or is it.
LEMMA DeepestIsLast ==
  ASSUME InvocationInv, NEW t \in Threads
  PROVE  /\ Len(frames[t]) \in Nat /\ DOMAIN frames[t] = 1 .. Len(frames[t])
         /\ \A k \in DOMAIN frames[t] :
              /\ frames[t][k] \in NativeFrame /\ frames[t][k].sp \in Nat
              /\ frames[t] # <<>> /\ Top(t).sp \in Nat
              /\ k # Len(frames[t]) => frames[t][k].sp < Top(t).sp
<1>1. /\ Len(frames[t]) \in Nat /\ DOMAIN frames[t] = 1 .. Len(frames[t])
      /\ \A k \in DOMAIN frames[t] : frames[t][k] \in NativeFrame
  BY StateTypes, SequenceTypes
<1>2. \A k \in DOMAIN frames[t] : frames[t][k].sp \in Nat
  BY <1>1, FrameTypes
<1>3. \A j, k \in DOMAIN frames[t] : j < k => frames[t][j].sp < frames[t][k].sp
  BY StateTypes DEF ThreadInv, FramesInv
<1>4. ASSUME NEW k \in DOMAIN frames[t]
      PROVE  /\ frames[t] # <<>>
             /\ k # Len(frames[t]) => frames[t][k].sp < Top(t).sp
  <2>1. Len(frames[t]) # 0 /\ Len(frames[t]) \in DOMAIN frames[t]
    BY <1>1
  <2>2. frames[t] # <<>>
    BY <2>1
  <2>3. k # Len(frames[t]) => k < Len(frames[t])
    BY <1>1
  <2> QED
    BY <1>3, <2>1, <2>2, <2>3 DEF Top
<1> QED
  BY <1>1, <1>2, <1>4, TopTypes

\* Reaping by address on entry takes the stale entries of deeper frames only.
LEMMA Reaped ==
  ASSUME InvocationInv, NEW t \in Threads, NEW sp \in Nat, NEW tail \in BOOLEAN,
         CanCall(t, sp, tail), NEW kept, kept = KeptOnEnter(stack[t], sp)
  PROVE  /\ kept \in 0 .. Len(stack[t])
         /\ ThreadInv(frames[t], Kept(stack[t], kept), t \in guard, restoring)
         /\ \A i \in DOMAIN Kept(stack[t], kept) : Kept(stack[t], kept)[i].sp <= sp
<1> DEFINE stk == stack[t]
           left == Kept(stk, kept)
           S == {i \in DOMAIN stk : ~Unwound(stk[i], sp)}
<1>1. /\ stk \in Seq(StackEntry) /\ Len(stk) \in Nat /\ DOMAIN stk = 1 .. Len(stk)
      /\ \A i \in DOMAIN stk : stk[i].sp \in Nat
      /\ ThreadInv(frames[t], stk, t \in guard, restoring)
  BY StateTypes, SequenceTypes
<1>2. /\ kept \in 0 .. Len(stk) /\ (kept # 0 => kept \in S) /\ \A i \in S : i <= kept
  <2>1. S \in SUBSET (1 .. Len(stk)) /\ kept = LastOf(S)
    BY <1>1 DEF KeptOnEnter
  <2> QED
    BY <1>1, <2>1, LastOfIsLast
<1>3. /\ left \in Seq(StackEntry) /\ Len(left) = kept /\ \A i \in 1 .. kept : left[i] = stk[i]
  BY <1>1, <1>2, KeptIsPrefix
<1>4. DOMAIN left = 1 .. kept
  BY <1>3, LenProperties
<1>5. \A i, j \in DOMAIN stk : i < j => stk[i].sp <= stk[j].sp
  BY <1>1 DEF ThreadInv, StackInv
<1>6. ASSUME NEW i \in DOMAIN stk PROVE i <= kept <=> stk[i].sp <= sp
  <2>1. CASE i <= kept
    <3>1. kept \in DOMAIN stk /\ ~(stk[kept].sp > sp) /\ (i = kept \/ i < kept)
      BY <1>1, <1>2, <2>1 DEF Unwound
    <3>2. stk[i].sp <= stk[kept].sp /\ stk[i].sp \in Nat /\ stk[kept].sp \in Nat
      BY <1>1, <1>5, <3>1
    <3> QED
      BY <2>1, <3>1, <3>2
  <2>2. CASE ~(i <= kept)
    <3>1. i \notin S
      BY <1>2, <2>2
    <3>2. stk[i].sp > sp
      BY <3>1 DEF Unwound
    <3> QED
      BY <1>1, <2>2, <3>2
  <2> QED
    BY <2>1, <2>2
<1>7. \A k \in DOMAIN frames[t] : frames[t][k].sp <= sp /\ k <= Len(frames[t])
  <2>1. CASE frames[t] = <<>>
    BY <2>1, DeepestIsLast, EmptySeq
  <2>2. CASE frames[t] # <<>>
    <3>1. Top(t).sp <= sp /\ Top(t).sp \in Nat
      BY <2>2, TopTypes DEF CanCall, Deepest
    <3>2. ASSUME NEW k \in DOMAIN frames[t] PROVE frames[t][k].sp <= sp /\ k <= Len(frames[t])
      <4>1. frames[t][k].sp \in Nat /\ (k # Len(frames[t]) => frames[t][k].sp < Top(t).sp)
        BY DeepestIsLast
      <4>2. k = Len(frames[t]) => frames[t][k].sp = Top(t).sp
        BY DEF Top
      <4>3. frames[t][k].sp <= sp
        BY <3>1, <4>1, <4>2
      <4> QED
        BY <4>3, DeepestIsLast
    <3> QED
      BY <3>2
  <2> QED
    BY <2>1, <2>2
<1>8. \A i \in DOMAIN left : i \in DOMAIN stk /\ left[i] = stk[i] /\ stk[i].sp <= sp
  BY <1>1, <1>2, <1>3, <1>4, <1>6
<1>9. restoring => \A i \in DOMAIN left : left[i].live
  BY <1>1, <1>8 DEF ThreadInv, RestoringInv
<1>10. frames[t] \in Seq(NativeFrame) /\ Len(frames[t]) <= Len(frames[t])
  BY StateTypes, DeepestIsLast
<1>11. /\ \A i \in DOMAIN left : SameEntry(left[i], stk[i])
       /\ \A i \in DOMAIN left : left[i].live <=> stk[i].live /\ stk[i].sp <= sp
       /\ \A i \in DOMAIN stk : stk[i].live /\ stk[i].sp <= sp => i <= Len(left)
       /\ Len(left) <= Len(stk)
  <2>1. Len(left) <= Len(stk)
    BY <1>1, <1>2, <1>3
  <2> QED
    BY <1>3, <1>6, <1>8, <2>1 DEF SameEntry
<1>12. sp \in Int
  OBVIOUS
<1>. HIDE DEF stk, left, S
<1>13. ThreadInv(frames[t], left, t \in guard, restoring)
  BY <1>1, <1>3, <1>7, <1>9, <1>10, <1>11, <1>12, Cut
<1> QED
  BY <1>2, <1>8, <1>13 DEF left, stk

\* What is to be told of the entry, and to whom.
LEMMA NewEntryFacts ==
  ASSUME InvocationInv, NEW t \in Threads, NEW f \in Functions, NEW sp \in Nat
  PROVE  LET e == NewEntry(t, f, sp) IN
         /\ e \in StackEntry
         /\ e.fn = f /\ e.sp = sp /\ e.live /\ e.entered = {}
         /\ e.only <=> e.quiet /\ e.snap \cap Unignorable # {}
         /\ (IF Invokes(t, f) THEN Due(e) ELSE {}) = Target(e)
         /\ Target(e) \subseteq Listeners
<1> DEFINE e == NewEntry(t, f, sp)
<1>1. attached[f] \subseteq Listeners
  BY DEF InvocationInv, TypeOK
<1>2. /\ Quiet(t) \in BOOLEAN /\ OnlyUnignorable(t, f) \in BOOLEAN /\ Traps(t, f) \in BOOLEAN
  BY DEF Quiet, OnlyUnignorable, Traps
<1>3. /\ e.fn = f /\ e.sp = sp /\ e.only = OnlyUnignorable(t, f) /\ e.replacing = FALSE
      /\ e.trap = Traps(t, f) /\ e.snap = attached[f] /\ e.quiet = Quiet(t)
      /\ e.entered = {} /\ e.live = TRUE
  BY DEF NewEntry
<1>4. e \in StackEntry
  BY <1>1, <1>2 DEF NewEntry, StackEntry
<1>5. e.only <=> e.quiet /\ e.snap \cap Unignorable # {}
  BY <1>3 DEF OnlyUnignorable
<1>. HIDE DEF e
<1>6. (IF Invokes(t, f) THEN Due(e) ELSE {}) = Target(e)
  <2>1. CASE Quiet(t) /\ attached[f] \cap Unignorable # {}
    BY <1>3, <2>1 DEF Invokes, Due, Target, OnlyUnignorable
  <2>2. CASE Quiet(t) /\ attached[f] \cap Unignorable = {}
    BY <1>3, <2>2 DEF Invokes, Due, Target, OnlyUnignorable
  <2>3. CASE ~Quiet(t)
    BY <1>3, <2>3 DEF Invokes, Due, Target, OnlyUnignorable
  <2> QED
    BY <2>1, <2>2, <2>3
<1>7. Target(e) \subseteq Listeners
  BY <1>1, <1>3 DEF Target
<1> QED
  BY <1>3, <1>4, <1>5, <1>6, <1>7 DEF e

\* Nothing is intercepted above a callback: the guard is set.
LEMMA UnguardedHasNoCallback ==
  ASSUME InvocationInv, NEW t \in Threads, t \notin guard, NEW k \in DOMAIN frames[t]
  PROVE  ~InCallback(frames[t][k])
<1>1. FramesInv(frames[t], t \in guard)
  BY StateTypes DEF ThreadInv
<1> QED
  BY <1>1 DEF FramesInv

\* A function is entered, and an entry pushed for it.
LEMMA EntryIsPushed ==
  ASSUME InvocationInv, NEW t \in Threads, NEW f \in Functions, NEW sp \in Nat,
         NEW tail \in BOOLEAN, CanCall(t, sp, tail), t \notin guard,
         NEW fr \in NativeFrame, NEW stk, NEW e,
         ThreadInv(frames[t], stk, t \in guard, restoring),
         \A i \in DOMAIN stk : stk[i].sp <= sp,
         e = NewEntry(t, f, sp),
         fr.fn = f, fr.sp = sp, fr.at = "enter", fr.ret = <<>>, fr.running = None,
         fr.saved = None, fr.todo = Target(e)
  PROVE  ThreadInv(EnteredFrames(t, fr, tail), Append(stk, e), TRUE, restoring)
<1>1. /\ e \in StackEntry /\ e.fn = f /\ e.sp = sp /\ e.live /\ e.entered = {}
      /\ e.only <=> e.quiet /\ e.snap \cap Unignorable # {}
  BY NewEntryFacts
<1>2. /\ frames[t] \in Seq(NativeFrame)
      /\ Len(frames[t]) \in Nat /\ DOMAIN frames[t] = 1 .. Len(frames[t])
      /\ \A k \in DOMAIN frames[t] : ~InCallback(frames[t][k])
  BY StateTypes, DeepestIsLast, UnguardedHasNoCallback
<1>3. CASE tail
  <2>1. frames[t] # <<>> /\ sp = Top(t).sp
    BY <1>3 DEF CanCall
  <2>2. Top(t) \in NativeFrame /\ Top(t).ret \in Seq(Functions)
    BY <2>1, TopTypes
  <2> DEFINE g == [fr EXCEPT !.ret = Top(t).ret]
             new == [frames[t] EXCEPT ![Len(frames[t])] = g]
  <2>3. /\ g \in NativeFrame /\ g.at = "enter" /\ g.ret = Top(t).ret /\ g.running = None
        /\ g.todo = Target(e) /\ g.saved = None /\ g.sp = sp /\ g.fn = f
    BY <2>2 DEF NativeFrame
  <2>4. EnteredFrames(t, fr, tail) = new
    BY <1>3 DEF EnteredFrames
  <2>. HIDE DEF g
  <2>5. /\ new \in Seq(NativeFrame) /\ Len(new) = Len(frames[t]) /\ new[Len(frames[t])] = g
        /\ Len(frames[t]) # 0 /\ DOMAIN new = 1 .. Len(frames[t])
        /\ \A k \in 1 .. Len(frames[t]) : k # Len(frames[t]) => new[k] = frames[t][k]
    BY <1>2, <2>1, <2>3, TopFacts
  <2>. HIDE DEF new
  <2>6. new # <<>> /\ new[Len(new)] = g
    BY <2>5, <1>2, EmptySeq
  <2>7. \A k \in 1 .. Len(new) - 1 :
          k \in DOMAIN frames[t] /\ new[k] = frames[t][k] /\ frames[t][k].sp < g.sp
    <3>1. ASSUME NEW k \in 1 .. Len(new) - 1
          PROVE  k \in DOMAIN frames[t] /\ k # Len(frames[t])
      BY <1>2, <2>5
    <3> QED
      BY <1>2, <2>1, <2>3, <2>5, <3>1, DeepestIsLast
  <2>8. \A k \in DOMAIN frames[t] : ~InCallback(frames[t][k]) /\ k <= Len(new)
    BY <1>2, <2>5
  <2>9. Len(new) \in DOMAIN frames[t] =>
          g.sp = frames[t][Len(new)].sp /\ g.ret = frames[t][Len(new)].ret
    BY <2>1, <2>3, <2>5 DEF Top
  <2>10. Len(new) \in DOMAIN frames[t]
    BY <1>2, <2>5
  <2>11. (\A i \in DOMAIN stk : stk[i].sp <= g.sp) /\ e.fn = g.fn /\ e.sp = g.sp
    BY <1>1, <2>3
  <2>12. Len(new) \notin DOMAIN frames[t] => g.ret = <<>>
    BY <2>10
  <2>13. ThreadInv(new, Append(stk, e), TRUE, restoring)
    BY <1>1, <2>3, <2>5, <2>6, <2>7, <2>8, <2>9, <2>11, <2>12, PushEntry
  <2> QED
    BY <2>4, <2>13
<1>4. CASE ~tail
  <2> DEFINE new == Append(frames[t], fr)
             n == Len(frames[t])
  <2>1. EnteredFrames(t, fr, tail) = new
    BY <1>4 DEF EnteredFrames
  <2>2. /\ new \in Seq(NativeFrame) /\ Len(new) = n + 1 /\ new[n + 1] = fr /\ new # <<>>
        /\ \A k \in 1 .. n : new[k] = frames[t][k]
    BY <1>2, AppendProperties
  <2>3. n \in Nat /\ DOMAIN frames[t] = 1 .. n
    BY <1>2
  <2>4. frames[t] # <<>> => Top(t).sp < sp
    BY <1>4 DEF CanCall, Deepest
  <2>5. \A k \in DOMAIN frames[t] : frames[t][k].sp < sp
    <3>1. ASSUME NEW k \in DOMAIN frames[t] PROVE frames[t][k].sp < sp
      <4>1. /\ frames[t] # <<>> /\ frames[t][k].sp \in Nat /\ Top(t).sp \in Nat
            /\ (k # Len(frames[t]) => frames[t][k].sp < Top(t).sp)
        BY DeepestIsLast
      <4>2. k = Len(frames[t]) => frames[t][k].sp = Top(t).sp
        BY DEF Top
      <4> QED
        BY <2>4, <4>1, <4>2
    <3> QED
      BY <3>1
  <2>. HIDE DEF new, n
  <2>6. new[Len(new)] = fr
    BY <2>2
  <2>7. \A k \in 1 .. Len(new) - 1 :
          k \in DOMAIN frames[t] /\ new[k] = frames[t][k] /\ frames[t][k].sp < fr.sp
    BY <2>2, <2>3, <2>5
  <2>8. \A k \in DOMAIN frames[t] : ~InCallback(frames[t][k]) /\ k <= Len(new)
    BY <1>2, <2>2, <2>3
  <2>9. Len(new) \notin DOMAIN frames[t]
    BY <2>2, <2>3
  <2>10. ThreadInv(new, Append(stk, e), TRUE, restoring)
    BY <1>1, <2>2, <2>6, <2>7, <2>8, <2>9, PushEntry
  <2> QED
    BY <2>1, <2>10
<1> QED
  BY <1>3, <1>4

\* begin_invocation: what was left behind is reaped first.
LEMMA CallInterceptedKeeps ==
  ASSUME InvocationInv, NEW t \in Threads, NEW f \in Functions, NEW sp \in 1 .. MaxSp,
         NEW tail \in BOOLEAN, CallIntercepted(t, f, sp, tail)
  PROVE  ThreadsInv' /\ ShapeOK' /\ CountOK'
<1> DEFINE kept == KeptOnEnter(stack[t], sp)
           below == Kept(stack[t], kept)
           e == NewEntry(t, f, sp)
           told == IF Invokes(t, f) THEN Due(e) ELSE {}
           pushed == Traps(t, f) \/ Invokes(t, f)
           fr == [PlainFrame(f, sp) EXCEPT !.at = "enter", !.todo = told]
<1>1. sp \in Nat /\ CanCall(t, sp, tail) /\ t \notin guard /\ restoring' = restoring
  BY ConstantsAssumption DEF CallIntercepted, settings
<1>2. /\ kept \in 0 .. Len(stack[t])
      /\ ThreadInv(frames[t], below, t \in guard, restoring)
      /\ \A i \in DOMAIN below : below[i].sp <= sp
  BY <1>1, Reaped
<1>5. /\ below \in Seq(StackEntry) /\ Len(below) = kept
      /\ \A i \in 1 .. kept : below[i].fn = stack[t][i].fn
  BY <1>2, StateTypes, KeptIsPrefix
<1>3. CASE pushed
  <2>1. told = Target(e) /\ Target(e) \subseteq Listeners
    BY <1>1, NewEntryFacts
  <2>2. /\ fr \in NativeFrame /\ fr.fn = f /\ fr.sp = sp /\ fr.at = "enter" /\ fr.ret = <<>>
        /\ fr.running = None /\ fr.saved = None /\ fr.todo = Target(e)
    BY <1>1, <2>1, EmptySeq DEF NativeFrame, PlainFrame
  <2>3. /\ Enters(t, fr, tail) /\ stack' = [stack EXCEPT ![t] = Append(below, e)]
        /\ guard' = guard \cup {t}
        /\ counter' = [Released(stack[t], kept) EXCEPT ![f] = @ + 1]
    BY <1>3 DEF CallIntercepted
  <2>. HIDE DEF fr, told, kept, below, e
  <2>4. e = NewEntry(t, f, sp)
    BY DEF e
  <2>5. ThreadInv(EnteredFrames(t, fr, tail), Append(below, e), TRUE, restoring)
    BY <1>1, <1>2, <2>2, <2>4, EntryIsPushed
  <2>6. frames' = [frames EXCEPT ![t] = EnteredFrames(t, fr, tail)]
    BY <2>3, EntersOwn
  <2>7. ThreadInv(EnteredFrames(t, fr, tail), Append(below, e), t \in guard', restoring)
    BY <2>3, <2>5 DEF ThreadInv, FramesInv
  <2>8. ThreadsInv' /\ ShapeOK'
    BY <1>1, <2>3, <2>6, <2>7, StepOf
  <2>9. e \in StackEntry /\ e.fn = f
    BY <1>1, <2>4, NewEntryFacts
  <2>10. /\ Append(below, e) \in Seq(StackEntry) /\ Len(Append(below, e)) = kept + 1
         /\ Append(below, e)[kept + 1] = e /\ \A i \in 1 .. kept : Append(below, e)[i] = below[i]
    BY <1>5, <2>9, AppendProperties
  <2>11. /\ \A i \in 1 .. kept : Append(below, e)[i].fn = stack[t][i].fn
         /\ Append(below, e)[kept + 1].fn = f
    BY <1>5, <2>9, <2>10
  <2>12. CountOK'
    BY <1>2, <2>3, <2>10, <2>11, CountPushed DEF CountOK
  <2> QED
    BY <2>8, <2>12
<1>4. CASE ~pushed
  <2>1. /\ Enters(t, PlainFrame(f, sp), tail) /\ stack' = [stack EXCEPT ![t] = below]
        /\ guard' = guard /\ counter' = Released(stack[t], kept)
    BY <1>4 DEF CallIntercepted
  <2>. HIDE DEF fr, told, kept, below, e
  <2>2. ThreadInv(EnteredFrames(t, PlainFrame(f, sp), tail), below, t \in guard, restoring)
    BY <1>1, <1>2, PlainFrameType, PlainIsEntered
  <2>3. frames' = [frames EXCEPT ![t] = EnteredFrames(t, PlainFrame(f, sp), tail)]
    BY <2>1, EntersOwn
  <2>4. ThreadInv(EnteredFrames(t, PlainFrame(f, sp), tail), below, t \in guard', restoring)
    BY <2>1, <2>2
  <2>5. ThreadsInv' /\ ShapeOK'
    BY <1>1, <2>1, <2>3, <2>4, StepOf
  <2>6. CountOK'
    BY <1>2, <1>5, <2>1, CountReleased DEF CountOK
  <2> QED
    BY <2>5, <2>6
<1> QED
  BY <1>3, <1>4

\* The steps that change the deepest frame.
LEMMA SetTopOwn ==
  ASSUME InvocationInv, NEW t \in Threads, NEW fr, SetTop(t, fr)
  PROVE  frames' = [frames EXCEPT ![t] = [frames[t] EXCEPT ![Len(frames[t])] = fr]]
BY StateTypes DEF SetTop

\* A listener is told of the entry or of the return.
LEMMA TellListenerKeeps ==
  ASSUME InvocationInv, NEW t \in Threads, TellListener(t)
  PROVE  ThreadsInv' /\ ShapeOK' /\ CountOK'
<1> DEFINE top == Top(t)
           n == Len(stack[t])
<1>1. /\ frames[t] # <<>> /\ InCallback(top) /\ top.running = None
      /\ guard' = guard /\ restoring' = restoring /\ counter' = counter
  BY DEF TellListener, InCallback, settings
<1>2. PICK l \in top.todo :
        /\ SetTop(t, [top EXCEPT !.running = l, !.todo = @ \ {l}])
        /\ stack' = IF top.at = "leave" THEN stack
                    ELSE [stack EXCEPT ![t][n].entered = @ \cup {l}]
  BY DEF TellListener
<1> DEFINE fr == [top EXCEPT !.running = l, !.todo = @ \ {l}]
           e == [stack[t][n] EXCEPT !.entered = @ \cup {l}]
           left == IF top.at = "leave" THEN stack[t] ELSE [stack[t] EXCEPT ![n] = e]
<1>3. /\ stack[t] \in Seq(StackEntry) /\ n \in Nat /\ DOMAIN stack[t] = 1 .. n
      /\ ThreadInv(frames[t], stack[t], t \in guard, restoring)
  BY StateTypes
<1>4. top \in NativeFrame /\ l \in Listeners
  BY <1>1, TopTypes DEF NativeFrame
<1>5. /\ fr \in NativeFrame /\ fr.sp = top.sp /\ fr.ret = top.ret /\ fr.at = top.at
      /\ fr.fn = top.fn /\ fr.saved = top.saved /\ fr.todo = top.todo \ {l}
  BY <1>4 DEF NativeFrame
<1>6. n # 0
  <2>1. Len(frames[t]) \in DOMAIN frames[t]
    BY <1>1, StateTypes, TopFacts, <1>4
  <2>2. stack[t] # <<>>
    BY <1>1, <1>3, <2>1 DEF ThreadInv, CallbackInv, Top
  <2> QED
    BY <1>3, <2>2, EmptySeq
<1>7. n \in 1 .. n /\ stack[t][n] \in StackEntry
  BY <1>3, <1>6, ElementOfSeq
<1>8. /\ e \in StackEntry /\ e.fn = stack[t][n].fn /\ e.sp = stack[t][n].sp
      /\ e.only = stack[t][n].only /\ e.quiet = stack[t][n].quiet /\ e.snap = stack[t][n].snap
      /\ e.live = stack[t][n].live /\ e.entered = stack[t][n].entered \cup {l}
  BY <1>4, <1>7 DEF StackEntry
<1>9. frames' = [frames EXCEPT ![t] = [frames[t] EXCEPT ![Len(frames[t])] = fr]]
  BY <1>2, SetTopOwn
<1>10. stack' = [stack EXCEPT ![t] = left]
  <2>1. CASE top.at = "leave"
    BY <1>2, <2>1, StateTypes
  <2>2. CASE top.at # "leave"
    BY <1>2, <2>2, StateTypes
  <2> QED
    BY <2>1, <2>2
<1>. HIDE DEF fr, e
<1>11. /\ left \in Seq(StackEntry) /\ Len(left) = n
       /\ left[n] = (IF top.at = "leave" THEN stack[t][n] ELSE e)
       /\ \A i \in DOMAIN stack[t] : i # n => left[i] = stack[t][i]
  <2>1. CASE top.at = "leave"
    BY <1>3, <2>1
  <2>2. CASE top.at # "leave"
    <3>1. left = [stack[t] EXCEPT ![n] = e]
      BY <2>2
    <3>2. /\ left \in Seq(StackEntry) /\ Len(left) = n
          /\ \A i \in 1 .. n : left[i] = IF i = n THEN e ELSE stack[t][i]
      BY <1>3, <1>7, <1>8, <3>1, ExceptSeq
    <3> QED
      BY <1>3, <1>7, <2>2, <3>2
  <2> QED
    BY <2>1, <2>2
<1>. HIDE DEF left
<1>12. ToldEntry(left[n], stack[t][n], top.at, l)
  BY <1>8, <1>11 DEF ToldEntry
<1>13. top = frames[t][Len(frames[t])]
  BY DEF Top
<1>. HIDE DEF top
<1>14. ThreadInv([frames[t] EXCEPT ![Len(frames[t])] = fr], left, t \in guard, restoring)
  BY <1>1, <1>3, <1>5, <1>11, <1>12, <1>13, Tell
<1>15. ThreadInv([frames[t] EXCEPT ![Len(frames[t])] = fr], left, t \in guard', restoring)
  BY <1>1, <1>14
<1>20. ThreadsInv' /\ ShapeOK'
  BY <1>1, <1>9, <1>10, <1>15, StepOf
<1>21. \A i \in 1 .. Len(left) : left[i].fn = stack[t][i].fn
  BY <1>3, <1>11, <1>12 DEF ToldEntry
<1>22. CountOK'
  BY <1>1, <1>10, <1>11, <1>21, CountSame DEF CountOK
<1> QED
  BY <1>20, <1>22

\* A callback ends; a frame saves the depth of its thread's stack.
LEMMA TopStateKeeps ==
  ASSUME InvocationInv, NEW t \in Threads, ListenerReturns(t) \/ Save(t)
  PROVE  ThreadsInv' /\ ShapeOK' /\ CountOK'
<1> DEFINE top == Top(t)
<1>1. /\ frames[t] # <<>> /\ stack' = stack /\ guard' = guard /\ restoring' = restoring
      /\ counter' = counter
  BY DEF ListenerReturns, Save, settings
<1>2. top \in NativeFrame /\ top = frames[t][Len(frames[t])]
  BY <1>1, TopTypes DEF Top
<1>3. ThreadInv(frames[t], stack[t], t \in guard, restoring) /\ Len(stack[t]) \in Nat
  BY StateTypes
<1>4. top.running # None => InCallback(top)
  <2>1. Len(frames[t]) \in DOMAIN frames[t]
    BY <1>1, <1>2, StateTypes, TopFacts
  <2> QED
    BY <1>2, <1>3, <2>1 DEF ThreadInv, FramesInv
<1>5. PICK fr \in NativeFrame :
        /\ SetTop(t, fr) /\ fr.sp = top.sp /\ fr.ret = top.ret /\ fr.at = top.at
        /\ fr.fn = top.fn /\ fr.todo = top.todo
        /\ fr.running # None => InCallback(fr)
        /\ fr.saved # None => fr.at \in {"body", "repl"} \/ fr.running # None
        /\ fr.saved # None => fr.saved = Len(stack[t])
  <2>1. CASE ListenerReturns(t)
    <3> DEFINE fr == [top EXCEPT !.running = None, !.saved = None]
    <3>1. /\ fr \in NativeFrame /\ fr.sp = top.sp /\ fr.ret = top.ret /\ fr.at = top.at
          /\ fr.fn = top.fn /\ fr.todo = top.todo /\ fr.running = None /\ fr.saved = None
      BY <1>2 DEF NativeFrame
    <3>2. SetTop(t, fr)
      BY <2>1 DEF ListenerReturns
    <3>. HIDE DEF fr
    <3> QED
      BY <3>1, <3>2
  <2>2. CASE Save(t)
    <3> DEFINE fr == [top EXCEPT !.saved = Len(stack[t])]
    <3>1. /\ fr \in NativeFrame /\ fr.sp = top.sp /\ fr.ret = top.ret /\ fr.at = top.at
          /\ fr.fn = top.fn /\ fr.todo = top.todo /\ fr.running = top.running
          /\ fr.saved = Len(stack[t])
      BY <1>2, <1>3 DEF NativeFrame
    <3>2. SetTop(t, fr) /\ (top.at \in {"body", "repl"} \/ top.running # None)
      BY <1>1, <2>2 DEF Save, UserCode
    <3>. HIDE DEF fr, top
    <3> QED
      BY <1>4, <3>1, <3>2 DEF InCallback
  <2> QED
    BY <2>1, <2>2
<1>. HIDE DEF top
<1>6. ThreadInv([frames[t] EXCEPT ![Len(frames[t])] = fr], stack[t], t \in guard, restoring)
  BY <1>1, <1>2, <1>3, <1>5, ChangeTop
<1>7. frames' = [frames EXCEPT ![t] = [frames[t] EXCEPT ![Len(frames[t])] = fr]]
  BY <1>5, SetTopOwn
<1>8. stack' = [stack EXCEPT ![t] = stack[t]]
  BY <1>1, StateTypes
<1>9. ThreadInv([frames[t] EXCEPT ![Len(frames[t])] = fr], stack[t], t \in guard', restoring)
  BY <1>1, <1>6
<1>20. ThreadsInv' /\ ShapeOK'
  BY <1>1, <1>7, <1>8, <1>9, StepOf
<1> QED
  BY <1>1, <1>20, CountUntouched

\* The entry of the callback that a thread is in.
LEMMA TopEntryFacts ==
  ASSUME InvocationInv, NEW t \in Threads, frames[t] # <<>>, InCallback(Top(t))
  PROVE  /\ Len(stack[t]) \in 1 .. Len(stack[t]) /\ TopEntry(t) \in StackEntry
         /\ TellInv(Top(t), TopEntry(t))
<1>1. Len(frames[t]) \in DOMAIN frames[t]
  BY StateTypes, TopTypes, TopFacts
<1>2. stack[t] # <<>> /\ TellInv(Top(t), TopEntry(t))
  BY <1>1, StateTypes DEF ThreadInv, CallbackInv, Top, TopEntry
<1>3. Len(stack[t]) \in 1 .. Len(stack[t])
  BY <1>2, StateTypes, EmptySeq
<1>4. TopEntry(t) \in StackEntry
  BY <1>3, StateTypes, ElementOfSeq DEF TopEntry
<1> QED
  BY <1>2, <1>3, <1>4

\* The top entry is popped.
LEMMA TopIsPopped ==
  ASSUME InvocationInv, NEW t \in Threads, Len(stack[t]) \in 1 .. Len(stack[t]),
         NEW left, left = Kept(stack[t], Len(stack[t]) - 1)
  PROVE  /\ left \in Seq(StackEntry) /\ Len(left) = Len(stack[t]) - 1
         /\ Len(left) # Len(stack[t])
         /\ \A i \in DOMAIN left : i \in DOMAIN stack[t] /\ left[i] = stack[t][i]
<1> DEFINE n == Len(stack[t])
<1>1. stack[t] \in Seq(StackEntry) /\ n \in Nat /\ DOMAIN stack[t] = 1 .. n
  BY StateTypes
<1>2. n - 1 \in 0 .. n
  BY <1>1
<1>3. /\ left \in Seq(StackEntry) /\ Len(left) = n - 1
      /\ \A i \in 1 .. n - 1 : left[i] = stack[t][i]
  BY <1>1, <1>2, KeptIsPrefix
<1>4. DOMAIN left = 1 .. n - 1
  BY <1>3, LenProperties
<1>. HIDE DEF n
<1>5. n - 1 # n /\ \A i \in 1 .. n - 1 : i \in 1 .. n
  BY <1>1
<1> QED
  BY <1>1, <1>3, <1>4, <1>5 DEF n

\* begin_invocation ends: the return address is taken, or the entry popped.
LEMMA EnterDoneKeeps ==
  ASSUME InvocationInv, NEW t \in Threads, EnterDone(t)
  PROVE  ThreadsInv' /\ ShapeOK' /\ CountOK'
<1> DEFINE top == Top(t)
           n == Len(stack[t])
           trap == TopEntry(t).trap
           o == top.fn \in Replaced
           e == [stack[t][n] EXCEPT !.replacing = o]
           left == IF trap THEN [stack[t] EXCEPT ![n] = e] ELSE Kept(stack[t], n - 1)
           fr == [top EXCEPT !.at = IF top.fn \in Replaced THEN "repl" ELSE "body",
                             !.ret = IF trap THEN Append(@, top.fn) ELSE @]
<1>1. /\ frames[t] # <<>> /\ top.at = "enter" /\ top.running = None /\ top.todo = {}
      /\ guard' = guard \ {t} /\ restoring' = restoring /\ SetTop(t, fr)
      /\ counter' = IF trap THEN counter ELSE Released(stack[t], n - 1)
  BY DEF EnterDone, settings
<1>2. InCallback(top) /\ top \in NativeFrame /\ top.ret \in Seq(Functions)
  BY <1>1, TopTypes DEF InCallback
<1>3. /\ n \in 1 .. n /\ stack[t][n] \in StackEntry /\ stack[t][n].fn = top.fn
      /\ stack[t][n].trap = trap
  BY <1>1, <1>2, TopEntryFacts DEF TellInv, TopEntry
<1>4. top.saved = None
  <2>1. Len(frames[t]) \in DOMAIN frames[t]
    BY <1>1, <1>2, StateTypes, TopFacts
  <2>2. top.saved # None => top.at \in {"body", "repl"} \/ top.running # None
    BY <2>1, StateTypes DEF ThreadInv, FramesInv, Top
  <2> QED
    BY <1>1, <2>2
<1>5. top.fn \in Functions /\ Append(top.ret, top.fn) \in Seq(Functions)
  <2>1. top.fn \in Functions
    BY <1>2 DEF NativeFrame
  <2> QED
    BY <1>2, <2>1, AppendProperties
<1>6. /\ fr \in NativeFrame /\ fr.sp = top.sp /\ fr.at \in {"body", "repl", "returning"}
      /\ fr.running = None /\ fr.todo = {} /\ fr.saved = None
      /\ fr.ret = IF trap THEN Append(top.ret, top.fn) ELSE top.ret
  BY <1>1, <1>2, <1>4, <1>5 DEF NativeFrame
<1>7. stack' = [stack EXCEPT ![t] = left]
  <2>1. stack' = [stack EXCEPT ![t] = IF trap THEN [@ EXCEPT ![n].replacing = top.fn \in Replaced]
                                      ELSE Kept(@, n - 1)]
    BY DEF EnterDone
  <2>2. CASE trap
    BY <2>1, <2>2, StateTypes
  <2>3. CASE ~trap
    BY <2>1, <2>3, StateTypes
  <2> QED
    BY <2>2, <2>3
<1>8. o \in BOOLEAN
  OBVIOUS
<1>9. frames' = [frames EXCEPT ![t] = [frames[t] EXCEPT ![Len(frames[t])] = fr]]
  BY <1>1, SetTopOwn
<1>. HIDE DEF fr, o
<1>10. e \in StackEntry /\ SameEntry(e, stack[t][n]) /\ e.live = stack[t][n].live
  BY <1>3, <1>8 DEF StackEntry, SameEntry
<1>. HIDE DEF e
<1>11. /\ left \in Seq(StackEntry)
       /\ \A i \in DOMAIN left : SameEntry(left[i], stack[t][i]) /\ left[i].live = stack[t][i].live
       /\ Len(left) = n \/ Len(left) = n - 1
       /\ Len(left) = n => fr.ret = Append(top.ret, stack[t][n].fn)
       /\ Len(left) # n => fr.ret = top.ret
       /\ (trap => Len(left) = n) /\ (~trap => Len(left) = n - 1)
  <2>1. stack[t] \in Seq(StackEntry) /\ DOMAIN stack[t] = 1 .. n
    BY StateTypes
  <2>2. CASE trap
    <3>1. left = [stack[t] EXCEPT ![n] = e]
      BY <2>2
    <3>2. /\ left \in Seq(StackEntry) /\ Len(left) = n
          /\ \A i \in 1 .. n : left[i] = IF i = n THEN e ELSE stack[t][i]
      BY <1>3, <1>10, <2>1, <3>1, ExceptSeq
    <3>3. DOMAIN left = 1 .. n
      BY <3>2, LenProperties
    <3>. HIDE DEF left
    <3>4. \A i \in DOMAIN left : SameEntry(left[i], stack[t][i]) /\ left[i].live = stack[t][i].live
      BY <1>10, <3>2, <3>3 DEF SameEntry
    <3> QED
      BY <1>3, <1>6, <2>2, <3>2, <3>4
  <2>3. CASE ~trap
    <3>1. left = Kept(stack[t], n - 1)
      BY <2>3
    <3>. HIDE DEF left
    <3>2. /\ left \in Seq(StackEntry) /\ Len(left) = n - 1 /\ Len(left) # n
          /\ \A i \in DOMAIN left : i \in DOMAIN stack[t] /\ left[i] = stack[t][i]
      BY <1>3, <3>1, TopIsPopped
    <3> QED
      BY <1>6, <2>3, <3>2 DEF SameEntry
  <2> QED
    BY <2>2, <2>3
<1>12. ThreadInv(frames[t], stack[t], t \in guard, restoring) /\ top = frames[t][Len(frames[t])]
  BY StateTypes DEF Top
<1>. HIDE DEF left, top
<1>13. ThreadInv([frames[t] EXCEPT ![Len(frames[t])] = fr], left, FALSE, restoring)
  <2>1. PICK x \in NativeFrame, l \in Seq(StackEntry) : x = fr /\ l = left
    BY <1>6, <1>11
  <2>t. PICK tp : tp = top
    OBVIOUS
  <2>2. /\ frames[t] # <<>> /\ tp = frames[t][Len(frames[t])]
        /\ InCallback(tp) /\ tp.running = None /\ tp.todo = {}
    BY <1>1, <1>2, <1>12, <2>1, <2>t
  <2>3. /\ x.sp = tp.sp /\ x.at \in {"body", "repl", "returning"}
        /\ x.running = None /\ x.todo = {} /\ x.saved = None
    BY <1>6, <2>1, <2>t
  <2>4. /\ \A i \in DOMAIN l : SameEntry(l[i], stack[t][i]) /\ l[i].live = stack[t][i].live
        /\ Len(l) = Len(stack[t]) \/ Len(l) = Len(stack[t]) - 1
        /\ Len(l) = Len(stack[t]) => x.ret = Append(tp.ret, stack[t][Len(stack[t])].fn)
        /\ Len(l) # Len(stack[t]) => x.ret = tp.ret
    BY <1>11, <2>1, <2>t
  <2>5. PICK frs, stk, g, r : frs = frames[t] /\ stk = stack[t] /\ g = (t \in guard) /\ r = restoring
    OBVIOUS
  <2>6. ThreadInv(frs, stk, g, r) /\ frs # <<>> /\ tp = frs[Len(frs)]
    BY <1>12, <2>2, <2>5
  <2>7. /\ \A i \in DOMAIN l : SameEntry(l[i], stk[i]) /\ l[i].live = stk[i].live
        /\ Len(l) = Len(stk) \/ Len(l) = Len(stk) - 1
        /\ Len(l) = Len(stk) => x.ret = Append(tp.ret, stk[Len(stk)].fn)
        /\ Len(l) # Len(stk) => x.ret = tp.ret
    BY <2>4, <2>5
  <2>8. ThreadInv([frs EXCEPT ![Len(frs)] = x], l, FALSE, r)
    BY <2>2, <2>3, <2>6, <2>7, Settle
  <2> QED
    BY <2>1, <2>t, <2>5, <2>8
<1>14. ThreadInv([frames[t] EXCEPT ![Len(frames[t])] = fr], left, t \in guard', restoring)
  BY <1>1, <1>13 DEF ThreadInv, FramesInv
<1>20. ThreadsInv' /\ ShapeOK'
  BY <1>1, <1>7, <1>9, <1>14, StepOf
<1>21. \A i \in 1 .. Len(left) : left[i].fn = stack[t][i].fn
  <2>1. DOMAIN left = 1 .. Len(left)
    BY <1>11, LenProperties
  <2> QED
    BY <1>11, <2>1 DEF SameEntry
<1>22. CASE trap
  BY <1>1, <1>7, <1>11, <1>20, <1>21, <1>22, CountSame DEF CountOK
<1>23. CASE ~trap
  <2>1. n - 1 \in 0 .. n /\ Len(left) = n - 1 /\ counter' = Released(stack[t], n - 1)
    BY <1>1, <1>3, <1>11, <1>23
  <2>2. \A i \in 1 .. n - 1 : left[i].fn = stack[t][i].fn
    BY <1>21, <2>1
  <2>. HIDE DEF n
  <2>3. CountOK'
    BY <1>7, <1>11, <2>1, <2>2, CountReleased DEF CountOK, n
  <2> QED
    BY <1>20, <2>3
<1> QED
  BY <1>22, <1>23

\* end_invocation ends: the entry is popped.
LEMMA LeaveDoneKeeps ==
  ASSUME InvocationInv, NEW t \in Threads, LeaveDone(t)
  PROVE  ThreadsInv' /\ ShapeOK' /\ CountOK'
<1> DEFINE top == Top(t)
           n == Len(stack[t])
           left == Kept(stack[t], n - 1)
           fr == [top EXCEPT !.at = "returning"]
<1>1. /\ frames[t] # <<>> /\ top.at = "leave" /\ top.running = None /\ top.todo = {}
      /\ guard' = guard \ {t} /\ restoring' = restoring /\ SetTop(t, fr)
      /\ counter' = Released(stack[t], n - 1)
  BY DEF LeaveDone, settings
<1>2. InCallback(top) /\ top \in NativeFrame
  BY <1>1, TopTypes DEF InCallback
<1>3. n \in 1 .. n
  BY <1>1, <1>2, TopEntryFacts
<1>4. top.saved = None
  <2>1. Len(frames[t]) \in DOMAIN frames[t]
    BY <1>1, <1>2, StateTypes, TopFacts
  <2>2. top.saved # None => top.at \in {"body", "repl"} \/ top.running # None
    BY <2>1, StateTypes DEF ThreadInv, FramesInv, Top
  <2> QED
    BY <1>1, <2>2
<1>5. /\ fr \in NativeFrame /\ fr.sp = top.sp /\ fr.at \in {"body", "repl", "returning"}
      /\ fr.running = None /\ fr.todo = {} /\ fr.saved = None /\ fr.ret = top.ret
  BY <1>1, <1>2, <1>4 DEF NativeFrame
<1>6. stack' = [stack EXCEPT ![t] = left]
  BY StateTypes DEF LeaveDone
<1>7. frames' = [frames EXCEPT ![t] = [frames[t] EXCEPT ![Len(frames[t])] = fr]]
  BY <1>1, SetTopOwn
<1>. HIDE DEF fr, left
<1>8. /\ left \in Seq(StackEntry) /\ Len(left) = n - 1 /\ Len(left) # n
      /\ \A i \in DOMAIN left : i \in DOMAIN stack[t] /\ left[i] = stack[t][i]
  BY <1>3, TopIsPopped DEF left
<1>9. \A i \in DOMAIN left : SameEntry(left[i], stack[t][i]) /\ left[i].live = stack[t][i].live
  BY <1>8 DEF SameEntry
<1>10. ThreadInv(frames[t], stack[t], t \in guard, restoring) /\ top = frames[t][Len(frames[t])]
  BY StateTypes DEF Top
<1>. HIDE DEF top
<1>11. ThreadInv([frames[t] EXCEPT ![Len(frames[t])] = fr], left, FALSE, restoring)
  <2>1. Len(left) = n \/ Len(left) = n - 1
    BY <1>8
  <2>2. Len(left) = n => fr.ret = Append(top.ret, stack[t][n].fn)
    BY <1>8
  <2>3. Len(left) # n => fr.ret = top.ret
    BY <1>5
  <2>4. PICK x \in NativeFrame, l \in Seq(StackEntry) : x = fr /\ l = left
    BY <1>5, <1>8
  <2>t. PICK tp : tp = top
    OBVIOUS
  <2>5. /\ frames[t] # <<>> /\ tp = frames[t][Len(frames[t])]
        /\ InCallback(tp) /\ tp.running = None /\ tp.todo = {}
    BY <1>1, <1>2, <1>10, <2>4, <2>t
  <2>6. /\ x.sp = tp.sp /\ x.at \in {"body", "repl", "returning"}
        /\ x.running = None /\ x.todo = {} /\ x.saved = None
    BY <1>5, <2>4, <2>t
  <2>7. /\ \A i \in DOMAIN l : SameEntry(l[i], stack[t][i]) /\ l[i].live = stack[t][i].live
        /\ Len(l) = Len(stack[t]) \/ Len(l) = Len(stack[t]) - 1
        /\ Len(l) = Len(stack[t]) => x.ret = Append(tp.ret, stack[t][Len(stack[t])].fn)
        /\ Len(l) # Len(stack[t]) => x.ret = tp.ret
    BY <1>9, <2>1, <2>2, <2>3, <2>4, <2>t
  <2>8. PICK frs, stk, g, r : frs = frames[t] /\ stk = stack[t] /\ g = (t \in guard) /\ r = restoring
    OBVIOUS
  <2>9. ThreadInv(frs, stk, g, r) /\ frs # <<>> /\ tp = frs[Len(frs)]
    BY <1>10, <2>5, <2>8
  <2>10. /\ \A i \in DOMAIN l : SameEntry(l[i], stk[i]) /\ l[i].live = stk[i].live
         /\ Len(l) = Len(stk) \/ Len(l) = Len(stk) - 1
         /\ Len(l) = Len(stk) => x.ret = Append(tp.ret, stk[Len(stk)].fn)
         /\ Len(l) # Len(stk) => x.ret = tp.ret
    BY <2>7, <2>8
  <2>11. ThreadInv([frs EXCEPT ![Len(frs)] = x], l, FALSE, r)
    BY <2>5, <2>6, <2>9, <2>10, Settle
  <2> QED
    BY <2>4, <2>t, <2>8, <2>11
<1>12. ThreadInv([frames[t] EXCEPT ![Len(frames[t])] = fr], left, t \in guard', restoring)
  BY <1>1, <1>11 DEF ThreadInv, FramesInv
<1>20. ThreadsInv' /\ ShapeOK'
  BY <1>1, <1>6, <1>7, <1>12, StepOf
<1>21. n - 1 \in 0 .. n
  BY <1>3
<1>22. \A i \in 1 .. n - 1 : left[i].fn = stack[t][i].fn
  <2>1. DOMAIN left = 1 .. n - 1
    BY <1>8, LenProperties
  <2> QED
    BY <1>8, <2>1
<1>23. CountOK'
  BY <1>1, <1>6, <1>8, <1>21, <1>22, CountReleased DEF CountOK
<1> QED
  BY <1>20, <1>23

\* What a frame that runs neither of its callbacks holds.
LEMMA QuietTopFacts ==
  ASSUME InvocationInv, NEW t \in Threads, frames[t] # <<>>, ~InCallback(Top(t))
  PROVE  /\ Top(t).running = None /\ Top(t).todo = {}
         /\ Len(frames[t]) \in DOMAIN frames[t]
         /\ \E b \in 0 .. Len(stack[t]) : Owns(Top(t), stack[t], b)
<1>1. Len(frames[t]) \in DOMAIN frames[t]
  BY StateTypes, TopTypes, TopFacts
<1>2. FramesInv(frames[t], t \in guard) /\ LinkInv(frames[t], stack[t])
  BY StateTypes DEF ThreadInv
<1>3. Top(t).running = None /\ Top(t).todo = {}
  BY <1>1, <1>2 DEF FramesInv, Top
<1>4. \E b \in 0 .. Len(stack[t]) : Owns(Top(t), stack[t], b)
  BY <1>1, <1>2 DEF LinkInv, Top
<1> QED
  BY <1>1, <1>3, <1>4

\* Dropping frames from the top of the native stack.
LEMMA ShorterIsPrefix ==
  ASSUME NEW frs \in Seq(NativeFrame), NEW k \in 0 .. Len(frs)
  PROVE  /\ SubSeq(frs, 1, k) \in Seq(NativeFrame) /\ Len(SubSeq(frs, 1, k)) = k
         /\ \A j \in 1 .. k : SubSeq(frs, 1, k)[j] = frs[j]
<1>1. \A j \in 1 .. k : frs[j] \in NativeFrame
  BY ElementOfSeq
<1> QED
  BY <1>1, SubSeqProperties

\* A function returns that no trampoline is on the return path of.
LEMMA ReturnKeeps ==
  ASSUME InvocationInv, NEW t \in Threads, Return(t)
  PROVE  ThreadsInv' /\ ShapeOK' /\ CountOK'
<1> DEFINE frs == frames[t]
           stk == stack[t]
           n == Len(frs)
           new == SubSeq(frs, 1, n - 1)
           top == Top(t)
           limit == top.sp - 1
<1>1. /\ frs # <<>> /\ top.at \in {"body", "returning"} /\ top.ret = <<>>
      /\ stack' = stack /\ guard' = guard /\ restoring' = restoring /\ counter' = counter
      /\ frames' = [frames EXCEPT ![t] = SubSeq(@, 1, Len(@) - 1)]
  BY DEF Return, settings
<1>2. ~InCallback(top) /\ top \in NativeFrame /\ top.sp \in Nat
  BY <1>1, TopTypes DEF InCallback
<1>3. /\ frs \in Seq(NativeFrame) /\ n \in Nat /\ DOMAIN frs = 1 .. n /\ n \in DOMAIN frs
      /\ stk \in Seq(StackEntry) /\ Len(stk) \in Nat /\ DOMAIN stk = 1 .. Len(stk)
      /\ ThreadInv(frs, stk, t \in guard, restoring)
      /\ \A i \in DOMAIN stk : stk[i].sp \in Nat
  BY <1>1, <1>2, StateTypes, QuietTopFacts, SequenceTypes
<1>4. frames' = [frames EXCEPT ![t] = new] /\ stack' = [stack EXCEPT ![t] = stk]
  BY <1>1, StateTypes
<1>5. n \in Nat /\ n >= 1 /\ n - 1 \in 0 .. n
  BY <1>3
<1>6. new \in Seq(NativeFrame) /\ Len(new) = n - 1 /\ \A j \in 1 .. n - 1 : new[j] = frs[j]
  BY <1>3, <1>5, ShorterIsPrefix
<1>7. \A k \in DOMAIN frs : frs[k].sp \in Nat /\ (k # n => frs[k].sp < top.sp)
  BY DeepestIsLast
<1>8. frs[n] = top
  BY DEF Top
<1>9. ASSUME NEW i \in DOMAIN stk, stk[i].live PROVE stk[i].sp <= limit
  <2>1. PICK b \in 0 .. Len(stk) : Owns(top, stk, b)
    BY <1>1, <1>2, QuietTopFacts
  <2>2. Held(top) = 0
    BY <1>1, <1>2, FrameTypes, EmptySeq
  <2>3. stk[i].sp # top.sp
    <3>1. stk[i].sp = top.sp => b < i /\ i <= b + 0
      BY <1>9, <2>1, <2>2 DEF Owns
    <3> QED
      BY <1>3, <3>1
  <2>4. stk[i].sp <= frs[n].sp
    BY <1>3, <1>9, LiveEntries
  <2> QED
    BY <1>2, <1>3, <1>8, <2>3, <2>4
<1>. HIDE DEF n, new, top
<1>10. \A k \in DOMAIN frs :
         IF k <= Len(new) THEN frs[k].sp <= limit /\ new[k] = frs[k] ELSE frs[k].sp > limit
  <2>1. ASSUME NEW k \in DOMAIN frs, k <= Len(new)
        PROVE  frs[k].sp <= limit /\ new[k] = frs[k]
    <3>1. k \in 1 .. n - 1 /\ k # n
      BY <1>3, <1>5, <1>6, <2>1
    <3>2. frs[k].sp <= limit
      BY <1>2, <1>7, <3>1
    <3> QED
      BY <1>6, <3>1, <3>2
  <2>2. ASSUME NEW k \in DOMAIN frs, ~(k <= Len(new)) PROVE frs[k].sp > limit
    <3>1. k = n
      BY <1>3, <1>5, <1>6, <2>2
    <3> QED
      BY <1>2, <1>8, <3>1
  <2> QED
    BY <2>1, <2>2
<1>11. /\ \A i \in DOMAIN stk : SameEntry(stk[i], stk[i])
       /\ \A i \in DOMAIN stk : stk[i].live <=> stk[i].live /\ stk[i].sp <= limit
       /\ \A i \in DOMAIN stk : stk[i].live /\ stk[i].sp <= limit => i <= Len(stk)
       /\ restoring => \A i \in DOMAIN stk : stk[i].live
       /\ Len(stk) <= Len(stk)
  <2>1. restoring => \A i \in DOMAIN stk : stk[i].live
    BY <1>3 DEF ThreadInv, RestoringInv
  <2>2. \A i \in DOMAIN stk : i <= Len(stk)
    BY <1>3
  <2> QED
    BY <1>3, <1>9, <2>1, <2>2 DEF SameEntry
<1>12. limit \in Int /\ Len(new) <= Len(frs)
  BY <1>2, <1>5, <1>6 DEF n
<1>. HIDE DEF limit, frs, stk
<1>13. ThreadInv(new, stk, t \in guard, restoring)
  BY <1>3, <1>6, <1>10, <1>11, <1>12, Cut
<1>14. ThreadInv(new, stk, t \in guard', restoring)
  BY <1>1, <1>13
<1>20. ThreadsInv' /\ ShapeOK'
  BY <1>1, <1>4, <1>14, StepOf
<1> QED
  BY <1>1, <1>20, CountUntouched

\* Reaping by function on leave takes stale entries only; when the stack has
\* always been restored, the entry it stops at is the one of the frame.
LEMMA ReapedOnLeave ==
  ASSUME InvocationInv, NEW t \in Threads, frames[t] # <<>>,
         ~InCallback(Top(t)), Top(t).ret # <<>>,
         NEW kept, kept = KeptOnLeave(stack[t], Top(t).ret[Len(Top(t).ret)])
  PROVE  /\ kept \in 1 .. Len(stack[t])
         /\ ThreadInv(frames[t], Kept(stack[t], kept), t \in guard, restoring)
         /\ restoring => stack[t][kept].live /\ stack[t][kept].sp = Top(t).sp
<1> DEFINE frs == frames[t]
           stk == stack[t]
           n == Len(frs)
           top == Top(t)
           c == Len(top.ret)
           f == top.ret[c]
           S == {i \in DOMAIN stk : stk[i].fn = f}
           left == Kept(stk, kept)
<1>1. top \in NativeFrame /\ top.sp \in Nat /\ top.ret \in Seq(Functions)
  BY TopTypes
<1>2. c \in Nat /\ c \in 1 .. c /\ DOMAIN top.ret = 1 .. c /\ Held(top) = c
  <2>1. c \in Nat /\ c # 0 /\ DOMAIN top.ret = 1 .. c
    BY <1>1, LenProperties, EmptySeq
  <2>2. Held(top) = c
    BY <1>1, FrameTypes
  <2> QED
    BY <2>1, <2>2
<1>3. /\ frs \in Seq(NativeFrame) /\ n \in Nat /\ DOMAIN frs = 1 .. n /\ n \in DOMAIN frs
      /\ stk \in Seq(StackEntry) /\ Len(stk) \in Nat /\ DOMAIN stk = 1 .. Len(stk)
      /\ ThreadInv(frs, stk, t \in guard, restoring)
      /\ \A i \in DOMAIN stk : stk[i].sp \in Nat
  BY StateTypes, QuietTopFacts, SequenceTypes
<1>4. PICK b \in 0 .. Len(stk) : Owns(top, stk, b)
  BY QuietTopFacts
<1>5. frs[n] = top
  BY DEF Top
<1>6. /\ kept \in 0 .. Len(stk) /\ (kept # 0 => kept \in S) /\ \A i \in S : i <= kept
  <2>1. S \in SUBSET (1 .. Len(stk)) /\ kept = LastOf(S)
    BY <1>3 DEF KeptOnLeave
  <2> QED
    BY <1>3, <2>1, LastOfIsLast
<1>. HIDE DEF c, S, top, n, left
<1>7. b \in Nat /\ c \in Nat /\ c >= 1 /\ b + c <= Len(stk) /\ Len(stk) \in Nat
  BY <1>2, <1>3, <1>4 DEF Owns
<1>8. b + c \in DOMAIN stk /\ stk[b + c].fn = top.ret[c]
      /\ stk[b + c].live /\ stk[b + c].sp = top.sp
  <2>1. b + c \in DOMAIN stk /\ b < b + c /\ b + c <= b + Held(top) /\ c \in DOMAIN top.ret
    BY <1>2, <1>3, <1>7
  <2> QED
    BY <1>4, <2>1 DEF Owns
<1>9. b + c \in S /\ b + c <= kept /\ kept \in 1 .. Len(stk)
  <2>1. b + c \in S
    BY <1>8 DEF S
  <2>2. b + c <= kept
    BY <1>6, <2>1
  <2> QED
    BY <1>6, <1>7, <2>1, <2>2
<1>10. ASSUME NEW i \in DOMAIN stk, stk[i].live PROVE i <= b + c /\ stk[i].sp <= top.sp
  <2>1. stk[i].sp <= top.sp
    BY <1>3, <1>5, <1>10, LiveEntries DEF n
  <2>2. CASE i <= b + c
    BY <2>1, <2>2
  <2>3. CASE ~(i <= b + c)
    <3>1. b + c < i
      BY <1>3, <1>7, <2>3
    <3>2. stk[b + c].sp <= stk[i].sp
      BY <1>3, <1>8, <3>1 DEF ThreadInv, StackInv
    <3>3. stk[i].sp = top.sp
      BY <1>1, <1>3, <1>8, <2>1, <3>2 DEF top
    <3>4. i <= b + Held(top)
      BY <1>4, <1>10, <3>3 DEF Owns
    <3> QED
      BY <1>2, <2>3, <3>4
  <2> QED
    BY <2>2, <2>3
<1>11. restoring => kept = b + c
  <2>1. restoring => stk[kept].live
    BY <1>3, <1>9 DEF ThreadInv, RestoringInv
  <2>2. restoring => kept <= b + c
    BY <1>3, <1>9, <1>10, <2>1
  <2> QED
    BY <1>7, <1>9, <2>2
<1>12. left \in Seq(StackEntry) /\ Len(left) = kept /\ \A i \in 1 .. kept : left[i] = stk[i]
  BY <1>3, <1>6, KeptIsPrefix DEF left
<1>13. DOMAIN left = 1 .. kept
  BY <1>12, LenProperties
<1>14. \A i \in DOMAIN left : i \in DOMAIN stk /\ left[i] = stk[i]
  BY <1>3, <1>9, <1>12, <1>13
<1>15. \A k \in DOMAIN frs : frs[k].sp \in Nat /\ k <= Len(frs) /\ frs[k].sp <= top.sp
  <2>1. \A k \in DOMAIN frs : frs[k].sp \in Nat /\ (k # n => frs[k].sp < top.sp)
    BY DeepestIsLast DEF top, n
  <2>2. \A k \in DOMAIN frs : k <= Len(frs)
    BY <1>3 DEF n
  <2>3. \A k \in DOMAIN frs : k = n => frs[k].sp = top.sp
    BY <1>5
  <2>4. top.sp \in Nat
    BY <1>1 DEF top
  <2> QED
    BY <2>1, <2>2, <2>3, <2>4
<1>16. /\ \A i \in DOMAIN left : SameEntry(left[i], stk[i])
       /\ \A i \in DOMAIN left : left[i].live <=> stk[i].live /\ stk[i].sp <= top.sp
       /\ \A i \in DOMAIN stk : stk[i].live /\ stk[i].sp <= top.sp => i <= Len(left)
       /\ restoring => \A i \in DOMAIN left : left[i].live
       /\ Len(left) <= Len(stk)
  <2>1. restoring => \A i \in DOMAIN left : left[i].live
    BY <1>3, <1>14 DEF ThreadInv, RestoringInv
  <2>2. \A i \in DOMAIN stk : stk[i].live => i <= Len(left)
    BY <1>3, <1>7, <1>9, <1>10, <1>12
  <2>3. \A i \in DOMAIN left : left[i].live <=> stk[i].live /\ stk[i].sp <= top.sp
    BY <1>10, <1>14
  <2>4. Len(left) <= Len(stk)
    BY <1>9, <1>12
  <2> QED
    BY <1>14, <2>1, <2>2, <2>3, <2>4 DEF SameEntry
<1>17. top.sp \in Int /\ Len(frs) <= Len(frs)
  BY <1>1, <1>3 DEF top, n
<1>. HIDE DEF frs, stk
<1>18. \A k \in DOMAIN frs :
         IF k <= Len(frs) THEN frs[k].sp <= top.sp /\ frs[k] = frs[k] ELSE frs[k].sp > top.sp
  BY <1>15
<1>19. ThreadInv(frs, left, t \in guard, restoring)
  BY <1>3, <1>12, <1>16, <1>17, <1>18, Cut
<1> QED
  BY <1>8, <1>9, <1>11, <1>19 DEF frs, stk, left, top

\* end_invocation: what was left behind above the entry is reaped first.
LEMMA EndInvocationKeeps ==
  ASSUME InvocationInv, NEW t \in Threads, EndInvocation(t)
  PROVE  ThreadsInv' /\ ShapeOK' /\ CountOK'
<1> DEFINE top == Top(t)
           stk == stack[t]
           kept == KeptOnLeave(stk, top.ret[Len(top.ret)])
           left == Kept(stk, kept)
           own == kept # 0 /\ left[kept].live /\ left[kept].sp = top.sp
           back == [top EXCEPT !.at = "leave", !.todo = LeaveTodo(left[kept]),
                       !.ret = SubSeq(@, 1, Len(@) - 1), !.original = FALSE, !.saved = None]
           away == [top EXCEPT !.at = "astray", !.saved = None]
<1>1. /\ frames[t] # <<>> /\ top.at \in {"body", "repl", "returning"} /\ top.ret # <<>>
      /\ stack' = [stack EXCEPT ![t] = left] /\ guard' = guard \cup {t}
      /\ restoring' = restoring /\ SetTop(t, IF own THEN back ELSE away)
      /\ counter' = Released(stk, kept)
  BY DEF EndInvocation, settings
<1>2. /\ top \in NativeFrame /\ top.sp \in Nat /\ top.ret \in Seq(Functions)
      /\ ~InCallback(top) /\ top.running = None /\ top.todo = {}
  BY <1>1, TopTypes, QuietTopFacts DEF InCallback
<1>3. /\ kept \in 1 .. Len(stk)
      /\ ThreadInv(frames[t], left, t \in guard, restoring)
      /\ restoring => stk[kept].live /\ stk[kept].sp = top.sp
  <2>1. frames[t] # <<>> /\ ~InCallback(Top(t)) /\ Top(t).ret # <<>>
    BY <1>1, <1>2
  <2>2. PICK k : k = KeptOnLeave(stack[t], Top(t).ret[Len(Top(t).ret)])
    OBVIOUS
  <2>3. /\ k \in 1 .. Len(stack[t])
        /\ ThreadInv(frames[t], Kept(stack[t], k), t \in guard, restoring)
        /\ restoring => stack[t][k].live /\ stack[t][k].sp = Top(t).sp
    BY <2>1, <2>2, ReapedOnLeave, SMTT(30)
  <2> QED
    BY <2>2, <2>3, Zenon
<1>4. stk \in Seq(StackEntry) /\ Len(stk) \in Nat
  BY StateTypes
<1>5. /\ left \in Seq(StackEntry) /\ Len(left) = kept /\ left # <<>> /\ left[kept] = stk[kept]
      /\ left[kept] \in StackEntry
  <2>1. /\ left \in Seq(StackEntry) /\ Len(left) = kept /\ \A i \in 1 .. kept : left[i] = stk[i]
    <3>1. PICK k, s : k = kept /\ s = stk
      OBVIOUS
    <3>2. s \in Seq(StackEntry) /\ k \in 0 .. Len(s)
      BY <1>3, <1>4, <3>1
    <3>3. /\ Kept(s, k) \in Seq(StackEntry) /\ Len(Kept(s, k)) = k
          /\ \A i \in 1 .. k : Kept(s, k)[i] = s[i]
      BY <3>2, KeptIsPrefix
    <3> QED
      BY <3>1, <3>3
  <2>2. kept \in 1 .. kept /\ kept # 0
    BY <1>3, <1>4
  <2> QED
    BY <2>1, <2>2, ElementOfSeq, EmptySeq
<1>own. kept \in 0 .. Len(stk) /\ \A i \in 1 .. kept : left[i] = stk[i]
  <2>1. kept \in 0 .. Len(stk)
    BY <1>3, <1>4
  <2> QED
    BY <1>4, <2>1, KeptIsPrefix
<1>6. top = frames[t][Len(frames[t])]
  BY DEF Top
<1>7. PICK fr \in NativeFrame :
        /\ SetTop(t, fr) /\ fr.sp = top.sp /\ fr.running = None /\ fr.saved = None
        /\ \/ /\ left # <<>> /\ left[Len(left)].live /\ left[Len(left)].sp = top.sp
              /\ fr.at = "leave" /\ fr.ret = SubSeq(top.ret, 1, Len(top.ret) - 1)
              /\ fr.todo \subseteq Due(left[Len(left)])
           \/ fr.at = "astray" /\ fr.ret = top.ret /\ fr.todo = {} /\ ~restoring
  <2>1. CASE own
    <3>1. LeaveTodo(left[kept]) \subseteq Due(left[kept]) /\ LeaveTodo(left[kept]) \subseteq Listeners
      BY ConstantsAssumption DEF LeaveTodo
    <3>2. SubSeq(top.ret, 1, Len(top.ret) - 1) \in Seq(Functions)
      <4>1. Len(top.ret) \in Nat
        BY <1>2, LenProperties
      <4>2. \A i \in 1 .. Len(top.ret) - 1 : top.ret[i] \in Functions
        <5>1. \A i \in 1 .. Len(top.ret) - 1 : i \in 1 .. Len(top.ret)
          BY <4>1
        <5> QED
          BY <1>2, <5>1, ElementOfSeq
      <4>3. 1 \in Int /\ Len(top.ret) - 1 \in Int
        BY <4>1
      <4> QED
        BY <4>2, <4>3, SubSeqProperties
    <3>. HIDE DEF left, kept
    <3>3. /\ back \in NativeFrame /\ back.sp = top.sp /\ back.running = None
          /\ back.saved = None /\ back.at = "leave"
          /\ back.ret = SubSeq(top.ret, 1, Len(top.ret) - 1) /\ back.todo = LeaveTodo(left[kept])
      BY <1>2, <3>1, <3>2 DEF NativeFrame
    <3>4. SetTop(t, back)
      BY <1>1, <2>1
    <3>. HIDE DEF back, top
    <3> QED
      BY <1>5, <2>1, <3>1, <3>3, <3>4
  <2>2. CASE ~own
    <3>1. ~restoring
      BY <1>3, <1>4, <1>5, <2>2
    <3>2. /\ away \in NativeFrame /\ away.sp = top.sp /\ away.running = None
          /\ away.saved = None /\ away.at = "astray" /\ away.ret = top.ret /\ away.todo = {}
      BY <1>2 DEF NativeFrame
    <3>3. SetTop(t, away)
      BY <1>1, <2>2
    <3>. HIDE DEF away, top, left, kept
    <3> QED
      BY <3>1, <3>2, <3>3
  <2> QED
    BY <2>1, <2>2
<1>. HIDE DEF top, left, kept, own
<1>8. ThreadInv([frames[t] EXCEPT ![Len(frames[t])] = fr], left, TRUE, restoring)
  BY <1>1, <1>2, <1>3, <1>6, <1>7, Leave
<1>9. ThreadInv([frames[t] EXCEPT ![Len(frames[t])] = fr], left, t \in guard', restoring)
  BY <1>1, <1>8 DEF ThreadInv, FramesInv
<1>10. frames' = [frames EXCEPT ![t] = [frames[t] EXCEPT ![Len(frames[t])] = fr]]
  BY <1>7, SetTopOwn
<1>20. ThreadsInv' /\ ShapeOK'
  BY <1>1, <1>9, <1>10, StepOf
<1>21. \A i \in 1 .. kept : left[i].fn = stk[i].fn
  BY <1>own
<1>22. CountOK'
  BY <1>1, <1>5, <1>own, <1>21, CountReleased DEF CountOK
<1> QED
  BY <1>20, <1>22

\* How many entries a non-local exit to frame k leaves.
LEMMA RestoredDepth ==
  ASSUME InvocationInv, NEW t \in Threads, NEW k \in DOMAIN frames[t],
         frames[t][k].saved # None, NEW kept, kept = Restored(stack[t], frames[t][k].saved)
  PROVE  /\ kept \in 0 .. Len(stack[t])
         /\ \A i \in DOMAIN stack[t] : stack[t][i].live /\ stack[t][i].sp <= frames[t][k].sp
                                         => i <= kept
         /\ restoring => \A i \in DOMAIN stack[t] : i <= kept =>
                           stack[t][i].live /\ stack[t][i].sp <= frames[t][k].sp
<1>1. /\ Len(stack[t]) \in Nat /\ DOMAIN stack[t] = 1 .. Len(stack[t])
      /\ ThreadInv(frames[t], stack[t], t \in guard, restoring)
  BY StateTypes
<1>2. frames[t][k] \in NativeFrame
  BY DeepestIsLast
<1>3. frames[t][k].saved \in Nat
  BY <1>2 DEF NativeFrame
<1>4. CASE restoring
  <2>1. kept = frames[t][k].saved
    BY <1>4 DEF Restored
  <2>2. RestoringInv(frames[t], stack[t])
    BY <1>1, <1>4 DEF ThreadInv
  <2>3. /\ kept <= Len(stack[t]) /\ \A i \in DOMAIN stack[t] : stack[t][i].live
        /\ \A i \in DOMAIN stack[t] : i <= kept <=> stack[t][i].sp <= frames[t][k].sp
    BY <2>1, <2>2 DEF RestoringInv
  <2>4. kept \in 0 .. Len(stack[t])
    BY <1>1, <1>3, <2>1, <2>3
  <2> QED
    BY <2>3, <2>4
<1>5. CASE ~restoring
  <2>1. kept = Len(stack[t])
    BY <1>5 DEF Restored
  <2> QED
    BY <1>1, <1>5, <2>1
<1> QED
  BY <1>4, <1>5

UnwoundTo(stk, sp) == [i \in DOMAIN stk |-> [stk[i] EXCEPT !.live = @ /\ stk[i].sp <= sp]]

\* The history of entries whose frames an exit has passed.
LEMMA UnwoundEntries ==
  ASSUME NEW stk \in Seq(StackEntry), NEW sp \in Nat
  PROVE  /\ UnwoundTo(stk, sp) \in Seq(StackEntry) /\ Len(UnwoundTo(stk, sp)) = Len(stk)
         /\ \A i \in DOMAIN stk :
              /\ SameEntry(UnwoundTo(stk, sp)[i], stk[i])
              /\ UnwoundTo(stk, sp)[i].live <=> stk[i].live /\ stk[i].sp <= sp
<1> DEFINE new == UnwoundTo(stk, sp)
<1>1. Len(stk) \in Nat /\ DOMAIN stk = 1 .. Len(stk)
  BY LenProperties
<1>2. ASSUME NEW i \in DOMAIN stk
      PROVE  /\ new[i] \in StackEntry /\ SameEntry(new[i], stk[i])
             /\ new[i].live <=> stk[i].live /\ stk[i].sp <= sp
  <2>1. PICK o \in BOOLEAN : o = (stk[i].live /\ stk[i].sp <= sp)
    OBVIOUS
  <2>2. stk[i] \in StackEntry
    BY <1>1, ElementOfSeq
  <2>3. new[i] = [stk[i] EXCEPT !.live = stk[i].live /\ stk[i].sp <= sp]
    BY <2>2 DEF UnwoundTo
  <2>4. new[i] = [stk[i] EXCEPT !.live = o]
    BY <2>1, <2>3
  <2>. HIDE DEF new
  <2>5. new[i] \in StackEntry /\ SameEntry(new[i], stk[i]) /\ new[i].live = o
    BY <2>2, <2>4 DEF StackEntry, SameEntry
  <2> QED
    BY <2>1, <2>5
<1>3. new \in [1 .. Len(stk) -> StackEntry]
  <2>1. new = [i \in 1 .. Len(stk) |-> new[i]]
    BY <1>1 DEF UnwoundTo
  <2>. HIDE DEF new
  <2>2. \A i \in 1 .. Len(stk) : new[i] \in StackEntry
    BY <1>1, <1>2
  <2> QED
    BY <2>1, <2>2
<1>4. new \in Seq(StackEntry)
  <2>. HIDE DEF new
  <2> QED
    BY <1>1, <1>3, SeqDef
<1>5. Len(new) = Len(stk)
  <2>1. DOMAIN new = 1 .. Len(stk) /\ DOMAIN new = 1 .. Len(new) /\ Len(new) \in Nat
    BY <1>3, <1>4, LenProperties
  <2> QED
    BY <1>1, <2>1
<1> QED
  BY <1>2, <1>4, <1>5

\* A longjmp or an exception, with or without restore.
LEMMA UnwindKeeps ==
  ASSUME InvocationInv, NEW t \in Threads, NEW k \in DOMAIN frames[t], Unwind(t, k)
  PROVE  ThreadsInv' /\ ShapeOK' /\ CountOK'
<1> DEFINE frs == frames[t]
           stk == stack[t]
           target == frs[k]
           kept == Restored(stk, target.saved)
           marked == UnwoundTo(stk, target.sp)
           new == SubSeq(frs, 1, k)
           left == Kept(marked, kept)
<1>1. /\ target.saved # None /\ k < Len(frs)
      /\ frames' = [frames EXCEPT ![t] = SubSeq(@, 1, k)]
      /\ stack' = [stack EXCEPT ![t] = left] /\ guard' = guard /\ restoring' = restoring
      /\ counter' = Released(stk, kept)
  BY DEF Unwind, UnwoundTo, settings
<1>2. frames' = [frames EXCEPT ![t] = new]
  BY <1>1, StateTypes
<1>3. /\ frs \in Seq(NativeFrame) /\ Len(frs) \in Nat /\ DOMAIN frs = 1 .. Len(frs)
      /\ stk \in Seq(StackEntry) /\ Len(stk) \in Nat /\ DOMAIN stk = 1 .. Len(stk)
      /\ ThreadInv(frs, stk, t \in guard, restoring)
      /\ target \in NativeFrame /\ target.sp \in Nat
  BY StateTypes, DeepestIsLast
<1>4. /\ kept \in 0 .. Len(stk)
      /\ \A i \in DOMAIN stk : stk[i].live /\ stk[i].sp <= target.sp => i <= kept
      /\ restoring => \A i \in DOMAIN stk : i <= kept =>
                        stk[i].live /\ stk[i].sp <= target.sp
  BY <1>1, RestoredDepth
<1>5. /\ marked \in Seq(StackEntry) /\ Len(marked) = Len(stk)
      /\ \A i \in DOMAIN stk : /\ SameEntry(marked[i], stk[i])
                               /\ marked[i].live <=> stk[i].live /\ stk[i].sp <= target.sp
  BY <1>3, UnwoundEntries
<1>6. k \in Nat /\ k \in 0 .. Len(frs)
  BY <1>3
<1>7. new \in Seq(NativeFrame) /\ Len(new) = k /\ \A j \in 1 .. k : new[j] = frs[j]
  BY <1>3, <1>6, ShorterIsPrefix
<1>. HIDE DEF kept, marked, new, left
<1>8. left \in Seq(StackEntry) /\ Len(left) = kept /\ \A i \in 1 .. kept : left[i] = marked[i]
  BY <1>4, <1>5, KeptIsPrefix DEF left
<1>9. DOMAIN left = 1 .. kept
  BY <1>8, LenProperties
<1>10. \A i \in DOMAIN left : i \in DOMAIN stk /\ left[i] = marked[i] /\ i <= kept
  <2>1. kept \in Nat /\ kept <= Len(stk)
    BY <1>3, <1>4
  <2> QED
    BY <1>3, <1>8, <1>9, <2>1
<1>11. \A i, j \in DOMAIN frs : i < j => frs[i].sp < frs[j].sp
  BY <1>3 DEF ThreadInv, FramesInv
<1>12. \A j \in DOMAIN frs :
         IF j <= Len(new) THEN frs[j].sp <= target.sp /\ new[j] = frs[j]
         ELSE frs[j].sp > target.sp
  <2>1. ASSUME NEW j \in DOMAIN frs, j <= Len(new)
        PROVE  frs[j].sp <= target.sp /\ new[j] = frs[j]
    <3>1. j \in 1 .. k /\ (j = k \/ j < k)
      BY <1>3, <1>6, <1>7, <2>1
    <3>2. frs[j].sp \in Nat
      BY DeepestIsLast
    <3> QED
      BY <1>3, <1>7, <1>11, <3>1, <3>2, SMTT(30)
  <2>2. ASSUME NEW j \in DOMAIN frs, ~(j <= Len(new)) PROVE frs[j].sp > target.sp
    <3>1. k < j
      BY <1>3, <1>6, <1>7, <2>2
    <3>2. frs[j].sp \in Nat /\ target.sp < frs[j].sp
      BY <1>11, <3>1, DeepestIsLast
    <3> QED
      BY <1>3, <3>2
  <2> QED
    BY <2>1, <2>2
<1>13. /\ \A i \in DOMAIN left : SameEntry(left[i], stk[i])
       /\ \A i \in DOMAIN left : left[i].live <=> stk[i].live /\ stk[i].sp <= target.sp
       /\ \A i \in DOMAIN stk : stk[i].live /\ stk[i].sp <= target.sp => i <= Len(left)
       /\ restoring => \A i \in DOMAIN left : left[i].live
       /\ Len(left) <= Len(stk)
  <2>1. restoring => \A i \in DOMAIN left : left[i].live
    BY <1>4, <1>5, <1>10
  <2>2. Len(left) <= Len(stk)
    BY <1>3, <1>4, <1>8
  <2> QED
    BY <1>4, <1>5, <1>8, <1>10, <2>1, <2>2
<1>14. target.sp \in Int /\ Len(new) <= Len(frs)
  BY <1>1, <1>3, <1>6, <1>7
<1>. HIDE DEF frs, stk, target
<1>15. ThreadInv(new, left, t \in guard, restoring)
  BY <1>3, <1>7, <1>8, <1>12, <1>13, <1>14, Cut
<1>16. ThreadInv(new, left, t \in guard', restoring)
  BY <1>1, <1>15
<1>20. ThreadsInv' /\ ShapeOK'
  BY <1>1, <1>2, <1>16, StepOf
<1>21. \A i \in 1 .. kept : left[i].fn = stk[i].fn
  BY <1>9, <1>13 DEF SameEntry
<1>22. CountOK'
  BY <1>1, <1>4, <1>8, <1>21, CountReleased DEF CountOK, stk
<1> QED
  BY <1>20, <1>22

\* A thread that runs nothing.
LEMMA EmptyThread ==
  ASSUME NEW restored
  PROVE  ThreadInv(<<>>, <<>>, FALSE, restored)
BY EmptySeq DEF ThreadInv, FramesInv, StackInv, LinkInv, CallbackInv, DueInv, RestoringInv

\* A thread ends.
LEMMA ExitThreadKeeps ==
  ASSUME InvocationInv, NEW t \in Threads, ExitThread(t)
  PROVE  ThreadsInv' /\ ShapeOK' /\ CountOK'
<1>1. /\ frames' = [frames EXCEPT ![t] = <<>>] /\ stack' = [stack EXCEPT ![t] = <<>>]
      /\ guard' = guard \ {t} /\ restoring' = restoring
      /\ counter' = Released(stack[t], 0)
  BY DEF ExitThread
<1>2. ThreadInv(<<>>, <<>>, t \in guard', restoring)
  BY <1>1, EmptyThread DEF ThreadInv, FramesInv
<1>20. ThreadsInv' /\ ShapeOK'
  BY <1>1, <1>2, StepOf
<1>21. /\ 0 \in 0 .. Len(stack[t]) /\ <<>> \in Seq(StackEntry) /\ Len(<<>>) = 0
       /\ \A i \in 1 .. 0 : <<>>[i].fn = stack[t][i].fn
  BY StateTypes, EmptySeq
<1>22. CountOK'
  BY <1>1, <1>21, CountReleased DEF CountOK
<1> QED
  BY <1>20, <1>22

-----------------------------------------------------------------------------
(* The threads' data *)

PrivateSlots(s) ==
  \A i \in DOMAIN s : s[i].owner # None =>
    /\ s[i].data \in {None, s[i].owner}
    /\ \A j \in DOMAIN s : s[j].owner = s[i].owner => j = i
SlotsOK == ThreadDataIsPrivate /\ slots \in [Threads -> Seq(Slot)]

\* The slots of a thread's listener data.
LEMMA SlotFacts ==
  ASSUME InvocationInv, NEW t \in Threads
  PROVE  /\ slots \in [Threads -> Seq(Slot)] /\ slots[t] \in Seq(Slot)
         /\ Len(slots[t]) \in Nat /\ DOMAIN slots[t] = 1 .. Len(slots[t])
         /\ \A i \in DOMAIN slots[t] : slots[t][i] \in Slot
         /\ PrivateSlots(slots[t])
<1>1. slots \in [Threads -> Seq(Slot)] /\ slots[t] \in Seq(Slot)
  BY DEF InvocationInv, TypeOK
<1>2. Len(slots[t]) \in Nat /\ DOMAIN slots[t] = 1 .. Len(slots[t])
  BY <1>1, LenProperties
<1>3. \A i \in DOMAIN slots[t] : slots[t][i] \in Slot
  BY <1>1, <1>2, ElementOfSeq
<1>4. PrivateSlots(slots[t])
  BY DEF InvocationInv, ThreadDataIsPrivate, PrivateSlots
<1> QED
  BY <1>1, <1>2, <1>3, <1>4

\* Only the slots of one thread change.
LEMMA SlotsOf ==
  ASSUME InvocationInv, NEW t \in Threads, NEW s \in Seq(Slot), PrivateSlots(s),
         slots' = [slots EXCEPT ![t] = s]
  PROVE  SlotsOK'
<1>1. slots' \in [Threads -> Seq(Slot)]
  BY SlotFacts
<1>2. ASSUME NEW u \in Threads PROVE PrivateSlots(slots'[u])
  <2>1. CASE u = t
    <3>1. slots'[u] = s
      BY <2>1, SlotFacts
    <3> QED
      BY <3>1
  <2>2. CASE u # t
    <3>1. slots'[u] = slots[u]
      BY <2>2, SlotFacts
    <3> QED
      BY <3>1, SlotFacts
  <2> QED
    BY <2>1, <2>2
<1>3. ThreadDataIsPrivate'
  BY <1>2 DEF ThreadDataIsPrivate, PrivateSlots
<1> QED
  BY <1>1, <1>3 DEF SlotsOK

\* A slot that nobody owns is taken by a listener that owns none.
LEMMA TakeDataKeeps ==
  ASSUME InvocationInv, NEW t \in Threads, TakeData(t)
  PROVE  SlotsOK'
<1> DEFINE s == slots[t]
           n == Len(s)
           l == Top(t).running
           S == {i \in DOMAIN s : s[i].owner = None}
           free == LastOf(S)
           mine == [owner |-> l, data |-> None]
           new == IF free = 0 THEN Append(s, mine) ELSE [s EXCEPT ![free] = mine]
<1>1. l \in Keepers /\ \A i \in DOMAIN s : s[i].owner # l
  BY DEF TakeData
<1>2. l \in Listeners /\ l # None
  BY <1>1, ConstantsAssumption
<1>3. mine \in Slot /\ mine.owner = l /\ mine.data = None
  BY <1>2 DEF Slot
<1>4. /\ s \in Seq(Slot) /\ n \in Nat /\ DOMAIN s = 1 .. n /\ PrivateSlots(s)
  BY SlotFacts
<1>5. slots' = [slots EXCEPT ![t] = new]
  <2>1. slots' = [slots EXCEPT ![t] = IF free = 0 THEN Append(@, mine)
                                      ELSE [@ EXCEPT ![free] = Taken(@, l)]]
    BY DEF TakeData
  <2>2. CASE free = 0
    BY <2>1, <2>2, SlotFacts
  <2>3. CASE free # 0
    BY <2>1, <2>3, SlotFacts DEF Taken
  <2> QED
    BY <2>2, <2>3
<1>6. free \in 0 .. n
  <2>1. S \in SUBSET (1 .. n)
    BY <1>4
  <2> QED
    BY <1>4, <2>1, LastOfIsLast
<1>. HIDE DEF s, n, free, mine, l
<1>7. PICK k \in Nat :
        /\ new \in Seq(Slot) /\ k \in DOMAIN new /\ new[k] = mine
        /\ \A i \in DOMAIN new : i # k => i \in DOMAIN s /\ new[i] = s[i]
  <2>1. CASE free = 0
    <3>1. /\ new \in Seq(Slot) /\ Len(new) = n + 1 /\ new[n + 1] = mine
          /\ \A i \in 1 .. n : new[i] = s[i]
      BY <1>3, <1>4, <2>1, AppendProperties DEF n
    <3>2. DOMAIN new = 1 .. n + 1
      BY <3>1, LenProperties
    <3>. HIDE DEF new
    <3>3. n + 1 \in Nat /\ n + 1 \in 1 .. n + 1 /\ \A i \in 1 .. n + 1 : i # n + 1 => i \in 1 .. n
      BY <1>4
    <3> QED
      BY <1>4, <3>1, <3>2, <3>3
  <2>2. CASE free # 0
    <3>1. free \in 1 .. n
      BY <1>4, <1>6, <2>2
    <3>2. new = [s EXCEPT ![free] = mine]
      BY <2>2
    <3>. HIDE DEF new
    <3>3. /\ new \in Seq(Slot) /\ Len(new) = n
          /\ \A i \in 1 .. n : new[i] = IF i = free THEN mine ELSE s[i]
      <4>1. free \in 1 .. Len(s)
        BY <3>1 DEF n
      <4>2. /\ [s EXCEPT ![free] = mine] \in Seq(Slot) /\ Len([s EXCEPT ![free] = mine]) = Len(s)
            /\ \A i \in 1 .. Len(s) : [s EXCEPT ![free] = mine][i] = IF i = free THEN mine ELSE s[i]
        BY <1>3, <1>4, <4>1, ExceptSeq
      <4> QED
        BY <3>2, <4>2 DEF n
    <3>4. DOMAIN new = 1 .. n
      BY <3>3, LenProperties
    <3>5. free \in Nat
      BY <3>1, <1>4
    <3> QED
      BY <1>4, <3>1, <3>3, <3>4, <3>5
  <2> QED
    BY <2>1, <2>2
<1>. HIDE DEF new
<1>8. PrivateSlots(new)
  <2>1. ASSUME NEW i \in DOMAIN new, new[i].owner # None
        PROVE  /\ new[i].data \in {None, new[i].owner}
               /\ \A j \in DOMAIN new : new[j].owner = new[i].owner => j = i
    <3>1. CASE i = k
      BY <1>1, <1>3, <1>7, <3>1
    <3>2. CASE i # k
      <4>1. i \in DOMAIN s /\ new[i] = s[i]
        BY <1>7, <3>2
      <4>2. ASSUME NEW j \in DOMAIN new, new[j].owner = new[i].owner PROVE j = i
        BY <1>1, <1>3, <1>4, <1>7, <2>1, <4>1, <4>2 DEF PrivateSlots
      <4> QED
        BY <1>4, <2>1, <4>1, <4>2 DEF PrivateSlots
    <3> QED
      BY <3>1, <3>2
  <2> QED
    BY <2>1 DEF PrivateSlots
<1> QED
  BY <1>5, <1>7, <1>8, SlotsOf

\* A listener stores something in its slot.
LEMMA WriteDataKeeps ==
  ASSUME InvocationInv, NEW t \in Threads, WriteData(t)
  PROVE  SlotsOK'
<1> DEFINE s == slots[t]
           l == Top(t).running
<1>1. PICK k \in DOMAIN s : s[k].owner = l /\ slots' = [slots EXCEPT ![t][k].data = l]
  BY DEF WriteData
<1>2. /\ s \in Seq(Slot) /\ Len(s) \in Nat /\ DOMAIN s = 1 .. Len(s) /\ PrivateSlots(s)
      /\ s[k] \in Slot
  BY SlotFacts
<1> DEFINE d == [s[k] EXCEPT !.data = l]
           new == [s EXCEPT ![k] = d]
<1>3. l \in Listeners \cup {None}
  BY <1>1, <1>2 DEF Slot
<1>4. d \in Slot /\ d.owner = s[k].owner /\ d.data = l
  BY <1>2, <1>3 DEF Slot
<1>5. slots' = [slots EXCEPT ![t] = new]
  BY <1>1, SlotFacts
<1>. HIDE DEF s, l, d
<1>6. new \in Seq(Slot) /\ Len(new) = Len(s)
      /\ \A i \in 1 .. Len(s) : new[i] = IF i = k THEN d ELSE s[i]
  BY <1>2, <1>4, ExceptSeq
<1>7. DOMAIN new = DOMAIN s
  BY <1>2, <1>6, LenProperties
<1>. HIDE DEF new
<1>8. \A i \in DOMAIN s : new[i].owner = s[i].owner /\ (i # k => new[i].data = s[i].data)
  BY <1>2, <1>4, <1>6
<1>9. new[k].data = l /\ new[k].owner = l
  BY <1>1, <1>2, <1>4, <1>6
<1>10. PrivateSlots(new)
  <2>1. ASSUME NEW i \in DOMAIN s, new[i].owner # None
        PROVE  /\ new[i].data \in {None, new[i].owner}
               /\ \A j \in DOMAIN s : new[j].owner = new[i].owner => j = i
    <3>1. s[i].owner # None
      BY <1>8, <2>1
    <3>2. /\ s[i].data \in {None, s[i].owner}
          /\ \A j \in DOMAIN s : s[j].owner = s[i].owner => j = i
      BY <1>2, <3>1 DEF PrivateSlots
    <3>3. new[i].data \in {None, new[i].owner}
      BY <1>8, <1>9, <3>2
    <3>4. \A j \in DOMAIN s : new[j].owner = new[i].owner => j = i
      BY <1>8, <3>2
    <3> QED
      BY <3>3, <3>4
  <2> QED
    BY <1>7, <2>1 DEF PrivateSlots
<1> QED
  BY <1>5, <1>6, <1>10, SlotsOf

\* Detaching gives up the slots of the listener in every thread.
LEMMA DetachKeeps ==
  ASSUME InvocationInv, NEW l \in Listeners, Detach(l)
  PROVE  SlotsOK' /\ attached' \in [Functions -> SUBSET Listeners]
<1>1. /\ attached' = [f \in Functions |-> attached[f] \ {l}]
      /\ slots' = [t \in Threads |-> [i \in DOMAIN slots[t] |->
           IF slots[t][i].owner = l THEN [slots[t][i] EXCEPT !.owner = None]
           ELSE slots[t][i]]]
  BY DEF Detach
<1>2. l # None
  BY ConstantsAssumption
<1>3. ASSUME NEW t \in Threads PROVE slots'[t] \in Seq(Slot) /\ PrivateSlots(slots'[t])
  <2> DEFINE s == slots[t]
             new == slots'[t]
  <2>1. /\ Len(s) \in Nat /\ DOMAIN s = 1 .. Len(s) /\ PrivateSlots(s)
        /\ \A i \in DOMAIN s : s[i] \in Slot
    BY SlotFacts
  <2>2. new = [i \in DOMAIN s |-> IF s[i].owner = l THEN [s[i] EXCEPT !.owner = None] ELSE s[i]]
    BY <1>1
  <2>. HIDE DEF new, s
  <2>3. ASSUME NEW i \in DOMAIN s
        PROVE  /\ new[i] \in Slot /\ new[i].data = s[i].data
               /\ new[i].owner = IF s[i].owner = l THEN None ELSE s[i].owner
    BY <2>1, <2>2 DEF Slot
  <2>4. DOMAIN new = DOMAIN s /\ new = [i \in DOMAIN s |-> new[i]]
    BY <2>2
  <2>5. new \in [1 .. Len(s) -> Slot]
    BY <2>1, <2>3, <2>4
  <2>6. new \in Seq(Slot)
    BY <2>1, <2>5, SeqDef
  <2>7. PrivateSlots(new)
    <3>1. ASSUME NEW i \in DOMAIN s, new[i].owner # None
          PROVE  /\ new[i].data \in {None, new[i].owner}
                 /\ \A j \in DOMAIN s : new[j].owner = new[i].owner => j = i
      <4>1. s[i].owner # None /\ new[i].owner = s[i].owner /\ new[i].data = s[i].data
        BY <2>3, <3>1
      <4>2. /\ s[i].data \in {None, s[i].owner}
            /\ \A j \in DOMAIN s : s[j].owner = s[i].owner => j = i
        BY <2>1, <4>1 DEF PrivateSlots
      <4>3. ASSUME NEW j \in DOMAIN s, new[j].owner = new[i].owner PROVE j = i
        <5>1. s[j].owner = s[i].owner
          BY <2>3, <3>1, <4>1, <4>3
        <5> QED
          BY <4>2, <5>1
      <4> QED
        BY <4>1, <4>2, <4>3
    <3> QED
      BY <2>4, <3>1 DEF PrivateSlots
  <2> QED
    BY <2>6, <2>7 DEF new
<1>4. slots' \in [Threads -> Seq(Slot)]
  <2>1. slots' = [t \in Threads |-> slots'[t]]
    BY <1>1
  <2> QED
    BY <1>3, <2>1
<1>5. ThreadDataIsPrivate'
  BY <1>3 DEF ThreadDataIsPrivate, PrivateSlots
<1>6. attached' \in [Functions -> SUBSET Listeners]
  <2>1. \A f \in Functions : attached[f] \ {l} \in SUBSET Listeners
    BY DEF InvocationInv, TypeOK
  <2> QED
    BY <1>1, <2>1
<1> QED
  BY <1>4, <1>5, <1>6 DEF SlotsOK

\* Most steps leave them alone.
LEMMA SlotsUntouched ==
  ASSUME InvocationInv, slots' = slots
  PROVE  SlotsOK'
<1>1. ThreadDataIsPrivate'
  BY DEF InvocationInv, ThreadDataIsPrivate
<1> QED
  BY <1>1 DEF InvocationInv, TypeOK, SlotsOK

-----------------------------------------------------------------------------
(* The invariant *)

RestOK ==
  /\ attached \in [Functions -> SUBSET Listeners]
  /\ selected \in Threads \cup {None}
  /\ ignore \in [Threads -> Nat]

\* The parts of the invariant, and what leaves them alone.
LEMMA InvariantParts ==
  ThreadsInv /\ ShapeOK /\ CountOK /\ SlotsOK /\ RestOK => InvocationInv
BY DEF InvocationInv, TypeOK, ThreadsInv, ShapeOK, CountOK, SlotsOK, RestOK

\* ... in the next state.
LEMMA InvariantPartsNext ==
  ASSUME ThreadsInv', ShapeOK', CountOK', SlotsOK', RestOK'
  PROVE  InvocationInv'
<1>1. TypeOK'
  BY DEF TypeOK, ShapeOK, CountOK, SlotsOK, RestOK
<1>2. ThreadsInv' /\ CountInv' /\ ThreadDataIsPrivate'
  BY DEF CountOK, SlotsOK
<1> QED
  BY <1>1, <1>2 DEF InvocationInv, ThreadsInv

\* A step of calls and returns changes no settings.
LEMMA SettingsUntouched ==
  ASSUME InvocationInv, UNCHANGED settings
  PROVE  SlotsOK' /\ RestOK'
<1>1. SlotsOK'
  BY SlotsUntouched DEF settings
<1>2. RestOK'
  BY DEF InvocationInv, TypeOK, RestOK, settings
<1> QED
  BY <1>1, <1>2

\* A step of the settings changes no stack.
LEMMA StacksUntouched ==
  ASSUME InvocationInv, UNCHANGED <<restoring, counter, frames, stack, guard>>
  PROVE  ThreadsInv' /\ ShapeOK' /\ CountOK'
<1>1. CountOK'
  BY CountUntouched
<1>2. ShapeOK'
  BY DEF InvocationInv, TypeOK, ShapeOK
<1>3. ThreadsInv'
  BY DEF InvocationInv, ThreadsInv
<1> QED
  BY <1>1, <1>2, <1>3

\* At first no thread runs anything.
LEMMA InitSatisfies == Init => InvocationInv
<1>. SUFFICES ASSUME Init PROVE InvocationInv
  OBVIOUS
<1>1. <<>> \in Seq(NativeFrame) /\ <<>> \in Seq(StackEntry) /\ <<>> \in Seq(Slot)
      /\ DOMAIN <<>> = 1 .. 0
  BY EmptySeq
<1>2. ShapeOK
  BY <1>1 DEF Init, ShapeOK
<1>3. \A t \in Threads : frames[t] = <<>> /\ stack[t] = <<>> /\ t \notin guard /\ slots[t] = <<>>
  BY DEF Init
<1>4. ThreadsInv
  <2>1. ASSUME NEW t \in Threads PROVE ThreadInv(frames[t], stack[t], t \in guard, restoring)
    <3>1. ThreadInv(<<>>, <<>>, FALSE, restoring)
      BY EmptyThread
    <3> QED
      BY <1>3, <3>1 DEF ThreadInv, FramesInv
  <2> QED
    BY <2>1 DEF ThreadsInv
<1>5. CountOK
  <2>1. ASSUME NEW f \in Functions PROVE EntriesOf(f) = {}
    <3>1. \A e \in EntriesOf(f) : \E u \in Threads : \E i \in DOMAIN stack[u] :
            e = <<u, i>> /\ stack[u][i].fn = f
      BY EntriesInMember DEF EntriesIn, EntriesOf
    <3>2. \A u \in Threads : DOMAIN stack[u] = {}
      BY <1>1, <1>3
    <3> QED
      BY <3>1, <3>2
  <2>2. IsFiniteSet({}) /\ Cardinality({}) = 0
    BY FS_EmptySet
  <2>3. counter \in [Functions -> Int] /\ \A f \in Functions : counter[f] = 0
    BY DEF Init
  <2>4. CountInv
    BY <2>1, <2>2, <2>3 DEF CountInv
  <2> QED
    BY <2>3, <2>4 DEF CountOK
<1>6. SlotsOK
  <2>1. ThreadDataIsPrivate
    <3>1. \A t \in Threads : DOMAIN slots[t] = {}
      BY <1>1, <1>3
    <3> QED
      BY <3>1 DEF ThreadDataIsPrivate
  <2> QED
    BY <1>1, <2>1 DEF Init, SlotsOK
<1>7. RestOK
  BY ConstantsAssumption DEF Init, RestOK
<1> QED
  BY <1>2, <1>4, <1>5, <1>6, <1>7, InvariantParts

\* Every step keeps the invariant.
LEMMA StepKeepsInvariant ==
  InvocationInv /\ [Next]_vars => InvocationInv'
<1>. SUFFICES ASSUME InvocationInv, [Next]_vars PROVE InvocationInv'
  OBVIOUS
<1>1. ASSUME NEW t \in Callers, Calls(t) PROVE InvocationInv'
  <2>1. PICK f \in Functions, sp \in 1 .. MaxSp, tail \in BOOLEAN :
          CallPlain(t, f, sp, tail) \/ CallBypassed(t, f, sp, tail)
            \/ CallIntercepted(t, f, sp, tail)
    BY <1>1 DEF Calls
  <2>2. t \in Threads
    BY ConstantsAssumption
  <2>3. ThreadsInv' /\ ShapeOK' /\ CountOK'
    BY <2>1, <2>2, CallPlainKeeps, CallInterceptedKeeps
  <2>4. UNCHANGED settings
    BY <2>1 DEF CallPlain, CallBypassed, CallIntercepted
  <2> QED
    BY <2>3, <2>4, SettingsUntouched, InvariantPartsNext
<1>2. ASSUME NEW t \in Callers,
             \/ TellListener(t) \/ ListenerReturns(t) \/ EnterDone(t)
             \/ Return(t) \/ EndInvocation(t) \/ LeaveDone(t) \/ Save(t)
             \/ \E k \in DOMAIN frames[t] : Unwind(t, k)
      PROVE  InvocationInv'
  <2>1. t \in Threads
    BY ConstantsAssumption
  <2>2. ThreadsInv' /\ ShapeOK' /\ CountOK'
    BY <1>2, <2>1, TellListenerKeeps, TopStateKeeps, EnterDoneKeeps, ReturnKeeps,
       EndInvocationKeeps, LeaveDoneKeeps, UnwindKeeps
  <2>3. UNCHANGED settings
    BY <1>2 DEF TellListener, ListenerReturns, EnterDone, Return, EndInvocation, LeaveDone,
                Save, Unwind
  <2> QED
    BY <2>2, <2>3, SettingsUntouched, InvariantPartsNext
<1>3. ASSUME NEW t \in Callers, ExitThread(t) PROVE InvocationInv'
  <2>1. t \in Threads
    BY ConstantsAssumption
  <2>2. ThreadsInv' /\ ShapeOK' /\ CountOK'
    BY <1>3, <2>1, ExitThreadKeeps
  <2>3. SlotsOK'
    <3>1. slots' = [slots EXCEPT ![t] = <<>>] /\ <<>> \in Seq(Slot) /\ DOMAIN <<>> = 1 .. 0
      BY <1>3, EmptySeq DEF ExitThread
    <3>2. PrivateSlots(<<>>)
      BY <3>1 DEF PrivateSlots
    <3> QED
      BY <2>1, <3>1, <3>2, SlotsOf
  <2>4. RestOK'
    BY <1>3 DEF ExitThread, RestOK, InvocationInv, TypeOK
  <2> QED
    BY <2>2, <2>3, <2>4, InvariantPartsNext
<1>4. ASSUME NEW t \in Callers, Ignore(t) \/ Unignore(t) PROVE InvocationInv'
  <2>1. ThreadsInv' /\ ShapeOK' /\ CountOK'
    BY <1>4, StacksUntouched DEF Ignore, Unignore
  <2>2. SlotsOK'
    BY <1>4, SlotsUntouched DEF Ignore, Unignore
  <2>3. RestOK'
    <3>1. t \in Threads /\ ignore \in [Threads -> Nat]
      BY ConstantsAssumption DEF InvocationInv, TypeOK
    <3>2. ignore' \in [Threads -> Nat]
      BY <1>4, <3>1 DEF Ignore, Unignore
    <3> QED
      BY <1>4, <3>2 DEF Ignore, Unignore, RestOK, InvocationInv, TypeOK
  <2> QED
    BY <2>1, <2>2, <2>3, InvariantPartsNext
<1>5. ASSUME NEW t \in Callers, TakeData(t) \/ WriteData(t) PROVE InvocationInv'
  <2>1. ThreadsInv' /\ ShapeOK' /\ CountOK'
    BY <1>5, StacksUntouched DEF TakeData, WriteData
  <2>2. t \in Threads
    BY ConstantsAssumption
  <2>3. SlotsOK'
    BY <1>5, <2>2, TakeDataKeeps, WriteDataKeeps
  <2>4. RestOK'
    BY <1>5 DEF TakeData, WriteData, RestOK, InvocationInv, TypeOK
  <2> QED
    BY <2>1, <2>3, <2>4, InvariantPartsNext
<1>6. ASSUME NEW t \in Selectors, IgnoreOthers(t) \/ UnignoreOthers(t) PROVE InvocationInv'
  <2>1. ThreadsInv' /\ ShapeOK' /\ CountOK'
    BY <1>6, StacksUntouched DEF IgnoreOthers, UnignoreOthers
  <2>2. SlotsOK'
    BY <1>6, SlotsUntouched DEF IgnoreOthers, UnignoreOthers
  <2>3. RestOK'
    BY <1>6, ConstantsAssumption
       DEF IgnoreOthers, UnignoreOthers, RestOK, InvocationInv, TypeOK
  <2> QED
    BY <2>1, <2>2, <2>3, InvariantPartsNext
<1>7. ASSUME NEW l \in Listeners, Detach(l) PROVE InvocationInv'
  <2>1. ThreadsInv' /\ ShapeOK' /\ CountOK'
    BY <1>7, StacksUntouched DEF Detach
  <2>2. SlotsOK' /\ attached' \in [Functions -> SUBSET Listeners]
    BY <1>7, DetachKeeps
  <2>3. RestOK'
    BY <1>7, <2>2 DEF Detach, RestOK, InvocationInv, TypeOK
  <2> QED
    BY <2>1, <2>2, <2>3, InvariantPartsNext
<1>8. CASE UNCHANGED vars
  <2>1. ThreadsInv' /\ ShapeOK' /\ CountOK'
    BY <1>8, StacksUntouched DEF vars
  <2>2. SlotsOK' /\ RestOK'
    BY <1>8, SettingsUntouched DEF vars, settings
  <2> QED
    BY <2>1, <2>2, InvariantPartsNext
<1> QED
  BY <1>1, <1>2, <1>3, <1>4, <1>5, <1>6, <1>7, <1>8 DEF Next

\* Through every call, callback, return and non-local exit the invocation stack
\* of a thread mirrors its native stack (_hoox_function_context_begin_invocation
\* and _end_invocation, reaping, save and restore).
THEOREM StacksMirrorCalls == Spec => []InvocationInv
<1>1. Init => InvocationInv
  BY InitSatisfies
<1>2. InvocationInv /\ [Next]_vars => InvocationInv'
  BY StepKeepsInvariant
<1> QED
  BY <1>1, <1>2, PTL DEF Spec

-----------------------------------------------------------------------------
(* What follows from it *)

\* The usage counter of a function's context is the number of entries that the
\* threads hold for it, so that releasing waits for all of them and for nothing
\* else (hoox_invocation_stack_push, _pop, _reap_unwound and _reap_unwound_above).
THEOREM CountersAreExact == Spec => []CountersCountEntries
<1>1. InvocationInv => CountersCountEntries
  BY DEF InvocationInv, CountInv, CountersCountEntries
<1> QED
  BY <1>1, StacksMirrorCalls, PTL

\* No frame that is still there loses an entry to reaping, by address or by
\* function, and none is given an entry of another.
THEOREM FramesKeepEntries == Spec => []LiveFramesKeepEntries
<1>1. ASSUME InvocationInv PROVE LiveFramesKeepEntries
  <2>1. ASSUME NEW t \in Threads, NEW k \in DOMAIN frames[t]
        PROVE  Cardinality({i \in DOMAIN stack[t] : stack[t][i].sp = frames[t][k].sp
                                                    /\ stack[t][i].live}) = Held(frames[t][k])
    <3> DEFINE fr == frames[t][k]
               own == {i \in DOMAIN stack[t] : stack[t][i].sp = fr.sp /\ stack[t][i].live}
    <3>1. fr \in NativeFrame /\ Held(fr) \in Nat
      BY <1>1, DeepestIsLast, FrameTypes
    <3>2. Len(stack[t]) \in Nat /\ DOMAIN stack[t] = 1 .. Len(stack[t])
      BY <1>1, StateTypes
    <3>3. PICK b \in 0 .. Len(stack[t]) : Owns(fr, stack[t], b)
      BY <1>1, StateTypes DEF ThreadInv, LinkInv
    <3>4. b \in Nat /\ b + Held(fr) <= Len(stack[t])
      BY <3>2, <3>3 DEF Owns
    <3>5. own = (b + 1) .. (b + Held(fr))
      <4>1. \A i \in DOMAIN stack[t] : i \in own <=> b < i /\ i <= b + Held(fr)
        BY <3>3 DEF Owns
      <4>. HIDE DEF fr
      <4>2. own \subseteq DOMAIN stack[t]
        OBVIOUS
      <4>. HIDE DEF own
      <4>3. \A i \in (b + 1) .. (b + Held(fr)) :
              i \in DOMAIN stack[t] /\ b < i /\ i <= b + Held(fr)
        BY <3>1, <3>2, <3>4
      <4>4. \A i \in DOMAIN stack[t] : b < i /\ i <= b + Held(fr) =>
              i \in (b + 1) .. (b + Held(fr))
        BY <3>1, <3>2, <3>4
      <4> QED
        BY <4>1, <4>2, <4>3, <4>4
    <3>. HIDE DEF own, fr
    <3>6. /\ b + 1 \in Int /\ b + Held(fr) \in Int
          /\ (b + 1 > b + Held(fr) => Held(fr) = 0)
          /\ (b + Held(fr)) - (b + 1) + 1 = Held(fr)
      BY <3>1, <3>4
    <3>7. Cardinality((b + 1) .. (b + Held(fr))) =
            IF b + 1 > b + Held(fr) THEN 0 ELSE (b + Held(fr)) - (b + 1) + 1
      BY <3>6, FS_Interval
    <3> QED
      BY <3>5, <3>6, <3>7 DEF own, fr
  <2> QED
    BY <2>1 DEF LiveFramesKeepEntries, Held, InCallback
<1> QED
  BY <1>1, StacksMirrorCalls, PTL

\* Whom a function's entry is told to: whatever becomes of the thread's
\* selection and ignore level meanwhile, exactly those it was decided on.
THEOREM EntriesAreToldAsDue == Spec => []EnteredAsDue
<1>1. ASSUME InvocationInv, NEW t \in Threads, NEW i \in DOMAIN stack[t]
      PROVE  LET e == stack[t][i] IN
             /\ e.entered \subseteq Target(e)
             /\ e.live /\ (i < Len(stack[t]) \/ ~\E k \in DOMAIN frames[t] : frames[t][k].at = "enter")
                  => e.entered = Target(e)
  <2>1. DueInv(frames[t], stack[t]) /\ Len(stack[t]) \in Nat
    BY <1>1, StateTypes DEF ThreadInv
  <2>2. i < Len(stack[t]) => i # Len(stack[t])
    BY <1>1, <2>1, StateTypes
  <2> QED
    BY <2>1, <2>2 DEF DueInv, Entering
<1>2. InvocationInv => EnteredAsDue
  BY <1>1 DEF EnteredAsDue, Target
<1> QED
  BY <1>2, StacksMirrorCalls, PTL

\* Whoever is told of a return was told of the entry, entries made for a
\* replacement on an ignored thread excepted.
THEOREM ReturnsAreToldAsEntries == Spec => []LeftWereEntered
<1>1. ASSUME InvocationInv, NEW t \in Threads, Leaving(t)
      PROVE  \/ Top(t).todo \subseteq TopEntry(t).entered
             \/ TopEntry(t).quiet /\ ~TopEntry(t).only
  <2> DEFINE e == TopEntry(t)
  <2>1. frames[t] # <<>> /\ Top(t).at = "leave" /\ InCallback(Top(t))
    BY <1>1 DEF Leaving, InCallback
  <2>2. /\ Len(stack[t]) \in 1 .. Len(stack[t]) /\ e \in StackEntry
        /\ e.live /\ Top(t).todo \subseteq Due(e)
    BY <1>1, <2>1, TopEntryFacts DEF TellInv
  <2>3. /\ ThreadInv(frames[t], stack[t], t \in guard, restoring)
        /\ DOMAIN stack[t] = 1 .. Len(stack[t])
    BY <1>1, StateTypes
  <2>4. ~Entering(frames[t])
    <3>1. \A k \in DOMAIN frames[t] : InCallback(frames[t][k]) => k = Len(frames[t])
      BY <2>1, <2>3, OneCallback DEF Top
    <3> QED
      BY <2>1, <3>1 DEF Entering, InCallback, Top
  <2>5. e.entered = Target(e) /\ (e.only <=> e.quiet /\ e.snap \cap Unignorable # {})
    BY <2>2, <2>3, <2>4 DEF ThreadInv, DueInv, TopEntry
  <2>. HIDE DEF e
  <2>6. CASE e.quiet /\ ~e.only
    BY <2>6 DEF e
  <2>7. CASE e.quiet /\ e.only
    BY <2>2, <2>5, <2>7 DEF e, Due, Target
  <2>8. CASE ~e.quiet
    BY <2>2, <2>5, <2>8 DEF e, Due, Target
  <2> QED
    BY <2>6, <2>7, <2>8
<1>2. InvocationInv => LeftWereEntered
  BY <1>1 DEF LeftWereEntered
<1> QED
  BY <1>2, StacksMirrorCalls, PTL

\* With save and restore around every non-local exit, each function returns to
\* its caller, and no entry outlives its frame.
THEOREM EveryReturnFindsItsCaller == Spec => [](ReturnsToCaller /\ NoStaleEntries)
<1>1. ASSUME InvocationInv, restoring, NEW t \in Threads
      PROVE  /\ \A k \in DOMAIN frames[t] : frames[t][k].at # "astray"
             /\ \A i \in DOMAIN stack[t] : stack[t][i].live
  BY <1>1, StateTypes DEF ThreadInv, RestoringInv
<1>2. InvocationInv => ReturnsToCaller /\ NoStaleEntries
  BY <1>1 DEF ReturnsToCaller, NoStaleEntries
<1> QED
  BY <1>2, StacksMirrorCalls, PTL

\* A listener finds in its thread's data only what it stored there itself,
\* whoever used the slot before (interceptor_thread_context_get_listener_data).
THEOREM ListenerDataIsItsOwn == Spec => []ThreadDataIsPrivate
<1>1. InvocationInv => ThreadDataIsPrivate
  BY DEF InvocationInv
<1> QED
  BY <1>1, StacksMirrorCalls, PTL

=============================================================================
