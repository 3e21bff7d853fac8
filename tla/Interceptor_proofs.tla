---------------------------- MODULE Interceptor_proofs ----------------------------
(***************************************************************************)
(* Theorems about Interceptor, for any number of threads, functions,       *)
(* contexts and listeners: its variables have their types, the mutex       *)
(* excludes, the usage counter counts the invocations in flight, what a    *)
(* counted invocation uses is not released under it, and the interceptor   *)
(* implements DeferredRelease: contexts are published, retired and         *)
(* released in this order, and none is released while an invocation that   *)
(* found the function still hooked is in flight.                           *)
(*                                                                         *)
(* The argument for what is released: a task to release a context is       *)
(* queued when the context is given up, with the update that undoes its    *)
(* patch; the tasks run after the updates, so that a task about to release *)
(* a context is for one whose code no longer leads to it, and which the    *)
(* counter says is unused.  An invocation that is counted from then on is  *)
(* a late one.  A task to release an array is queued when a newer array    *)
(* has been published, and an invocation takes the newest one.             *)
(*                                                                         *)
(* For the refinement, a step of the API changes the state of one context  *)
(* at most and no invocation; a step of an invocation changes what one     *)
(* frame uses at most and no context.                                      *)
(***************************************************************************)
EXTENDS Interceptor, InterceptorRefinement, FiniteSetTheorems, SequenceTheorems, TLAPS

-----------------------------------------------------------------------------
(* The inductive invariant *)

OnContext == {"decide", "snap", "enter", "hop", "load", "repl", "release", "invoke",
              "leave"}
Counting == OnContext \ {"invoke"}

\* What the step a frame is at says of its fields.
FrameConsistent(fr) ==
  /\ fr.at = "jump" => fr.addr \in Addr /\ ~fr.counted /\ ~fr.trap
  /\ fr.at \in OnContext \/ fr.counted => fr.ctx \in Ctxs
  /\ fr.at \in Counting => fr.counted
  /\ fr.at \in {"invoke", "body"} => (fr.counted <=> fr.trap)
  /\ fr.at \in {"repl", "leave"} => fr.trap
  /\ fr.at = "release" => ~fr.trap
  /\ fr.trap /\ fr.at \notin {"snap", "crashed"} => fr.snap # 0
  /\ fr.snap # 0 => fr.ctx \in Ctxs /\ fr.snap \in DOMAIN entries[fr.ctx]
FramesConsistent ==
  \A t \in Threads : \A i \in DOMAIN calls[t] : FrameConsistent(calls[t][i])

\* What an API call works on at the steps that need something to work on.
CallConsistent(o) ==
  /\ o.at \in {"detaching", "retire"} => o.lsn \in Listeners
  /\ o.at = "retire" => o.ctx \in Ctxs
  /\ o.at = "notify" => o.task \in DestroyTask
CallsConsistent == \A t \in Threads : CallConsistent(op[t])

ArraysExist == \A c \in Ctxs : entries[c] # <<>>

TypeInv == TypeOK /\ FramesConsistent /\ CallsConsistent /\ ArraysExist

-----------------------------------------------------------------------------
(* Lemmas *)

\* The current array of a context is one of its arrays.
LEMMA CurrentType ==
  ASSUME TypeInv, NEW c \in Ctxs
  PROVE  /\ Len(entries[c]) \in DOMAIN entries[c]
         /\ Len(entries[c]) \in Nat \ {0}
         /\ Current(c) \in ListenerArray
         /\ Current(c).live \in SUBSET Listeners
<1>1. /\ entries[c] \in Seq(ListenerArray) /\ entries[c] # <<>>
      /\ DOMAIN entries[c] = 1 .. Len(entries[c])
  BY DEF TypeInv, TypeOK, ArraysExist
<1>2. Len(entries[c]) \in Nat \ {0} /\ Len(entries[c]) \in DOMAIN entries[c]
  BY <1>1
<1>3. Current(c) \in ListenerArray
  BY <1>1, <1>2 DEF Current
<1> QED
  BY <1>2, <1>3 DEF ListenerArray

\* The top frame of a thread that has one is a consistent frame.
LEMMA TopType ==
  ASSUME TypeInv, NEW t \in Threads, calls[t] # <<>>
  PROVE  /\ Len(calls[t]) \in DOMAIN calls[t]
         /\ Top(t) \in Frame /\ FrameConsistent(Top(t))
BY DEF TypeInv, TypeOK, FramesConsistent, Top

\* Replacing the top frame leaves every other frame as it is.
LEMMA SetTopFrames ==
  ASSUME TypeInv, NEW t \in Threads, calls[t] # <<>>, NEW fr \in Frame, SetTop(t, fr)
  PROVE  /\ calls' \in [Threads -> Seq(Frame)]
         /\ \A u \in Threads : DOMAIN calls'[u] = DOMAIN calls[u]
         /\ \A u \in Threads : \A i \in DOMAIN calls[u] :
              calls'[u][i] = IF u = t /\ i = Len(calls[t]) THEN fr ELSE calls[u][i]
BY DEF TypeInv, TypeOK, SetTop

\* A new frame goes on top of those that are there.
LEMMA PushFrames ==
  ASSUME TypeInv, NEW t \in Threads, NEW fr \in Frame, Push(t, fr)
  PROVE  /\ calls' \in [Threads -> Seq(Frame)]
         /\ \A u \in Threads : DOMAIN calls'[u] =
              DOMAIN calls[u] \cup IF u = t THEN {Len(calls[t]) + 1} ELSE {}
         /\ \A u \in Threads : \A i \in DOMAIN calls'[u] :
              calls'[u][i] = IF i \in DOMAIN calls[u] THEN calls[u][i] ELSE fr
BY DEF TypeInv, TypeOK, Push

\* Only the top frame goes.
LEMMA PopFrames ==
  ASSUME TypeInv, NEW t \in Threads, calls[t] # <<>>, Pop(t)
  PROVE  /\ calls' \in [Threads -> Seq(Frame)]
         /\ \A u \in Threads : DOMAIN calls'[u] =
              DOMAIN calls[u] \ IF u = t THEN {Len(calls[t])} ELSE {}
         /\ \A u \in Threads : \A i \in DOMAIN calls'[u] : calls'[u][i] = calls[u][i]
BY DEF TypeInv, TypeOK, Pop

\* The address in a new frame is the only thing it says.
LEMMA JumpToType ==
  ASSUME NEW a \in Addr \cup {None}
  PROVE  JumpTo(a) \in Frame
BY DEF JumpTo, Frame

\* Frames stay consistent when they are left alone: arrays are only added.
LEMMA FramesLeftAlone ==
  ASSUME TypeInv, UNCHANGED calls,
         \A c \in Ctxs : DOMAIN entries[c] \subseteq DOMAIN entries'[c]
  PROVE  FramesConsistent'
BY DEF TypeInv, FramesConsistent, FrameConsistent

\* Invocations leave what API calls work on alone.
LEMMA ControlLeftAlone ==
  ASSUME TypeInv, UNCHANGED control, FramesConsistent',
         calls' \in [Threads -> Seq(Frame)],
         fc' \in [Ctxs -> FunctionContext], guard' \subseteq Threads
  PROVE  TypeInv'
<1>1. CallsConsistent' /\ ArraysExist'
  BY DEF TypeInv, control, CallsConsistent, CallConsistent, ArraysExist
<1>2. TypeOK'
  BY DEF TypeInv, control, TypeOK
<1> QED
  BY <1>1, <1>2 DEF TypeInv

\* A step of an invocation is right if the top frame it leaves is.
LEMMA InvocationStep ==
  ASSUME TypeInv, NEW t \in Threads, calls[t] # <<>>,
         NEW fr \in Frame, FrameConsistent(fr), SetTop(t, fr),
         fc' \in [Ctxs -> FunctionContext], guard' \subseteq Threads, UNCHANGED control
  PROVE  TypeInv'
<1>1. /\ calls' \in [Threads -> Seq(Frame)]
      /\ \A u \in Threads : DOMAIN calls'[u] = DOMAIN calls[u]
      /\ \A u \in Threads : \A i \in DOMAIN calls[u] :
           calls'[u][i] = IF u = t /\ i = Len(calls[t]) THEN fr ELSE calls[u][i]
  BY SetTopFrames
<1>2. FramesConsistent'
  BY <1>1 DEF FramesConsistent, FrameConsistent, TypeInv, control
<1> QED
  BY <1>1, <1>2, ControlLeftAlone

\* A new frame on top of the others is right if it is a consistent one.
LEMMA PushStep ==
  ASSUME TypeInv, NEW t \in Threads, NEW fr \in Frame, FrameConsistent(fr), Push(t, fr),
         UNCHANGED <<control, fc, guard>>
  PROVE  TypeInv'
<1>1. /\ calls' \in [Threads -> Seq(Frame)]
      /\ \A u \in Threads : \A i \in DOMAIN calls'[u] :
           calls'[u][i] = IF i \in DOMAIN calls[u] THEN calls[u][i] ELSE fr
  BY PushFrames
<1>2. FramesConsistent'
  BY <1>1 DEF FramesConsistent, FrameConsistent, TypeInv, control
<1>3. fc' \in [Ctxs -> FunctionContext] /\ guard' \subseteq Threads
  BY DEF TypeInv, TypeOK
<1> QED
  BY <1>1, <1>2, <1>3, ControlLeftAlone

\* The counter of a context is an integer whatever is added to it.
LEMMA CounterType ==
  ASSUME TypeInv, NEW c \in Ctxs
  PROVE  /\ [fc EXCEPT ![c].counter = @ + 1] \in [Ctxs -> FunctionContext]
         /\ Uncounts(c) \in [Ctxs -> FunctionContext]
<1>1. fc \in [Ctxs -> FunctionContext] /\ fc[c] \in FunctionContext
  BY DEF TypeInv, TypeOK
<1>2. /\ [fc[c] EXCEPT !.counter = @ + 1] \in FunctionContext
      /\ [fc[c] EXCEPT !.counter = @ - 1] \in FunctionContext
  BY <1>1 DEF FunctionContext
<1> QED
  BY <1>1, <1>2 DEF Uncounts

-----------------------------------------------------------------------------
(* Invocations *)

\* Calls of functions, and returns to plain callers, keep the types.
LEMMA CallsKeepTypes ==
  ASSUME TypeInv, NEW t \in Callers,
         \/ \E f \in Functions : Call(t, f)
         \/ \E c \in Ctxs : CallOriginal(t, c)
         \/ Return(t)
  PROVE  TypeInv'
<1>. t \in Threads
  BY ConstantsAssumption
<1>1. ASSUME NEW f \in Functions, Call(t, f) PROVE TypeInv'
  <2>1. JumpTo(f) \in Frame /\ FrameConsistent(JumpTo(f))
    BY JumpToType DEF Addr, JumpTo, FrameConsistent, OnContext, Counting
  <2> QED
    BY <1>1, <2>1, PushStep DEF Call
<1>2. ASSUME NEW c \in Ctxs, CallOriginal(t, c) PROVE TypeInv'
  <2>1. [JumpTo(None) EXCEPT !.at = "invoke", !.ctx = c] \in Frame
    BY DEF JumpTo, Frame
  <2>2. FrameConsistent([JumpTo(None) EXCEPT !.at = "invoke", !.ctx = c])
    BY DEF JumpTo, FrameConsistent, OnContext, Counting
  <2> QED
    BY <1>2, <2>1, <2>2, PushStep DEF CallOriginal
<1>3. ASSUME Return(t) PROVE TypeInv'
  <2>1. FramesConsistent' /\ calls' \in [Threads -> Seq(Frame)]
    BY <1>3, PopFrames
       DEF Return, Running, control, FramesConsistent, FrameConsistent, TypeInv
  <2> QED
    BY <1>3, <2>1, ControlLeftAlone DEF Return, TypeInv, TypeOK
<1> QED
  BY <1>1, <1>2, <1>3

\* Steps of an invocation that leave the contexts and the guard alone.
LEMMA QuietStepsKeepTypes ==
  ASSUME TypeInv, NEW t \in Callers,
         \/ Jump(t) \/ Decide(t) \/ TakeSnapshot(t) \/ TellListener(t)
         \/ ChooseHop(t) \/ InvokeOriginal(t) \/ UseAfterFree(t)
  PROVE  TypeInv'
<1>. DEFINE top == Top(t)
<1>1. t \in Threads /\ calls[t] # <<>>
  BY ConstantsAssumption DEF Jump, Decide, TakeSnapshot, TellListener, ChooseHop,
     InvokeOriginal, UseAfterFree, Steps, Running
<1>2. top \in Frame /\ FrameConsistent(top)
  BY <1>1, TopType
<1>3. fc' \in [Ctxs -> FunctionContext] /\ guard' \subseteq Threads /\ UNCHANGED control
  BY DEF TypeInv, TypeOK, Jump, Decide, TakeSnapshot, TellListener, ChooseHop,
     InvokeOriginal, UseAfterFree
<1>. HIDE DEF top
<1>4. SUFFICES \E fr \in Frame : FrameConsistent(fr) /\ SetTop(t, fr)
  BY <1>1, <1>3, InvocationStep
<1>5. CASE Jump(t)
  <2>1. top.at = "jump" /\ top.addr \in Addr
    BY <1>2, <1>5 DEF top, Jump, Steps, Running, FrameConsistent
  <2>2. CASE code[top.addr] # None /\ SetTop(t, [top EXCEPT !.addr = code[top.addr]])
    <3>1. code[top.addr] \in Addr
      BY <2>1, <2>2 DEF TypeInv, TypeOK
    <3>2. [top EXCEPT !.addr = code[top.addr]] \in Frame
      BY <1>2, <3>1 DEF Frame
    <3>3. FrameConsistent([top EXCEPT !.addr = code[top.addr]])
      BY <1>2, <2>1, <3>1 DEF Frame, FrameConsistent, OnContext, Counting
    <3> QED
      BY <2>2, <3>2, <3>3
  <2>3. CASE SetTop(t, [top EXCEPT !.at = "body"])
    <3>1. [top EXCEPT !.at = "body"] \in Frame
      BY <1>2 DEF Frame
    <3>2. FrameConsistent([top EXCEPT !.at = "body"])
      BY <1>2, <2>1 DEF Frame, FrameConsistent, OnContext, Counting
    <3> QED
      BY <2>3, <3>1, <3>2
  <2> QED
    BY <1>5, <2>2, <2>3 DEF Jump, top
<1>6. CASE Decide(t)
  <2>1. top.at = "decide"
    BY <1>6 DEF top, Decide, Steps, Running
  <2>2. PICK invoke \in BOOLEAN, trap \in BOOLEAN, push \in BOOLEAN :
          /\ trap => push
          /\ SetTop(t, [top EXCEPT !.at = IF push THEN "snap" ELSE "enter",
                                   !.trap = trap, !.invoke = invoke, !.pushed = push])
    BY <1>6 DEF Decide, top
  <2> DEFINE fr == [top EXCEPT !.at = IF push THEN "snap" ELSE "enter",
                               !.trap = trap, !.invoke = invoke, !.pushed = push]
  <2>3. fr \in Frame
    BY <1>2 DEF Frame
  <2>4. FrameConsistent(fr)
    BY <1>2, <2>1, <2>2 DEF Frame, FrameConsistent, OnContext, Counting
  <2> QED
    BY <2>2, <2>3, <2>4
<1>7. CASE TakeSnapshot(t)
  <2>1. top.at = "snap" /\ top.ctx \in Ctxs
    BY <1>2, <1>7 DEF top, TakeSnapshot, Steps, Running, FrameConsistent, OnContext
  <2>2. /\ Len(entries[top.ctx]) \in DOMAIN entries[top.ctx]
        /\ Len(entries[top.ctx]) \in Nat \ {0}
        /\ Current(top.ctx).live \in SUBSET Listeners
    BY <2>1, CurrentType
  <2> DEFINE marked == [top EXCEPT !.snap = Len(entries[top.ctx])]
             fr(live) == [marked EXCEPT !.at = "enter", !.todo = live]
  <2>3. Snapshot(marked).live \in SUBSET Listeners
    BY <1>2, <2>2 DEF Snapshot, Current, Frame
  <2>4. \E live \in SUBSET Listeners : SetTop(t, fr(live))
    BY <1>7, <2>3 DEF TakeSnapshot, top
  <2>5. \A live \in SUBSET Listeners : fr(live) \in Frame
    BY <1>2, <2>2 DEF Frame
  <2>6. \A live \in SUBSET Listeners : FrameConsistent(fr(live))
    BY <1>2, <2>1, <2>2 DEF Frame, FrameConsistent, OnContext, Counting
  <2> QED
    BY <2>4, <2>5, <2>6
<1>8. CASE TellListener(t)
  <2>1. PICK l \in top.todo : SetTop(t, [top EXCEPT !.todo = @ \ {l}])
    BY <1>8 DEF TellListener, top
  <2>2. [top EXCEPT !.todo = @ \ {l}] \in Frame
    BY <1>2 DEF Frame
  <2>3. FrameConsistent([top EXCEPT !.todo = @ \ {l}])
    BY <1>2 DEF Frame, FrameConsistent
  <2> QED
    BY <2>1, <2>2, <2>3
<1>9. CASE ChooseHop(t)
  <2>1. top.at = "hop"
    BY <1>9 DEF top, ChooseHop, Steps, Running
  <2>2. PICK next \in {"invoke", "release", "load", "crashed"} :
          /\ next = "invoke" => top.trap
          /\ next = "release" => ~top.trap
          /\ SetTop(t, [top EXCEPT !.at = next])
    BY <1>9 DEF ChooseHop, top
  <2>3. [top EXCEPT !.at = next] \in Frame
    BY <1>2 DEF Frame
  <2>4. FrameConsistent([top EXCEPT !.at = next])
    BY <1>2, <2>1, <2>2 DEF Frame, FrameConsistent, OnContext, Counting
  <2> QED
    BY <2>2, <2>3, <2>4
<1>10. CASE InvokeOriginal(t)
  <2>1. top.at = "invoke" /\ top.ctx \in Ctxs
    BY <1>2, <1>10 DEF top, InvokeOriginal, Steps, Running, FrameConsistent, OnContext
  <2>2. fc[top.ctx].addr \in Addr \cup {None}
    BY <2>1 DEF TypeInv, TypeOK, FunctionContext
  <2>3. [top EXCEPT !.at = "body", !.addr = fc[top.ctx].addr] \in Frame
    BY <1>2, <2>2 DEF Frame
  <2>4. FrameConsistent([top EXCEPT !.at = "body", !.addr = fc[top.ctx].addr])
    BY <1>2, <2>1 DEF Frame, FrameConsistent, OnContext, Counting
  <2> QED
    BY <1>10, <2>3, <2>4 DEF InvokeOriginal, top
<1>11. CASE UseAfterFree(t)
  <2>1. [top EXCEPT !.at = "crashed"] \in Frame
    BY <1>2 DEF Frame
  <2>2. FrameConsistent([top EXCEPT !.at = "crashed"])
    BY <1>2 DEF Frame, FrameConsistent, OnContext, Counting
  <2> QED
    BY <1>11, <2>1, <2>2 DEF UseAfterFree, top
<1> QED
  BY <1>5, <1>6, <1>7, <1>8, <1>9, <1>10, <1>11

\* Steps of an invocation that count it, or that take or clear the guard.
LEMMA OtherStepsKeepTypes ==
  ASSUME TypeInv, NEW t \in Callers,
         \/ BeginInvocation(t) \/ EnterDone(t) \/ LoadReplacement(t)
         \/ Release(t) \/ EndInvocation(t) \/ LeaveDone(t)
  PROVE  TypeInv'
<1>. DEFINE top == Top(t)
<1>1. t \in Threads /\ calls[t] # <<>>
  BY ConstantsAssumption DEF BeginInvocation, EnterDone, LoadReplacement, Release,
     EndInvocation, LeaveDone, Steps, Running
<1>2. top \in Frame /\ FrameConsistent(top)
  BY <1>1, TopType
<1>3. /\ fc \in [Ctxs -> FunctionContext] /\ guard \subseteq Threads
      /\ \A c \in Ctxs : fc[c] \in FunctionContext
  BY DEF TypeInv, TypeOK
<1>4. UNCHANGED control
  BY DEF BeginInvocation, EnterDone, LoadReplacement, Release, EndInvocation, LeaveDone
<1>5. guard' \subseteq Threads
  BY <1>1, <1>3 DEF BeginInvocation, EnterDone, LoadReplacement, Release, EndInvocation,
     LeaveDone
<1>. HIDE DEF top
<1>6. CASE BeginInvocation(t)
  <2> DEFINE fr(step, late) == [JumpTo(None) EXCEPT !.at = step, !.ctx = top.addr,
                                                    !.counted = TRUE, !.late = late]
  <2>1. top.addr \in Ctxs
    BY <1>6 DEF BeginInvocation, top
  <2>2. fc' \in [Ctxs -> FunctionContext]
    BY <1>6, <2>1, CounterType DEF BeginInvocation, top
  <2>3. fc[top.addr].activated \in BOOLEAN
    BY <1>3, <2>1 DEF FunctionContext
  <2>4. \E step \in {"release", "decide"}, late \in BOOLEAN : SetTop(t, fr(step, late))
    BY <1>6, <2>3 DEF BeginInvocation, top
  <2>5. \A step \in {"release", "decide"}, late \in BOOLEAN : fr(step, late) \in Frame
    BY <2>1 DEF JumpTo, Frame
  <2>6. \A step \in {"release", "decide"}, late \in BOOLEAN :
          FrameConsistent(fr(step, late))
    BY <2>1 DEF JumpTo, FrameConsistent, OnContext, Counting
  <2>. HIDE DEF fr
  <2> QED
    BY <1>1, <1>4, <1>5, <2>2, <2>4, <2>5, <2>6, InvocationStep
<1>7. CASE EnterDone(t)
  <2> DEFINE fr == [top EXCEPT !.at = "hop", !.pushed = top.trap,
                               !.snap = IF top.trap THEN @ ELSE 0]
  <2>1. top.at = "enter"
    BY <1>7 DEF EnterDone, Steps, Running, top
  <2>2. fr \in Frame
    BY <1>2 DEF Frame
  <2>3. ASSUME top.trap PROVE FrameConsistent(fr)
    <3>1. /\ fr.at = "hop" /\ fr.trap /\ fr.snap = top.snap /\ fr.ctx = top.ctx
          /\ fr.counted = top.counted
      BY <1>2, <2>3 DEF Frame
    <3> QED
      BY <1>2, <2>1, <2>3, <3>1 DEF FrameConsistent, OnContext, Counting
  <2>4. ASSUME ~top.trap PROVE FrameConsistent(fr)
    <3>1. /\ fr.at = "hop" /\ ~fr.trap /\ fr.snap = 0 /\ fr.ctx = top.ctx
          /\ fr.counted = top.counted
      BY <1>2, <2>4 DEF Frame
    <3> QED
      BY <1>2, <2>1, <2>4, <3>1 DEF FrameConsistent, OnContext, Counting
  <2>5. FrameConsistent(fr)
    BY <2>3, <2>4
  <2>6. SetTop(t, fr)
    BY <1>7 DEF EnterDone, top
  <2>. HIDE DEF fr
  <2> QED
    BY <1>1, <1>3, <1>4, <1>5, <1>7, <2>2, <2>5, <2>6, InvocationStep DEF EnterDone
<1>8. CASE LoadReplacement(t)
  <2> DEFINE r == fc[top.ctx].repl
             fr(step, a) == [top EXCEPT !.at = step, !.addr = a]
  <2>1. top.at = "load" /\ top.ctx \in Ctxs /\ r \in Replacements \cup {None}
    BY <1>2, <1>3, <1>8
       DEF LoadReplacement, Steps, Running, top, FrameConsistent, OnContext, FunctionContext
  <2>2. CASE r = None
    <3>1. [top EXCEPT !.at = "crashed"] \in Frame
      BY <1>2 DEF Frame
    <3>2. FrameConsistent([top EXCEPT !.at = "crashed"])
      BY <1>2, <2>1 DEF Frame, FrameConsistent, OnContext, Counting
    <3> QED
      BY <1>1, <1>3, <1>4, <1>5, <1>8, <2>2, <3>1, <3>2, InvocationStep
         DEF LoadReplacement, top
  <2>3. CASE r # None /\ ~top.trap
    <3>1. [top EXCEPT !.at = "release", !.addr = r] \in Frame
      BY <1>2, <2>1, <2>3 DEF Frame, Addr
    <3>2. FrameConsistent([top EXCEPT !.at = "release", !.addr = r])
      BY <1>2, <2>1, <2>3 DEF Frame, FrameConsistent, OnContext, Counting
    <3> QED
      BY <1>1, <1>3, <1>4, <1>5, <1>8, <2>3, <3>1, <3>2, InvocationStep
         DEF LoadReplacement, top
  <2>4. CASE r # None /\ top.trap
    <3> DEFINE caller == [top EXCEPT !.at = "repl"]
    <3>1. caller \in Frame
      BY <1>2 DEF Frame
    <3>2. FrameConsistent(caller)
      BY <1>2, <2>1, <2>4 DEF Frame, FrameConsistent, OnContext, Counting
    <3>3. JumpTo(r) \in Frame /\ FrameConsistent(JumpTo(r))
      BY <2>1, <2>4, JumpToType DEF Addr, JumpTo, FrameConsistent, OnContext, Counting
    <3>4. calls' = [calls EXCEPT ![t] =
                      [calls[t] EXCEPT ![Len(calls[t])] = caller] \o <<JumpTo(r)>>]
      BY <1>8, <2>4 DEF LoadReplacement, top
    <3>. HIDE DEF caller, r
    <3>5. calls \in [Threads -> Seq(Frame)] /\ calls[t] \in Seq(Frame)
          /\ Len(calls[t]) \in 1 .. Len(calls[t])
      BY <1>1 DEF TypeInv, TypeOK
    <3> DEFINE below == [calls[t] EXCEPT ![Len(calls[t])] = caller]
    <3>6. /\ below \in Seq(Frame) /\ Len(below) = Len(calls[t])
          /\ \A i \in 1 .. Len(calls[t]) :
               below[i] = IF i = Len(calls[t]) THEN caller ELSE calls[t][i]
      BY <3>1, <3>5
    <3>. HIDE DEF below
    <3>7. /\ below \o <<JumpTo(r)>> \in Seq(Frame)
          /\ \A i \in DOMAIN (below \o <<JumpTo(r)>>) :
               (below \o <<JumpTo(r)>>)[i] =
                  IF i \in 1 .. Len(calls[t]) THEN below[i] ELSE JumpTo(r)
      BY <3>3, <3>5, <3>6
    <3>8. /\ calls' \in [Threads -> Seq(Frame)]
          /\ \A u \in Threads : u # t => calls'[u] = calls[u]
          /\ calls'[t] = below \o <<JumpTo(r)>>
      BY <1>1, <3>4, <3>5, <3>7 DEF below
    <3>9. \A i \in DOMAIN calls'[t] : FrameConsistent(calls'[t][i])
      <4> TAKE i \in DOMAIN calls'[t]
      <4>1. \/ calls'[t][i] = caller \/ calls'[t][i] = JumpTo(r)
            \/ i \in DOMAIN calls[t] /\ calls'[t][i] = calls[t][i]
        BY <3>5, <3>6, <3>7, <3>8
      <4> QED
        BY <1>1, <3>2, <3>3, <4>1 DEF TypeInv, FramesConsistent
    <3>10. \A u \in Threads : \A i \in DOMAIN calls'[u] : FrameConsistent(calls'[u][i])
      BY <3>8, <3>9 DEF TypeInv, FramesConsistent
    <3>11. FramesConsistent'
      BY <1>4, <3>10 DEF FramesConsistent, FrameConsistent, control
    <3> QED
      BY <1>3, <1>4, <1>5, <1>8, <3>8, <3>11, ControlLeftAlone DEF LoadReplacement
  <2> QED
    BY <2>2, <2>3, <2>4
<1>9. CASE Release(t)
  <2>1. top.at = "release" /\ top.ctx \in Ctxs
    BY <1>2, <1>9 DEF Release, Steps, Running, top, FrameConsistent, OnContext
  <2>2. fc' \in [Ctxs -> FunctionContext]
    BY <1>9, <2>1, CounterType DEF Release, top
  <2>3. CASE top.addr # None
    <3>1. JumpTo(top.addr) \in Frame /\ FrameConsistent(JumpTo(top.addr))
      BY <1>2, <2>3, JumpToType DEF Frame, JumpTo, FrameConsistent, OnContext, Counting
    <3> QED
      BY <1>1, <1>4, <1>5, <1>9, <2>2, <2>3, <3>1, InvocationStep DEF Release, top
  <2>4. CASE top.addr = None
    <3>1. [top EXCEPT !.at = "invoke", !.counted = FALSE] \in Frame
      BY <1>2 DEF Frame
    <3>2. FrameConsistent([top EXCEPT !.at = "invoke", !.counted = FALSE])
      BY <1>2, <2>1 DEF Frame, FrameConsistent, OnContext, Counting
    <3> QED
      BY <1>1, <1>4, <1>5, <1>9, <2>2, <2>4, <3>1, <3>2, InvocationStep
         DEF Release, top
  <2> QED
    BY <2>3, <2>4
<1>10. CASE EndInvocation(t)
  <2> DEFINE fr == [top EXCEPT !.at = "leave", !.todo = Snapshot(top).live]
  <2>1. top.at \in {"body", "repl"} /\ top.trap
    BY <1>2, <1>10 DEF EndInvocation, Running, top, FrameConsistent
  <2>2. /\ top.counted /\ top.ctx \in Ctxs
        /\ top.snap # 0 /\ top.snap \in DOMAIN entries[top.ctx]
    BY <1>2, <2>1 DEF FrameConsistent, OnContext, Counting
  <2>3. entries[top.ctx] \in Seq(ListenerArray)
    BY <2>2 DEF TypeInv, TypeOK
  <2>4. Snapshot(top) \in ListenerArray
    BY <2>2, <2>3 DEF Snapshot
  <2>5. fr \in Frame
    BY <1>2, <2>4 DEF Frame, ListenerArray
  <2>6. FrameConsistent(fr)
    BY <1>2, <2>1, <2>2 DEF Frame, FrameConsistent, OnContext, Counting
  <2>7. SetTop(t, fr)
    BY <1>10 DEF EndInvocation, top
  <2>. HIDE DEF fr
  <2> QED
    BY <1>1, <1>3, <1>4, <1>5, <1>10, <2>5, <2>6, <2>7, InvocationStep
       DEF EndInvocation
<1>11. CASE LeaveDone(t)
  <2>1. top.ctx \in Ctxs
    BY <1>2, <1>11 DEF LeaveDone, Steps, Running, top, FrameConsistent, OnContext
  <2>2. fc' \in [Ctxs -> FunctionContext]
    BY <1>11, <2>1, CounterType DEF LeaveDone, top
  <2>3. FramesConsistent' /\ calls' \in [Threads -> Seq(Frame)]
    BY <1>1, <1>4, <1>11, PopFrames
       DEF LeaveDone, control, FramesConsistent, FrameConsistent, TypeInv
  <2> QED
    BY <1>4, <1>5, <2>2, <2>3, ControlLeftAlone
<1> QED
  BY <1>6, <1>7, <1>8, <1>9, <1>10, <1>11

-----------------------------------------------------------------------------
(* API calls *)

\* The types of what is neither a listener array, an API call nor a frame.
SharedOK ==
  /\ lock \in Threads \cup {None}
  /\ table \in [Addr -> Ctxs \cup {None}]
  /\ code \in [Addr -> Addr \cup {None}]
  /\ fc \in [Ctxs -> FunctionContext]
  /\ reclaimed \subseteq Arrays
  /\ refs \in [Listeners -> Int]
  /\ owned \subseteq Listeners
  /\ txn \in Transaction
  /\ open \in [Threads -> Nat]
  /\ guard \subseteq Threads
  /\ promised \subseteq Functions \X Listeners
  /\ started \in Nat

\* The listener arrays have their type, and none was taken away.
EntriesGrow ==
  /\ entries' \in [Ctxs -> Seq(ListenerArray)]
  /\ \A c \in Ctxs : DOMAIN entries[c] \subseteq DOMAIN entries'[c]

\* Publishing an array, or none, adds to the arrays.
LEMMA PublishedArrays ==
  ASSUME TypeInv,
         \/ UNCHANGED entries
         \/ \E c \in Ctxs, arr \in ListenerArray :
              entries' = [entries EXCEPT ![c] = Append(@, arr)]
  PROVE  EntriesGrow
<1>1. entries \in [Ctxs -> Seq(ListenerArray)]
  BY DEF TypeInv, TypeOK
<1>2. CASE UNCHANGED entries
  BY <1>1, <1>2 DEF EntriesGrow
<1>3. ASSUME NEW c \in Ctxs, NEW arr \in ListenerArray,
             entries' = [entries EXCEPT ![c] = Append(@, arr)]
      PROVE  EntriesGrow
  <2>1. /\ entries[c] \in Seq(ListenerArray)
        /\ Append(entries[c], arr) \in Seq(ListenerArray)
        /\ DOMAIN entries[c] \subseteq DOMAIN Append(entries[c], arr)
    BY <1>1
  <2>2. entries' = [entries EXCEPT ![c] = Append(entries[c], arr)]
    BY <1>3
  <2> QED
    BY <1>1, <2>1, <2>2 DEF EntriesGrow
<1> QED
  BY <1>2, <1>3

\* A step of an API call is right if what it leaves of the call is.
LEMMA ApiStep ==
  ASSUME TypeInv, SharedOK', EntriesGrow, UNCHANGED calls,
         NEW t \in Threads, NEW o \in ApiCall, CallConsistent(o),
         op' = [op EXCEPT ![t] = o]
  PROVE  TypeInv'
<1>1. FramesConsistent'
  BY FramesLeftAlone DEF EntriesGrow
<1>2. op' \in [Threads -> ApiCall] /\ CallsConsistent'
  BY DEF TypeInv, TypeOK, CallsConsistent, CallConsistent
<1>3. ArraysExist'
  BY DEF TypeInv, TypeOK, ArraysExist, EntriesGrow
<1>4. TypeOK'
  BY <1>2 DEF TypeInv, TypeOK, SharedOK, EntriesGrow
<1> QED
  BY <1>1, <1>2, <1>3, <1>4 DEF TypeInv

\* The types that TypeInv gives them.
LEMMA SharedTypes ==
  ASSUME TypeInv
  PROVE  /\ SharedOK
         /\ txn.level \in Int /\ txn.dirty \in BOOLEAN
         /\ txn.destroy \in Seq(DestroyTask) /\ txn.updates \in SUBSET Updates
BY DEF TypeInv, TypeOK, SharedOK, Transaction

\* An API call at rest, or at a step it has just begun.
LEMMA GoesType ==
  ASSUME NEW step \in {"flags", "detaching", "end"}, NEW c \in Ctxs \cup {None},
         NEW l \in Listeners \cup {None}, step = "detaching" => l \in Listeners
  PROVE  LET o == [Idle EXCEPT !.kind = "update", !.at = step, !.ctx = c, !.lsn = l]
         IN  o \in ApiCall /\ CallConsistent(o)
<1> DEFINE o == [Idle EXCEPT !.kind = "update", !.at = step, !.ctx = c, !.lsn = l]
<1>1. <<>> \in Seq(DestroyTask)
  OBVIOUS
<1>2. o \in ApiCall
  BY <1>1 DEF Idle, ApiCall
<1>3. o.at = step /\ o.lsn = l
  BY DEF Idle
<1> QED
  BY <1>2, <1>3 DEF CallConsistent

\* Idle is an API call.
LEMMA IdleType == Idle \in ApiCall /\ CallConsistent(Idle)
<1>1. <<>> \in Seq(DestroyTask)
  OBVIOUS
<1> QED
  BY <1>1 DEF Idle, ApiCall, CallConsistent

\* Opening a transaction, with something or nothing to do at its end.
LEMMA OpenedType ==
  ASSUME TypeInv, NEW destroy \in Seq(DestroyTask), NEW updates \in SUBSET Updates
  PROVE  Opened(destroy, updates) \in Transaction
<1>1. txn.destroy \o destroy \in Seq(DestroyTask)
  BY SharedTypes
<1> QED
  BY <1>1, SharedTypes DEF Opened, Transaction

\* The level of a transaction can be any integer.
LEMMA LevelType ==
  ASSUME TypeInv, NEW n \in Int
  PROVE  [txn EXCEPT !.level = n] \in Transaction
BY DEF TypeInv, TypeOK, Transaction

\* A new context, or the one in the table, is a context.
LEMMA InstrumentedType ==
  ASSUME TypeInv, NEW a \in Addr, NEW c \in Ctxs, NEW fast \in BOOLEAN
  PROVE  /\ Instrumented(a, fast, c) \in FunctionContext
         /\ InstrumentUpdates(a, c) \in SUBSET Updates
         /\ [table EXCEPT ![a] = c] \in [Addr -> Ctxs \cup {None}]
<1>1. fc[c] \in FunctionContext /\ code[a] \in Addr \cup {None}
  BY DEF TypeInv, TypeOK
<1>2. Unborn \in FunctionContext
  BY DEF Unborn, FunctionContext
<1>3. NewContext(a, fast) \in FunctionContext
  BY <1>1, <1>2 DEF NewContext, FunctionContext
<1>4. InstrumentUpdates(a, c) \in SUBSET Updates
  BY SharedTypes DEF InstrumentUpdates, Updates
<1>5. [table EXCEPT ![a] = c] \in [Addr -> Ctxs \cup {None}]
  BY DEF TypeInv, TypeOK
<1> QED
  BY <1>1, <1>3, <1>4, <1>5 DEF Instrumented

\* The updates scheduled for a context.
LEMMA DestroyUpdatesType ==
  ASSUME NEW c \in Ctxs
  PROVE  DestroyUpdates(c) \in SUBSET Updates
BY DEF DestroyUpdates, Updates

\* An array with a listener added, or removed, is an array.
LEMMA ListenersType ==
  ASSUME NEW arr \in ListenerArray, NEW l \in Listeners
  PROVE  WithListener(arr, l) \in ListenerArray /\ WithoutListener(arr, l) \in ListenerArray
<1>1. arr.len \in Nat /\ arr.live \in SUBSET Listeners
  BY DEF ListenerArray
<1>2. Cardinality(arr.live) \in Nat
  BY <1>1, FS_Subset, FS_CardinalityType, ConstantsAssumption
<1> QED
  BY <1>1, <1>2 DEF WithListener, WithoutListener, ListenerArray

\* What is queued names contexts and listeners.
LEMMA TaskTypes ==
  ASSUME TypeInv, NEW c \in Ctxs, NEW l \in Listeners
  PROVE  /\ ArrayTask(c, Len(entries[c])) \in DestroyTask
         /\ ListenerTask(c, l) \in DestroyTask
         /\ ContextTask(c) \in DestroyTask
BY CurrentType DEF ArrayTask, ListenerTask, ContextTask, DestroyTask

\* Calls of the API keep the types: attach, detach, replace and revert, with
\* and without effect, and the calls about transactions.
LEMMA ApiStartsKeepTypes ==
  ASSUME TypeInv, NEW t \in Mutators, ApiStarts(t)
  PROVE  TypeInv'
<1>. t \in Threads
  BY ConstantsAssumption
<1>1. SharedOK
  BY SharedTypes
<1>. USE DEF heap
<1>2. ASSUME Refused(t) PROVE TypeInv'
  <2>1. <<>> \in Seq(DestroyTask)
    OBVIOUS
  <2>2. txn' \in Transaction
    BY <1>2, <2>1, SharedTypes, OpenedType DEF Refused
  <2>3. SharedOK'
    BY <1>1, <1>2, <2>2 DEF Refused, Starts, SharedOK
  <2>4. EntriesGrow
    BY <1>2, PublishedArrays DEF Refused
  <2> QED
    BY <1>2, <2>3, <2>4, GoesType, ApiStep DEF Refused, Goes
<1>3. ASSUME NEW f \in Functions, NEW l \in Listeners, Attach(t, f, l) PROVE TypeInv'
  <2>1. PICK a \in Addr, c \in Ctxs :
          /\ fc' = [fc EXCEPT ![c] = Instrumented(a, FALSE, c)]
          /\ table' = [table EXCEPT ![a] = c]
          /\ entries' = [entries EXCEPT ![c] = Append(@, WithListener(Current(c), l))]
          /\ txn' = Opened(<<ArrayTask(c, Len(entries[c]))>>, InstrumentUpdates(a, c))
          /\ Goes(t, "flags", c, l)
    BY <1>3 DEF Attach
  <2>2. <<ArrayTask(c, Len(entries[c]))>> \in Seq(DestroyTask)
    BY TaskTypes
  <2>3. txn' \in Transaction
    BY <2>1, <2>2, InstrumentedType, OpenedType
  <2>4. fc' \in [Ctxs -> FunctionContext] /\ table' \in [Addr -> Ctxs \cup {None}]
    BY <1>1, <2>1, InstrumentedType DEF SharedOK
  <2>5. promised' \subseteq Functions \X Listeners
    <3>1. promised' = promised \cup {<<f, l>>} /\ <<f, l>> \in Functions \X Listeners
      BY <1>3 DEF Attach
    <3> QED
      BY <1>1, <3>1, Zenon DEF SharedOK
  <2>6. SharedOK'
    <3>1. UNCHANGED <<code, reclaimed, refs, owned, open, guard>>
      BY <1>3 DEF Attach
    <3>2. lock' \in Threads \cup {None} /\ started' \in Nat
      BY <1>1, <1>3 DEF Attach, Starts, SharedOK
    <3> QED
      BY <1>1, <2>3, <2>4, <2>5, <3>1, <3>2 DEF SharedOK
  <2>7. EntriesGrow
    BY <2>1, CurrentType, ListenersType, PublishedArrays
  <2> QED
    BY <1>3, <2>1, <2>6, <2>7, GoesType, ApiStep DEF Attach, Goes
<1>4. ASSUME NEW l \in Listeners, Detach(t, l) PROVE TypeInv'
  <2>1. <<>> \in Seq(DestroyTask)
    OBVIOUS
  <2>2. txn' \in Transaction
    BY <1>4, <2>1, SharedTypes, OpenedType DEF Detach
  <2>3. SharedOK'
    BY <1>1, <1>4, <2>2 DEF Detach, Starts, SharedOK
  <2>4. EntriesGrow
    BY <1>4, PublishedArrays DEF Detach
  <2> QED
    BY <1>4, <2>3, <2>4, GoesType, ApiStep DEF Detach, Goes
<1>5. ASSUME NEW f \in Functions, NEW r \in Replacements, NEW fast \in BOOLEAN,
             Replace(t, f, r, fast)
      PROVE  TypeInv'
  <2>1. PICK a \in Addr, c \in Ctxs :
          /\ fc' = [fc EXCEPT ![c] =
                      [Instrumented(a, fast, c) EXCEPT !.repl = r, !.original = r]]
          /\ table' = [table EXCEPT ![a] = c]
          /\ txn' = Opened(<<>>, InstrumentUpdates(a, c))
    BY <1>5 DEF Replace
  <2>2. <<>> \in Seq(DestroyTask)
    OBVIOUS
  <2>3. txn' \in Transaction
    BY <2>1, <2>2, InstrumentedType, OpenedType
  <2>4. [Instrumented(a, fast, c) EXCEPT !.repl = r, !.original = r] \in FunctionContext
    <3>1. PICK ctx \in FunctionContext : ctx = Instrumented(a, fast, c)
      BY InstrumentedType
    <3> QED
      BY <3>1 DEF FunctionContext
  <2>5. fc' \in [Ctxs -> FunctionContext] /\ table' \in [Addr -> Ctxs \cup {None}]
    BY <1>1, <2>1, <2>4, InstrumentedType DEF SharedOK
  <2>6. SharedOK'
    BY <1>1, <1>5, <2>3, <2>5 DEF Replace, Starts, SharedOK
  <2>7. EntriesGrow
    BY <1>5, PublishedArrays DEF Replace
  <2> QED
    BY <1>5, <2>6, <2>7, GoesType, ApiStep DEF Replace, Goes
<1>6. ASSUME NEW f \in Functions, Revert(t, f) PROVE TypeInv'
  <2>1. PICK a \in Addr :
          LET c == table[a]
              ctx == [fc[c] EXCEPT !.repl = None]
              gone == IsEmpty(ctx, Current(c)) IN
          /\ c # None
          /\ fc' = [fc EXCEPT ![c] = [ctx EXCEPT !.destroyed = @ \/ gone]]
          /\ table' = IF gone THEN [table EXCEPT ![a] = None] ELSE table
          /\ txn' = Opened(IF gone THEN <<ContextTask(c)>> ELSE <<>>,
                           txn.updates \cup IF gone THEN DestroyUpdates(c) ELSE {})
    BY <1>6 DEF Revert
  <2> DEFINE c == table[a]
             gone == IsEmpty([fc[c] EXCEPT !.repl = None], Current(c))
  <2>2. c \in Ctxs
    BY <1>1, <2>1 DEF SharedOK
  <2>3. ContextTask(c) \in DestroyTask
    BY <2>2 DEF ContextTask, DestroyTask
  <2>4. /\ (IF gone THEN <<ContextTask(c)>> ELSE <<>>) \in Seq(DestroyTask)
        /\ (txn.updates \cup IF gone THEN DestroyUpdates(c) ELSE {}) \in SUBSET Updates
    BY <2>2, <2>3, SharedTypes, DestroyUpdatesType
  <2>5. txn' \in Transaction
    BY <2>1, <2>4, OpenedType
  <2>6. fc[c] \in FunctionContext
    BY <1>1, <2>2 DEF SharedOK
  <2>7. gone \in BOOLEAN
    BY DEF IsEmpty
  <2>8. [[fc[c] EXCEPT !.repl = None] EXCEPT !.destroyed = @ \/ gone] \in FunctionContext
    BY <2>6, <2>7 DEF FunctionContext
  <2>9. fc' \in [Ctxs -> FunctionContext] /\ table' \in [Addr -> Ctxs \cup {None}]
    BY <1>1, <2>1, <2>2, <2>8 DEF SharedOK
  <2>10. SharedOK'
    BY <1>1, <1>6, <2>5, <2>9 DEF Revert, Starts, SharedOK
  <2>11. EntriesGrow
    BY <1>6, PublishedArrays DEF Revert
  <2> QED
    BY <1>6, <2>10, <2>11, GoesType, ApiStep DEF Revert, Goes
<1>7. ASSUME BeginTransaction(t) PROVE TypeInv'
  <2>1. op[t] \in ApiCall /\ CallConsistent(op[t]) /\ op' = [op EXCEPT ![t] = op[t]]
    BY <1>7 DEF BeginTransaction, TypeInv, TypeOK, CallsConsistent
  <2>2. txn' \in Transaction /\ open' \in [Threads -> Nat]
    <3>1. txn' = [txn EXCEPT !.level = txn.level + 1] /\ open' = [open EXCEPT ![t] = @ + 1]
      BY <1>7 DEF BeginTransaction
    <3>2. txn' \in Transaction
      BY <3>1, SharedTypes, LevelType
    <3>3. open \in [Threads -> Nat]
      BY <1>1 DEF SharedOK
    <3> QED
      BY <3>1, <3>2, <3>3
  <2>3. SharedOK'
    BY <1>1, <1>7, <2>2 DEF BeginTransaction, SharedOK
  <2>4. EntriesGrow
    BY <1>7, PublishedArrays DEF BeginTransaction
  <2> QED
    BY <1>7, <2>1, <2>3, <2>4, ApiStep DEF BeginTransaction
<1>8. ASSUME EndTransaction(t) PROVE TypeInv'
  <2>1. open' \in [Threads -> Nat]
    BY <1>1, <1>8 DEF EndTransaction, SharedOK
  <2>2. SharedOK'
    BY <1>1, <1>8, <2>1 DEF EndTransaction, SharedOK
  <2>3. EntriesGrow
    BY <1>8, PublishedArrays DEF EndTransaction
  <2> QED
    BY <1>8, <2>2, <2>3, GoesType, ApiStep DEF EndTransaction, Goes
<1>9. ASSUME Flush(t) PROVE TypeInv'
  <2>1. txn' \in Transaction
    BY <1>9, LevelType DEF Flush
  <2>2. SharedOK'
    BY <1>1, <1>9, <2>1 DEF Flush, SharedOK
  <2>3. EntriesGrow
    BY <1>9, PublishedArrays DEF Flush
  <2> DEFINE o == [Idle EXCEPT !.kind = "flush", !.at = "end"]
  <2>4. o \in ApiCall /\ CallConsistent(o)
    BY IdleType DEF ApiCall, CallConsistent
  <2>5. op' = [op EXCEPT ![t] = o]
    BY <1>9 DEF Flush
  <2>. HIDE DEF o
  <2> QED
    BY <1>9, <2>2, <2>3, <2>4, <2>5, ApiStep DEF Flush
<1> QED
  BY <1>2, <1>3, <1>4, <1>5, <1>6, <1>7, <1>8, <1>9
     DEF ApiStarts, AttachRefused, ReplaceRefused, RevertNothing

\* The steps of attach and detach after the first keep the types.
LEMMA ListenerStepsKeepTypes ==
  ASSUME TypeInv, NEW t \in Mutators,
         \/ AttachFlags(t) \/ DetachRetire(t) \/ DetachDone(t)
         \/ \E c \in Ctxs : DetachFrom(t, c)
  PROVE  TypeInv'
<1>. USE DEF heap
<1>1. t \in Threads /\ op[t] \in ApiCall /\ CallConsistent(op[t])
  BY ConstantsAssumption DEF TypeInv, TypeOK, CallsConsistent
<1>2. SharedOK
  BY SharedTypes
<1>3. ASSUME AttachFlags(t) PROVE TypeInv'
  <2> DEFINE o == [op[t] EXCEPT !.at = "end"]
  <2>1. o \in ApiCall /\ CallConsistent(o)
    BY <1>1 DEF ApiCall, CallConsistent
  <2>2. op' = [op EXCEPT ![t] = o]
    BY <1>3 DEF AttachFlags
  <2>3. fc' \in [Ctxs -> FunctionContext]
    <3>1. PICK b \in BOOLEAN : fc' = [fc EXCEPT ![op[t].ctx].hasLeave = b]
      BY <1>3 DEF AttachFlags
    <3>2. \A c \in Ctxs : [fc[c] EXCEPT !.hasLeave = b] \in FunctionContext
      BY <1>2 DEF SharedOK, FunctionContext
    <3> QED
      BY <1>2, <3>1, <3>2 DEF SharedOK
  <2>4. SharedOK'
    BY <1>2, <1>3, <2>3 DEF AttachFlags, SharedOK
  <2>5. EntriesGrow
    BY <1>3, PublishedArrays DEF AttachFlags
  <2>. HIDE DEF o
  <2> QED
    BY <1>1, <1>3, <2>1, <2>2, <2>4, <2>5, ApiStep DEF AttachFlags
<1>4. ASSUME NEW c \in Ctxs, DetachFrom(t, c) PROVE TypeInv'
  <2> DEFINE o == [op[t] EXCEPT !.at = "retire", !.ctx = c]
  <2>1. op[t].at = "detaching" /\ op[t].lsn \in Listeners
    BY <1>1, <1>4 DEF DetachFrom, CallConsistent
  <2>2. o \in ApiCall /\ CallConsistent(o)
    BY <1>1, <2>1 DEF ApiCall, CallConsistent
  <2>3. op' = [op EXCEPT ![t] = o]
    BY <1>4 DEF DetachFrom
  <2>4. txn' \in Transaction
    <3>1. Append(txn.destroy, ArrayTask(c, Len(entries[c]))) \in Seq(DestroyTask)
      BY <2>1, SharedTypes, TaskTypes
    <3> QED
      BY <1>2, <1>4, <3>1 DEF DetachFrom, Transaction, SharedOK
  <2>5. SharedOK'
    BY <1>2, <1>4, <2>4 DEF DetachFrom, SharedOK
  <2>6. EntriesGrow
    BY <1>4, <2>1, CurrentType, ListenersType, PublishedArrays DEF DetachFrom
  <2>. HIDE DEF o
  <2> QED
    BY <1>1, <1>4, <2>2, <2>3, <2>5, <2>6, ApiStep DEF DetachFrom
<1>5. ASSUME DetachRetire(t) PROVE TypeInv'
  <2> DEFINE c == op[t].ctx
             b == Current(c).live \cap LeaveListeners # {}
             ctx == [fc[c] EXCEPT !.hasLeave = b]
             gone == IsEmpty(ctx, Current(c))
             o == [op[t] EXCEPT !.at = "detaching", !.ctx = None]
  <2>1. op[t].at = "retire" /\ c \in Ctxs /\ op[t].lsn \in Listeners
    BY <1>1, <1>5 DEF DetachRetire, CallConsistent
  <2>2. o \in ApiCall /\ CallConsistent(o)
    BY <1>1, <2>1 DEF ApiCall, CallConsistent
  <2>3. op' = [op EXCEPT ![t] = o]
    BY <1>5 DEF DetachRetire
  <2>4. b \in BOOLEAN /\ gone \in BOOLEAN
    BY DEF IsEmpty
  <2>5. fc' \in [Ctxs -> FunctionContext]
    <3>1. fc' = [fc EXCEPT ![c] = [ctx EXCEPT !.destroyed = @ \/ gone]]
      BY <1>5 DEF DetachRetire
    <3>2. fc[c] \in FunctionContext
      BY <1>2, <2>1 DEF SharedOK
    <3>. HIDE DEF b, gone
    <3>3. [ctx EXCEPT !.destroyed = @ \/ gone] \in FunctionContext
      BY <2>4, <3>2 DEF FunctionContext
    <3> QED
      BY <1>2, <3>1, <3>3 DEF SharedOK
  <2>6. table' \in [Addr -> Ctxs \cup {None}]
    BY <1>2, <1>5 DEF SharedOK, DetachRetire
  <2>7. refs' \in [Listeners -> Int]
    <3>1. refs' = [refs EXCEPT ![op[t].lsn] = @ + 1]
      BY <1>5 DEF DetachRetire, WithReference
    <3>2. refs \in [Listeners -> Int]
      BY <1>2 DEF SharedOK
    <3> QED
      BY <2>1, <3>1, <3>2
  <2>8. txn' \in Transaction
    <3>1. ListenerTask(c, op[t].lsn) \in DestroyTask /\ ContextTask(c) \in DestroyTask
      BY <2>1, TaskTypes
    <3>2. (IF gone THEN txn.updates \cup DestroyUpdates(c) ELSE txn.updates) \in SUBSET Updates
      BY <2>1, SharedTypes, DestroyUpdatesType
    <3>3. txn' = [txn EXCEPT !.destroy = (txn.destroy \o <<ListenerTask(c, op[t].lsn)>>)
                                            \o IF gone THEN <<ContextTask(c)>> ELSE <<>>,
                             !.updates = IF gone THEN @ \cup DestroyUpdates(c) ELSE @]
      BY <1>5 DEF DetachRetire
    <3>4. (txn.destroy \o <<ListenerTask(c, op[t].lsn)>>)
            \o (IF gone THEN <<ContextTask(c)>> ELSE <<>>) \in Seq(DestroyTask)
      BY <3>1, SharedTypes
    <3>. HIDE DEF gone, c
    <3> QED
      BY <1>2, <3>2, <3>3, <3>4 DEF Transaction, SharedOK
  <2>9. SharedOK'
    <3>1. UNCHANGED <<lock, code, reclaimed, owned, open, guard, promised, started>>
      BY <1>5 DEF DetachRetire
    <3> QED
      BY <1>2, <2>5, <2>6, <2>7, <2>8, <3>1 DEF SharedOK
  <2>10. EntriesGrow
    BY <1>5, PublishedArrays DEF DetachRetire
  <2>11. UNCHANGED calls
    BY <1>5 DEF DetachRetire
  <2>. HIDE DEF o
  <2> QED
    BY <1>1, <2>2, <2>3, <2>9, <2>10, <2>11, ApiStep
<1>6. ASSUME DetachDone(t) PROVE TypeInv'
  <2> DEFINE o == [op[t] EXCEPT !.at = "end", !.lsn = None]
  <2>1. o \in ApiCall /\ CallConsistent(o)
    BY <1>1 DEF ApiCall, CallConsistent
  <2>2. op' = [op EXCEPT ![t] = o]
    BY <1>6 DEF DetachDone
  <2>3. SharedOK'
    BY <1>2, <1>6 DEF DetachDone, SharedOK
  <2>4. EntriesGrow
    BY <1>6, PublishedArrays DEF DetachDone
  <2>. HIDE DEF o
  <2> QED
    BY <1>1, <1>6, <2>1, <2>2, <2>3, <2>4, ApiStep DEF DetachDone
<1> QED
  BY <1>3, <1>4, <1>5, <1>6

\* The end of a transaction, up to the tasks, keeps the types.
LEMMA PatchStepsKeepTypes ==
  ASSUME TypeInv, NEW t \in Mutators,
         \/ EndNothingToDo(t) \/ EndTakesCopy(t) \/ Patched(t)
         \/ \E c \in Ctxs : ActivateUpdate(t, c) \/ DeactivateUpdate(t, c)
  PROVE  TypeInv'
<1>. USE DEF heap
<1>1. t \in Threads /\ op[t] \in ApiCall /\ CallConsistent(op[t])
  BY ConstantsAssumption DEF TypeInv, TypeOK, CallsConsistent
<1>2. SharedOK
  BY SharedTypes
<1>3. ASSUME EndNothingToDo(t) PROVE TypeInv'
  <2>1. txn' \in Transaction
    <3>1. (txn.dirty /\ ~AtOutermostEnd) \in BOOLEAN /\ txn.level - 1 \in Int
      BY SharedTypes
    <3>2. txn' = [txn EXCEPT !.level = txn.level - 1, !.dirty = txn.dirty /\ ~AtOutermostEnd]
      BY <1>3 DEF EndNothingToDo
    <3>3. txn \in Transaction
      BY <1>2 DEF SharedOK
    <3> QED
      BY <3>1, <3>2, <3>3 DEF Transaction
  <2>2. SharedOK'
    BY <1>2, <1>3, <2>1 DEF EndNothingToDo, Returns, SharedOK
  <2>3. EntriesGrow
    BY <1>3, PublishedArrays DEF EndNothingToDo
  <2> QED
    BY <1>1, <1>3, <2>2, <2>3, IdleType, ApiStep DEF EndNothingToDo, Returns
<1>4. ASSUME EndTakesCopy(t) PROVE TypeInv'
  <2> DEFINE o == [op[t] EXCEPT !.at = "patch", !.destroy = txn.destroy,
                                !.updates = txn.updates]
  <2>1. o \in ApiCall /\ CallConsistent(o)
    BY <1>1, SharedTypes DEF ApiCall, CallConsistent
  <2>2. op' = [op EXCEPT ![t] = o]
    BY <1>4 DEF EndTakesCopy
  <2>3. txn' \in Transaction
    <3>1. <<>> \in Seq(DestroyTask)
      OBVIOUS
    <3> QED
      BY <1>4, <3>1 DEF EndTakesCopy, Reinitialized, CleanTransaction, Transaction
  <2>4. SharedOK'
    BY <1>2, <1>4, <2>3 DEF EndTakesCopy, SharedOK
  <2>5. EntriesGrow
    BY <1>4, PublishedArrays DEF EndTakesCopy
  <2>. HIDE DEF o
  <2> QED
    BY <1>1, <1>4, <2>1, <2>2, <2>4, <2>5, ApiStep DEF EndTakesCopy
<1>5. ASSUME Patched(t) PROVE TypeInv'
  <2> DEFINE o == [op[t] EXCEPT !.at = "tasks"]
  <2>1. o \in ApiCall /\ CallConsistent(o)
    BY <1>1 DEF ApiCall, CallConsistent
  <2>2. op' = [op EXCEPT ![t] = o]
    BY <1>5 DEF Patched
  <2>3. SharedOK'
    BY <1>2, <1>5 DEF Patched, SharedOK
  <2>4. EntriesGrow
    BY <1>5, PublishedArrays DEF Patched
  <2>. HIDE DEF o
  <2> QED
    BY <1>1, <1>5, <2>1, <2>2, <2>3, <2>4, ApiStep DEF Patched
<1>6. ASSUME NEW c \in Ctxs, ActivateUpdate(t, c) \/ DeactivateUpdate(t, c)
      PROVE  TypeInv'
  <2>1. fc[c] \in FunctionContext /\ c \in Addr
    BY <1>2 DEF SharedOK, Addr
  <2>2. PICK u \in SUBSET Updates : op' = [op EXCEPT ![t] = [op[t] EXCEPT !.updates = u]]
    <3>1. op[t].updates \in SUBSET Updates
      BY <1>1 DEF ApiCall
    <3>2. \A x : op[t].updates \ {x} \in SUBSET Updates
      BY <3>1
    <3> QED
      BY <1>6, <3>2 DEF ActivateUpdate, DeactivateUpdate
  <2>3. /\ [op[t] EXCEPT !.updates = u] \in ApiCall
        /\ CallConsistent([op[t] EXCEPT !.updates = u])
    BY <1>1 DEF ApiCall, CallConsistent
  <2>4. fc' \in [Ctxs -> FunctionContext]
    <3>1. \/ fc' = fc
          \/ \E b \in BOOLEAN : fc' = [fc EXCEPT ![c].activated = b]
      BY <1>6 DEF ActivateUpdate, DeactivateUpdate
    <3>2. \A b \in BOOLEAN : [fc[c] EXCEPT !.activated = b] \in FunctionContext
      BY <2>1 DEF FunctionContext
    <3> QED
      BY <1>2, <3>1, <3>2 DEF SharedOK
  <2>5. code' \in [Addr -> Addr \cup {None}]
    <3>1. fc[c].saved \in Addr \cup {None} /\ fc[c].repl \in Addr \cup {None}
      BY <2>1 DEF FunctionContext, Addr
    <3>2. \/ code' = code
          \/ \E x \in Addr \cup {None} : code' = [code EXCEPT ![fc[c].addr] = x]
      BY <1>6, <2>1, <3>1 DEF ActivateUpdate, DeactivateUpdate
    <3> QED
      BY <1>2, <3>2 DEF SharedOK
  <2>6. UNCHANGED <<lock, table, entries, reclaimed, refs, owned, txn, open, calls,
                    guard, promised, started>>
    BY <1>6 DEF ActivateUpdate, DeactivateUpdate
  <2>7. SharedOK'
    BY <1>2, <2>4, <2>5, <2>6 DEF SharedOK
  <2> QED
    BY <1>1, <2>2, <2>3, <2>6, <2>7, PublishedArrays, ApiStep
<1> QED
  BY <1>3, <1>4, <1>5, <1>6

\* Running the tasks, or putting them back, keeps the types.
LEMMA TaskStepsKeepTypes ==
  ASSUME TypeInv, NEW t \in Mutators,
         TaskRuns(t) \/ TaskRequeued(t) \/ TasksDone(t) \/ Notify(t) \/ Relock(t)
  PROVE  TypeInv'
<1>. USE DEF heap
<1>1. t \in Threads /\ op[t] \in ApiCall /\ CallConsistent(op[t])
  BY ConstantsAssumption DEF TypeInv, TypeOK, CallsConsistent
<1>2. SharedOK /\ op[t].destroy \in Seq(DestroyTask)
  BY <1>1, SharedTypes DEF ApiCall
<1>3. ASSUME op[t].destroy # <<>>
      PROVE  Head(op[t].destroy) \in DestroyTask /\ Tail(op[t].destroy) \in Seq(DestroyTask)
  BY <1>2, <1>3
<1>4. ASSUME TaskRuns(t) PROVE TypeInv'
  <2> DEFINE o == [op[t] EXCEPT !.at = "notify", !.task = Head(op[t].destroy),
                                !.destroy = Tail(@)]
  <2>1. o \in ApiCall /\ CallConsistent(o)
    BY <1>1, <1>3, <1>4 DEF TaskRuns, ApiCall, CallConsistent
  <2>2. op' = [op EXCEPT ![t] = o]
    BY <1>4 DEF TaskRuns
  <2>3. SharedOK'
    BY <1>2, <1>4 DEF TaskRuns, SharedOK
  <2>4. EntriesGrow
    BY <1>4, PublishedArrays DEF TaskRuns
  <2>. HIDE DEF o
  <2> QED
    BY <1>1, <1>4, <2>1, <2>2, <2>3, <2>4, ApiStep DEF TaskRuns
<1>5. ASSUME TaskRequeued(t) PROVE TypeInv'
  <2> DEFINE o == [op[t] EXCEPT !.destroy = Tail(@)]
  <2>1. o \in ApiCall /\ CallConsistent(o)
    BY <1>1, <1>3, <1>5 DEF TaskRequeued, ApiCall, CallConsistent
  <2>2. op' = [op EXCEPT ![t] = o]
    BY <1>5 DEF TaskRequeued
  <2>3. txn' \in Transaction
    <3>1. Append(txn.destroy, Head(op[t].destroy)) \in Seq(DestroyTask)
      BY <1>3, <1>5, SharedTypes DEF TaskRequeued
    <3> QED
      BY <1>2, <1>5, <3>1 DEF TaskRequeued, Requeues, Transaction, SharedOK
  <2>4. SharedOK'
    BY <1>2, <1>5, <2>3 DEF TaskRequeued, SharedOK
  <2>5. EntriesGrow
    BY <1>5, PublishedArrays DEF TaskRequeued
  <2>. HIDE DEF o
  <2> QED
    BY <1>1, <1>5, <2>1, <2>2, <2>4, <2>5, ApiStep DEF TaskRequeued
<1>6. ASSUME TasksDone(t) PROVE TypeInv'
  <2>1. SharedOK'
    BY <1>2, <1>6 DEF TasksDone, Returns, SharedOK
  <2>2. EntriesGrow
    BY <1>6, PublishedArrays DEF TasksDone
  <2> QED
    BY <1>1, <1>6, <2>1, <2>2, IdleType, ApiStep DEF TasksDone, Returns
<1>7. ASSUME Notify(t) PROVE TypeInv'
  <2> DEFINE task == op[t].task
             o == [op[t] EXCEPT !.at = "relock", !.task = None]
  <2>1. task \in DestroyTask
    BY <1>1, <1>7 DEF Notify, CallConsistent
  <2>2. task.ctx \in Ctxs /\ task.ver \in Nat
    BY <2>1 DEF DestroyTask
  <2>3. o \in ApiCall /\ CallConsistent(o)
    BY <1>1 DEF ApiCall, CallConsistent
  <2>4. op' = [op EXCEPT ![t] = o]
    BY <1>7 DEF Notify
  <2>5. reclaimed' \subseteq Arrays
    <3>1. <<task.ctx, task.ver>> \in Arrays /\ <<task.ctx, Len(entries[task.ctx])>> \in Arrays
      BY <2>2, CurrentType DEF Arrays
    <3>2. PICK released \in SUBSET Arrays : reclaimed' = reclaimed \cup released
      <4>1. {<<task.ctx, task.ver>>} \in SUBSET Arrays
            /\ {<<task.ctx, Len(entries[task.ctx])>>} \in SUBSET Arrays
            /\ {} \in SUBSET Arrays
        BY <3>1
      <4> QED
        BY <1>7, <4>1 DEF Notify
    <3> QED
      BY <1>2, <3>2 DEF SharedOK
  <2>6. fc' \in [Ctxs -> FunctionContext]
    <3>1. fc[task.ctx] \in FunctionContext
      BY <1>2, <2>2 DEF SharedOK
    <3>2. [fc[task.ctx] EXCEPT !.state = "freed"] \in FunctionContext
      BY <3>1 DEF FunctionContext
    <3>3. fc' = fc \/ fc' = [fc EXCEPT ![task.ctx] = [fc[task.ctx] EXCEPT !.state = "freed"]]
      BY <1>7 DEF Notify
    <3> QED
      BY <1>2, <3>2, <3>3 DEF SharedOK
  <2>7. refs' \in [Listeners -> Int]
    <3>1. refs' = refs \/ refs' = [refs EXCEPT ![task.lsn] = @ - 1]
      BY <1>7 DEF Notify
    <3>2. refs \in [Listeners -> Int]
      BY <1>2 DEF SharedOK
    <3> QED
      BY <3>1, <3>2
  <2>8. UNCHANGED <<lock, table, code, entries, owned, txn, open, calls, guard,
                    promised, started>>
    BY <1>7 DEF Notify
  <2>9. SharedOK'
    BY <1>2, <2>5, <2>6, <2>7, <2>8 DEF SharedOK
  <2>. HIDE DEF o, task
  <2> QED
    BY <1>1, <2>3, <2>4, <2>8, <2>9, PublishedArrays, ApiStep
<1>8. ASSUME Relock(t) PROVE TypeInv'
  <2> DEFINE o == [op[t] EXCEPT !.at = "tasks"]
  <2>1. o \in ApiCall /\ CallConsistent(o)
    BY <1>1 DEF ApiCall, CallConsistent
  <2>2. op' = [op EXCEPT ![t] = o]
    BY <1>8 DEF Relock
  <2>3. SharedOK'
    BY <1>1, <1>2, <1>8 DEF Relock, SharedOK
  <2>4. EntriesGrow
    BY <1>8, PublishedArrays DEF Relock
  <2>. HIDE DEF o
  <2> QED
    BY <1>1, <1>8, <2>1, <2>2, <2>3, <2>4, ApiStep DEF Relock
<1> QED
  BY <1>4, <1>5, <1>6, <1>7, <1>8

\* Dropping the creator's reference to a listener keeps the types.
LEMMA UnrefKeepsTypes ==
  ASSUME TypeInv, NEW l \in Listeners, Unref(l)
  PROVE  TypeInv'
<1>1. refs' \in [Listeners -> Int] /\ owned' \subseteq Listeners
  BY SharedTypes DEF Unref, SharedOK
<1>2. TypeOK'
  BY <1>1 DEF Unref, TypeInv, TypeOK
<1>3. FramesConsistent' /\ CallsConsistent' /\ ArraysExist'
  BY DEF Unref, TypeInv, FramesConsistent, FrameConsistent, CallsConsistent,
         CallConsistent, ArraysExist
<1> QED
  BY <1>2, <1>3 DEF TypeInv

-----------------------------------------------------------------------------
(* The type invariant *)

\* The types hold at first.
LEMMA InitTypes == Init => TypeInv
<1> SUFFICES ASSUME Init PROVE TypeInv
  OBVIOUS
<1>. USE DEF Init
<1>1. fc \in [Ctxs -> FunctionContext]
  BY DEF Unborn, FunctionContext
<1>2. /\ entries \in [Ctxs -> Seq(ListenerArray)]
      /\ ArraysExist
  <2>1. [len |-> 0, live |-> {}] \in ListenerArray
    BY DEF ListenerArray
  <2>2. /\ <<[len |-> 0, live |-> {}]>> \in Seq(ListenerArray)
        /\ <<[len |-> 0, live |-> {}]>> # <<>>
    BY <2>1
  <2> QED
    BY <2>2 DEF ArraysExist
<1>3. txn \in Transaction
  <2>1. <<>> \in Seq(DestroyTask)
    OBVIOUS
  <2> QED
    BY <2>1 DEF CleanTransaction, Transaction
<1>4. op \in [Threads -> ApiCall] /\ CallsConsistent
  BY IdleType DEF CallsConsistent
<1>5. calls \in [Threads -> Seq(Frame)] /\ FramesConsistent
  <2>1. <<>> \in Seq(Frame) /\ DOMAIN <<>> = {}
    OBVIOUS
  <2> QED
    BY <2>1 DEF FramesConsistent
<1>6. TypeOK
  BY <1>1, <1>2, <1>3, <1>4, <1>5 DEF TypeOK
<1> QED
  BY <1>2, <1>4, <1>5, <1>6 DEF TypeInv

\* Every step keeps them.
LEMMA NextKeepsTypes == TypeInv /\ [Next]_vars => TypeInv'
<1> SUFFICES ASSUME TypeInv, [Next]_vars PROVE TypeInv'
  OBVIOUS
<1>1. ASSUME NEW t \in Mutators, ApiStarts(t) \/ ApiSteps(t) \/ Relock(t) PROVE TypeInv'
  BY <1>1, ApiStartsKeepTypes, ListenerStepsKeepTypes, PatchStepsKeepTypes,
     TaskStepsKeepTypes DEF ApiSteps
<1>2. ASSUME NEW t \in Callers,
             \/ \E f \in Functions : Call(t, f)
             \/ \E c \in Ctxs : CallOriginal(t, c)
             \/ InvocationSteps(t)
             \/ Return(t)
      PROVE  TypeInv'
  BY <1>2, CallsKeepTypes, QuietStepsKeepTypes, OtherStepsKeepTypes DEF InvocationSteps
<1>3. ASSUME NEW l \in Listeners, Unref(l) PROVE TypeInv'
  BY <1>3, UnrefKeepsTypes
<1>4. CASE UNCHANGED vars
  BY <1>4 DEF vars, TypeInv, TypeOK, FramesConsistent, FrameConsistent, CallsConsistent,
              CallConsistent, ArraysExist
<1> QED
  BY <1>1, <1>2, <1>3, <1>4 DEF Next

\* The variables have their types, the frames and the API calls have what the
\* step they are at works on, and every context has a listener array.
THEOREM TypeInvariant == Spec => []TypeInv
<1> QED
  BY InitTypes, NextKeepsTypes, PTL DEF Spec

\* Every variable keeps its type.
THEOREM TypeCorrect == Spec => []TypeOK
<1>1. TypeInv => TypeOK
  BY DEF TypeInv
<1> QED
  BY <1>1, TypeInvariant, PTL

-----------------------------------------------------------------------------
(* Mutual exclusion *)

\* It is enough that the thread that makes a step owns the mutex after it just
\* when it is at a locked step, and takes it from nobody else.
LEMMA OwnerMoves ==
  ASSUME TypeInv, LockProtects, NEW t \in Threads, NEW o, op' = [op EXCEPT ![t] = o],
         o.at \in LockedSteps <=> lock' = t,
         \A u \in Threads \ {t} : lock' = u <=> lock = u
  PROVE  LockProtects'
<1>1. op \in [Threads -> ApiCall]
  BY DEF TypeInv, TypeOK
<1> QED
  BY <1>1 DEF LockProtects, LockedSteps

\* A call takes the mutex and leaves the thread at a locked step.
LEMMA StartsLock ==
  ASSUME TypeInv, LockProtects, NEW t \in Threads, NEW o, op' = [op EXCEPT ![t] = o],
         lock = None, lock' = t, o.at \in LockedSteps
  PROVE  LockProtects'
BY OwnerMoves, ConstantsAssumption

\* The owner keeps the mutex as long as it is at a locked step.
LEMMA OwnerStays ==
  ASSUME TypeInv, LockProtects, NEW t \in Threads, NEW o, op' = [op EXCEPT ![t] = o],
         op[t].at \in LockedSteps,
         \/ UNCHANGED lock /\ o.at \in LockedSteps
         \/ lock' = None /\ o.at \notin LockedSteps
  PROVE  LockProtects'
<1>1. lock = t /\ t # None
  BY ConstantsAssumption DEF LockProtects
<1> QED
  BY <1>1, OwnerMoves, ConstantsAssumption

\* Nobody is in the API at first.
LEMMA InitLock == Init => LockProtects
BY ConstantsAssumption DEF Init, Idle, LockProtects, LockedSteps

\* Every step keeps the owner and the steps that need one together.
LEMMA NextKeepsLock == TypeInv /\ LockProtects /\ [Next]_vars => LockProtects'
<1> SUFFICES ASSUME TypeInv, LockProtects, [Next]_vars PROVE LockProtects'
  OBVIOUS
<1>1. ASSUME UNCHANGED <<lock, op>> PROVE LockProtects'
  BY <1>1 DEF LockProtects, LockedSteps
<1>2. ASSUME NEW t \in Mutators, ApiStarts(t) PROVE LockProtects'
  <2>. t \in Threads
    BY ConstantsAssumption
  <2>1. ASSUME NEW step \in {"flags", "detaching", "end"}, NEW c, NEW l,
               lock = None, lock' = t, Goes(t, step, c, l)
        PROVE  LockProtects'
    <3> DEFINE o == [Idle EXCEPT !.kind = "update", !.at = step, !.ctx = c, !.lsn = l]
    <3>1. op' = [op EXCEPT ![t] = o] /\ o.at \in LockedSteps
      BY <2>1 DEF Goes, Idle, LockedSteps
    <3>. HIDE DEF o
    <3> QED
      BY <2>1, <3>1, StartsLock
  <2>2. ASSUME BeginTransaction(t) PROVE LockProtects'
    BY <1>1, <2>2 DEF BeginTransaction
  <2>3. ASSUME Flush(t) PROVE LockProtects'
    <3> DEFINE o == [Idle EXCEPT !.kind = "flush", !.at = "end"]
    <3>1. op' = [op EXCEPT ![t] = o] /\ o.at \in LockedSteps
      BY <2>3 DEF Flush, Idle, LockedSteps
    <3>. HIDE DEF o
    <3> QED
      BY <2>3, <3>1, StartsLock DEF Flush
  <2>4. ASSUME Refused(t) PROVE LockProtects'
    BY <2>1, <2>4 DEF Refused, Starts
  <2>5. ASSUME NEW f \in Functions, NEW l \in Listeners, Attach(t, f, l) PROVE LockProtects'
    BY <2>1, <2>5 DEF Attach, Starts
  <2>6. ASSUME NEW l \in Listeners, Detach(t, l) PROVE LockProtects'
    BY <2>1, <2>6 DEF Detach, Starts
  <2>7. ASSUME NEW f \in Functions, NEW r \in Replacements, NEW fast \in BOOLEAN,
               Replace(t, f, r, fast)
        PROVE  LockProtects'
    BY <2>1, <2>7 DEF Replace, Starts
  <2>8. ASSUME NEW f \in Functions, Revert(t, f) PROVE LockProtects'
    BY <2>1, <2>8 DEF Revert, Starts
  <2>9. ASSUME EndTransaction(t) PROVE LockProtects'
    BY <2>1, <2>9 DEF EndTransaction
  <2> QED
    BY <1>2, <2>2, <2>3, <2>4, <2>5, <2>6, <2>7, <2>8, <2>9
       DEF ApiStarts, AttachRefused, ReplaceRefused, RevertNothing
<1>3. ASSUME NEW t \in Mutators, ApiSteps(t) \/ Relock(t) PROVE LockProtects'
  <2>1. t \in Threads /\ op[t] \in ApiCall /\ op \in [Threads -> ApiCall]
    BY ConstantsAssumption DEF TypeInv, TypeOK
  <2>2. CASE AttachFlags(t)
    <3> DEFINE o == [op[t] EXCEPT !.at = "end"]
    <3>1. op' = [op EXCEPT ![t] = o] /\ UNCHANGED lock /\ op[t].at \in LockedSteps
      BY <2>2 DEF AttachFlags, LockedSteps
    <3>2. o.at \in LockedSteps
      BY <2>1, <2>2 DEF ApiCall, AttachFlags, LockedSteps
    <3>. HIDE DEF o
    <3> QED
      BY <2>1, <3>1, <3>2, OwnerStays
  <2>3. CASE DetachRetire(t)
    <3> DEFINE o == [op[t] EXCEPT !.at = "detaching", !.ctx = None]
    <3>1. op' = [op EXCEPT ![t] = o] /\ UNCHANGED lock /\ op[t].at \in LockedSteps
      BY <2>3 DEF DetachRetire, LockedSteps
    <3>2. o.at \in LockedSteps
      BY <2>1, <2>3 DEF ApiCall, DetachRetire, LockedSteps
    <3>. HIDE DEF o
    <3> QED
      BY <2>1, <3>1, <3>2, OwnerStays
  <2>4. CASE DetachDone(t)
    <3> DEFINE o == [op[t] EXCEPT !.at = "end", !.lsn = None]
    <3>1. op' = [op EXCEPT ![t] = o] /\ UNCHANGED lock /\ op[t].at \in LockedSteps
      BY <2>4 DEF DetachDone, LockedSteps
    <3>2. o.at \in LockedSteps
      BY <2>1, <2>4 DEF ApiCall, DetachDone, LockedSteps
    <3>. HIDE DEF o
    <3> QED
      BY <2>1, <3>1, <3>2, OwnerStays
  <2>5. CASE EndTakesCopy(t)
    <3> DEFINE o == [op[t] EXCEPT !.at = "patch", !.destroy = txn.destroy,
                                  !.updates = txn.updates]
    <3>1. op' = [op EXCEPT ![t] = o] /\ UNCHANGED lock /\ op[t].at \in LockedSteps
      BY <2>5 DEF EndTakesCopy, LockedSteps
    <3>2. o.at \in LockedSteps
      BY <2>1, <2>5 DEF ApiCall, EndTakesCopy, LockedSteps
    <3>. HIDE DEF o
    <3> QED
      BY <2>1, <3>1, <3>2, OwnerStays
  <2>6. CASE Patched(t)
    <3> DEFINE o == [op[t] EXCEPT !.at = "tasks"]
    <3>1. op' = [op EXCEPT ![t] = o] /\ UNCHANGED lock /\ op[t].at \in LockedSteps
      BY <2>6 DEF Patched, LockedSteps
    <3>2. o.at \in LockedSteps
      BY <2>1, <2>6 DEF ApiCall, Patched, LockedSteps
    <3>. HIDE DEF o
    <3> QED
      BY <2>1, <3>1, <3>2, OwnerStays
  <2>7. CASE TaskRequeued(t)
    <3> DEFINE o == [op[t] EXCEPT !.destroy = Tail(@)]
    <3>1. op' = [op EXCEPT ![t] = o] /\ UNCHANGED lock /\ op[t].at \in LockedSteps
      BY <2>7 DEF TaskRequeued, LockedSteps
    <3>2. o.at \in LockedSteps
      BY <2>1, <2>7 DEF ApiCall, TaskRequeued, LockedSteps
    <3>. HIDE DEF o
    <3> QED
      BY <2>1, <3>1, <3>2, OwnerStays
  <2>8. ASSUME NEW c \in Ctxs, DetachFrom(t, c) PROVE LockProtects'
    <3> DEFINE o == [op[t] EXCEPT !.at = "retire", !.ctx = c]
    <3>1. op' = [op EXCEPT ![t] = o] /\ UNCHANGED lock /\ op[t].at \in LockedSteps
      BY <2>8 DEF DetachFrom, LockedSteps
    <3>2. o.at \in LockedSteps
      BY <2>1, <2>8 DEF ApiCall, DetachFrom, LockedSteps
    <3>. HIDE DEF o
    <3> QED
      BY <2>1, <3>1, <3>2, OwnerStays
  <2>9. ASSUME NEW c \in Ctxs, ActivateUpdate(t, c) PROVE LockProtects'
    <3> DEFINE o == [op[t] EXCEPT !.updates = @ \ {<<c, "activate">>}]
    <3>1. op' = [op EXCEPT ![t] = o] /\ UNCHANGED lock /\ op[t].at \in LockedSteps
      BY <2>9 DEF ActivateUpdate, LockedSteps
    <3>2. o.at \in LockedSteps
      BY <2>1, <2>9 DEF ApiCall, ActivateUpdate, LockedSteps
    <3>. HIDE DEF o
    <3> QED
      BY <2>1, <3>1, <3>2, OwnerStays
  <2>10. ASSUME NEW c \in Ctxs, DeactivateUpdate(t, c) PROVE LockProtects'
    <3> DEFINE o == [op[t] EXCEPT !.updates = @ \ {<<c, "deactivate">>}]
    <3>1. op' = [op EXCEPT ![t] = o] /\ UNCHANGED lock /\ op[t].at \in LockedSteps
      BY <2>10 DEF DeactivateUpdate, LockedSteps
    <3>2. o.at \in LockedSteps
      BY <2>1, <2>10 DEF ApiCall, DeactivateUpdate, LockedSteps
    <3>. HIDE DEF o
    <3> QED
      BY <2>1, <3>1, <3>2, OwnerStays
  <2>11. CASE EndNothingToDo(t) \/ TasksDone(t)
    BY <2>1, <2>11, OwnerStays DEF EndNothingToDo, TasksDone, Returns, Idle, LockedSteps
  <2>12. CASE TaskRuns(t)
    <3> DEFINE o == [op[t] EXCEPT !.at = "notify", !.task = Head(op[t].destroy),
                                  !.destroy = Tail(@)]
    <3>1. op' = [op EXCEPT ![t] = o] /\ lock' = None /\ op[t].at \in LockedSteps
      BY <2>12 DEF TaskRuns, LockedSteps
    <3>2. o.at \notin LockedSteps
      BY <2>1 DEF ApiCall, LockedSteps
    <3>. HIDE DEF o
    <3> QED
      BY <2>1, <3>1, <3>2, OwnerStays
  <2>13. CASE Notify(t)
    <3>1. UNCHANGED lock /\ op[t].at \notin LockedSteps /\ op'[t].at \notin LockedSteps
      BY <2>1, <2>13 DEF Notify, LockedSteps, ApiCall
    <3>2. \A u \in Threads \ {t} : op'[u] = op[u]
      BY <2>1, <2>13 DEF Notify
    <3> QED
      BY <3>1, <3>2 DEF LockProtects, LockedSteps
  <2>14. CASE Relock(t)
    <3> DEFINE o == [op[t] EXCEPT !.at = "tasks"]
    <3>1. op' = [op EXCEPT ![t] = o] /\ lock = None /\ lock' = t
      BY <2>14 DEF Relock
    <3>2. o.at \in LockedSteps
      BY <2>1 DEF ApiCall, LockedSteps
    <3>. HIDE DEF o
    <3> QED
      BY <2>1, <3>1, <3>2, StartsLock
  <2> QED
    BY <1>3, <2>2, <2>3, <2>4, <2>5, <2>6, <2>7, <2>8,
       <2>9, <2>10, <2>11, <2>12, <2>13, <2>14 DEF ApiSteps
<1>4. ASSUME NEW t \in Callers,
             \/ \E f \in Functions : Call(t, f)
             \/ \E c \in Ctxs : CallOriginal(t, c)
             \/ InvocationSteps(t)
             \/ Return(t)
      PROVE  LockProtects'
  <2>1. UNCHANGED control
    BY <1>4 DEF InvocationSteps, Call, CallOriginal, Return, Jump, BeginInvocation, Decide,
       TakeSnapshot, TellListener, EnterDone, ChooseHop, LoadReplacement, Release,
       InvokeOriginal, EndInvocation, LeaveDone, UseAfterFree
  <2> QED
    BY <1>1, <2>1 DEF control
<1>5. ASSUME NEW l \in Listeners, Unref(l) PROVE LockProtects'
  BY <1>1, <1>5 DEF Unref
<1>6. CASE UNCHANGED vars
  BY <1>1, <1>6 DEF vars
<1> QED
  BY <1>2, <1>3, <1>4, <1>5, <1>6 DEF Next

\* At most one thread is at a step that the mutex protects, and owns it.
THEOREM MutualExclusion == Spec => []LockProtects
<1>1. Init => TypeInv /\ LockProtects
  BY InitTypes, InitLock
<1>2. TypeInv /\ LockProtects /\ [Next]_vars => (TypeInv /\ LockProtects)'
  BY NextKeepsTypes, NextKeepsLock
<1> QED
  BY <1>1, <1>2, PTL DEF Spec

-----------------------------------------------------------------------------
(* What may be released *)

Born(x) == x \in Ctxs => fc[x].state # "unborn"

\* A frame refers to contexts that exist, and one that has not left the
\* trampoline jumps to no other.
FrameBorn(fr) ==
  /\ fr.at = "jump" => Born(fr.addr)
  /\ fr.at \in {"decide", "snap", "enter", "hop", "load", "release"} => fr.addr \notin Ctxs
  /\ fr.counted => Born(fr.ctx)

\* So do the code, the table, the updates and the calls that work on one; a
\* context that does not exist yet is blank.
SharedBorn ==
  /\ \A c \in Ctxs : fc[c].state = "unborn" => fc[c] = Unborn
  /\ \A a \in Addr : Born(code[a]) /\ Born(table[a])
  /\ \A c \in Ctxs : Born(fc[c].saved)
  /\ \A u \in txn.updates : Born(u[1])
  /\ \A t \in Threads : op[t].at \in {"flags", "retire"} => Born(op[t].ctx)
  /\ \A t \in Threads : \A u \in op[t].updates : Born(u[1])
FramesBorn == \A t \in Threads : \A i \in DOMAIN calls[t] : FrameBorn(calls[t][i])

\* The counters, and that there is something to count.
CountInv ==
  \A c \in Ctxs : IsFiniteSet(Holders(c)) /\ fc[c].counter = Cardinality(Holders(c))

\* A task waits together with the updates that must come before it.
Due(task, updates) ==
  /\ task.what = "context" =>
       /\ fc[task.ctx].destroyed
       /\ fc[task.ctx].activated => <<task.ctx, "deactivate">> \in updates
  /\ task.what = "array" => task.ver # 0 /\ task.ver < Len(entries[task.ctx])
SharedDue == \A i \in DOMAIN txn.destroy : Due(txn.destroy[i], txn.updates)
LocalDue ==
  \A t \in Threads :
    /\ \A i \in DOMAIN op[t].destroy : Due(op[t].destroy[i], op[t].updates)
    /\ op[t].at \in {"tasks", "notify", "relock"} => op[t].updates = {}

\* A task that is about to run is due, and nobody uses what it releases.
Spares(task, fr) ==
  Safe(fr) /\ fr.ctx = task.ctx =>
    task.what # "context" /\ (task.what = "array" => fr.snap # task.ver)
NotifyInv ==
  \A t \in Threads : op[t].at = "notify" =>
    /\ Due(op[t].task, {})
    /\ \A u \in Threads : \A i \in DOMAIN calls[u] : Spares(op[t].task, calls[u][i])

\* The newest array of a context goes with the context.
ReclaimedInv ==
  \A c \in Ctxs, v \in Nat :
    <<c, v>> \in reclaimed => v < Len(entries[c]) \/ fc[c].state = "freed"

ReleaseInv ==
  /\ TypeInv /\ SharedBorn /\ FramesBorn /\ CountInv
  /\ SharedDue /\ LocalDue /\ NotifyInv /\ ReclaimedInv /\ InvocationsAreProtected

-----------------------------------------------------------------------------
(* Which invocations are counted *)

\* The counted frames after a step, but for that at h, are counted frames
\* before it; they may have let go of their array.
HeldBefore(h) ==
  \A u \in Threads : \A i \in DOMAIN calls'[u] :
    calls'[u][i].counted /\ <<u, i>> # h =>
      /\ i \in DOMAIN calls[u] /\ calls[u][i].counted
      /\ calls'[u][i].ctx = calls[u][i].ctx
      /\ calls'[u][i].late = calls[u][i].late
      /\ calls'[u][i].snap \in {0, calls[u][i].snap}

\* The counted frames before a step, but for that at h, still are after it.
HeldAfter(h) ==
  \A u \in Threads : \A i \in DOMAIN calls[u] :
    calls[u][i].counted /\ <<u, i>> # h => i \in DOMAIN calls'[u] /\ calls'[u][i].counted

\* The holders of a context are its counted frames.
LEMMA HoldersAre ==
  \A c \in Ctxs : \A h :
    h \in Holders(c) <=>
      \E u \in Threads : \E i \in DOMAIN calls[u] :
        h = <<u, i>> /\ calls[u][i].counted /\ calls[u][i].ctx = c
<1> SUFFICES ASSUME NEW c \in Ctxs, NEW h
             PROVE  h \in Holders(c) <=>
                      \E u \in Threads : \E i \in DOMAIN calls[u] :
                        h = <<u, i>> /\ calls[u][i].counted /\ calls[u][i].ctx = c
  OBVIOUS
<1>1. h \in Places <=> \E u \in Threads : \E i \in DOMAIN calls[u] : h = <<u, i>>
  BY DEF Places
<1> QED
  BY <1>1 DEF Holders

\* The same, after a step.
LEMMA HoldersAreAfter ==
  \A c \in Ctxs : \A h :
    h \in Holders(c)' <=>
      \E u \in Threads : \E i \in DOMAIN calls'[u] :
        h = <<u, i>> /\ calls'[u][i].counted /\ calls'[u][i].ctx = c
<1> SUFFICES ASSUME NEW c \in Ctxs, NEW h
             PROVE  h \in Holders(c)' <=>
                      \E u \in Threads : \E i \in DOMAIN calls'[u] :
                        h = <<u, i>> /\ calls'[u][i].counted /\ calls'[u][i].ctx = c
  OBVIOUS
<1>1. h \in Places' <=> \E u \in Threads : \E i \in DOMAIN calls'[u] : h = <<u, i>>
  BY DEF Places
<1> QED
  BY <1>1 DEF Holders

\* Counting stays right if the same frames are counted and no counter moves.
LEMMA SameFrames ==
  ASSUME CountInv, NEW h, HeldBefore(h), HeldAfter(<<>>),
         \A u \in Threads : \A i \in DOMAIN calls'[u] :
           <<u, i>> = h /\ calls'[u][i].counted =>
             i \in DOMAIN calls[u] /\ calls[u][i].counted
               /\ calls'[u][i].ctx = calls[u][i].ctx,
         \A c \in Ctxs : fc'[c].counter = fc[c].counter
  PROVE  CountInv'
<1>1. \A u, i : <<u, i>> # <<>>
  OBVIOUS
<1>2. ASSUME NEW c \in Ctxs PROVE Holders(c)' = Holders(c)
  <2>1. ASSUME NEW x PROVE x \in Holders(c)' <=> x \in Holders(c)
    BY <1>1, HoldersAre, HoldersAreAfter DEF HeldBefore, HeldAfter
  <2> QED
    BY <2>1
<1> QED
  BY <1>2 DEF CountInv

\* ... the case in which no frame changes hands.
LEMMA SameCount ==
  ASSUME CountInv, HeldBefore(<<>>), HeldAfter(<<>>),
         \A c \in Ctxs : fc'[c].counter = fc[c].counter
  PROVE  CountInv'
<1>1. \A u, i : <<u, i>> # <<>>
  OBVIOUS
<1> QED
  BY <1>1, SameFrames

\* ... and if one is counted with its context's counter.
LEMMA OneMore ==
  ASSUME TypeInv, CountInv, NEW t \in Threads, NEW n \in DOMAIN calls'[t],
         HeldBefore(<<t, n>>), HeldAfter(<<>>), NEW d \in Ctxs,
         n \in DOMAIN calls[t] => ~calls[t][n].counted,
         calls'[t][n].counted /\ calls'[t][n].ctx = d,
         fc' = [fc EXCEPT ![d].counter = @ + 1]
  PROVE  CountInv'
<1>1. /\ \A u, i : <<u, i>> # <<>>
      /\ \A u, i : <<u, i>> = <<t, n>> <=> u = t /\ i = n
  OBVIOUS
<1>2. ASSUME NEW c \in Ctxs
      PROVE  Holders(c)' = IF c = d THEN Holders(c) \cup {<<t, n>>} ELSE Holders(c)
  <2>1. ASSUME NEW h
        PROVE  h \in Holders(c)' <=> h \in Holders(c) \/ (c = d /\ h = <<t, n>>)
    BY <1>1, HoldersAre, HoldersAreAfter DEF HeldBefore, HeldAfter
  <2> QED
    BY <2>1
<1>3. <<t, n>> \notin Holders(d)
  BY <1>1, HoldersAre
<1>4. \A c \in Ctxs : fc'[c].counter = IF c = d THEN fc[c].counter + 1 ELSE fc[c].counter
  BY DEF TypeInv, TypeOK, FunctionContext
<1>5. ASSUME NEW c \in Ctxs
      PROVE  IsFiniteSet(Holders(c)') /\ fc'[c].counter = Cardinality(Holders(c)')
  <2>1. IsFiniteSet(Holders(c)) /\ fc[c].counter = Cardinality(Holders(c))
    BY DEF CountInv
  <2>2. CASE c # d
    <3>1. Holders(c)' = Holders(c) /\ fc'[c].counter = fc[c].counter
      BY <1>2, <1>4, <2>2
    <3> QED
      BY <2>1, <3>1
  <2>3. CASE c = d
    <3>1. Holders(c)' = Holders(c) \cup {<<t, n>>}
      BY <1>2, <2>3
    <3>2. fc'[c].counter = fc[c].counter + 1
      BY <1>4, <2>3
    <3>3. <<t, n>> \notin Holders(c)
      BY <1>3, <2>3
    <3>4. /\ IsFiniteSet(Holders(c) \cup {<<t, n>>})
          /\ Cardinality(Holders(c) \cup {<<t, n>>}) = Cardinality(Holders(c)) + 1
      BY <2>1, <3>3, FS_AddElement
    <3> QED
      BY <2>1, <3>1, <3>2, <3>4
  <2> QED
    BY <2>2, <2>3
<1> QED
  BY <1>5 DEF CountInv

\* ... and if one is no longer counted, nor by its context's counter.
LEMMA OneLess ==
  ASSUME TypeInv, CountInv, NEW t \in Threads, NEW n \in DOMAIN calls[t],
         HeldBefore(<<>>), HeldAfter(<<t, n>>), NEW d \in Ctxs,
         calls[t][n].counted /\ calls[t][n].ctx = d,
         n \in DOMAIN calls'[t] => ~calls'[t][n].counted,
         fc' = [fc EXCEPT ![d].counter = @ - 1]
  PROVE  CountInv'
<1>1. /\ \A u, i : <<u, i>> # <<>>
      /\ \A u, i : <<u, i>> = <<t, n>> <=> u = t /\ i = n
  OBVIOUS
<1>2. ASSUME NEW c \in Ctxs
      PROVE  Holders(c)' = IF c = d THEN Holders(c) \ {<<t, n>>} ELSE Holders(c)
  <2>1. ASSUME NEW h
        PROVE  h \in Holders(c)' <=> h \in Holders(c) /\ ~(c = d /\ h = <<t, n>>)
    BY <1>1, HoldersAre, HoldersAreAfter DEF HeldBefore, HeldAfter
  <2> QED
    BY <2>1
<1>3. <<t, n>> \in Holders(d)
  BY <1>1, HoldersAre
<1>4. \A c \in Ctxs : fc'[c].counter = IF c = d THEN fc[c].counter - 1 ELSE fc[c].counter
  BY DEF TypeInv, TypeOK, FunctionContext
<1>5. ASSUME NEW c \in Ctxs
      PROVE  IsFiniteSet(Holders(c)') /\ fc'[c].counter = Cardinality(Holders(c)')
  <2>1. IsFiniteSet(Holders(c)) /\ fc[c].counter = Cardinality(Holders(c))
    BY DEF CountInv
  <2>2. CASE c # d
    <3>1. Holders(c)' = Holders(c) /\ fc'[c].counter = fc[c].counter
      BY <1>2, <1>4, <2>2
    <3> QED
      BY <2>1, <3>1
  <2>3. CASE c = d
    <3>1. Holders(c)' = Holders(c) \ {<<t, n>>}
      BY <1>2, <2>3
    <3>2. fc'[c].counter = fc[c].counter - 1
      BY <1>4, <2>3
    <3>3. <<t, n>> \in Holders(c)
      BY <1>3, <2>3
    <3>4. /\ IsFiniteSet(Holders(c) \ {<<t, n>>})
          /\ Cardinality(Holders(c) \ {<<t, n>>}) = Cardinality(Holders(c)) - 1
      BY <2>1, <3>3, FS_RemoveElement
    <3> QED
      BY <2>1, <3>1, <3>2, <3>4
  <2> QED
    BY <2>2, <2>3
<1> QED
  BY <1>5 DEF CountInv

-----------------------------------------------------------------------------
(* Invocations *)

\* An invocation changes nothing of a context but its counter.
OnlyCounts ==
  \A c \in Ctxs :
    /\ fc'[c].state = fc[c].state
    /\ fc'[c].destroyed = fc[c].destroyed
    /\ fc'[c].activated = fc[c].activated
    /\ fc'[c].saved = fc[c].saved
    /\ fc[c].state = "unborn" => fc'[c] = fc[c]

\* A frame that is counted anew, or takes an array, finds it is protected and
\* that no task which is about to run is for it.
Welcome(fr) ==
  Safe(fr) =>
    /\ Protected(fr)
    /\ \A v \in Threads : op[v].at = "notify" => Spares(op[v].task, fr)

\* So an invocation that counts right keeps the invariant.
LEMMA InvocationsKeepReleases ==
  ASSUME ReleaseInv, UNCHANGED control, OnlyCounts, NEW h, HeldBefore(h), CountInv',
         TypeInv', FramesBorn',
         \A u \in Threads : \A i \in DOMAIN calls'[u] :
           <<u, i>> = h => Welcome(calls'[u][i])
  PROVE  ReleaseInv'
<1>2. SharedBorn'
  BY DEF ReleaseInv, SharedBorn, Born, OnlyCounts, control
<1>3. ASSUME NEW task \in DestroyTask, NEW updates, Due(task, updates)
      PROVE  Due(task, updates)'
  BY <1>3 DEF Due, OnlyCounts, control, DestroyTask
<1>4. /\ txn' = txn /\ op' = op /\ txn.destroy \in Seq(DestroyTask)
      /\ \A t \in Threads : op[t].destroy \in Seq(DestroyTask)
      /\ \A t \in Threads : op[t].at = "notify" => op[t].task \in DestroyTask
  BY DEF ReleaseInv, TypeInv, TypeOK, Transaction, ApiCall, CallsConsistent,
         CallConsistent, control
<1>5. SharedDue' /\ LocalDue'
  <2>1. \A i \in DOMAIN txn.destroy : txn.destroy[i] \in DestroyTask
    BY <1>4
  <2>2. \A t \in Threads : \A i \in DOMAIN op[t].destroy : op[t].destroy[i] \in DestroyTask
    BY <1>4
  <2>3. SharedDue'
    BY <1>3, <1>4, <2>1 DEF ReleaseInv, SharedDue
  <2>4. LocalDue'
    BY <1>3, <1>4, <2>2 DEF ReleaseInv, LocalDue
  <2> QED
    BY <2>3, <2>4
<1>6. ASSUME NEW u \in Threads, NEW i \in DOMAIN calls'[u], Safe(calls'[u][i])
      PROVE  /\ fc[calls'[u][i].ctx].state = "live"
             /\ calls'[u][i].snap # 0 => <<calls'[u][i].ctx, calls'[u][i].snap>> \notin reclaimed
             /\ \A v \in Threads : op[v].at = "notify" => Spares(op[v].task, calls'[u][i])
  <2>1. CASE <<u, i>> = h
    BY <1>6, <2>1 DEF Welcome, Protected
  <2>2. CASE <<u, i>> # h
    <3>1. /\ i \in DOMAIN calls[u] /\ Safe(calls[u][i])
          /\ calls'[u][i].ctx = calls[u][i].ctx
          /\ calls'[u][i].snap \in {0, calls[u][i].snap}
      BY <1>6, <2>2 DEF HeldBefore, Safe
    <3>2. /\ fc[calls[u][i].ctx].state = "live"
          /\ calls[u][i].snap # 0 => <<calls[u][i].ctx, calls[u][i].snap>> \notin reclaimed
      BY <3>1 DEF ReleaseInv, InvocationsAreProtected, Protected
    <3>3. ASSUME NEW v \in Threads, op[v].at = "notify"
          PROVE  Spares(op[v].task, calls'[u][i])
      <4>1. Spares(op[v].task, calls[u][i]) /\ Due(op[v].task, {})
        BY <3>1, <3>3 DEF ReleaseInv, NotifyInv
      <4> QED
        BY <3>1, <4>1 DEF Spares, Due, Safe
    <3> QED
      BY <3>1, <3>2, <3>3
  <2> QED
    BY <2>1, <2>2
<1>7. NotifyInv'
  BY <1>3, <1>4, <1>6 DEF ReleaseInv, NotifyInv, Spares
<1>8. ReclaimedInv'
  BY DEF ReleaseInv, ReclaimedInv, OnlyCounts, control
<1>9. InvocationsAreProtected'
  BY <1>6 DEF InvocationsAreProtected, Protected, Safe, OnlyCounts, control, TypeInv,
              FramesConsistent, FrameConsistent
<1> QED
  BY <1>2, <1>5, <1>7, <1>8, <1>9 DEF ReleaseInv

\* No counter moves when no context does.
LEMMA NoContextChanges ==
  ASSUME TypeInv, UNCHANGED fc
  PROVE  OnlyCounts /\ \A c \in Ctxs : fc'[c].counter = fc[c].counter
BY DEF OnlyCounts

\* A step in which the same frames are counted, and no context changes.
SameHolders == UNCHANGED <<control, fc>> /\ HeldBefore(<<>>) /\ HeldAfter(<<>>) /\ FramesBorn'

LEMMA SameHoldersKeepReleases ==
  ASSUME ReleaseInv, TypeInv', SameHolders
  PROVE  ReleaseInv'
<1>1. TypeInv /\ CountInv /\ UNCHANGED control /\ HeldBefore(<<>>) /\ FramesBorn'
  BY DEF ReleaseInv, SameHolders
<1>2. OnlyCounts /\ CountInv'
  BY <1>1, NoContextChanges, SameCount DEF SameHolders
<1>3. \A u, i : <<u, i>> # <<>>
  OBVIOUS
<1> QED
  BY <1>1, <1>2, <1>3, InvocationsKeepReleases

\* Such is a step of a frame that neither counts nor stops counting, and takes
\* no array.
LEMMA QuietStep ==
  ASSUME TypeInv, FramesBorn, NEW t \in Threads, calls[t] # <<>>,
         NEW fr \in Frame, SetTop(t, fr), UNCHANGED <<control, fc>>,
         fr.counted = Top(t).counted, fr.ctx = Top(t).ctx, fr.late = Top(t).late,
         fr.snap \in {0, Top(t).snap}, FrameBorn(fr)
  PROVE  SameHolders
<1>1. /\ \A u \in Threads : DOMAIN calls'[u] = DOMAIN calls[u]
      /\ \A u \in Threads : \A i \in DOMAIN calls[u] :
           calls'[u][i] = IF u = t /\ i = Len(calls[t]) THEN fr ELSE calls[u][i]
  BY SetTopFrames
<1>2. HeldBefore(<<>>) /\ HeldAfter(<<>>)
  BY <1>1 DEF HeldBefore, HeldAfter, Top
<1>3. FramesBorn'
  BY <1>1 DEF FramesBorn, FrameBorn, Born
<1> QED
  BY <1>2, <1>3 DEF SameHolders

\* ... and a new frame that is not counted.
LEMMA QuietPush ==
  ASSUME TypeInv, FramesBorn, NEW t \in Threads, NEW fr \in Frame, Push(t, fr),
         UNCHANGED <<control, fc>>, ~fr.counted, FrameBorn(fr)
  PROVE  SameHolders
<1>1. /\ \A u \in Threads : DOMAIN calls'[u] =
           DOMAIN calls[u] \cup IF u = t THEN {Len(calls[t]) + 1} ELSE {}
      /\ \A u \in Threads : \A i \in DOMAIN calls'[u] :
           calls'[u][i] = IF i \in DOMAIN calls[u] THEN calls[u][i] ELSE fr
  BY PushFrames
<1>2. HeldBefore(<<>>) /\ HeldAfter(<<>>)
  BY <1>1 DEF HeldBefore, HeldAfter
<1>3. FramesBorn'
  BY <1>1 DEF FramesBorn, FrameBorn, Born
<1> QED
  BY <1>2, <1>3 DEF SameHolders

\* Calls, and returns to plain callers.
LEMMA CallFrames ==
  ASSUME ReleaseInv, NEW t \in Callers,
         \/ \E f \in Functions : Call(t, f)
         \/ \E c \in Ctxs : CallOriginal(t, c)
         \/ Return(t)
  PROVE  SameHolders
<1>. t \in Threads /\ TypeInv /\ FramesBorn
  BY ConstantsAssumption DEF ReleaseInv
<1>1. ASSUME NEW f \in Functions, Call(t, f) PROVE SameHolders
  <2>1. JumpTo(f) \in Frame /\ ~JumpTo(f).counted /\ FrameBorn(JumpTo(f))
    BY JumpToType, ConstantsAssumption DEF Addr, JumpTo, FrameBorn, Born
  <2> QED
    BY <1>1, <2>1, QuietPush DEF Call
<1>2. ASSUME NEW c \in Ctxs, CallOriginal(t, c) PROVE SameHolders
  <2> DEFINE fr == [JumpTo(None) EXCEPT !.at = "invoke", !.ctx = c]
  <2>1. fr \in Frame /\ ~fr.counted /\ FrameBorn(fr)
    BY DEF JumpTo, Frame, FrameBorn, Born
  <2>2. Push(t, fr)
    BY <1>2 DEF CallOriginal
  <2>. HIDE DEF fr
  <2> QED
    BY <1>2, <2>1, <2>2, QuietPush DEF CallOriginal
<1>3. ASSUME Return(t) PROVE SameHolders
  <2>1. TypeInv /\ CountInv /\ FramesBorn /\ calls[t] # <<>> /\ UNCHANGED <<control, fc>>
    BY <1>3 DEF ReleaseInv, Return, Running
  <2>2. ~Top(t).counted
    BY <1>3, <2>1, TopType DEF Return, Running, FrameConsistent
  <2>3. /\ \A u \in Threads : DOMAIN calls'[u] =
             DOMAIN calls[u] \ IF u = t THEN {Len(calls[t])} ELSE {}
        /\ \A u \in Threads : \A i \in DOMAIN calls'[u] : calls'[u][i] = calls[u][i]
    BY <1>3, <2>1, PopFrames DEF Return
  <2>4. HeldBefore(<<>>) /\ HeldAfter(<<>>)
    BY <2>2, <2>3 DEF HeldBefore, HeldAfter, Top
  <2>5. FramesBorn'
    BY <2>1, <2>3 DEF FramesBorn, FrameBorn, Born
  <2> QED
    BY <2>1, <2>4, <2>5 DEF SameHolders
<1> QED
  BY <1>1, <1>2, <1>3

\* The steps of an invocation that keep it counted, or not, as it was.
LEMMA QuietFrames ==
  ASSUME ReleaseInv, NEW t \in Callers,
         \/ Jump(t) \/ Decide(t) \/ TellListener(t) \/ EnterDone(t) \/ ChooseHop(t)
         \/ InvokeOriginal(t) \/ EndInvocation(t) \/ UseAfterFree(t)
  PROVE  SameHolders
<1>. DEFINE top == Top(t)
<1>1. /\ t \in Threads /\ calls[t] # <<>> /\ UNCHANGED <<control, fc>>
      /\ TypeInv /\ SharedBorn /\ FramesBorn
  BY ConstantsAssumption DEF ReleaseInv, Jump, Decide, TellListener, EnterDone, ChooseHop,
     InvokeOriginal, EndInvocation, UseAfterFree, Steps, Running
<1>2. top \in Frame /\ FrameConsistent(top) /\ FrameBorn(top)
  BY <1>1, TopType DEF FramesBorn, Top
<1>. HIDE DEF top
<1>3. SUFFICES \E fr : /\ SetTop(t, fr) /\ fr \in Frame /\ FrameBorn(fr)
                       /\ fr.counted = top.counted /\ fr.ctx = top.ctx
                       /\ fr.late = top.late /\ fr.snap \in {0, top.snap}
  BY <1>1, QuietStep DEF top
<1>4. CASE Jump(t)
  <2>1. top.at = "jump" /\ top.addr \in Addr /\ ~top.counted
    BY <1>2, <1>4 DEF top, Jump, Steps, Running, FrameConsistent
  <2>2. CASE code[top.addr] # None /\ SetTop(t, [top EXCEPT !.addr = code[top.addr]])
    <3>1. code[top.addr] \in Addr /\ Born(code[top.addr])
      BY <1>1, <2>1, <2>2 DEF TypeInv, TypeOK, SharedBorn
    <3> DEFINE fr == [top EXCEPT !.addr = code[top.addr]]
    <3>2. fr \in Frame
      BY <1>2, <3>1 DEF Frame
    <3>3. /\ fr.counted = top.counted /\ fr.ctx = top.ctx /\ fr.late = top.late
          /\ fr.snap = top.snap /\ fr.at = "jump" /\ fr.addr = code[top.addr]
      BY <1>2, <2>1 DEF Frame
    <3>4. FrameBorn(fr)
      BY <2>1, <3>1, <3>3 DEF FrameBorn
    <3> QED
      BY <2>2, <3>2, <3>3, <3>4
  <2>3. CASE SetTop(t, [top EXCEPT !.at = "body"])
    <3>1. [top EXCEPT !.at = "body"] \in Frame
      BY <1>2 DEF Frame
    <3>2. FrameBorn([top EXCEPT !.at = "body"])
      BY <1>2 DEF Frame, FrameBorn
    <3> QED
      BY <1>2, <2>3, <3>1, <3>2 DEF Frame
  <2> QED
    BY <1>4, <2>2, <2>3 DEF Jump, top
<1>5. CASE Decide(t)
  <2>1. top.at = "decide"
    BY <1>5 DEF top, Decide, Steps, Running
  <2>2. PICK invoke \in BOOLEAN, trap \in BOOLEAN, push \in BOOLEAN :
          SetTop(t, [top EXCEPT !.at = IF push THEN "snap" ELSE "enter",
                                !.trap = trap, !.invoke = invoke, !.pushed = push])
    BY <1>5 DEF Decide, top
  <2> DEFINE fr == [top EXCEPT !.at = IF push THEN "snap" ELSE "enter",
                               !.trap = trap, !.invoke = invoke, !.pushed = push]
  <2>3. fr \in Frame
    BY <1>2 DEF Frame
  <2>4. FrameBorn(fr)
    BY <1>2, <2>1 DEF Frame, FrameBorn
  <2>5. /\ fr.counted = top.counted /\ fr.ctx = top.ctx /\ fr.late = top.late
        /\ fr.snap = top.snap
    BY <1>2 DEF Frame
  <2>6. SetTop(t, fr)
    BY <2>2
  <2>. HIDE DEF fr
  <2> QED
    BY <2>3, <2>4, <2>5, <2>6
<1>6. CASE TellListener(t)
  <2>1. PICK l \in top.todo : SetTop(t, [top EXCEPT !.todo = @ \ {l}])
    BY <1>6 DEF TellListener, top
  <2>2. [top EXCEPT !.todo = @ \ {l}] \in Frame
    BY <1>2 DEF Frame
  <2>3. FrameBorn([top EXCEPT !.todo = @ \ {l}])
    BY <1>2 DEF Frame, FrameBorn
  <2> QED
    BY <1>2, <2>1, <2>2, <2>3 DEF Frame
<1>7. CASE EnterDone(t)
  <2> DEFINE fr == [top EXCEPT !.at = "hop", !.pushed = top.trap,
                               !.snap = IF top.trap THEN @ ELSE 0]
  <2>1. top.at = "enter" /\ SetTop(t, fr)
    BY <1>7 DEF EnterDone, Steps, Running, top
  <2>2. fr \in Frame
    BY <1>2 DEF Frame
  <2>3. /\ fr.at = "hop" /\ fr.counted = top.counted /\ fr.ctx = top.ctx
        /\ fr.late = top.late /\ fr.snap \in {0, top.snap} /\ fr.addr = top.addr
    BY <1>2 DEF Frame
  <2>4. FrameBorn(fr)
    BY <1>2, <2>1, <2>3 DEF FrameBorn
  <2>. HIDE DEF fr
  <2> QED
    BY <2>1, <2>2, <2>3, <2>4
<1>8. CASE ChooseHop(t)
  <2>1. top.at = "hop"
    BY <1>8 DEF top, ChooseHop, Steps, Running
  <2>2. PICK next \in {"invoke", "release", "load", "crashed"} :
          SetTop(t, [top EXCEPT !.at = next])
    BY <1>8 DEF ChooseHop, top
  <2>3. [top EXCEPT !.at = next] \in Frame
    BY <1>2 DEF Frame
  <2>4. FrameBorn([top EXCEPT !.at = next])
    BY <1>2, <2>1 DEF Frame, FrameBorn
  <2> QED
    BY <1>2, <2>2, <2>3, <2>4 DEF Frame
<1>9. CASE InvokeOriginal(t)
  <2>1. top.at = "invoke" /\ top.ctx \in Ctxs
    BY <1>2, <1>9 DEF top, InvokeOriginal, Steps, Running, FrameConsistent, OnContext
  <2>2. fc[top.ctx].addr \in Addr \cup {None}
    BY <1>1, <2>1 DEF TypeInv, TypeOK, FunctionContext
  <2> DEFINE fr == [top EXCEPT !.at = "body", !.addr = fc[top.ctx].addr]
  <2>3. fr \in Frame
    BY <1>2, <2>2 DEF Frame
  <2>4. FrameBorn(fr)
    BY <1>2 DEF Frame, FrameBorn
  <2>5. /\ fr.counted = top.counted /\ fr.ctx = top.ctx /\ fr.late = top.late
        /\ fr.snap = top.snap
    BY <1>2 DEF Frame
  <2>6. SetTop(t, fr)
    BY <1>9 DEF InvokeOriginal, top
  <2>. HIDE DEF fr
  <2> QED
    BY <2>3, <2>4, <2>5, <2>6
<1>10. CASE EndInvocation(t)
  <2> DEFINE fr == [top EXCEPT !.at = "leave", !.todo = Snapshot(top).live]
  <2>1. top.at \in {"body", "repl"} /\ top.trap
    BY <1>2, <1>10 DEF EndInvocation, Running, top, FrameConsistent
  <2>2. /\ top.ctx \in Ctxs
        /\ top.snap # 0 /\ top.snap \in DOMAIN entries[top.ctx]
    BY <1>2, <2>1 DEF FrameConsistent, OnContext, Counting
  <2>3. Snapshot(top).live \in SUBSET Listeners
    <3>1. entries[top.ctx] \in Seq(ListenerArray)
      BY <1>1, <2>2 DEF TypeInv, TypeOK
    <3>2. Snapshot(top) \in ListenerArray
      BY <2>2, <3>1 DEF Snapshot
    <3> QED
      BY <3>2 DEF ListenerArray
  <2>4. fr \in Frame
    BY <1>2, <2>3 DEF Frame
  <2>5. FrameBorn(fr)
    BY <1>2 DEF Frame, FrameBorn
  <2>6. SetTop(t, fr)
    BY <1>10 DEF EndInvocation, top
  <2>7. /\ fr.counted = top.counted /\ fr.ctx = top.ctx /\ fr.late = top.late
        /\ fr.snap = top.snap
    BY <1>2 DEF Frame
  <2>. HIDE DEF fr
  <2> QED
    BY <2>4, <2>5, <2>6, <2>7
<1>11. CASE UseAfterFree(t)
  <2>1. [top EXCEPT !.at = "crashed"] \in Frame
    BY <1>2 DEF Frame
  <2>2. FrameBorn([top EXCEPT !.at = "crashed"])
    BY <1>2 DEF Frame, FrameBorn
  <2> QED
    BY <1>2, <1>11, <2>1, <2>2 DEF UseAfterFree, top, Frame
<1> QED
  BY <1>4, <1>5, <1>6, <1>7, <1>8, <1>9, <1>10, <1>11

\* The newest array of a context that is there has not been released, and no
\* task is about to release it.
LEMMA SnapshotKeepsReleases ==
  ASSUME ReleaseInv, TypeInv', NEW t \in Callers, TakeSnapshot(t)
  PROVE  ReleaseInv'
<1>. DEFINE top == Top(t)
           n == Len(calls[t])
           c == top.ctx
           marked == [top EXCEPT !.snap = Len(entries[c])]
           fr == [marked EXCEPT !.at = "enter",
                                !.todo = IF marked.invoke THEN Snapshot(marked).live ELSE {}]
<1>1. /\ t \in Threads /\ calls[t] # <<>> /\ UNCHANGED <<control, fc>> /\ top.at = "snap"
      /\ TypeInv /\ SharedBorn /\ FramesBorn /\ CountInv /\ SetTop(t, fr)
      /\ ~Faulty(t)
  BY ConstantsAssumption DEF ReleaseInv, TakeSnapshot, Steps, Running
<1>2. top \in Frame /\ FrameConsistent(top) /\ FrameBorn(top) /\ n \in DOMAIN calls[t]
  BY <1>1, TopType DEF FramesBorn, Top
<1>3. top.counted /\ c \in Ctxs
  BY <1>1, <1>2 DEF FrameConsistent, OnContext, Counting
<1>4. /\ Len(entries[c]) \in Nat \ {0} /\ Len(entries[c]) \in DOMAIN entries[c]
      /\ Current(c).live \in SUBSET Listeners
  BY <1>1, <1>3, CurrentType
<1>5. /\ marked.ctx = c /\ marked.snap = Len(entries[c]) /\ marked \in Frame
      /\ Snapshot(marked).live \in SUBSET Listeners
  <2>1. marked.ctx = c /\ marked.snap = Len(entries[c]) /\ marked \in Frame
    BY <1>2, <1>4 DEF Frame
  <2> QED
    BY <1>4, <2>1 DEF Snapshot, Current
<1>6. fr \in Frame
  BY <1>5 DEF Frame
<1>7. /\ fr.counted /\ fr.ctx = c /\ fr.late = top.late /\ fr.snap = Len(entries[c])
      /\ fr.at = "enter" /\ fr.addr = top.addr
  BY <1>2, <1>3, <1>5 DEF Frame
<1>. HIDE DEF fr, marked
<1>8. /\ \A u \in Threads : DOMAIN calls'[u] = DOMAIN calls[u]
      /\ \A u \in Threads : \A i \in DOMAIN calls[u] :
           calls'[u][i] = IF u = t /\ i = n THEN fr ELSE calls[u][i]
  BY <1>1, <1>6, SetTopFrames
<1>9. \A u, i : <<u, i>> # <<>> /\ (<<u, i>> = <<t, n>> <=> u = t /\ i = n)
  OBVIOUS
<1>10. HeldBefore(<<t, n>>) /\ HeldAfter(<<>>)
  BY <1>7, <1>8, <1>9 DEF HeldBefore, HeldAfter
<1>11. OnlyCounts /\ CountInv'
  BY <1>1, <1>3, <1>7, <1>8, <1>9, <1>10, NoContextChanges, SameFrames DEF Top
<1>12. FrameBorn(fr)
  BY <1>1, <1>2, <1>3, <1>7 DEF FrameBorn
<1>13. FramesBorn'
  BY <1>1, <1>8, <1>12 DEF FramesBorn, FrameBorn, Born
<1>14. Welcome(fr)
  <2> SUFFICES ASSUME Safe(fr)
               PROVE  Protected(fr) /\ \A v \in Threads :
                        op[v].at = "notify" => Spares(op[v].task, fr)
    BY DEF Welcome
  <2>1. Safe(top)
    BY <1>3, <1>7 DEF Safe
  <2>2. fc[c].state = "live"
    BY <1>1, <1>2, <2>1 DEF ReleaseInv, InvocationsAreProtected, Protected, Top
  <2>3. <<c, Len(entries[c])>> \notin reclaimed
    BY <1>3, <1>4, <2>2 DEF ReleaseInv, ReclaimedInv
  <2>4. ASSUME NEW v \in Threads, op[v].at = "notify" PROVE Spares(op[v].task, fr)
    <3>1. Spares(op[v].task, top) /\ Due(op[v].task, {})
      BY <1>1, <1>2, <2>4 DEF ReleaseInv, NotifyInv, Top
    <3>2. op[v].task.ver \in Nat
      BY <2>4 DEF ReleaseInv, TypeInv, CallsConsistent, CallConsistent, DestroyTask
    <3> QED
      BY <1>4, <1>7, <2>1, <3>1, <3>2 DEF Spares, Due
  <2> QED
    BY <1>7, <2>2, <2>3, <2>4 DEF Protected
<1>15. \A u \in Threads : \A i \in DOMAIN calls'[u] :
         <<u, i>> = <<t, n>> => Welcome(calls'[u][i])
  BY <1>8, <1>9, <1>14
<1>16. UNCHANGED control
  BY <1>1
<1> QED
  BY <1>10, <1>11, <1>13, <1>15, <1>16, InvocationsKeepReleases

\* An invocation that finds the context active is counted before any task
\* for the context can run, and one that does not is late.
LEMMA BeginKeepsReleases ==
  ASSUME ReleaseInv, TypeInv', NEW t \in Callers, BeginInvocation(t)
  PROVE  ReleaseInv'
<1>. DEFINE top == Top(t)
           n == Len(calls[t])
           c == top.addr
<1>1. /\ t \in Threads /\ calls[t] # <<>> /\ UNCHANGED control /\ top.at = "jump"
      /\ TypeInv /\ SharedBorn /\ FramesBorn /\ CountInv /\ c \in Ctxs
      /\ ~Faulty(t) /\ fc' = [fc EXCEPT ![c].counter = @ + 1]
  BY ConstantsAssumption DEF ReleaseInv, BeginInvocation, Steps, Running
<1>2. /\ top \in Frame /\ FrameConsistent(top) /\ FrameBorn(top) /\ n \in DOMAIN calls[t]
      /\ fc[c] \in FunctionContext /\ fc \in [Ctxs -> FunctionContext]
  BY <1>1, TopType DEF FramesBorn, Top, TypeInv, TypeOK
<1>3. ~top.counted /\ fc[c].state = "live" /\ fc[c].activated \in BOOLEAN
  BY <1>1, <1>2 DEF FrameConsistent, FrameBorn, Born, Faulty, FunctionContext
<1>4. PICK step \in {"release", "decide"} :
        SetTop(t, [JumpTo(None) EXCEPT !.at = step, !.ctx = c, !.counted = TRUE,
                                       !.late = ~fc[c].activated])
  BY <1>1 DEF BeginInvocation
<1>. DEFINE fr == [JumpTo(None) EXCEPT !.at = step, !.ctx = c, !.counted = TRUE,
                                      !.late = ~fc[c].activated]
<1>5. /\ fr.at = step /\ fr.ctx = c /\ fr.counted /\ fr.late = ~fc[c].activated
      /\ fr.snap = 0 /\ fr.addr = None
  BY DEF JumpTo
<1>6. fr \in Frame
  BY <1>1, <1>3 DEF JumpTo, Frame
<1>7. SetTop(t, fr)
  BY <1>4
<1>. HIDE DEF fr
<1>8. /\ \A u \in Threads : DOMAIN calls'[u] = DOMAIN calls[u]
      /\ \A u \in Threads : \A i \in DOMAIN calls[u] :
           calls'[u][i] = IF u = t /\ i = n THEN fr ELSE calls[u][i]
  BY <1>1, <1>6, <1>7, SetTopFrames
<1>9. \A u, i : <<u, i>> # <<>> /\ (<<u, i>> = <<t, n>> <=> u = t /\ i = n)
  OBVIOUS
<1>10. HeldBefore(<<t, n>>) /\ HeldAfter(<<>>)
  BY <1>5, <1>8, <1>9 DEF HeldBefore, HeldAfter
<1>11. OnlyCounts
  BY <1>1, <1>2, <1>3 DEF OnlyCounts, FunctionContext
<1>12. CountInv'
  <2>1. n \in DOMAIN calls'[t] /\ calls'[t][n] = fr /\ ~calls[t][n].counted
    BY <1>1, <1>2, <1>3, <1>8 DEF Top
  <2> QED
    BY <1>1, <1>5, <1>10, <2>1, OneMore
<1>13. FramesBorn'
  <2>1. FrameBorn(fr)
    BY <1>3, <1>4, <1>5, ConstantsAssumption DEF FrameBorn, Born
  <2> QED
    BY <1>1, <1>8, <1>11, <2>1 DEF FramesBorn, FrameBorn, Born, OnlyCounts
<1>14. Welcome(fr)
  <2> SUFFICES ASSUME Safe(fr)
               PROVE  Protected(fr) /\ \A v \in Threads :
                        op[v].at = "notify" => Spares(op[v].task, fr)
    BY DEF Welcome
  <2>1. fc[c].activated
    BY <1>3, <1>5 DEF Safe
  <2>2. ASSUME NEW v \in Threads, op[v].at = "notify" PROVE Spares(op[v].task, fr)
    <3>1. Due(op[v].task, {})
      BY <2>2 DEF ReleaseInv, NotifyInv
    <3> QED
      BY <1>5, <2>1, <3>1 DEF Spares, Due
  <2> QED
    BY <1>3, <1>5, <2>2 DEF Protected
<1>15. \A u \in Threads : \A i \in DOMAIN calls'[u] :
         <<u, i>> = <<t, n>> => Welcome(calls'[u][i])
  BY <1>8, <1>9, <1>14
<1> QED
  BY <1>1, <1>10, <1>11, <1>12, <1>13, <1>15, InvocationsKeepReleases

\* The call of the replacement stays counted; what it calls is not, yet.
LEMMA LoadFrames ==
  ASSUME ReleaseInv, NEW t \in Callers, LoadReplacement(t)
  PROVE  SameHolders
<1>. DEFINE top == Top(t)
           r == fc[top.ctx].repl
<1>1. /\ t \in Threads /\ calls[t] # <<>> /\ UNCHANGED <<control, fc>>
      /\ TypeInv /\ CountInv /\ FramesBorn /\ top.at = "load"
  BY ConstantsAssumption DEF ReleaseInv, LoadReplacement, Steps, Running
<1>2. top \in Frame /\ FrameConsistent(top) /\ FrameBorn(top)
  BY <1>1, TopType DEF FramesBorn, Top
<1>3. r \in Replacements \cup {None}
  BY <1>1, <1>2 DEF FrameConsistent, OnContext, TypeInv, TypeOK, FunctionContext
<1>. HIDE DEF top
<1>4. ASSUME r = None PROVE SameHolders
  <2> DEFINE fr == [top EXCEPT !.at = "crashed"]
  <2>1. SetTop(t, fr)
    BY <1>4 DEF LoadReplacement, top
  <2>2. fr \in Frame /\ FrameBorn(fr)
    BY <1>2 DEF Frame, FrameBorn
  <2>3. /\ fr.counted = top.counted /\ fr.ctx = top.ctx /\ fr.late = top.late
        /\ fr.snap = top.snap
    BY <1>2 DEF Frame
  <2>. HIDE DEF fr
  <2> QED
    BY <1>1, <2>1, <2>2, <2>3, QuietStep DEF top
<1>5. ASSUME r # None, ~top.trap PROVE SameHolders
  <2> DEFINE fr == [top EXCEPT !.at = "release", !.addr = r]
  <2>1. SetTop(t, fr)
    BY <1>5 DEF LoadReplacement, top
  <2>2. /\ fr.counted = top.counted /\ fr.ctx = top.ctx /\ fr.late = top.late
        /\ fr.snap = top.snap /\ fr.at = "release" /\ fr.addr = r
    BY <1>2 DEF Frame
  <2>3. fr \in Frame
    BY <1>2, <1>3, <1>5 DEF Frame, Addr
  <2>4. FrameBorn(fr)
    BY <1>2, <1>3, <1>5, <2>2, ConstantsAssumption DEF FrameBorn
  <2>. HIDE DEF fr
  <2> QED
    BY <1>1, <2>1, <2>2, <2>3, <2>4, QuietStep DEF top
<1>6. ASSUME r # None, top.trap PROVE SameHolders
  <2> DEFINE n == Len(calls[t])
             caller == [top EXCEPT !.at = "repl"]
             below == [calls[t] EXCEPT ![n] = caller]
  <2>1. calls' = [calls EXCEPT ![t] = below \o <<JumpTo(r)>>]
    BY <1>6 DEF LoadReplacement, top
  <2>2. /\ caller.counted = top.counted /\ caller.ctx = top.ctx /\ caller.late = top.late
        /\ caller.snap = top.snap /\ caller.at = "repl" /\ caller \in Frame
    BY <1>2 DEF Frame
  <2>3. JumpTo(r) \in Frame /\ ~JumpTo(r).counted /\ FrameBorn(JumpTo(r))
    BY <1>3, <1>6, JumpToType, ConstantsAssumption DEF Addr, JumpTo, FrameBorn, Born
  <2>4. FrameBorn(caller)
    BY <1>2, <2>2 DEF FrameBorn
  <2>. HIDE DEF caller
  <2>5. calls \in [Threads -> Seq(Frame)] /\ calls[t] \in Seq(Frame) /\ n \in 1 .. n
    BY <1>1 DEF TypeInv, TypeOK
  <2>6. /\ below \in Seq(Frame) /\ Len(below) = n
        /\ \A i \in 1 .. n : below[i] = IF i = n THEN caller ELSE calls[t][i]
    BY <2>2, <2>5
  <2>. HIDE DEF below
  <2>7. /\ DOMAIN (below \o <<JumpTo(r)>>) = 1 .. n + 1
        /\ \A i \in 1 .. n + 1 :
             (below \o <<JumpTo(r)>>)[i] = IF i \in 1 .. n THEN below[i] ELSE JumpTo(r)
    BY <2>3, <2>5, <2>6
  <2>8. /\ \A u \in Threads : u # t => calls'[u] = calls[u]
        /\ calls'[t] = below \o <<JumpTo(r)>>
    BY <1>1, <2>1, <2>5
  <2>9. /\ DOMAIN calls'[t] = 1 .. n + 1 /\ DOMAIN calls[t] = 1 .. n
        /\ \A i \in 1 .. n : calls'[t][i] = IF i = n THEN caller ELSE calls[t][i]
        /\ \A i \in (1 .. n + 1) \ (1 .. n) : calls'[t][i] = JumpTo(r)
    BY <2>5, <2>6, <2>7, <2>8
  <2>10. HeldBefore(<<>>)
    <3> SUFFICES ASSUME NEW u \in Threads, NEW i \in DOMAIN calls'[u], calls'[u][i].counted
                 PROVE  /\ i \in DOMAIN calls[u] /\ calls[u][i].counted
                        /\ calls'[u][i].ctx = calls[u][i].ctx
                        /\ calls'[u][i].late = calls[u][i].late
                        /\ calls'[u][i].snap \in {0, calls[u][i].snap}
      BY DEF HeldBefore
    <3>1. CASE u # t
      BY <2>8, <3>1
    <3>2. CASE u = t
      BY <2>2, <2>3, <2>9, <3>2 DEF top, Top
    <3> QED
      BY <3>1, <3>2
  <2>11. HeldAfter(<<>>)
    <3> SUFFICES ASSUME NEW u \in Threads, NEW i \in DOMAIN calls[u], calls[u][i].counted
                 PROVE  i \in DOMAIN calls'[u] /\ calls'[u][i].counted
      BY DEF HeldAfter
    <3>1. CASE u # t
      BY <2>8, <3>1
    <3>2. CASE u = t
      <4>1. n \in Nat /\ i \in 1 .. n + 1
        <5>1. n \in Nat
          BY <2>5
        <5>2. i \in 1 .. n
          BY <2>9, <3>2
        <5> QED
          BY <5>1, <5>2
      <4>2. caller.counted = calls[t][n].counted
        BY <2>2 DEF top, Top
      <4>3. calls'[t][i].counted
        BY <2>9, <3>2, <4>2
      <4> QED
        BY <2>9, <3>2, <4>1, <4>3
    <3> QED
      BY <3>1, <3>2
  <2>12. \A u \in Threads : \A i \in DOMAIN calls'[u] : FrameBorn(calls'[u][i])
    <3> SUFFICES ASSUME NEW u \in Threads, NEW i \in DOMAIN calls'[u]
                 PROVE  FrameBorn(calls'[u][i])
      OBVIOUS
    <3>1. CASE u # t
      BY <1>1, <2>8, <3>1 DEF FramesBorn
    <3>2. CASE u = t
      BY <1>1, <2>3, <2>4, <2>9, <3>2 DEF FramesBorn
    <3> QED
      BY <3>1, <3>2
  <2>13. FramesBorn'
    BY <1>1, <2>12 DEF FramesBorn, FrameBorn, Born
  <2> QED
    BY <1>1, <2>10, <2>11, <2>13 DEF SameHolders
<1> QED
  BY <1>4, <1>5, <1>6

\* An invocation stops being counted, and uses nothing of the context after.
LEMMA DropFrames ==
  ASSUME ReleaseInv, NEW t \in Callers, Release(t) \/ LeaveDone(t)
  PROVE  UNCHANGED control /\ OnlyCounts /\ HeldBefore(<<>>) /\ FramesBorn' /\ CountInv'
<1>. DEFINE top == Top(t)
           n == Len(calls[t])
           c == top.ctx
<1>1. /\ t \in Threads /\ calls[t] # <<>> /\ UNCHANGED control
      /\ TypeInv /\ SharedBorn /\ FramesBorn /\ CountInv
      /\ top.at \in {"release", "leave"} /\ fc' = [fc EXCEPT ![c].counter = @ - 1]
  BY ConstantsAssumption
     DEF ReleaseInv, Release, LeaveDone, Steps, Running, Uncounts
<1>2. /\ top \in Frame /\ FrameConsistent(top) /\ FrameBorn(top) /\ n \in DOMAIN calls[t]
  BY <1>1, TopType DEF FramesBorn, Top
<1>3. top.counted /\ c \in Ctxs
  BY <1>1, <1>2 DEF FrameConsistent, OnContext, Counting
<1>4. fc[c].state # "unborn" /\ fc[c] \in FunctionContext /\ fc \in [Ctxs -> FunctionContext]
  BY <1>1, <1>2, <1>3 DEF FrameBorn, Born, TypeInv, TypeOK
<1>5. OnlyCounts
  BY <1>1, <1>3, <1>4 DEF OnlyCounts, FunctionContext
<1>6. \A u, i : <<u, i>> # <<>> /\ (<<u, i>> = <<t, n>> <=> u = t /\ i = n)
  OBVIOUS
<1>7. SUFFICES /\ \A u \in Threads : \A i \in DOMAIN calls'[u] :
                    /\ FrameBorn(calls'[u][i])
                    /\ u # t \/ i # n => i \in DOMAIN calls[u] /\ calls'[u][i] = calls[u][i]
               /\ \A u \in Threads : \A i \in DOMAIN calls[u] :
                    u # t \/ i # n => i \in DOMAIN calls'[u]
               /\ n \in DOMAIN calls'[t] => ~calls'[t][n].counted
  <2>1. HeldBefore(<<>>) /\ HeldAfter(<<t, n>>)
    BY <1>6, <1>7 DEF HeldBefore, HeldAfter
  <2>2. CountInv'
    BY <1>1, <1>2, <1>3, <1>7, <2>1, OneLess DEF Top
  <2>3. FramesBorn'
    BY <1>5, <1>7 DEF FramesBorn, FrameBorn, Born, OnlyCounts
  <2> QED
    BY <1>1, <1>5, <2>1, <2>2, <2>3
<1>8. CASE LeaveDone(t)
  <2>1. /\ \A u \in Threads : DOMAIN calls'[u] = DOMAIN calls[u] \ IF u = t THEN {n} ELSE {}
        /\ \A u \in Threads : \A i \in DOMAIN calls'[u] : calls'[u][i] = calls[u][i]
    BY <1>1, <1>8, PopFrames DEF LeaveDone
  <2> QED
    BY <1>1, <2>1 DEF FramesBorn
<1>9. CASE Release(t)
  <2>1. top.at = "release"
    BY <1>9 DEF Release, Steps, Running
  <2>2. PICK fr \in Frame : SetTop(t, fr) /\ ~fr.counted /\ FrameBorn(fr)
    <3>1. CASE top.addr # None
      <4>1. /\ JumpTo(top.addr) \in Frame /\ ~JumpTo(top.addr).counted
            /\ FrameBorn(JumpTo(top.addr))
        BY <1>2, <2>1, <3>1, JumpToType DEF Frame, JumpTo, FrameBorn, Born
      <4> QED
        BY <1>9, <3>1, <4>1 DEF Release
    <3>2. CASE top.addr = None
      <4> DEFINE fr == [top EXCEPT !.at = "invoke", !.counted = FALSE]
      <4>1. fr \in Frame /\ ~fr.counted /\ FrameBorn(fr)
        BY <1>2 DEF Frame, FrameBorn
      <4>2. SetTop(t, fr)
        BY <1>9, <3>2 DEF Release
      <4>. HIDE DEF fr
      <4> QED
        BY <4>1, <4>2
    <3> QED
      BY <3>1, <3>2
  <2>3. /\ \A u \in Threads : DOMAIN calls'[u] = DOMAIN calls[u]
        /\ \A u \in Threads : \A i \in DOMAIN calls[u] :
             calls'[u][i] = IF u = t /\ i = n THEN fr ELSE calls[u][i]
    BY <1>1, <2>2, SetTopFrames
  <2> QED
    BY <1>1, <1>2, <2>2, <2>3 DEF FramesBorn
<1> QED
  BY <1>8, <1>9

LEMMA DropKeepsReleases ==
  ASSUME ReleaseInv, TypeInv', NEW t \in Callers, Release(t) \/ LeaveDone(t)
  PROVE  ReleaseInv'
<1>1. UNCHANGED control /\ OnlyCounts /\ HeldBefore(<<>>) /\ FramesBorn' /\ CountInv'
  BY DropFrames
<1>2. \A u, i : <<u, i>> # <<>>
  OBVIOUS
<1> QED
  BY <1>1, <1>2, InvocationsKeepReleases

-----------------------------------------------------------------------------
(* The API *)

\* What no step of the API undoes: a context that was given up stays so and is
\* not patched in again, and arrays are only added.
Advances ==
  \A c \in Ctxs :
    /\ fc'[c].counter = fc[c].counter
    /\ fc[c].state # "unborn" => fc'[c].state # "unborn"
    /\ fc[c].destroyed => fc'[c].destroyed
    /\ fc[c].destroyed /\ fc'[c].activated => fc[c].activated
    /\ Len(entries[c]) <= Len(entries'[c])

\* A task stays due as long as the update it waits for is there, or was made.
LEMMA DuePersists ==
  ASSUME TypeInv, TypeInv', Advances, NEW task \in DestroyTask, NEW before, NEW after,
         Due(task, before),
         fc'[task.ctx].activated /\ <<task.ctx, "deactivate">> \in before
           => <<task.ctx, "deactivate">> \in after
  PROVE  Due(task, after)'
<1>1. task.ctx \in Ctxs /\ task.ver \in Nat
  BY DEF DestroyTask
<1>2. Len(entries[task.ctx]) \in Nat /\ Len(entries'[task.ctx]) \in Nat
  BY <1>1 DEF TypeInv, TypeOK
<1>3. task.what = "array" => task.ver # 0 /\ task.ver < Len(entries'[task.ctx])
  BY <1>1, <1>2 DEF Due, Advances
<1> QED
  BY <1>1, <1>3 DEF Due, Advances

\* What is left to show of a step of the API.
Prepared == \A t \in Threads : op'[t].at = "notify" =>
  \/ op[t].at = "notify" /\ op'[t].task = op[t].task
  \/ /\ Due(op'[t].task, {}) /\ op'[t].task \in DestroyTask
     /\ \A u \in Threads : \A i \in DOMAIN calls[u] : Spares(op'[t].task, calls[u][i])

\* The counters, the frames and the tasks about to run need nothing more.
LEMMA ApiKeepsInvariant ==
  ASSUME ReleaseInv, TypeInv', UNCHANGED calls, Advances, Prepared,
         SharedBorn', SharedDue', LocalDue', ReclaimedInv', InvocationsAreProtected'
  PROVE  ReleaseInv'
<1>1. TypeInv /\ FramesBorn /\ CountInv /\ NotifyInv
  BY DEF ReleaseInv
<1>2. FramesBorn'
  BY <1>1 DEF FramesBorn, FrameBorn, Born, Advances
<1>3. HeldBefore(<<>>) /\ HeldAfter(<<>>)
  BY DEF HeldBefore, HeldAfter
<1>4. CountInv'
  BY <1>1, <1>3, SameCount DEF Advances
<1>5. ASSUME NEW t \in Threads, op'[t].at = "notify"
      PROVE  /\ Due(op'[t].task, {}) /\ op'[t].task \in DestroyTask
             /\ \A u \in Threads : \A i \in DOMAIN calls[u] : Spares(op'[t].task, calls[u][i])
  BY <1>1, <1>5 DEF Prepared, NotifyInv, TypeInv, CallsConsistent, CallConsistent
<1>6. NotifyInv'
  <2> SUFFICES ASSUME NEW t \in Threads, op'[t].at = "notify"
               PROVE  /\ Due(op[t].task, {})'
                      /\ \A u \in Threads : \A i \in DOMAIN calls'[u] :
                           Spares(op'[t].task, calls'[u][i])
    BY DEF NotifyInv, Spares, Safe
  <2>1. PICK task : task = op'[t].task
    OBVIOUS
  <2>2. Due(task, {})'
    BY <1>1, <1>5, <2>1, DuePersists
  <2>3. Due(op[t].task, {})'
    BY <2>1, <2>2 DEF Due
  <2> QED
    BY <1>5, <2>3
<1> QED
  BY <1>2, <1>4, <1>6 DEF ReleaseInv

\* As long as nothing is released, what invocations use stays.
LEMMA NothingReleased ==
  ASSUME ReleaseInv, TypeInv', UNCHANGED <<calls, reclaimed>>, Advances, Prepared,
         \A c \in Ctxs : fc[c].state # "unborn" => fc'[c].state = fc[c].state,
         SharedBorn', SharedDue', LocalDue'
  PROVE  ReleaseInv'
<1>1. TypeInv /\ ReclaimedInv /\ InvocationsAreProtected /\ FramesBorn
  BY DEF ReleaseInv
<1>2. ReclaimedInv'
  <2> SUFFICES ASSUME NEW c \in Ctxs, NEW v \in Nat, <<c, v>> \in reclaimed
               PROVE  v < Len(entries'[c]) \/ fc'[c].state = "freed"
    BY DEF ReclaimedInv
  <2>1. v < Len(entries[c]) \/ fc[c].state = "freed"
    BY <1>1 DEF ReclaimedInv
  <2>2. Len(entries[c]) \in Nat /\ Len(entries'[c]) \in Nat
    BY <1>1 DEF TypeInv, TypeOK
  <2> QED
    BY <2>1, <2>2 DEF Advances
<1>3. InvocationsAreProtected'
  <2> SUFFICES ASSUME NEW u \in Threads, NEW i \in DOMAIN calls[u], Safe(calls[u][i])
               PROVE  Protected(calls[u][i])'
    BY DEF InvocationsAreProtected, Safe, Protected
  <2>1. calls[u][i].ctx \in Ctxs
    BY <1>1 DEF Safe, TypeInv, FramesConsistent, FrameConsistent
  <2>2. Protected(calls[u][i])
    BY <1>1 DEF InvocationsAreProtected
  <2>3. fc'[calls[u][i].ctx].state = "live"
    BY <2>1, <2>2 DEF Protected
  <2> QED
    BY <2>2, <2>3 DEF Protected
<1> QED
  BY <1>2, <1>3, ApiKeepsInvariant

\* A task that was due, or has become so with this step.
DueNext(task, updates) ==
  \/ Due(task, updates)'
  \/ \E before : /\ Due(task, before)
                 /\ fc'[task.ctx].activated /\ <<task.ctx, "deactivate">> \in before
                      => <<task.ctx, "deactivate">> \in updates

\* Either way it is due after the step.
LEMMA DueAfter ==
  ASSUME TypeInv, TypeInv', Advances, NEW task \in DestroyTask, NEW updates,
         DueNext(task, updates)
  PROVE  Due(task, updates)'
BY DuePersists DEF DueNext

\* The shared queue only gets tasks that are due.
LEMMA QueueGrows ==
  ASSUME ReleaseInv, TypeInv', Advances, NEW new \in Seq(DestroyTask), NEW updates,
         txn'.destroy = txn.destroy \o new, txn'.updates = updates,
         \A c \in Ctxs : fc'[c].activated /\ <<c, "deactivate">> \in txn.updates
                           => <<c, "deactivate">> \in updates,
         \A i \in DOMAIN new : DueNext(new[i], updates)
  PROVE  SharedDue'
<1>1. TypeInv /\ SharedDue /\ txn.destroy \in Seq(DestroyTask)
  BY SharedTypes DEF ReleaseInv
<1>2. ASSUME NEW i \in DOMAIN txn'.destroy
      PROVE  Due(txn.destroy[i], txn.updates)'
  <2> DEFINE n == Len(txn.destroy)
             j == i - n
  <2>1. \/ i \in DOMAIN txn.destroy /\ txn'.destroy[i] = txn.destroy[i]
        \/ j \in DOMAIN new /\ txn'.destroy[i] = new[j]
    BY <1>1
  <2>. HIDE DEF j
  <2>2. PICK task \in DestroyTask : task = txn'.destroy[i] /\ DueNext(task, updates)
    <3>1. CASE i \in DOMAIN txn.destroy /\ txn'.destroy[i] = txn.destroy[i]
      <4>1. Due(txn.destroy[i], txn.updates) /\ txn.destroy[i] \in DestroyTask
        BY <1>1, <3>1 DEF SharedDue
      <4>2. txn.destroy[i].ctx \in Ctxs
        BY <4>1 DEF DestroyTask
      <4> QED
        BY <3>1, <4>1, <4>2 DEF DueNext
    <3>2. CASE j \in DOMAIN new /\ txn'.destroy[i] = new[j]
      BY <3>2
    <3> QED
      BY <2>1, <3>1, <3>2
  <2>3. Due(task, updates)'
    BY <1>1, <2>2, DueAfter
  <2> QED
    BY <2>2, <2>3 DEF Due
<1> QED
  BY <1>2 DEF SharedDue

\* So does the caller's own queue.
LEMMA OwnQueue ==
  ASSUME ReleaseInv, TypeInv', Advances, NEW t \in Threads, NEW o \in ApiCall,
         op' = [op EXCEPT ![t] = o],
         o.at \in {"tasks", "notify", "relock"} => o.updates = {},
         \A i \in DOMAIN o.destroy : DueNext(o.destroy[i], o.updates)
  PROVE  LocalDue'
<1>1. TypeInv /\ LocalDue /\ o.destroy \in Seq(DestroyTask)
  BY DEF ReleaseInv, ApiCall
<1>2. /\ \A u \in Threads : op'[u] = IF u = t THEN o ELSE op[u]
      /\ \A u \in Threads : op[u].destroy \in Seq(DestroyTask)
  BY <1>1 DEF TypeInv, TypeOK, ApiCall
<1>3. ASSUME NEW i \in DOMAIN o.destroy PROVE Due(o.destroy[i], o.updates)'
  BY <1>1, DueAfter
<1>4. ASSUME NEW u \in Threads, u # t, NEW i \in DOMAIN op[u].destroy,
             NEW task, task = op[u].destroy[i], NEW updates, updates = op[u].updates
      PROVE  Due(task, updates)'
  <2>1. task \in DestroyTask /\ Due(task, updates)
    BY <1>1, <1>2, <1>4 DEF LocalDue
  <2> QED
    BY <1>1, <2>1, DueAfter DEF DueNext
<1>5. ASSUME NEW u \in Threads, NEW i \in DOMAIN op'[u].destroy
      PROVE  Due(op[u].destroy[i], op[u].updates)'
  <2>1. CASE u = t
    BY <1>2, <1>3, <1>5, <2>1 DEF Due
  <2>2. CASE u # t
    <3>1. op'[u] = op[u]
      BY <1>2, <2>2
    <3>2. PICK task, updates : task = op[u].destroy[i] /\ updates = op[u].updates
      OBVIOUS
    <3>3. Due(task, updates)'
      BY <1>4, <1>5, <2>2, <3>1, <3>2
    <3> QED
      BY <3>1, <3>2, <3>3 DEF Due
  <2> QED
    BY <2>1, <2>2
<1> QED
  BY <1>1, <1>2, <1>5 DEF LocalDue

\* Nothing refers to a context before it exists.
BornNext(x) == x \in Ctxs => fc'[x].state # "unborn"
OnlyBorn(o) ==
  /\ \A c \in Ctxs : fc'[c].state = "unborn" => fc'[c] = fc[c]
  /\ \A a \in Addr : code'[a] = code[a] \/ BornNext(code'[a])
  /\ \A a \in Addr : table'[a] = table[a] \/ BornNext(table'[a])
  /\ \A c \in Ctxs : fc'[c].saved = fc[c].saved \/ BornNext(fc'[c].saved)
  /\ \A u \in txn'.updates : u \in txn.updates \/ BornNext(u[1])
  /\ o.at \in {"flags", "retire"} => BornNext(o.ctx)
  /\ \A u \in o.updates : BornNext(u[1])

\* References to contexts that exist stay so.
LEMMA BornAfter ==
  ASSUME ReleaseInv, Advances, NEW t \in Threads, NEW o, op' = [op EXCEPT ![t] = o],
         OnlyBorn(o)
  PROVE  SharedBorn'
<1>1. /\ SharedBorn /\ op \in [Threads -> ApiCall]
      /\ table \in [Addr -> Ctxs \cup {None}] /\ code \in [Addr -> Addr \cup {None}]
  BY DEF ReleaseInv, TypeInv, TypeOK
<1>2. \A u \in Threads : op'[u] = IF u = t THEN o ELSE op[u]
  BY <1>1
<1>3. \A x : Born(x) => BornNext(x)
  BY DEF Born, BornNext, Advances
<1>4. \A c \in Ctxs : fc'[c].state = "unborn" => fc'[c] = Unborn
  BY <1>1 DEF OnlyBorn, SharedBorn, Advances
<1>5. /\ \A a \in Addr : BornNext(code'[a]) /\ BornNext(table'[a])
      /\ \A c \in Ctxs : BornNext(fc'[c].saved)
      /\ \A u \in txn'.updates : BornNext(u[1])
  BY <1>1, <1>3 DEF SharedBorn, OnlyBorn
<1>6. /\ \A u \in Threads : op'[u].at \in {"flags", "retire"} => BornNext(op'[u].ctx)
      /\ \A u \in Threads : \A x \in op'[u].updates : BornNext(x[1])
  BY <1>1, <1>2, <1>3 DEF SharedBorn, OnlyBorn
<1> QED
  BY <1>4, <1>5, <1>6 DEF SharedBorn, Born, BornNext

\* A task is taken to be run when nobody uses what it releases.
Ready(o) ==
  o.at = "notify" =>
    /\ o.task \in DestroyTask /\ Due(o.task, {})
    /\ \A u \in Threads : \A i \in DOMAIN calls[u] : Spares(o.task, calls[u][i])

\* A step of a call that releases nothing, from its effect on the queues.
LEMMA StepKeepsReleases ==
  ASSUME ReleaseInv, TypeInv', Advances, UNCHANGED <<calls, reclaimed>>,
         NEW t \in Threads, NEW o \in ApiCall, op' = [op EXCEPT ![t] = o], OnlyBorn(o),
         \A c \in Ctxs : fc[c].state # "unborn" => fc'[c].state = fc[c].state,
         Ready(o), o.at \in {"tasks", "notify", "relock"} => o.updates = {},
         \A i \in DOMAIN o.destroy : DueNext(o.destroy[i], o.updates),
         SharedDue'
  PROVE  ReleaseInv'
<1>1. SharedBorn'
  BY BornAfter
<1>2. LocalDue'
  BY OwnQueue
<1>3. Prepared
  BY DEF Prepared, Ready, ReleaseInv, TypeInv, TypeOK
<1> QED
  BY <1>1, <1>2, <1>3, NothingReleased

\* A step that changes neither contexts nor queues.
LEMMA QuietApiStep ==
  ASSUME ReleaseInv, TypeInv', UNCHANGED <<table, code, fc, entries, reclaimed, calls>>,
         txn'.destroy = txn.destroy, txn'.updates = txn.updates,
         NEW t \in Threads, NEW o \in ApiCall, op' = [op EXCEPT ![t] = o],
         o.at \notin {"flags", "retire", "notify"},
         o.at \in {"tasks", "relock"} => o.updates = {},
         \/ o.destroy = <<>> /\ o.updates = {}
         \/ o.destroy = op[t].destroy /\ o.updates = op[t].updates
  PROVE  ReleaseInv'
<1>1. TypeInv /\ SharedBorn /\ SharedDue /\ LocalDue /\ op[t] \in ApiCall
  BY DEF ReleaseInv, TypeInv, TypeOK
<1>2. Advances
  BY <1>1 DEF Advances, TypeInv, TypeOK
<1>3. OnlyBorn(o)
  BY <1>1 DEF OnlyBorn, BornNext, SharedBorn, Born
<1>4. \A i \in DOMAIN o.destroy : DueNext(o.destroy[i], o.updates)
  BY <1>1 DEF DueNext, LocalDue
<1>5. SharedDue'
  BY <1>1 DEF SharedDue, Due
<1> QED
  BY <1>2, <1>3, <1>4, <1>5, StepKeepsReleases DEF Ready

\* The calls that find nothing to do, those that only move the level of the
\* transaction, and the steps between two queues' worth of work.
LEMMA QuietApiKeepsReleases ==
  ASSUME ReleaseInv, TypeInv', NEW t \in Mutators,
         \/ Refused(t) \/ (\E l \in Listeners : Detach(t, l)) \/ BeginTransaction(t)
         \/ EndTransaction(t) \/ Flush(t) \/ DetachDone(t) \/ EndNothingToDo(t)
         \/ TasksDone(t) \/ Patched(t) \/ Relock(t)
  PROVE  ReleaseInv'
<1>1. /\ t \in Threads /\ op \in [Threads -> ApiCall] /\ op[t] \in ApiCall /\ LocalDue
      /\ txn \in Transaction /\ TypeInv
  BY ConstantsAssumption DEF ReleaseInv, TypeInv, TypeOK
<1>2. UNCHANGED <<table, code, fc, entries, reclaimed, calls>>
  BY DEF heap, Refused, Starts, Detach, BeginTransaction, EndTransaction, Flush, DetachDone,
         EndNothingToDo, TasksDone, Patched, Relock
<1>3. txn'.destroy = txn.destroy /\ txn'.updates = txn.updates
  <2>1. txn.destroy \in Seq(DestroyTask) /\ txn.destroy \o <<>> = txn.destroy
    BY <1>1 DEF Transaction
  <2>2. CASE Refused(t) \/ \E l \in Listeners : Detach(t, l)
    BY <2>1, <2>2 DEF Refused, Detach, Opened
  <2>3. CASE BeginTransaction(t) \/ Flush(t) \/ EndNothingToDo(t)
    BY <1>1, <2>3 DEF BeginTransaction, Flush, EndNothingToDo, Transaction
  <2>4. CASE EndTransaction(t) \/ DetachDone(t) \/ TasksDone(t) \/ Patched(t) \/ Relock(t)
    BY <2>4 DEF EndTransaction, DetachDone, TasksDone, Patched, Relock
  <2> QED
    BY <2>2, <2>3, <2>4
<1>4. PICK o \in ApiCall :
        /\ op' = [op EXCEPT ![t] = o]
        /\ o.at \notin {"flags", "retire", "notify"}
        /\ o.at \in {"tasks", "relock"} => o.updates = {}
        /\ \/ o.destroy = <<>> /\ o.updates = {}
           \/ o.destroy = op[t].destroy /\ o.updates = op[t].updates
  <2>1. ASSUME NEW step \in {"detaching", "end"}, NEW l \in Listeners \cup {None},
               step = "detaching" => l \in Listeners, Goes(t, step, None, l)
        PROVE  \E o \in ApiCall :
                 /\ op' = [op EXCEPT ![t] = o]
                 /\ o.at \notin {"flags", "retire", "notify", "tasks", "relock"}
                 /\ o.destroy = <<>> /\ o.updates = {}
    <3> DEFINE o == [Idle EXCEPT !.kind = "update", !.at = step, !.ctx = None, !.lsn = l]
    <3>1. o \in ApiCall
      BY <2>1, GoesType
    <3>2. o.at = step /\ o.destroy = <<>> /\ o.updates = {} /\ op' = [op EXCEPT ![t] = o]
      BY <2>1 DEF Goes, Idle
    <3>. HIDE DEF o
    <3> QED
      BY <3>1, <3>2
  <2>2. CASE Refused(t) \/ EndTransaction(t)
    BY <2>1, <2>2 DEF Refused, EndTransaction
  <2>3. CASE \E l \in Listeners : Detach(t, l)
    BY <2>1, <2>3 DEF Detach
  <2>4. CASE BeginTransaction(t)
    <3>1. op' = [op EXCEPT ![t] = op[t]] /\ op[t].at = "idle"
      BY <1>1, <2>4 DEF BeginTransaction, InUserCode
    <3> QED
      BY <1>1, <3>1
  <2>5. CASE Flush(t)
    <3> DEFINE o == [Idle EXCEPT !.kind = "flush", !.at = "end"]
    <3>1. o \in ApiCall
      BY IdleType DEF ApiCall
    <3>2. o.at = "end" /\ o.destroy = <<>> /\ o.updates = {} /\ op' = [op EXCEPT ![t] = o]
      BY <2>5 DEF Flush, Idle
    <3>. HIDE DEF o
    <3> QED
      BY <3>1, <3>2
  <2>6. CASE DetachDone(t)
    <3> DEFINE o == [op[t] EXCEPT !.at = "end", !.lsn = None]
    <3>1. /\ o \in ApiCall /\ o.at = "end" /\ o.destroy = op[t].destroy
          /\ o.updates = op[t].updates
      BY <1>1 DEF ApiCall
    <3>2. op' = [op EXCEPT ![t] = o]
      BY <2>6 DEF DetachDone
    <3>. HIDE DEF o
    <3> QED
      BY <3>1, <3>2
  <2>7. CASE EndNothingToDo(t) \/ TasksDone(t)
    <3>1. op' = [op EXCEPT ![t] = Idle]
      BY <2>7 DEF EndNothingToDo, TasksDone, Returns
    <3>2. Idle.at = "idle" /\ Idle.destroy = <<>> /\ Idle.updates = {}
      BY DEF Idle
    <3> QED
      BY <3>1, <3>2, IdleType
  <2>8. CASE Patched(t)
    <3> DEFINE o == [op[t] EXCEPT !.at = "tasks"]
    <3>1. /\ o \in ApiCall /\ o.at = "tasks" /\ o.destroy = op[t].destroy
          /\ o.updates = op[t].updates
      BY <1>1 DEF ApiCall
    <3>2. op' = [op EXCEPT ![t] = o] /\ op[t].updates = {}
      BY <2>8 DEF Patched
    <3>. HIDE DEF o
    <3> QED
      BY <3>1, <3>2
  <2>9. CASE Relock(t)
    <3> DEFINE o == [op[t] EXCEPT !.at = "tasks"]
    <3>1. /\ o \in ApiCall /\ o.at = "tasks" /\ o.destroy = op[t].destroy
          /\ o.updates = op[t].updates
      BY <1>1 DEF ApiCall
    <3>2. op' = [op EXCEPT ![t] = o] /\ op[t].updates = {}
      BY <1>1, <2>9 DEF Relock, LocalDue
    <3>. HIDE DEF o
    <3> QED
      BY <3>1, <3>2
  <2> QED
    BY <2>2, <2>3, <2>4, <2>5, <2>6, <2>7, <2>8, <2>9
<1> QED
  BY <1>1, <1>2, <1>3, <1>4, QuietApiStep

\* The queue of a transaction and its updates stay together.
LEMMA CopyKeepsReleases ==
  ASSUME ReleaseInv, TypeInv', NEW t \in Mutators, EndTakesCopy(t)
  PROVE  ReleaseInv'
<1>. DEFINE o == [op[t] EXCEPT !.at = "patch", !.destroy = txn.destroy,
                              !.updates = txn.updates]
<1>1. /\ t \in Threads /\ op \in [Threads -> ApiCall] /\ op[t] \in ApiCall
      /\ txn \in Transaction /\ TypeInv /\ SharedBorn /\ SharedDue
  BY ConstantsAssumption DEF ReleaseInv, TypeInv, TypeOK
<1>2. /\ UNCHANGED <<table, code, fc, entries, reclaimed, calls>>
      /\ txn' = CleanTransaction /\ op' = [op EXCEPT ![t] = o]
  BY DEF heap, EndTakesCopy, Reinitialized
<1>3. /\ o \in ApiCall /\ o.at = "patch" /\ o.destroy = txn.destroy
      /\ o.updates = txn.updates
  BY <1>1 DEF ApiCall, Transaction
<1>. HIDE DEF o
<1>4. Advances
  BY <1>1, <1>2 DEF Advances, TypeInv, TypeOK
<1>5. OnlyBorn(o)
  BY <1>1, <1>2, <1>3 DEF OnlyBorn, BornNext, SharedBorn, Born, CleanTransaction
<1>6. \A i \in DOMAIN o.destroy : DueNext(o.destroy[i], o.updates)
  BY <1>1, <1>2, <1>3 DEF DueNext, SharedDue
<1>7. SharedDue'
  BY <1>2 DEF SharedDue, CleanTransaction
<1> QED
  BY <1>1, <1>2, <1>3, <1>4, <1>5, <1>6, <1>7, StepKeepsReleases DEF Ready

\* A context that was given up is not patched in, and a task may follow the
\* update that patches its context out.
LEMMA PatchKeepsReleases ==
  ASSUME ReleaseInv, TypeInv', NEW t \in Mutators, NEW c \in Ctxs,
         ActivateUpdate(t, c) \/ DeactivateUpdate(t, c)
  PROVE  ReleaseInv'
<1>1. /\ t \in Threads /\ op \in [Threads -> ApiCall] /\ op[t] \in ApiCall
      /\ TypeInv /\ SharedBorn /\ SharedDue /\ LocalDue
      /\ fc \in [Ctxs -> FunctionContext] /\ fc[c] \in FunctionContext
      /\ code \in [Addr -> Addr \cup {None}]
  BY ConstantsAssumption DEF ReleaseInv, TypeInv, TypeOK
<1>2. /\ UNCHANGED <<table, entries, reclaimed, calls, txn>> /\ op[t].at = "patch"
      /\ fc[c].state # "unborn"
  BY <1>1 DEF ActivateUpdate, DeactivateUpdate, SharedBorn, Born
<1>3. PICK way \in {"activate", "deactivate"} :
        /\ op' = [op EXCEPT ![t] = [op[t] EXCEPT !.updates = @ \ {<<c, way>>}]]
        /\ way = "activate" => ActivateUpdate(t, c)
        /\ way = "deactivate" => DeactivateUpdate(t, c)
  BY <1>1 DEF ActivateUpdate, DeactivateUpdate
<1>. DEFINE o == [op[t] EXCEPT !.updates = @ \ {<<c, way>>}]
<1>4. /\ o \in ApiCall /\ o.at = "patch" /\ o.destroy = op[t].destroy
      /\ o.updates = op[t].updates \ {<<c, way>>} /\ op' = [op EXCEPT ![t] = o]
  BY <1>1, <1>2, <1>3 DEF ApiCall
<1>. HIDE DEF o
<1>5. /\ \A d \in Ctxs \ {c} : fc'[d] = fc[d]
      /\ fc'[c].state = fc[c].state /\ fc'[c].destroyed = fc[c].destroyed
      /\ fc'[c].counter = fc[c].counter /\ fc'[c].saved = fc[c].saved
      /\ fc[c].destroyed /\ fc'[c].activated => fc[c].activated /\ way = "activate"
      /\ way = "deactivate" => ~fc'[c].activated
  BY <1>1, <1>3 DEF ActivateUpdate, DeactivateUpdate, SkipsActivation, FunctionContext
<1>6. Advances
  <2>1. \A d \in Ctxs : Len(entries[d]) \in Nat /\ entries'[d] = entries[d]
    BY <1>1, <1>2 DEF TypeInv, TypeOK
  <2>2. \A d \in Ctxs : Len(entries[d]) <= Len(entries'[d])
    BY <2>1
  <2> QED
    BY <1>5, <2>2 DEF Advances
<1>7. \A d \in Ctxs : fc'[d].state = fc[d].state
  BY <1>5
<1>8. \A x : Born(x) => BornNext(x)
  BY <1>7 DEF Born, BornNext
<1>9. \A a \in Addr : code'[a] = code[a] \/ BornNext(code'[a])
  <2>1. Born(c) /\ Born(fc[c].repl) /\ Born(fc[c].saved)
    BY <1>1, <1>2, ConstantsAssumption DEF Born, SharedBorn, FunctionContext
  <2>2. CASE way = "activate"
    BY <1>1, <1>3, <1>8, <2>1, <2>2 DEF ActivateUpdate
  <2>3. CASE way = "deactivate"
    BY <1>1, <1>3, <1>8, <2>1, <2>3 DEF DeactivateUpdate
  <2> QED
    BY <1>3, <2>2, <2>3
<1>10. OnlyBorn(o)
  <2>1. \A u \in o.updates : BornNext(u[1])
    BY <1>1, <1>4, <1>8 DEF SharedBorn
  <2>2. \A d \in Ctxs : fc'[d].state = "unborn" => fc'[d] = fc[d]
    BY <1>2, <1>5
  <2> QED
    BY <1>2, <1>4, <1>5, <1>9, <2>1, <2>2 DEF OnlyBorn
<1>11. ASSUME NEW i \in DOMAIN o.destroy PROVE DueNext(o.destroy[i], o.updates)
  <2>1. Due(o.destroy[i], op[t].updates) /\ o.destroy[i] \in DestroyTask
    BY <1>1, <1>4, <1>11 DEF LocalDue, ApiCall
  <2>2. ASSUME fc'[o.destroy[i].ctx].activated,
               <<o.destroy[i].ctx, "deactivate">> \in op[t].updates
        PROVE  <<o.destroy[i].ctx, "deactivate">> \in o.updates
    <3>1. <<o.destroy[i].ctx, "deactivate">> # <<c, way>>
      BY <1>3, <1>5, <2>2
    <3> QED
      BY <1>4, <2>2, <3>1
  <2> QED
    BY <2>1, <2>2 DEF DueNext
<1>12. SharedDue'
  <2>1. /\ <<>> \in Seq(DestroyTask) /\ txn.destroy \in Seq(DestroyTask)
        /\ txn.destroy \o <<>> = txn.destroy
    BY <1>1, SharedTypes
  <2>2. \A i \in DOMAIN <<>> : DueNext(<<>>[i], txn.updates)
    OBVIOUS
  <2> QED
    BY <1>1, <1>2, <1>6, <2>1, <2>2, QueueGrows
<1> QED
  BY <1>1, <1>2, <1>4, <1>5, <1>6, <1>7, <1>10, <1>11, <1>12, StepKeepsReleases DEF Ready

\* The task at the head of the caller's queue is due, and those behind it.
LEMMA HeadIsDue ==
  ASSUME ReleaseInv, NEW t \in Threads, op[t].at = "tasks", op[t].destroy # <<>>
  PROVE  /\ op[t].updates = {} /\ Head(op[t].destroy) \in DestroyTask
         /\ Due(Head(op[t].destroy), {}) /\ Tail(op[t].destroy) \in Seq(DestroyTask)
         /\ \A i \in DOMAIN Tail(op[t].destroy) : Due(Tail(op[t].destroy)[i], {})
<1>1. /\ op[t].destroy \in Seq(DestroyTask) /\ op[t].updates = {}
      /\ \A i \in DOMAIN op[t].destroy : Due(op[t].destroy[i], {})
  BY DEF ReleaseInv, TypeInv, TypeOK, ApiCall, LocalDue
<1>2. /\ 1 \in DOMAIN op[t].destroy /\ Head(op[t].destroy) = op[t].destroy[1]
      /\ Tail(op[t].destroy) \in Seq(DestroyTask)
  BY <1>1
<1>3. ASSUME NEW i \in DOMAIN Tail(op[t].destroy)
      PROVE  i + 1 \in DOMAIN op[t].destroy /\ Tail(op[t].destroy)[i] = op[t].destroy[i + 1]
  BY <1>1
<1> QED
  BY <1>1, <1>2, <1>3

\* A context not in use has no invocation that counts on it: the counter says
\* so, or the context has been released and the invocations are late ones.
LEMMA RunKeepsReleases ==
  ASSUME ReleaseInv, TypeInv', NEW t \in Mutators, TaskRuns(t)
  PROVE  ReleaseInv'
<1>. DEFINE head == Head(op[t].destroy)
           o == [op[t] EXCEPT !.at = "notify", !.task = head, !.destroy = Tail(@)]
<1>1. /\ t \in Threads /\ op \in [Threads -> ApiCall] /\ op[t] \in ApiCall
      /\ TypeInv /\ SharedBorn /\ SharedDue /\ CountInv /\ InvocationsAreProtected
  BY ConstantsAssumption DEF ReleaseInv, TypeInv, TypeOK
<1>2. /\ UNCHANGED <<table, code, fc, entries, reclaimed, calls, txn>>
      /\ op' = [op EXCEPT ![t] = o] /\ op[t].at = "tasks" /\ op[t].destroy # <<>>
      /\ SeenUnused(head.ctx)
  BY DEF heap, TaskRuns
<1>3. /\ op[t].updates = {} /\ head \in DestroyTask /\ Due(head, {})
      /\ Tail(op[t].destroy) \in Seq(DestroyTask)
      /\ \A i \in DOMAIN Tail(op[t].destroy) : Due(Tail(op[t].destroy)[i], {})
  BY <1>1, <1>2, HeadIsDue
<1>. HIDE DEF head
<1>4. /\ o \in ApiCall /\ o.at = "notify" /\ o.task = head /\ o.updates = {}
      /\ o.destroy = Tail(op[t].destroy)
  BY <1>1, <1>3 DEF ApiCall
<1>. HIDE DEF o
<1>5. ASSUME NEW u \in Threads, NEW i \in DOMAIN calls[u]
      PROVE  Spares(head, calls[u][i])
  <2> SUFFICES ASSUME Safe(calls[u][i]), calls[u][i].ctx = head.ctx
               PROVE  FALSE
    BY DEF Spares
  <2>1. head.ctx \in Ctxs
    BY <1>3 DEF DestroyTask
  <2>2. fc[head.ctx].state = "live"
    BY <1>1 DEF InvocationsAreProtected, Protected
  <2>3. fc[head.ctx].counter = 0
    BY <1>2, <2>2 DEF SeenUnused
  <2>4. Holders(head.ctx) = {}
    BY <1>1, <2>1, <2>3, FS_EmptySet DEF CountInv
  <2>5. <<u, i>> \in Holders(head.ctx)
    BY <2>1, HoldersAre DEF Safe
  <2> QED
    BY <2>4, <2>5
<1>6. Advances
  BY <1>1, <1>2 DEF Advances, TypeInv, TypeOK
<1>7. OnlyBorn(o)
  BY <1>1, <1>2, <1>4 DEF OnlyBorn
<1>8. Ready(o)
  BY <1>3, <1>4, <1>5 DEF Ready
<1>9. \A i \in DOMAIN o.destroy : DueNext(o.destroy[i], o.updates)
  BY <1>3, <1>4 DEF DueNext
<1>10. SharedDue'
  BY <1>1, <1>2 DEF SharedDue, Due
<1> QED
  BY <1>1, <1>2, <1>4, <1>6, <1>7, <1>8, <1>9, <1>10, StepKeepsReleases

\* A task that goes back waits for nothing but its turn.
LEMMA RequeueKeepsReleases ==
  ASSUME ReleaseInv, TypeInv', NEW t \in Mutators, TaskRequeued(t)
  PROVE  ReleaseInv'
<1>. DEFINE head == Head(op[t].destroy)
           o == [op[t] EXCEPT !.destroy = Tail(@)]
<1>1. /\ t \in Threads /\ op \in [Threads -> ApiCall] /\ op[t] \in ApiCall
      /\ TypeInv /\ SharedBorn /\ SharedDue /\ txn \in Transaction
      /\ txn.destroy \in Seq(DestroyTask)
  BY ConstantsAssumption, SharedTypes DEF ReleaseInv, TypeInv, TypeOK
<1>2. /\ UNCHANGED <<table, code, fc, entries, reclaimed, calls>>
      /\ op' = [op EXCEPT ![t] = o] /\ op[t].at = "tasks" /\ op[t].destroy # <<>>
      /\ txn' = Requeues(head)
  BY DEF heap, TaskRequeued
<1>3. /\ op[t].updates = {} /\ head \in DestroyTask /\ Due(head, {})
      /\ Tail(op[t].destroy) \in Seq(DestroyTask)
      /\ \A i \in DOMAIN Tail(op[t].destroy) : Due(Tail(op[t].destroy)[i], {})
  BY <1>1, <1>2, HeadIsDue
<1>. HIDE DEF head
<1>4. /\ o \in ApiCall /\ o.at = "tasks" /\ o.updates = {}
      /\ o.destroy = Tail(op[t].destroy)
  BY <1>1, <1>2, <1>3 DEF ApiCall
<1>. HIDE DEF o
<1>5. Advances
  BY <1>1, <1>2 DEF Advances, TypeInv, TypeOK
<1>6. txn'.destroy = txn.destroy \o <<head>> /\ txn'.updates = txn.updates
  BY <1>1, <1>2, <1>3 DEF Requeues, Transaction
<1>7. OnlyBorn(o)
  BY <1>1, <1>2, <1>4, <1>6 DEF OnlyBorn
<1>8. \A i \in DOMAIN o.destroy : DueNext(o.destroy[i], o.updates)
  BY <1>3, <1>4 DEF DueNext
<1>9. SharedDue'
  <2>1. <<head>> \in Seq(DestroyTask)
    BY <1>3
  <2>2. \A i \in DOMAIN <<head>> : DueNext(<<head>>[i], txn.updates)
    BY <1>3 DEF DueNext
  <2> QED
    BY <1>1, <1>5, <1>6, <2>1, <2>2, QueueGrows
<1> QED
  BY <1>1, <1>2, <1>4, <1>5, <1>7, <1>8, <1>9, StepKeepsReleases DEF Ready

\* What a notification releases is used by no invocation that counts on it.
LEMMA NotifyKeepsReleases ==
  ASSUME ReleaseInv, TypeInv', NEW t \in Mutators, Notify(t)
  PROVE  ReleaseInv'
<1>. DEFINE o == [op[t] EXCEPT !.at = "relock", !.task = None]
<1>1. /\ t \in Threads /\ op \in [Threads -> ApiCall] /\ op[t] \in ApiCall
      /\ TypeInv /\ SharedBorn /\ SharedDue /\ LocalDue /\ NotifyInv /\ ReclaimedInv
      /\ InvocationsAreProtected /\ fc \in [Ctxs -> FunctionContext]
  BY ConstantsAssumption DEF ReleaseInv, TypeInv, TypeOK
<1>2. PICK task : task = op[t].task
  OBVIOUS
<1>3. /\ op[t].at = "notify" /\ task \in DestroyTask /\ Due(task, {}) /\ op[t].updates = {}
      /\ \A u \in Threads : \A i \in DOMAIN calls[u] : Spares(task, calls[u][i])
  BY <1>1, <1>2 DEF Notify, NotifyInv, TypeInv, CallsConsistent, CallConsistent, LocalDue
<1>4. /\ task.ctx \in Ctxs /\ task.ver \in Nat
      /\ task.what \in {"array", "listener", "context"}
  BY <1>3 DEF DestroyTask
<1>5. /\ UNCHANGED <<table, code, entries, calls, txn>> /\ op' = [op EXCEPT ![t] = o]
  BY DEF Notify
<1>6. /\ o \in ApiCall /\ o.at = "relock" /\ o.updates = {} /\ o.destroy = op[t].destroy
  BY <1>1, <1>3 DEF ApiCall
<1>. HIDE DEF o
<1>7. \A c \in Ctxs :
        /\ fc'[c].counter = fc[c].counter /\ fc'[c].destroyed = fc[c].destroyed
        /\ fc'[c].activated = fc[c].activated /\ fc'[c].saved = fc[c].saved
        /\ fc'[c].state = IF task.what = "context" /\ c = task.ctx THEN "freed" ELSE fc[c].state
        /\ fc'[c].state = "unborn" => fc'[c] = fc[c]
  BY <1>1, <1>2, <1>4 DEF Notify, FunctionContext
<1>8. Advances
  BY <1>1, <1>5, <1>7 DEF Advances, TypeInv, TypeOK
<1>9. SharedBorn'
  <2>1. OnlyBorn(o)
    BY <1>1, <1>5, <1>6, <1>7 DEF OnlyBorn
  <2> QED
    BY <1>1, <1>5, <1>8, <2>1, BornAfter
<1>10. SharedDue'
  <2>1. /\ <<>> \in Seq(DestroyTask) /\ txn.destroy \in Seq(DestroyTask)
        /\ txn.destroy \o <<>> = txn.destroy
    BY <1>1, SharedTypes
  <2>2. \A i \in DOMAIN <<>> : DueNext(<<>>[i], txn.updates)
    OBVIOUS
  <2> QED
    BY <1>1, <1>5, <1>8, <2>1, <2>2, QueueGrows
<1>11. LocalDue'
  <2>1. \A i \in DOMAIN o.destroy : DueNext(o.destroy[i], o.updates)
    BY <1>1, <1>3, <1>6 DEF LocalDue, DueNext
  <2> QED
    BY <1>1, <1>5, <1>6, <1>8, <2>1, OwnQueue
<1>12. Prepared
  BY <1>1, <1>5, <1>6 DEF Prepared
<1>13. reclaimed' = reclaimed \cup
         (IF task.what = "array" THEN {<<task.ctx, task.ver>>}
          ELSE IF task.what = "context" THEN {<<task.ctx, Len(entries[task.ctx])>>} ELSE {})
  BY <1>2, <1>4 DEF Notify
<1>14. ReclaimedInv'
  <2> SUFFICES ASSUME NEW c \in Ctxs, NEW v \in Nat, <<c, v>> \in reclaimed'
               PROVE  v < Len(entries[c]) \/ fc'[c].state = "freed"
    BY <1>5 DEF ReclaimedInv
  <2>1. CASE <<c, v>> \in reclaimed
    BY <1>1, <1>7, <2>1 DEF ReclaimedInv
  <2>2. CASE task.what = "array" /\ <<c, v>> = <<task.ctx, task.ver>>
    BY <1>3, <2>2 DEF Due
  <2>3. CASE task.what = "context" /\ <<c, v>> = <<task.ctx, Len(entries[task.ctx])>>
    BY <1>4, <1>7, <2>3
  <2> QED
    BY <1>4, <1>13, <2>1, <2>2, <2>3
<1>15. InvocationsAreProtected'
  <2> SUFFICES ASSUME NEW u \in Threads, NEW i \in DOMAIN calls[u], Safe(calls[u][i])
               PROVE  /\ fc'[calls[u][i].ctx].state = "live"
                      /\ calls[u][i].snap # 0 =>
                           <<calls[u][i].ctx, calls[u][i].snap>> \notin reclaimed'
    BY <1>5 DEF InvocationsAreProtected, Safe, Protected
  <2> DEFINE fr == calls[u][i]
  <2>1. Protected(fr) /\ Spares(task, fr)
    BY <1>1, <1>3 DEF InvocationsAreProtected
  <2>2. fr.ctx \in Ctxs
    BY <1>1 DEF Safe, TypeInv, FramesConsistent, FrameConsistent
  <2>. HIDE DEF fr
  <2>3. /\ fr.ctx = task.ctx => task.what # "context"
        /\ fr.ctx = task.ctx /\ task.what = "array" => fr.snap # task.ver
    BY <2>1 DEF fr, Spares
  <2>4. fc'[fr.ctx].state = "live"
    BY <1>7, <2>1, <2>2, <2>3 DEF Protected
  <2>5. ASSUME fr.snap # 0 PROVE <<fr.ctx, fr.snap>> \notin reclaimed'
    <3>1. <<fr.ctx, fr.snap>> \notin reclaimed
      BY <2>1, <2>5 DEF Protected
    <3>2. \A d, v : <<fr.ctx, fr.snap>> = <<d, v>> <=> fr.ctx = d /\ fr.snap = v
      OBVIOUS
    <3> QED
      BY <1>4, <1>13, <2>3, <3>1, <3>2
  <2> QED
    BY <2>4, <2>5 DEF fr
<1> QED
  BY <1>5, <1>8, <1>9, <1>10, <1>11, <1>12, <1>14, <1>15, ApiKeepsInvariant

\* A step that gives up a context queues the task that releases it together
\* with the update that patches it out.
LEMMA GivenUpTask ==
  ASSUME NEW c \in Ctxs, fc'[c].destroyed, fc'[c].activated = fc[c].activated,
         fc[c].activated \in BOOLEAN, NEW updates, DestroyUpdates(c) \subseteq updates
  PROVE  DueNext(ContextTask(c), updates)
<1>1. Due(ContextTask(c), updates)'
  BY DEF Due, ContextTask, DestroyUpdates
<1> QED
  BY <1>1 DEF DueNext

\* No array that was published goes.
ArraysStay ==
  \A c \in Ctxs : \A v \in DOMAIN entries[c] :
    v \in DOMAIN entries'[c] /\ entries'[c][v] = entries[c][v]

\* An array is published: the others stay the current ones of their contexts,
\* and all that were published before stay.
LEMMA NewArray ==
  ASSUME TypeInv, NEW c \in Ctxs, NEW arr \in ListenerArray,
         entries' = [entries EXCEPT ![c] = Append(@, arr)]
  PROVE  /\ Current(c)' = arr
         /\ \A d \in Ctxs : d # c => Current(d)' = Current(d)
         /\ ArraysStay
<1>1. entries \in [Ctxs -> Seq(ListenerArray)]
  BY DEF TypeInv, TypeOK
<1>2. entries'[c] = Append(entries[c], arr) /\ \A d \in Ctxs : d # c => entries'[d] = entries[d]
  BY <1>1
<1>3. entries'[c][Len(entries'[c])] = arr
  BY <1>1, <1>2
<1>4. \A v \in DOMAIN entries[c] : v \in DOMAIN entries'[c] /\ entries'[c][v] = entries[c][v]
  BY <1>1, <1>2
<1>5. ArraysStay
  BY <1>2, <1>4 DEF ArraysStay
<1> QED
  BY <1>2, <1>3, <1>5 DEF Current

\* A step that publishes an array queues the task that releases the old one.
LEMMA PublishedTask ==
  ASSUME TypeInv, NEW c \in Ctxs, NEW arr \in ListenerArray,
         entries' = [entries EXCEPT ![c] = Append(@, arr)]
  PROVE  /\ \A d \in Ctxs : Len(entries[d]) <= Len(entries'[d])
         /\ \A updates : DueNext(ArrayTask(c, Len(entries[c])), updates)
         /\ ArrayTask(c, Len(entries[c])) \in DestroyTask
<1>1. entries \in [Ctxs -> Seq(ListenerArray)] /\ Len(entries[c]) \in Nat \ {0}
  BY CurrentType DEF TypeInv, TypeOK
<1>2. Len(entries'[c]) = Len(entries[c]) + 1
  BY <1>1
<1>3. ASSUME NEW d \in Ctxs PROVE Len(entries[d]) <= Len(entries'[d])
  <2>1. Len(entries[d]) \in Nat /\ (d # c => entries'[d] = entries[d])
    BY <1>1
  <2> QED
    BY <1>1, <1>2, <2>1
<1>4. PICK n : n = Len(entries[c])
  OBVIOUS
<1>5. ASSUME NEW updates PROVE Due(ArrayTask(c, n), updates)'
  BY <1>1, <1>2, <1>4 DEF Due, ArrayTask
<1>6. \A updates : DueNext(ArrayTask(c, n), updates)
  BY <1>5 DEF DueNext
<1>7. ArrayTask(c, n) \in DestroyTask
  BY <1>1, <1>4 DEF ArrayTask, DestroyTask
<1> QED
  BY <1>3, <1>4, <1>6, <1>7

\* The rest of attach and the steps of detach.
LEMMA FlagsKeepReleases ==
  ASSUME ReleaseInv, TypeInv', NEW t \in Mutators, AttachFlags(t)
  PROVE  ReleaseInv'
<1>. DEFINE o == [op[t] EXCEPT !.at = "end"]
<1>1. /\ t \in Threads /\ op \in [Threads -> ApiCall] /\ op[t] \in ApiCall
      /\ TypeInv /\ SharedBorn /\ LocalDue /\ fc \in [Ctxs -> FunctionContext]
      /\ op[t].at = "flags"
  BY ConstantsAssumption DEF ReleaseInv, TypeInv, TypeOK, AttachFlags
<1>2. /\ UNCHANGED <<table, code, entries, reclaimed, calls, txn>>
      /\ op' = [op EXCEPT ![t] = o]
  BY DEF AttachFlags
<1>3. o \in ApiCall /\ o.at = "end" /\ o.updates = op[t].updates /\ o.destroy = op[t].destroy
  BY <1>1 DEF ApiCall
<1>. HIDE DEF o
<1>4. \A c \in Ctxs :
        /\ fc'[c].counter = fc[c].counter /\ fc'[c].destroyed = fc[c].destroyed
        /\ fc'[c].activated = fc[c].activated /\ fc'[c].saved = fc[c].saved
        /\ fc'[c].state = fc[c].state
        /\ fc'[c].state = "unborn" => fc'[c] = fc[c]
  BY <1>1 DEF AttachFlags, FunctionContext, SharedBorn, Born
<1>5. Advances
  BY <1>1, <1>2, <1>4 DEF Advances, TypeInv, TypeOK
<1>6. OnlyBorn(o)
  BY <1>1, <1>2, <1>3, <1>4 DEF OnlyBorn, SharedBorn, Born, BornNext
<1>7. \A i \in DOMAIN o.destroy : DueNext(o.destroy[i], o.updates)
  BY <1>1, <1>3 DEF LocalDue, DueNext
<1>8. SharedDue'
  <2>1. /\ <<>> \in Seq(DestroyTask) /\ txn.destroy \in Seq(DestroyTask)
        /\ txn.destroy \o <<>> = txn.destroy
    BY <1>1, SharedTypes
  <2>2. \A i \in DOMAIN <<>> : DueNext(<<>>[i], txn.updates)
    OBVIOUS
  <2> QED
    BY <1>1, <1>2, <1>5, <2>1, <2>2, QueueGrows
<1> QED
  BY <1>1, <1>2, <1>3, <1>4, <1>5, <1>6, <1>7, <1>8, StepKeepsReleases DEF Ready

\* A listener array is published and its predecessor queued.
LEMMA DetachFromKeepsReleases ==
  ASSUME ReleaseInv, TypeInv', NEW t \in Mutators, NEW c \in Ctxs, DetachFrom(t, c)
  PROVE  ReleaseInv'
<1>. DEFINE o == [op[t] EXCEPT !.at = "retire", !.ctx = c]
           task == ArrayTask(c, Len(entries[c]))
<1>1. /\ t \in Threads /\ op \in [Threads -> ApiCall] /\ op[t] \in ApiCall
      /\ TypeInv /\ SharedBorn /\ LocalDue /\ txn \in Transaction
      /\ txn.destroy \in Seq(DestroyTask) /\ op[t].at = "detaching" /\ op[t].lsn \in Listeners
  BY ConstantsAssumption, SharedTypes
     DEF ReleaseInv, TypeInv, TypeOK, DetachFrom, CallsConsistent, CallConsistent
<1>2. /\ UNCHANGED <<table, code, fc, reclaimed, calls>> /\ op' = [op EXCEPT ![t] = o]
      /\ entries' = [entries EXCEPT ![c] = Append(@, WithoutListener(Current(c), op[t].lsn))]
      /\ txn' = [txn EXCEPT !.destroy = Append(@, task)]
  BY DEF DetachFrom
<1>3. /\ o \in ApiCall /\ o.at = "retire" /\ o.ctx = c /\ o.updates = op[t].updates
      /\ o.destroy = op[t].destroy
  BY <1>1 DEF ApiCall
<1>. HIDE DEF o
<1>4. /\ \A d \in Ctxs : Len(entries[d]) <= Len(entries'[d])
      /\ \A updates : DueNext(task, updates)
      /\ task \in DestroyTask
  BY <1>1, <1>2, CurrentType, ListenersType, PublishedTask
<1>. HIDE DEF task
<1>5. Advances
  BY <1>2, <1>4 DEF Advances
<1>6. txn'.destroy = txn.destroy \o <<task>> /\ txn'.updates = txn.updates
  BY <1>1, <1>2, <1>4 DEF Transaction
<1>7. Born(c)
  BY <1>1 DEF SharedBorn, DetachFrom
<1>8. OnlyBorn(o)
  BY <1>1, <1>2, <1>3, <1>6, <1>7 DEF OnlyBorn, SharedBorn, Born, BornNext
<1>9. \A i \in DOMAIN o.destroy : DueNext(o.destroy[i], o.updates)
  BY <1>1, <1>3 DEF LocalDue, DueNext
<1>10. SharedDue'
  <2>1. <<task>> \in Seq(DestroyTask) /\ \A i \in DOMAIN <<task>> : <<task>>[i] = task
    BY <1>4
  <2> QED
    BY <1>4, <1>5, <1>6, <2>1, QueueGrows
<1> QED
  BY <1>1, <1>2, <1>3, <1>5, <1>8, <1>9, <1>10, StepKeepsReleases DEF Ready

\* The reference to the listener is queued, and the context if it is empty.
LEMMA RetireKeepsReleases ==
  ASSUME ReleaseInv, TypeInv', NEW t \in Mutators, DetachRetire(t)
  PROVE  ReleaseInv'
<1>. DEFINE c == op[t].ctx
           l == op[t].lsn
           ctx == [fc[c] EXCEPT !.hasLeave = Current(c).live \cap LeaveListeners # {}]
           gone == IsEmpty(ctx, Current(c))
           first == <<ListenerTask(c, l)>>
           rest == IF gone THEN <<ContextTask(c)>> ELSE <<>>
           new == first \o rest
           updates == IF gone THEN txn.updates \cup DestroyUpdates(c) ELSE txn.updates
           o == [op[t] EXCEPT !.at = "detaching", !.ctx = None]
<1>1. /\ t \in Threads /\ op \in [Threads -> ApiCall] /\ op[t] \in ApiCall
      /\ TypeInv /\ SharedBorn /\ LocalDue /\ txn \in Transaction
      /\ txn.destroy \in Seq(DestroyTask) /\ fc \in [Ctxs -> FunctionContext]
      /\ op[t].at = "retire" /\ l \in Listeners /\ c \in Ctxs
  BY ConstantsAssumption, SharedTypes
     DEF ReleaseInv, TypeInv, TypeOK, DetachRetire, CallsConsistent, CallConsistent
<1>2. /\ UNCHANGED <<code, entries, reclaimed, calls>> /\ op' = [op EXCEPT ![t] = o]
      /\ fc' = [fc EXCEPT ![c] = [ctx EXCEPT !.destroyed = @ \/ gone]]
      /\ table' = IF gone THEN [table EXCEPT ![ctx.addr] = None] ELSE table
      /\ txn' = [txn EXCEPT
           !.destroy = @ \o first \o rest,
           !.updates = IF gone THEN @ \cup DestroyUpdates(c) ELSE @]
  BY DEF DetachRetire
<1>3. gone \in BOOLEAN
  BY DEF IsEmpty
<1>4. Born(c) /\ fc[c].state # "unborn" /\ fc[c] \in FunctionContext
  BY <1>1 DEF SharedBorn, Born
<1>5. /\ o \in ApiCall /\ o.at = "detaching" /\ o.updates = op[t].updates
      /\ o.destroy = op[t].destroy
  BY <1>1 DEF ApiCall
<1>6. ListenerTask(c, l) \in DestroyTask /\ ContextTask(c) \in DestroyTask
  BY <1>1, TaskTypes
<1>7. \A d \in Ctxs :
        /\ fc'[d].counter = fc[d].counter /\ fc'[d].state = fc[d].state
        /\ fc'[d].activated = fc[d].activated /\ fc'[d].saved = fc[d].saved
        /\ fc'[d].destroyed <=> fc[d].destroyed \/ (d = c /\ gone)
        /\ d # c => fc'[d] = fc[d]
  <2>1. ctx \in FunctionContext /\ ctx.destroyed = fc[c].destroyed /\ ctx.counter = fc[c].counter
        /\ ctx.state = fc[c].state /\ ctx.activated = fc[c].activated /\ ctx.saved = fc[c].saved
    BY <1>4 DEF FunctionContext
  <2>. HIDE DEF ctx, gone
  <2>2. fc'[c] = [ctx EXCEPT !.destroyed = @ \/ gone] /\ \A d \in Ctxs : d # c => fc'[d] = fc[d]
    BY <1>1, <1>2
  <2> QED
    BY <1>3, <2>1, <2>2 DEF FunctionContext
<1>. HIDE DEF gone, ctx, o
<1>8. /\ rest \in Seq(DestroyTask) /\ first \in Seq(DestroyTask)
      /\ \A i \in DOMAIN rest : gone /\ rest[i] = ContextTask(c)
      /\ \A i \in DOMAIN first : first[i] = ListenerTask(c, l)
  <2>1. CASE gone
    BY <1>6, <2>1
  <2>2. CASE ~gone
    BY <1>6, <2>2
  <2> QED
    BY <2>1, <2>2
<1>. HIDE DEF rest, first
<1>9. new \in Seq(DestroyTask) /\ txn'.destroy = txn.destroy \o new /\ txn'.updates = updates
  <2>1. txn' = [txn EXCEPT !.destroy = (@ \o first) \o rest, !.updates = updates]
    BY <1>2
  <2>. HIDE DEF updates
  <2>2. txn'.destroy = (txn.destroy \o first) \o rest /\ txn'.updates = updates
    BY <1>1, <2>1 DEF Transaction
  <2>3. (txn.destroy \o first) \o rest = txn.destroy \o new
    <3>1. /\ txn.destroy \in Seq(DestroyTask) /\ first \in Seq(DestroyTask)
          /\ rest \in Seq(DestroyTask)
      BY <1>1, <1>8
    <3>2. PICK q \in Seq(DestroyTask), x \in Seq(DestroyTask), y \in Seq(DestroyTask) :
            q = txn.destroy /\ x = first /\ y = rest
      BY <3>1
    <3>3. (q \o x) \o y = q \o (x \o y)
      BY ConcatAssociative
    <3> QED
      BY <3>2, <3>3
  <2>4. new \in Seq(DestroyTask)
    BY <1>8, ConcatProperties
  <2>. HIDE DEF new
  <2> QED
    BY <2>2, <2>3, <2>4
<1>10. \A i \in DOMAIN new : DueNext(new[i], updates)
  <2>1. DueNext(ListenerTask(c, l), updates)
    BY DEF DueNext, Due, ListenerTask
  <2>2. gone => DueNext(ContextTask(c), updates)
    <3>1. gone => DestroyUpdates(c) \subseteq updates
      OBVIOUS
    <3>2. fc[c].activated \in BOOLEAN /\ fc'[c].activated = fc[c].activated
          /\ (gone => fc'[c].destroyed)
      BY <1>1, <1>4, <1>7 DEF FunctionContext
    <3>. HIDE DEF updates
    <3> QED
      BY <1>1, <3>1, <3>2, GivenUpTask
  <2>3. \A i \in DOMAIN new : new[i] = ListenerTask(c, l) \/ (gone /\ new[i] = ContextTask(c))
    BY <1>8
  <2>. HIDE DEF new, updates
  <2> QED
    BY <2>1, <2>2, <2>3
<1>11. Advances
  <2>1. \A d \in Ctxs : Len(entries[d]) \in Nat /\ entries'[d] = entries[d]
    BY <1>1, <1>2 DEF TypeInv, TypeOK
  <2>2. \A d \in Ctxs : Len(entries[d]) <= Len(entries'[d])
    BY <2>1
  <2> QED
    BY <1>7, <2>2 DEF Advances
<1>12. OnlyBorn(o)
  <2>1. \A u \in txn'.updates : u \in txn.updates \/ u[1] = c
    BY <1>9 DEF DestroyUpdates
  <2>2. \A a \in Addr : table'[a] = table[a] \/ table'[a] = None
    BY <1>1, <1>2 DEF TypeInv, TypeOK
  <2>3. \A d \in Ctxs : fc'[d].state = "unborn" => fc'[d] = fc[d]
    BY <1>4, <1>7
  <2> QED
    BY <1>1, <1>2, <1>4, <1>5, <1>7, <2>1, <2>2, <2>3, ConstantsAssumption
       DEF OnlyBorn, SharedBorn, Born, BornNext
<1>13. \A i \in DOMAIN o.destroy : DueNext(o.destroy[i], o.updates)
  BY <1>1, <1>5 DEF LocalDue, DueNext
<1>14. \A d \in Ctxs : <<d, "deactivate">> \in txn.updates => <<d, "deactivate">> \in updates
  OBVIOUS
<1>. HIDE DEF new, updates
<1>15. SharedDue'
  BY <1>9, <1>10, <1>11, <1>14, QueueGrows
<1> QED
  BY <1>1, <1>2, <1>5, <1>7, <1>11, <1>12, <1>13, <1>15, StepKeepsReleases DEF Ready

\* Instrumenting keeps what a context in the table is, and makes a new one of a
\* context that did not exist.
LEMMA InstrumentKeeps ==
  ASSUME ReleaseInv, NEW a \in Addr, NEW c \in Ctxs, NEW fast \in BOOLEAN,
         Instruments(a, fast, c), NEW ctx \in FunctionContext,
         ctx.state = Instrumented(a, fast, c).state,
         ctx.counter = Instrumented(a, fast, c).counter,
         ctx.destroyed = Instrumented(a, fast, c).destroyed,
         ctx.activated = Instrumented(a, fast, c).activated,
         ctx.saved = Instrumented(a, fast, c).saved,
         fc' = [fc EXCEPT ![c] = ctx],
         \A d \in Ctxs : Len(entries[d]) <= Len(entries'[d])
  PROVE  /\ Advances /\ fc'[c].state # "unborn"
         /\ \A d \in Ctxs : fc[d].state # "unborn" => fc'[d].state = fc[d].state
         /\ \A d \in Ctxs : fc'[d].state = "unborn" => fc'[d] = fc[d]
         /\ \A d \in Ctxs : fc'[d].saved = fc[d].saved \/ fc'[d].saved = code[a]
<1>1. /\ fc \in [Ctxs -> FunctionContext] /\ fc[c] \in FunctionContext /\ Born(table[a])
      /\ fc[c].state = "unborn" => fc[c] = Unborn
  BY DEF ReleaseInv, TypeInv, TypeOK, SharedBorn
<1>2. fc'[c] = ctx /\ \A d \in Ctxs : d # c => fc'[d] = fc[d]
  BY <1>1
<1>3. CASE table[a] = c
  <2>1. fc[c].state # "unborn"
    BY <1>1, <1>3 DEF Born
  <2>2. /\ ctx.state = fc[c].state /\ ctx.counter = fc[c].counter
        /\ ctx.destroyed = fc[c].destroyed /\ ctx.activated = fc[c].activated
        /\ ctx.saved = fc[c].saved
    BY <1>3 DEF Instrumented
  <2> QED
    BY <1>2, <2>1, <2>2 DEF Advances
<1>4. CASE table[a] # c
  <2>1. fc[c] = Unborn
    BY <1>1, <1>4 DEF Instruments
  <2>2. fc[c].state = "unborn" /\ fc[c].counter = 0 /\ ~fc[c].destroyed
    BY <2>1 DEF Unborn
  <2>3. ctx.state = "live" /\ ctx.counter = 0 /\ ctx.saved = code[a]
    BY <1>4 DEF Instrumented, NewContext, Unborn
  <2> QED
    BY <1>2, <2>2, <2>3 DEF Advances
<1> QED
  BY <1>3, <1>4

\* What a call that begins works on.
LEMMA BeginsWith ==
  ASSUME NEW t \in Threads, NEW step \in {"flags", "end"}, NEW c \in Ctxs \cup {None},
         NEW l \in Listeners \cup {None}, Goes(t, step, c, l)
  PROVE  \E o \in ApiCall : /\ op' = [op EXCEPT ![t] = o] /\ o.at = step /\ o.ctx = c
                            /\ o.destroy = <<>> /\ o.updates = {}
<1>. DEFINE o == [Idle EXCEPT !.kind = "update", !.at = step, !.ctx = c, !.lsn = l]
<1>1. o \in ApiCall
  BY GoesType
<1>2. /\ op' = [op EXCEPT ![t] = o] /\ o.at = step /\ o.ctx = c /\ o.destroy = <<>>
      /\ o.updates = {}
  BY DEF Goes, Idle
<1>. HIDE DEF o
<1> QED
  BY <1>1, <1>2

\* attach makes the context or adds to it, and queues the old array.
LEMMA AttachKeepsReleases ==
  ASSUME ReleaseInv, TypeInv', NEW t \in Mutators, NEW f \in Functions, NEW l \in Listeners,
         Attach(t, f, l)
  PROVE  ReleaseInv'
<1>1. PICK a \in Addr, c \in Ctxs :
        /\ Instruments(a, FALSE, c)
        /\ fc' = [fc EXCEPT ![c] = Instrumented(a, FALSE, c)]
        /\ table' = [table EXCEPT ![a] = c]
        /\ entries' = [entries EXCEPT ![c] = Append(@, WithListener(Current(c), l))]
        /\ txn' = Opened(<<ArrayTask(c, Len(entries[c]))>>, InstrumentUpdates(a, c))
        /\ Goes(t, "flags", c, l)
  BY DEF Attach
<1>. DEFINE task == ArrayTask(c, Len(entries[c]))
           updates == InstrumentUpdates(a, c)
<1>2. /\ t \in Threads /\ UNCHANGED <<code, reclaimed, calls>>
      /\ TypeInv /\ SharedBorn /\ txn.destroy \in Seq(DestroyTask)
  BY ConstantsAssumption, SharedTypes DEF ReleaseInv, Attach
<1>3. PICK o \in ApiCall : /\ op' = [op EXCEPT ![t] = o] /\ o.at = "flags" /\ o.ctx = c
                           /\ o.destroy = <<>> /\ o.updates = {}
  BY <1>1, <1>2, BeginsWith
<1>4. /\ \A d \in Ctxs : Len(entries[d]) <= Len(entries'[d])
      /\ \A x : DueNext(task, x)
      /\ task \in DestroyTask
  BY <1>1, <1>2, CurrentType, ListenersType, PublishedTask
<1>5. Instrumented(a, FALSE, c) \in FunctionContext
  BY <1>2, InstrumentedType
<1>6. /\ Advances /\ fc'[c].state # "unborn"
      /\ \A d \in Ctxs : fc[d].state # "unborn" => fc'[d].state = fc[d].state
      /\ \A d \in Ctxs : fc'[d].state = "unborn" => fc'[d] = fc[d]
      /\ \A d \in Ctxs : fc'[d].saved = fc[d].saved \/ fc'[d].saved = code[a]
  BY <1>1, <1>4, <1>5, InstrumentKeeps
<1>7. txn'.destroy = txn.destroy \o <<task>> /\ txn'.updates = updates
  BY <1>1 DEF Opened
<1>8. /\ \A u \in updates : u \in txn.updates \/ u[1] = c
      /\ \A u \in txn.updates : u \in updates
  BY DEF InstrumentUpdates
<1>. HIDE DEF task, updates
<1>9. OnlyBorn(o)
  <2>1. BornNext(code[a]) /\ BornNext(c)
    BY <1>2, <1>6 DEF SharedBorn, Born, BornNext, Advances
  <2>2. \A d \in Addr : table'[d] = table[d] \/ table'[d] = c
    BY <1>1, <1>2 DEF TypeInv, TypeOK
  <2> QED
    BY <1>2, <1>3, <1>6, <1>7, <1>8, <2>1, <2>2 DEF OnlyBorn
<1>10. SharedDue'
  <2>1. <<task>> \in Seq(DestroyTask) /\ \A i \in DOMAIN <<task>> : <<task>>[i] = task
    BY <1>4
  <2>2. \A i \in DOMAIN <<task>> : DueNext(<<task>>[i], updates)
    BY <1>4, <2>1
  <2> QED
    BY <1>6, <1>7, <1>8, <2>1, <2>2, QueueGrows
<1>11. Ready(o) /\ \A i \in DOMAIN o.destroy : DueNext(o.destroy[i], o.updates)
  BY <1>3 DEF Ready
<1> QED
  BY <1>2, <1>3, <1>6, <1>9, <1>10, <1>11, StepKeepsReleases

\* replace and replace_fast make the context or add to it.
LEMMA ReplaceKeepsReleases ==
  ASSUME ReleaseInv, TypeInv', NEW t \in Mutators, NEW f \in Functions, NEW r \in Replacements,
         NEW fast \in BOOLEAN, Replace(t, f, r, fast)
  PROVE  ReleaseInv'
<1>1. PICK a \in Addr, c \in Ctxs :
        /\ Instruments(a, fast, c)
        /\ fc' = [fc EXCEPT ![c] =
                    [Instrumented(a, fast, c) EXCEPT !.repl = r, !.original = r]]
        /\ table' = [table EXCEPT ![a] = c]
        /\ txn' = Opened(<<>>, InstrumentUpdates(a, c))
  BY DEF Replace
<1>. DEFINE updates == InstrumentUpdates(a, c)
           ctx == [Instrumented(a, fast, c) EXCEPT !.repl = r, !.original = r]
<1>2. /\ t \in Threads /\ UNCHANGED <<code, reclaimed, calls, entries>>
      /\ TypeInv /\ SharedBorn /\ txn.destroy \in Seq(DestroyTask)
      /\ Goes(t, "end", None, None)
  BY ConstantsAssumption, SharedTypes DEF ReleaseInv, Replace
<1>3. PICK o \in ApiCall : /\ op' = [op EXCEPT ![t] = o] /\ o.at = "end"
                           /\ o.destroy = <<>> /\ o.updates = {}
  BY <1>2, BeginsWith
<1>4. \A d \in Ctxs : Len(entries[d]) <= Len(entries'[d])
  BY <1>2 DEF TypeInv, TypeOK
<1>5. /\ ctx \in FunctionContext
      /\ ctx.state = Instrumented(a, fast, c).state
      /\ ctx.counter = Instrumented(a, fast, c).counter
      /\ ctx.destroyed = Instrumented(a, fast, c).destroyed
      /\ ctx.activated = Instrumented(a, fast, c).activated
      /\ ctx.saved = Instrumented(a, fast, c).saved
  <2>1. PICK old \in FunctionContext : old = Instrumented(a, fast, c)
    BY <1>2, InstrumentedType
  <2> QED
    BY <2>1 DEF FunctionContext
<1>6. fc' = [fc EXCEPT ![c] = ctx] /\ Instruments(a, fast, c)
  BY <1>1
<1>. HIDE DEF ctx
<1>7. /\ Advances /\ fc'[c].state # "unborn"
      /\ \A d \in Ctxs : fc[d].state # "unborn" => fc'[d].state = fc[d].state
      /\ \A d \in Ctxs : fc'[d].state = "unborn" => fc'[d] = fc[d]
      /\ \A d \in Ctxs : fc'[d].saved = fc[d].saved \/ fc'[d].saved = code[a]
  BY <1>4, <1>5, <1>6, InstrumentKeeps, ZenonT(30)
<1>8. txn'.destroy = txn.destroy \o <<>> /\ txn'.updates = updates
  BY <1>1 DEF Opened
<1>9. /\ \A u \in updates : u \in txn.updates \/ u[1] = c
      /\ \A u \in txn.updates : u \in updates
  BY DEF InstrumentUpdates
<1>. HIDE DEF updates
<1>10. OnlyBorn(o)
  <2>1. BornNext(code[a]) /\ BornNext(c)
    BY <1>2, <1>7 DEF SharedBorn, Born, BornNext, Advances
  <2>2. \A d \in Addr : table'[d] = table[d] \/ table'[d] = c
    BY <1>1, <1>2 DEF TypeInv, TypeOK
  <2> QED
    BY <1>2, <1>3, <1>7, <1>8, <1>9, <2>1, <2>2 DEF OnlyBorn
<1>11. SharedDue'
  <2>1. <<>> \in Seq(DestroyTask) /\ \A i \in DOMAIN <<>> : DueNext(<<>>[i], updates)
    OBVIOUS
  <2> QED
    BY <1>7, <1>8, <1>9, <2>1, QueueGrows
<1>12. Ready(o) /\ \A i \in DOMAIN o.destroy : DueNext(o.destroy[i], o.updates)
  BY <1>3 DEF Ready
<1> QED
  BY <1>2, <1>3, <1>7, <1>10, <1>11, <1>12, StepKeepsReleases

\* revert gives up the context if no listener is left.
LEMMA RevertKeepsReleases ==
  ASSUME ReleaseInv, TypeInv', NEW t \in Mutators, NEW f \in Functions, Revert(t, f)
  PROVE  ReleaseInv'
<1>1. PICK a \in Addr :
        LET c == table[a]
            ctx == [fc[c] EXCEPT !.repl = None]
            gone == IsEmpty(ctx, Current(c)) IN
        /\ c # None
        /\ fc' = [fc EXCEPT ![c] = [ctx EXCEPT !.destroyed = @ \/ gone]]
        /\ table' = IF gone THEN [table EXCEPT ![a] = None] ELSE table
        /\ txn' = Opened(IF gone THEN <<ContextTask(c)>> ELSE <<>>,
                         txn.updates \cup IF gone THEN DestroyUpdates(c) ELSE {})
  BY DEF Revert
<1>. DEFINE c == table[a]
           ctx == [fc[c] EXCEPT !.repl = None]
           gone == IsEmpty(ctx, Current(c))
           new == IF gone THEN <<ContextTask(c)>> ELSE <<>>
           updates == txn.updates \cup IF gone THEN DestroyUpdates(c) ELSE {}
<1>2. /\ t \in Threads /\ UNCHANGED <<code, reclaimed, calls, entries>>
      /\ TypeInv /\ SharedBorn /\ txn.destroy \in Seq(DestroyTask)
      /\ Goes(t, "end", None, None) /\ fc \in [Ctxs -> FunctionContext]
      /\ table \in [Addr -> Ctxs \cup {None}]
  BY ConstantsAssumption, SharedTypes DEF ReleaseInv, Revert, TypeInv, TypeOK
<1>3. PICK o \in ApiCall : /\ op' = [op EXCEPT ![t] = o] /\ o.at = "end"
                           /\ o.destroy = <<>> /\ o.updates = {}
  BY <1>2, BeginsWith
<1>4. c \in Ctxs /\ fc[c].state # "unborn" /\ fc[c] \in FunctionContext
  BY <1>1, <1>2 DEF SharedBorn, Born
<1>5. gone \in BOOLEAN
  BY DEF IsEmpty
<1>6. ContextTask(c) \in DestroyTask
  BY <1>4 DEF ContextTask, DestroyTask
<1>7. \A d \in Ctxs :
        /\ fc'[d].counter = fc[d].counter /\ fc'[d].state = fc[d].state
        /\ fc'[d].activated = fc[d].activated /\ fc'[d].saved = fc[d].saved
        /\ fc'[d].destroyed <=> fc[d].destroyed \/ (d = c /\ gone)
        /\ d # c => fc'[d] = fc[d]
  <2>1. ctx \in FunctionContext /\ ctx.destroyed = fc[c].destroyed /\ ctx.counter = fc[c].counter
        /\ ctx.state = fc[c].state /\ ctx.activated = fc[c].activated /\ ctx.saved = fc[c].saved
    BY <1>4 DEF FunctionContext
  <2>2. fc' = [fc EXCEPT ![c] = [ctx EXCEPT !.destroyed = @ \/ gone]]
    BY <1>1
  <2>. HIDE DEF ctx, gone
  <2>3. fc'[c] = [ctx EXCEPT !.destroyed = @ \/ gone] /\ \A d \in Ctxs : d # c => fc'[d] = fc[d]
    BY <1>2, <1>4, <2>2
  <2> QED
    BY <1>5, <2>1, <2>3 DEF FunctionContext
<1>8. txn'.destroy = txn.destroy \o new /\ txn'.updates = updates
  BY <1>1 DEF Opened
<1>9. \A d \in Addr : table'[d] = table[d] \/ table'[d] = None
  BY <1>1, <1>2
<1>. HIDE DEF ctx, gone
<1>10. Advances
  <2>1. \A d \in Ctxs : Len(entries[d]) \in Nat /\ entries'[d] = entries[d]
    BY <1>2 DEF TypeInv, TypeOK
  <2>2. \A d \in Ctxs : Len(entries[d]) <= Len(entries'[d])
    BY <2>1
  <2> QED
    BY <1>7, <2>2 DEF Advances
<1>11. gone => DueNext(ContextTask(c), updates)
  <2>1. gone => DestroyUpdates(c) \subseteq updates
    OBVIOUS
  <2>2. fc[c].activated \in BOOLEAN /\ fc'[c].activated = fc[c].activated
        /\ (gone => fc'[c].destroyed)
    BY <1>4, <1>7 DEF FunctionContext
  <2>. HIDE DEF updates, c
  <2> QED
    BY <1>4, <2>1, <2>2, GivenUpTask
<1>12. new \in Seq(DestroyTask) /\ \A i \in DOMAIN new : DueNext(new[i], updates)
  <2>. HIDE DEF updates
  <2>1. CASE gone
    BY <1>6, <1>11, <2>1
  <2>2. CASE ~gone
    BY <2>2
  <2> QED
    BY <2>1, <2>2
<1>13. /\ \A u \in updates : u \in txn.updates \/ u[1] = c
       /\ \A u \in txn.updates : u \in updates
  BY DEF DestroyUpdates
<1>. HIDE DEF new, updates, c
<1>14. OnlyBorn(o)
  <2>1. \A d \in Ctxs : fc'[d].state = "unborn" => fc'[d] = fc[d]
    BY <1>4, <1>7
  <2>2. BornNext(c) /\ BornNext(None)
    BY <1>4, <1>7, ConstantsAssumption DEF BornNext
  <2> QED
    BY <1>2, <1>3, <1>7, <1>8, <1>9, <1>13, <2>1, <2>2 DEF OnlyBorn
<1>15. SharedDue'
  BY <1>8, <1>10, <1>12, <1>13, QueueGrows
<1>16. Ready(o) /\ \A i \in DOMAIN o.destroy : DueNext(o.destroy[i], o.updates)
  BY <1>3 DEF Ready
<1> QED
  BY <1>2, <1>3, <1>7, <1>10, <1>14, <1>15, <1>16, StepKeepsReleases

\* A step that touches none of what the invariant is about.
LEMMA ElsewhereKeepsReleases ==
  ASSUME ReleaseInv, TypeInv',
         UNCHANGED <<table, code, fc, entries, reclaimed, calls, txn, op>>
  PROVE  ReleaseInv'
<1>1. SharedBorn' /\ FramesBorn' /\ CountInv'
  <2>1. SharedBorn'
    BY DEF ReleaseInv, SharedBorn, Born
  <2>2. FramesBorn'
    BY DEF ReleaseInv, FramesBorn, FrameBorn, Born
  <2>3. CountInv'
    BY DEF ReleaseInv, CountInv, Holders, Places
  <2> QED
    BY <2>1, <2>2, <2>3
<1>2. SharedDue' /\ LocalDue' /\ NotifyInv' /\ ReclaimedInv' /\ InvocationsAreProtected'
  BY DEF ReleaseInv, SharedDue, LocalDue, NotifyInv, ReclaimedInv, InvocationsAreProtected,
         Due, Spares, Safe, Protected
<1> QED
  BY <1>1, <1>2 DEF ReleaseInv

-----------------------------------------------------------------------------
(* The theorems *)

\* No context exists and no function has been called at first.
LEMMA InitReleases == Init => ReleaseInv
<1> SUFFICES ASSUME Init PROVE ReleaseInv
  OBVIOUS
<1>1. TypeInv
  BY InitTypes
<1>2. SharedBorn
  BY ConstantsAssumption DEF Init, SharedBorn, Born, CleanTransaction, Idle, Unborn
<1>3. FramesBorn /\ InvocationsAreProtected
  BY DEF Init, FramesBorn, InvocationsAreProtected
<1>4. CountInv
  <2>1. \A c \in Ctxs : Holders(c) = {}
    BY HoldersAre DEF Init
  <2> QED
    BY <2>1, FS_EmptySet DEF Init, CountInv, Unborn
<1>5. SharedDue /\ LocalDue
  BY DEF Init, SharedDue, LocalDue, CleanTransaction, Idle
<1>6. NotifyInv /\ ReclaimedInv
  BY DEF Init, NotifyInv, ReclaimedInv, Idle
<1> QED
  BY <1>1, <1>2, <1>3, <1>4, <1>5, <1>6 DEF ReleaseInv

\* Every step keeps the invariant.
LEMMA NextKeepsReleases == ReleaseInv /\ [Next]_vars => ReleaseInv'
<1> SUFFICES ASSUME ReleaseInv, [Next]_vars PROVE ReleaseInv'
  OBVIOUS
<1>1. TypeInv'
  BY NextKeepsTypes DEF ReleaseInv
<1>2. ASSUME NEW t \in Mutators, ApiStarts(t) PROVE ReleaseInv'
  <2>1. ASSUME Refused(t) PROVE ReleaseInv'
    BY <1>1, <2>1, QuietApiKeepsReleases
  <2>2. ASSUME NEW f \in Functions, NEW l \in Listeners, Attach(t, f, l) PROVE ReleaseInv'
    BY <1>1, <2>2, AttachKeepsReleases
  <2>3. ASSUME NEW f \in Functions, NEW r \in Replacements, NEW fast \in BOOLEAN,
               Replace(t, f, r, fast)
        PROVE  ReleaseInv'
    BY <1>1, <2>3, ReplaceKeepsReleases
  <2>4. ASSUME NEW f \in Functions, Revert(t, f) PROVE ReleaseInv'
    BY <1>1, <2>4, RevertKeepsReleases
  <2>5. ASSUME \/ \E l \in Listeners : Detach(t, l)
               \/ BeginTransaction(t) \/ EndTransaction(t) \/ Flush(t)
        PROVE  ReleaseInv'
    BY <1>1, <2>5, QuietApiKeepsReleases
  <2> QED
    BY <1>2, <2>1, <2>2, <2>3, <2>4, <2>5
       DEF ApiStarts, AttachRefused, ReplaceRefused, RevertNothing
<1>3. ASSUME NEW t \in Mutators, ApiSteps(t) \/ Relock(t) PROVE ReleaseInv'
  <2>1. CASE DetachDone(t) \/ EndNothingToDo(t) \/ TasksDone(t) \/ Patched(t) \/ Relock(t)
    BY <1>1, <2>1, QuietApiKeepsReleases
  <2>2. CASE AttachFlags(t)
    BY <1>1, <2>2, FlagsKeepReleases
  <2>3. CASE \E c \in Ctxs : DetachFrom(t, c)
    BY <1>1, <2>3, DetachFromKeepsReleases
  <2>4. CASE DetachRetire(t)
    BY <1>1, <2>4, RetireKeepsReleases
  <2>5. CASE EndTakesCopy(t)
    BY <1>1, <2>5, CopyKeepsReleases
  <2>6. CASE \E c \in Ctxs : ActivateUpdate(t, c) \/ DeactivateUpdate(t, c)
    BY <1>1, <2>6, PatchKeepsReleases
  <2>7. CASE TaskRuns(t)
    BY <1>1, <2>7, RunKeepsReleases
  <2>8. CASE TaskRequeued(t)
    BY <1>1, <2>8, RequeueKeepsReleases
  <2>9. CASE Notify(t)
    BY <1>1, <2>9, NotifyKeepsReleases
  <2> QED
    BY <1>3, <2>1, <2>2, <2>3, <2>4, <2>5, <2>6, <2>7, <2>8, <2>9 DEF ApiSteps
<1>4. ASSUME NEW t \in Callers, InvocationSteps(t) PROVE ReleaseInv'
  <2>1. CASE TakeSnapshot(t)
    BY <1>1, <2>1, SnapshotKeepsReleases
  <2>2. CASE BeginInvocation(t)
    BY <1>1, <2>2, BeginKeepsReleases
  <2>3. CASE LoadReplacement(t)
    BY <1>1, <2>3, LoadFrames, SameHoldersKeepReleases
  <2>4. CASE Release(t) \/ LeaveDone(t)
    BY <1>1, <2>4, DropKeepsReleases
  <2>5. CASE \/ Jump(t) \/ Decide(t) \/ TellListener(t) \/ EnterDone(t) \/ ChooseHop(t)
             \/ InvokeOriginal(t) \/ EndInvocation(t) \/ UseAfterFree(t)
    BY <1>1, <2>5, QuietFrames, SameHoldersKeepReleases
  <2> QED
    BY <1>4, <2>1, <2>2, <2>3, <2>4, <2>5 DEF InvocationSteps
<1>5. ASSUME NEW t \in Callers,
             \/ \E f \in Functions : Call(t, f)
             \/ \E c \in Ctxs : CallOriginal(t, c)
             \/ Return(t)
      PROVE  ReleaseInv'
  BY <1>1, <1>5, CallFrames, SameHoldersKeepReleases
<1>6. ASSUME NEW l \in Listeners, Unref(l) PROVE ReleaseInv'
  BY <1>1, <1>6, ElsewhereKeepsReleases DEF Unref
<1>7. CASE UNCHANGED vars
  BY <1>1, <1>7, ElsewhereKeepsReleases DEF vars
<1> QED
  BY <1>2, <1>3, <1>4, <1>5, <1>6, <1>7 DEF Next

\* The invariant holds in every state the interceptor reaches.
THEOREM ReleaseInvariant == Spec => []ReleaseInv
BY InitReleases, NextKeepsReleases, PTL DEF Spec

\* The usage counter of a trampoline is at all times the number of invocations
\* that begin_invocation has counted and that are not over: the paths out of an
\* invocation neither leak one nor drop one twice.
THEOREM CountersAreRight == Spec => []CounterCountsInvocations
<1>1. ReleaseInv => CounterCountsInvocations
  BY DEF ReleaseInv, CountInv, CounterCountsInvocations
<1> QED
  BY <1>1, ReleaseInvariant, PTL

\* transaction_end releases neither the context and the trampoline of an
\* invocation that was counted while they were in use, nor the listener array
\* its stack entry refers to.
THEOREM UsedIsKept == Spec => []InvocationsAreProtected
<1>1. ReleaseInv => InvocationsAreProtected
  BY DEF ReleaseInv
<1> QED
  BY <1>1, ReleaseInvariant, PTL

-----------------------------------------------------------------------------
(* The interceptor implements DeferredRelease *)

AbstractStep == [Deferred!Next]_(Deferred!vars)

-----------------------------------------------------------------------------
(* Steps of the API *)

\* How the state of a context may move.
ContextMoves(c) ==
  \/ ContextState(c)' = ContextState(c)
  \/ ContextState(c) = "unborn" /\ ContextState(c)' = "published"
  \/ ContextState(c) = "published" /\ ContextState(c)' = "retired"
  \/ /\ ContextState(c) = "retired" /\ ContextState(c)' = "released"
     /\ \A s \in Slots : c \notin ContextUsed(s)

\* A step in which one context moves, and no frame does, is abstractly one too.
LEMMA ContextStep ==
  ASSUME UNCHANGED calls, NEW c \in Ctxs, ContextMoves(c),
         \A d \in Ctxs : d # c => ContextState(d)' = ContextState(d)
  PROVE  AbstractStep
<1>1. \A s \in Slots : ContextUsed(s)' = ContextUsed(s)
  BY DEF ContextUsed
<1>2. CASE ContextState(c)' = ContextState(c)
  BY <1>1, <1>2 DEF AbstractStep, Deferred!vars
<1>3. CASE ContextState(c) = "unborn" /\ ContextState(c)' = "published"
  <2>1. Deferred!Publish(c)
    BY <1>1, <1>3 DEF Deferred!Publish, Deferred!Advances
  <2> QED
    BY <2>1 DEF AbstractStep, Deferred!Next
<1>4. CASE ContextState(c) = "published" /\ ContextState(c)' = "retired"
  <2>1. Deferred!Retire(c)
    BY <1>1, <1>4 DEF Deferred!Retire, Deferred!Advances
  <2> QED
    BY <2>1 DEF AbstractStep, Deferred!Next
<1>5. CASE /\ ContextState(c) = "retired" /\ ContextState(c)' = "released"
           /\ \A s \in Slots : c \notin ContextUsed(s)
  <2>1. Deferred!Release(c)
    BY <1>1, <1>5 DEF Deferred!Release, Deferred!Advances
  <2> QED
    BY <2>1 DEF AbstractStep, Deferred!Next
<1> QED
  BY <1>2, <1>3, <1>4, <1>5 DEF ContextMoves

\* A step that leaves all contexts and frames alone is abstractly none.
LEMMA NoStep ==
  ASSUME UNCHANGED <<calls, fc>>
  PROVE  AbstractStep
BY DEF AbstractStep, Deferred!vars, ContextState, ContextUsed

-----------------------------------------------------------------------------
(* Steps of invocations *)

\* A step of an invocation leaves all frames but the one at h as they are, as
\* far as contexts are used, and what that one uses is the same, is dropped or,
\* if it used nothing, is a context that is published.
LEMMA FrameStep ==
  ASSUME OnlyCounts, NEW h, HeldBefore(h), HeldAfter(h),
         h \in Slots =>
           \/ ContextUsed(h)' = ContextUsed(h)
           \/ ContextUsed(h)' = {}
           \/ /\ ContextUsed(h) = {}
              /\ \E c \in Ctxs : ContextState(c) = "published" /\ ContextUsed(h)' = {c}
  PROVE  AbstractStep
<1>1. \A c \in Ctxs : ContextState(c)' = ContextState(c)
  BY DEF OnlyCounts, ContextState
<1>2. ASSUME NEW s \in Slots, s # h PROVE ContextUsed(s)' = ContextUsed(s)
  <2>1. PICK u \in Threads, i \in 1 .. MaxDepth + 1 : s = <<u, i>>
    BY DEF Slots
  <2>2. i \in DOMAIN calls'[u] /\ calls'[u][i].counted
          <=> i \in DOMAIN calls[u] /\ calls[u][i].counted
    BY <1>2, <2>1 DEF HeldBefore, HeldAfter
  <2>3. i \in DOMAIN calls'[u] /\ calls'[u][i].counted =>
          calls'[u][i].ctx = calls[u][i].ctx /\ calls'[u][i].late = calls[u][i].late
    BY <1>2, <2>1 DEF HeldBefore
  <2> QED
    BY <2>1, <2>2, <2>3 DEF ContextUsed
<1>3. CASE h \in Slots => ContextUsed(h)' = ContextUsed(h)
  BY <1>1, <1>2, <1>3 DEF AbstractStep, Deferred!vars
<1>4. CASE h \in Slots /\ ContextUsed(h)' = {}
  <2>1. Deferred!Drop(h)
    BY <1>1, <1>2, <1>4 DEF Deferred!Drop
  <2> QED
    BY <1>4, <2>1 DEF AbstractStep, Deferred!Next
<1>5. ASSUME h \in Slots, ContextUsed(h) = {},
             NEW c \in Ctxs, ContextState(c) = "published", ContextUsed(h)' = {c}
      PROVE  AbstractStep
  <2>1. Deferred!Acquire(h, c)
    BY <1>1, <1>2, <1>5 DEF Deferred!Acquire
  <2> QED
    BY <1>5, <2>1 DEF AbstractStep, Deferred!Next
<1> QED
  BY <1>3, <1>4, <1>5

\* Only the top frame moves when it is set.
LEMMA TopMoves ==
  ASSUME TypeInv, NEW t \in Threads, calls[t] # <<>>, NEW fr, SetTop(t, fr)
  PROVE  /\ Len(calls[t]) \in DOMAIN calls[t]
         /\ \A u \in Threads : DOMAIN calls'[u] = DOMAIN calls[u]
         /\ \A u \in Threads : \A i \in DOMAIN calls[u] :
              calls'[u][i] = IF u = t /\ i = Len(calls[t]) THEN fr ELSE calls[u][i]
         /\ HeldBefore(<<t, Len(calls[t])>>) /\ HeldAfter(<<t, Len(calls[t])>>)
<1>1. /\ Len(calls[t]) \in DOMAIN calls[t]
      /\ \A u \in Threads : DOMAIN calls'[u] = DOMAIN calls[u]
      /\ \A u \in Threads : \A i \in DOMAIN calls[u] :
           calls'[u][i] = IF u = t /\ i = Len(calls[t]) THEN fr ELSE calls[u][i]
  BY DEF TypeInv, TypeOK, SetTop
<1>2. HeldBefore(<<t, Len(calls[t])>>) /\ HeldAfter(<<t, Len(calls[t])>>)
  BY <1>1 DEF HeldBefore, HeldAfter
<1> QED
  BY <1>1, <1>2

\* What the top frame uses is what it says.
LEMMA TopUses ==
  ASSUME NEW t \in Threads, NEW n \in DOMAIN calls[t], NEW m \in DOMAIN calls'[t]
  PROVE  /\ ContextUsed(<<t, n>>) =
              IF calls[t][n].counted /\ ~calls[t][n].late THEN {calls[t][n].ctx} ELSE {}
         /\ ContextUsed(<<t, m>>)' =
              IF calls'[t][m].counted /\ ~calls'[t][m].late THEN {calls'[t][m].ctx} ELSE {}
BY DEF ContextUsed

\* A step of a frame that neither counts nor stops counting, or that does stop.
LEMMA QuietFrame ==
  ASSUME TypeInv, NEW t \in Threads, calls[t] # <<>>, NEW fr, SetTop(t, fr), OnlyCounts,
         \/ ~fr.counted
         \/ /\ fr.counted <=> Top(t).counted
            /\ fr.ctx = Top(t).ctx
            /\ fr.late <=> Top(t).late
  PROVE  AbstractStep
<1>1. PICK n : n = Len(calls[t])
  OBVIOUS
<1>2. /\ n \in DOMAIN calls[t] /\ n \in DOMAIN calls'[t]
      /\ calls'[t][n] = fr /\ calls[t][n] = Top(t)
      /\ HeldBefore(<<t, n>>) /\ HeldAfter(<<t, n>>)
  BY <1>1, TopMoves DEF Top
<1>3. /\ ContextUsed(<<t, n>>) =
           IF Top(t).counted /\ ~Top(t).late THEN {Top(t).ctx} ELSE {}
      /\ ContextUsed(<<t, n>>)' = IF fr.counted /\ ~fr.late THEN {fr.ctx} ELSE {}
  <2>1. /\ ContextUsed(<<t, n>>) =
              IF calls[t][n].counted /\ ~calls[t][n].late THEN {calls[t][n].ctx} ELSE {}
        /\ ContextUsed(<<t, n>>)' =
              IF calls'[t][n].counted /\ ~calls'[t][n].late THEN {calls'[t][n].ctx} ELSE {}
    BY <1>2, TopUses
  <2> QED
    BY <1>2, <2>1
<1> QED
  BY <1>2, <1>3, FrameStep

\* A new frame uses nothing before it has been counted.
LEMMA PushedFrame ==
  ASSUME TypeInv, NEW t \in Threads, NEW fr \in Frame, Push(t, fr), ~fr.counted, OnlyCounts
  PROVE  AbstractStep
<1>1. HeldBefore(<<>>) /\ HeldAfter(<<>>)
  BY PushFrames DEF HeldBefore, HeldAfter
<1>2. <<>> \notin Slots
  BY DEF Slots
<1> QED
  BY <1>1, <1>2, FrameStep

\* A frame that returns no longer uses anything.
LEMMA PoppedFrame ==
  ASSUME TypeInv, NEW t \in Threads, calls[t] # <<>>, Pop(t), OnlyCounts
  PROVE  AbstractStep
<1>1. PICK n : n = Len(calls[t])
  OBVIOUS
<1>2. /\ n \notin DOMAIN calls'[t]
      /\ HeldBefore(<<t, n>>) /\ HeldAfter(<<t, n>>)
  BY <1>1, PopFrames DEF HeldBefore, HeldAfter
<1>3. ContextUsed(<<t, n>>)' = {}
  BY <1>2 DEF ContextUsed
<1> QED
  BY <1>2, <1>3, FrameStep

\* A counter moves, and nothing else of any context.
LEMMA CounterMoves ==
  ASSUME ReleaseInv, NEW c \in Ctxs, fc[c].state # "unborn", NEW n,
         fc' = [fc EXCEPT ![c].counter = n]
  PROVE  OnlyCounts
BY DEF ReleaseInv, TypeInv, TypeOK, FunctionContext, OnlyCounts

\* Calls, and returns to plain callers.
LEMMA CallsRefine ==
  ASSUME ReleaseInv, NEW t \in Callers,
         \/ \E f \in Functions : Call(t, f)
         \/ \E c \in Ctxs : CallOriginal(t, c)
         \/ Return(t)
  PROVE  AbstractStep
<1>1. t \in Threads /\ TypeInv /\ UNCHANGED fc
  BY ConstantsAssumption DEF ReleaseInv, Call, CallOriginal, Return
<1>2. OnlyCounts
  BY <1>1, NoContextChanges
<1>3. ASSUME NEW f \in Functions, Call(t, f) PROVE AbstractStep
  <2>1. JumpTo(f) \in Frame /\ ~JumpTo(f).counted
    BY JumpToType DEF Addr, JumpTo
  <2> QED
    BY <1>1, <1>2, <1>3, <2>1, PushedFrame DEF Call
<1>4. ASSUME NEW c \in Ctxs, CallOriginal(t, c) PROVE AbstractStep
  <2> DEFINE fr == [JumpTo(None) EXCEPT !.at = "invoke", !.ctx = c]
  <2>1. fr \in Frame /\ ~fr.counted
    BY DEF JumpTo, Frame
  <2>2. Push(t, fr)
    BY <1>4 DEF CallOriginal
  <2>. HIDE DEF fr
  <2> QED
    BY <1>1, <1>2, <2>1, <2>2, PushedFrame
<1>5. ASSUME Return(t) PROVE AbstractStep
  BY <1>1, <1>2, <1>5, PoppedFrame DEF Return, Running
<1> QED
  BY <1>3, <1>4, <1>5

\* The steps that change the top frame, but not whether it is counted.
LEMMA QuietStepsRefine ==
  ASSUME ReleaseInv, NEW t \in Callers,
         \/ Jump(t) \/ Decide(t) \/ TakeSnapshot(t) \/ TellListener(t) \/ EnterDone(t)
         \/ ChooseHop(t) \/ InvokeOriginal(t) \/ EndInvocation(t) \/ UseAfterFree(t)
  PROVE  AbstractStep
<1>. DEFINE top == Top(t)
<1>1. t \in Threads /\ calls[t] # <<>> /\ TypeInv /\ UNCHANGED fc
  BY ConstantsAssumption DEF ReleaseInv, Jump, Decide, TakeSnapshot, TellListener, EnterDone,
     ChooseHop, InvokeOriginal, EndInvocation, UseAfterFree, Steps, Running
<1>2. top \in Frame
  BY <1>1, TopType
<1>3. OnlyCounts
  BY <1>1, NoContextChanges
<1>. HIDE DEF top
<1>4. SUFFICES \E fr : /\ SetTop(t, fr)
                       /\ fr.counted <=> top.counted
                       /\ fr.ctx = top.ctx
                       /\ fr.late <=> top.late
  BY <1>1, <1>3, QuietFrame DEF top
<1>5. CASE Jump(t) \/ ChooseHop(t) \/ UseAfterFree(t)
  <2>1. \E step, addr : SetTop(t, [top EXCEPT !.at = step]) \/ SetTop(t, [top EXCEPT !.addr = addr])
    BY <1>5 DEF Jump, ChooseHop, UseAfterFree, top
  <2> QED
    BY <1>2, <2>1 DEF Frame
<1>6. CASE Decide(t)
  <2>1. PICK step, trap, invoke, push :
          SetTop(t, [top EXCEPT !.at = step, !.trap = trap, !.invoke = invoke, !.pushed = push])
    BY <1>6 DEF Decide, top
  <2> DEFINE fr == [top EXCEPT !.at = step, !.trap = trap, !.invoke = invoke, !.pushed = push]
  <2>2. /\ fr.counted <=> top.counted
        /\ fr.ctx = top.ctx
        /\ fr.late <=> top.late
    BY <1>2 DEF Frame
  <2>. HIDE DEF fr
  <2> QED
    BY <2>1, <2>2 DEF fr
<1>7. CASE TakeSnapshot(t)
  <2>1. PICK v, todo : SetTop(t, [[top EXCEPT !.snap = v] EXCEPT !.at = "enter", !.todo = todo])
    BY <1>7 DEF TakeSnapshot, top
  <2> DEFINE fr == [[top EXCEPT !.snap = v] EXCEPT !.at = "enter", !.todo = todo]
  <2>2. /\ fr.counted <=> top.counted
        /\ fr.ctx = top.ctx
        /\ fr.late <=> top.late
    BY <1>2 DEF Frame
  <2>. HIDE DEF fr
  <2> QED
    BY <2>1, <2>2 DEF fr
<1>8. CASE TellListener(t)
  <2>1. PICK todo : SetTop(t, [top EXCEPT !.todo = todo])
    BY <1>8 DEF TellListener, top
  <2> DEFINE fr == [top EXCEPT !.todo = todo]
  <2>2. /\ fr.counted <=> top.counted
        /\ fr.ctx = top.ctx
        /\ fr.late <=> top.late
    BY <1>2 DEF Frame
  <2>. HIDE DEF fr
  <2> QED
    BY <2>1, <2>2 DEF fr
<1>9. CASE EnterDone(t)
  <2>1. PICK pushed, snap : SetTop(t, [top EXCEPT !.at = "hop", !.pushed = pushed, !.snap = snap])
    BY <1>9 DEF EnterDone, top
  <2> DEFINE fr == [top EXCEPT !.at = "hop", !.pushed = pushed, !.snap = snap]
  <2>2. /\ fr.counted <=> top.counted
        /\ fr.ctx = top.ctx
        /\ fr.late <=> top.late
    BY <1>2 DEF Frame
  <2>. HIDE DEF fr
  <2> QED
    BY <2>1, <2>2 DEF fr
<1>10. CASE InvokeOriginal(t)
  <2>1. PICK addr : SetTop(t, [top EXCEPT !.at = "body", !.addr = addr])
    BY <1>10 DEF InvokeOriginal, top
  <2> DEFINE fr == [top EXCEPT !.at = "body", !.addr = addr]
  <2>2. /\ fr.counted <=> top.counted
        /\ fr.ctx = top.ctx
        /\ fr.late <=> top.late
    BY <1>2 DEF Frame
  <2>. HIDE DEF fr
  <2> QED
    BY <2>1, <2>2 DEF fr
<1>11. CASE EndInvocation(t)
  <2>1. PICK todo : SetTop(t, [top EXCEPT !.at = "leave", !.todo = todo])
    BY <1>11 DEF EndInvocation, top
  <2> DEFINE fr == [top EXCEPT !.at = "leave", !.todo = todo]
  <2>2. /\ fr.counted <=> top.counted
        /\ fr.ctx = top.ctx
        /\ fr.late <=> top.late
    BY <1>2 DEF Frame
  <2>. HIDE DEF fr
  <2> QED
    BY <2>1, <2>2 DEF fr
<1> QED
  BY <1>5, <1>6, <1>7, <1>8, <1>9, <1>10, <1>11

\* A step that loads the replacement calls it, or leaves the frame counted.
LEMMA LoadRefines ==
  ASSUME ReleaseInv, NEW t \in Callers, LoadReplacement(t)
  PROVE  AbstractStep
<1>. DEFINE top == Top(t)
<1>1. t \in Threads /\ calls[t] # <<>> /\ TypeInv /\ UNCHANGED fc
  BY ConstantsAssumption DEF ReleaseInv, LoadReplacement, Steps, Running
<1>2. top \in Frame
  BY <1>1, TopType
<1>3. OnlyCounts
  BY <1>1, NoContextChanges
<1>. HIDE DEF top
<1>4. ASSUME NEW step, NEW addr,
             SetTop(t, [top EXCEPT !.at = step])
               \/ SetTop(t, [top EXCEPT !.at = step, !.addr = addr])
      PROVE  AbstractStep
  <2>1. PICK fr : /\ SetTop(t, fr)
                  /\ fr.counted <=> top.counted
                  /\ fr.ctx = top.ctx
                  /\ fr.late <=> top.late
    <3>. DEFINE one == [top EXCEPT !.at = step]
                two == [top EXCEPT !.at = step, !.addr = addr]
    <3>1. /\ one.counted <=> top.counted
          /\ one.ctx = top.ctx
          /\ one.late <=> top.late
      BY <1>2 DEF Frame
    <3>2. /\ two.counted <=> top.counted
          /\ two.ctx = top.ctx
          /\ two.late <=> top.late
      BY <1>2 DEF Frame
    <3>3. SetTop(t, one) \/ SetTop(t, two)
      BY <1>4
    <3>. HIDE DEF one, two
    <3> QED
      BY <3>1, <3>2, <3>3
  <2> QED
    BY <1>1, <1>3, <2>1, QuietFrame DEF top
<1>5. ASSUME NEW r,
             calls' = [calls EXCEPT ![t] =
               [@ EXCEPT ![Len(@)] = [top EXCEPT !.at = "repl"]] \o <<JumpTo(r)>>]
      PROVE  AbstractStep
  <2>1. PICK n : n = Len(calls[t])
    OBVIOUS
  <2>2. /\ \A u \in Threads : DOMAIN calls'[u] =
             DOMAIN calls[u] \cup IF u = t THEN {n + 1} ELSE {}
        /\ \A u \in Threads : \A i \in DOMAIN calls'[u] :
             calls'[u][i] = IF i \notin DOMAIN calls[u] THEN JumpTo(r)
                            ELSE IF u = t /\ i = n THEN [top EXCEPT !.at = "repl"]
                            ELSE calls[u][i]
    BY <1>1, <1>2, <1>5, <2>1 DEF TypeInv, TypeOK
  <2>3. n \in DOMAIN calls[t] /\ calls[t][n] = top /\ calls[t] \in Seq(Frame)
    BY <1>1, <2>1 DEF TypeInv, TypeOK, Top, top
  <2>4. ~JumpTo(r).counted
    BY DEF JumpTo
  <2>5. /\ [top EXCEPT !.at = "repl"].counted <=> top.counted
        /\ [top EXCEPT !.at = "repl"].ctx = top.ctx
        /\ [top EXCEPT !.at = "repl"].late = top.late
        /\ [top EXCEPT !.at = "repl"].snap = top.snap
    BY <1>2 DEF Frame
  <2> DEFINE fr == [top EXCEPT !.at = "repl"]
             new == JumpTo(r)
  <2>. HIDE DEF fr, new
  <2>6. HeldBefore(<<>>) /\ HeldAfter(<<>>)
    <3>1. ~new.counted
      BY <2>4 DEF new
    <3>2. /\ fr.counted <=> top.counted
          /\ fr.ctx = top.ctx /\ fr.late = top.late /\ fr.snap = top.snap
      BY <2>5 DEF fr
    <3>3. \A u \in Threads : \A i \in DOMAIN calls'[u] :
             calls'[u][i] = IF i \notin DOMAIN calls[u] THEN new
                            ELSE IF u = t /\ i = n THEN fr ELSE calls[u][i]
      BY <2>2 DEF fr, new
    <3>4. \A u \in Threads : DOMAIN calls[u] \subseteq DOMAIN calls'[u]
      BY <2>2
    <3> QED
      BY <2>3, <3>1, <3>2, <3>3, <3>4 DEF HeldBefore, HeldAfter
  <2>7. <<>> \notin Slots
    BY DEF Slots
  <2> QED
    BY <1>3, <2>6, <2>7, FrameStep
<1> QED
  BY <1>4, <1>5 DEF LoadReplacement, top

\* An invocation that is not late when it is counted finds its context published.
LEMMA BeginRefines ==
  ASSUME ReleaseInv, NEW t \in Callers, BeginInvocation(t)
  PROVE  AbstractStep
<1>1. PICK c, step, n :
        /\ c \in Ctxs /\ c = Top(t).addr /\ n = Len(calls[t])
        /\ fc' = [fc EXCEPT ![c].counter = @ + 1]
        /\ SetTop(t, [JumpTo(None) EXCEPT !.at = step, !.ctx = c, !.counted = TRUE,
                                          !.late = ~fc[c].activated])
  BY DEF BeginInvocation
<1>2. /\ t \in Threads /\ calls[t] # <<>> /\ TypeInv /\ SharedBorn /\ FramesBorn
      /\ Top(t).at = "jump" /\ ~Faulty(t)
  BY ConstantsAssumption DEF ReleaseInv, BeginInvocation, Steps, Running
<1>3. /\ Top(t) \in Frame /\ FrameConsistent(Top(t)) /\ FrameBorn(Top(t))
      /\ ~Top(t).counted
  BY <1>2, TopType DEF FramesBorn, Top, FrameConsistent
<1>4. fc[c].state \notin {"unborn", "freed"}
  BY <1>1, <1>2, <1>3 DEF FrameBorn, Born, Faulty
<1>5. fc[c].activated => ContextState(c) = "published"
  BY <1>4 DEF ContextState
<1>6. OnlyCounts
  BY <1>1, <1>4, CounterMoves
<1> DEFINE fr == [JumpTo(None) EXCEPT !.at = step, !.ctx = c, !.counted = TRUE,
                                      !.late = ~fc[c].activated]
<1>7. fr.counted /\ fr.ctx = c /\ (fr.late <=> ~fc[c].activated)
  BY DEF JumpTo
<1>8. SetTop(t, fr)
  BY <1>1
<1>. HIDE DEF fr
<1>9. /\ n \in DOMAIN calls[t] /\ n \in DOMAIN calls'[t]
      /\ calls'[t][n] = fr /\ calls[t][n] = Top(t)
      /\ HeldBefore(<<t, n>>) /\ HeldAfter(<<t, n>>)
  BY <1>1, <1>2, <1>8, TopMoves DEF Top
<1>10. /\ ContextUsed(<<t, n>>) = {}
       /\ ContextUsed(<<t, n>>)' = IF fr.counted /\ ~fr.late THEN {fr.ctx} ELSE {}
  BY <1>2, <1>3, <1>9, TopUses
<1>11. ContextUsed(<<t, n>>)' = IF fc[c].activated THEN {c} ELSE {}
  BY <1>7, <1>10
<1>12. c \in Ctxs
  BY <1>1
<1> QED
  BY <1>5, <1>6, <1>9, <1>10, <1>11, <1>12, FrameStep

\* An invocation that is no longer counted uses nothing.
LEMMA DropRefines ==
  ASSUME ReleaseInv, NEW t \in Callers, Release(t) \/ LeaveDone(t)
  PROVE  AbstractStep
<1>. DEFINE c == Top(t).ctx
<1>1. /\ t \in Threads /\ calls[t] # <<>> /\ TypeInv /\ FramesBorn
      /\ Top(t).at \in {"release", "leave"} /\ fc' = Uncounts(c)
  BY ConstantsAssumption DEF ReleaseInv, Release, LeaveDone, Steps, Running
<1>2. /\ Top(t) \in Frame /\ FrameConsistent(Top(t)) /\ FrameBorn(Top(t))
  BY <1>1, TopType DEF FramesBorn, Top
<1>3. c \in Ctxs /\ fc[c].state # "unborn"
  BY <1>1, <1>2 DEF FrameConsistent, FrameBorn, Born, OnContext, Counting
<1>. HIDE DEF c
<1>4. fc' = [fc EXCEPT ![c].counter = fc[c].counter - 1]
  BY <1>1, <1>3 DEF Uncounts, TypeInv, TypeOK
<1>5. OnlyCounts
  BY <1>3, <1>4, CounterMoves
<1>6. CASE LeaveDone(t)
  BY <1>1, <1>5, <1>6, PoppedFrame DEF LeaveDone
<1>7. CASE Release(t)
  <2>1. PICK fr : SetTop(t, fr) /\ ~fr.counted
    <3> DEFINE one == JumpTo(Top(t).addr)
               two == [Top(t) EXCEPT !.at = "invoke", !.counted = FALSE]
    <3>1. ~one.counted
      BY DEF JumpTo
    <3>2. ~two.counted
      BY <1>2 DEF Frame
    <3>3. SetTop(t, one) \/ SetTop(t, two)
      BY <1>7 DEF Release
    <3>. HIDE DEF one, two
    <3> QED
      BY <3>1, <3>2, <3>3
  <2> QED
    BY <1>1, <1>5, <2>1, QuietFrame
<1> QED
  BY <1>6, <1>7

-----------------------------------------------------------------------------
(* The API's steps *)

\* attach and replace publish the context they make.
LEMMA InstrumentRefines ==
  ASSUME ReleaseInv, UNCHANGED calls, NEW a \in Addr, NEW c \in Ctxs, NEW fast \in BOOLEAN,
         Instruments(a, fast, c), NEW ctx \in FunctionContext,
         ctx.state = Instrumented(a, fast, c).state,
         ctx.destroyed = Instrumented(a, fast, c).destroyed,
         ctx.activated = Instrumented(a, fast, c).activated,
         fc' = [fc EXCEPT ![c] = ctx]
  PROVE  AbstractStep
<1>1. /\ fc \in [Ctxs -> FunctionContext]
      /\ fc'[c] = ctx /\ \A d \in Ctxs : d # c => fc'[d] = fc[d]
  BY DEF ReleaseInv, TypeInv, TypeOK
<1>2. \A d \in Ctxs : d # c => ContextState(d)' = ContextState(d)
  BY <1>1 DEF ContextState
<1>3. CASE table[a] = c
  <2>1. ContextState(c)' = ContextState(c)
    BY <1>1, <1>3 DEF Instrumented, ContextState
  <2> QED
    BY <1>2, <2>1, ContextStep DEF ContextMoves
<1>4. CASE table[a] # c
  <2>1. fc[c].state = "unborn"
    BY <1>4 DEF Instruments
  <2>2. ctx.state = "live" /\ ~ctx.destroyed
    BY <1>4 DEF Instrumented, NewContext, Unborn
  <2>3. ContextState(c) = "unborn" /\ ContextState(c)' = "published"
    BY <1>1, <2>1, <2>2 DEF ContextState
  <2> QED
    BY <1>2, <2>3, ContextStep DEF ContextMoves
<1> QED
  BY <1>3, <1>4

\* detach and revert retire a context that is not patched in; one that is stays
\* published until it has been patched out.
LEMMA DestroyRefines ==
  ASSUME ReleaseInv, UNCHANGED calls, NEW c \in Ctxs, fc[c].state # "unborn",
         NEW ctx \in FunctionContext, fc' = [fc EXCEPT ![c] = ctx],
         ctx.state = fc[c].state, ctx.activated = fc[c].activated,
         fc[c].destroyed => ctx.destroyed
  PROVE  AbstractStep
<1>1. /\ fc \in [Ctxs -> FunctionContext]
      /\ fc'[c] = ctx /\ \A d \in Ctxs : d # c => fc'[d] = fc[d]
  BY DEF ReleaseInv, TypeInv, TypeOK
<1>2. \A d \in Ctxs : d # c => ContextState(d)' = ContextState(d)
  BY <1>1 DEF ContextState
<1>3. /\ fc[c].activated \in BOOLEAN /\ ctx.activated \in BOOLEAN
      /\ fc[c].destroyed \in BOOLEAN /\ ctx.destroyed \in BOOLEAN
  BY <1>1 DEF FunctionContext
<1>4. \/ ContextState(c)' = ContextState(c)
      \/ ContextState(c) = "published" /\ ContextState(c)' = "retired"
  BY <1>1, <1>3 DEF ContextState
<1> QED
  BY <1>2, <1>4, ContextStep DEF ContextMoves

\* The calls that hook a function, or give up its context.
LEMMA HooksRefine ==
  ASSUME ReleaseInv, NEW t \in Mutators, NEW f \in Functions,
         \/ \E l \in Listeners : Attach(t, f, l)
         \/ \E r \in Replacements, fast \in BOOLEAN : Replace(t, f, r, fast)
         \/ Revert(t, f)
  PROVE  AbstractStep
<1>1. TypeInv /\ SharedBorn /\ fc \in [Ctxs -> FunctionContext] /\ UNCHANGED calls
  BY DEF ReleaseInv, TypeInv, TypeOK, Attach, Replace, Revert
<1>2. ASSUME NEW l \in Listeners, Attach(t, f, l) PROVE AbstractStep
  <2>1. PICK a \in Addr, c \in Ctxs :
          /\ Instruments(a, FALSE, c)
          /\ fc' = [fc EXCEPT ![c] = Instrumented(a, FALSE, c)]
    BY <1>2 DEF Attach
  <2>2. Instrumented(a, FALSE, c) \in FunctionContext
    BY <1>1, InstrumentedType
  <2> QED
    BY <1>1, <2>1, <2>2, InstrumentRefines
<1>3. ASSUME NEW r \in Replacements, NEW fast \in BOOLEAN, Replace(t, f, r, fast)
      PROVE  AbstractStep
  <2>1. PICK a \in Addr, c \in Ctxs :
          /\ Instruments(a, fast, c)
          /\ fc' = [fc EXCEPT ![c] =
                      [Instrumented(a, fast, c) EXCEPT !.repl = r, !.original = r]]
    BY <1>3 DEF Replace
  <2>2. PICK old \in FunctionContext : old = Instrumented(a, fast, c)
    BY <1>1, InstrumentedType
  <2> DEFINE ctx == [old EXCEPT !.repl = r, !.original = r]
  <2>3. /\ ctx \in FunctionContext
        /\ ctx.state = old.state /\ ctx.destroyed = old.destroyed
        /\ ctx.activated = old.activated
    BY DEF FunctionContext
  <2>4. fc' = [fc EXCEPT ![c] = ctx]
    BY <2>1, <2>2
  <2>. HIDE DEF ctx
  <2>5. /\ ctx.state = Instrumented(a, fast, c).state
        /\ ctx.destroyed = Instrumented(a, fast, c).destroyed
        /\ ctx.activated = Instrumented(a, fast, c).activated
    BY <2>2, <2>3, Zenon
  <2>6. PICK new \in FunctionContext : new = ctx
    BY <2>3
  <2>7. Instruments(a, fast, c) /\ UNCHANGED calls
    BY <1>1, <2>1
  <2> QED
    BY <2>4, <2>5, <2>6, <2>7, InstrumentRefines
<1>4. ASSUME Revert(t, f) PROVE AbstractStep
  <2>1. PICK a \in Addr, gone \in BOOLEAN :
          /\ table[a] # None
          /\ fc' = [fc EXCEPT ![table[a]] =
                      [[fc[table[a]] EXCEPT !.repl = None] EXCEPT !.destroyed = @ \/ gone]]
    BY <1>4 DEF Revert, IsEmpty
  <2>2. PICK c \in Ctxs : c = table[a] /\ fc[c].state # "unborn"
    BY <1>1, <2>1 DEF TypeInv, TypeOK, SharedBorn, Born
  <2> DEFINE ctx == [[fc[c] EXCEPT !.repl = None] EXCEPT !.destroyed = @ \/ gone]
  <2>3. /\ ctx \in FunctionContext
        /\ ctx.state = fc[c].state /\ ctx.activated = fc[c].activated
        /\ fc[c].destroyed => ctx.destroyed
    <3>1. PICK d \in FunctionContext : d = fc[c]
      BY <1>1
    <3>2. PICK e : e = [d EXCEPT !.repl = None]
      OBVIOUS
    <3>3. /\ e \in FunctionContext
          /\ e.state = d.state /\ e.activated = d.activated /\ e.destroyed = d.destroyed
      BY <3>2 DEF FunctionContext
    <3>4. PICK g : g = [e EXCEPT !.destroyed = @ \/ gone]
      OBVIOUS
    <3>5. /\ g \in FunctionContext
          /\ g.state = e.state /\ g.activated = e.activated /\ g.destroyed = (e.destroyed \/ gone)
      BY <3>3, <3>4 DEF FunctionContext
    <3>6. g = ctx
      BY <3>1, <3>2, <3>4
    <3>. HIDE DEF ctx
    <3> QED
      BY <3>1, <3>3, <3>5, <3>6
  <2>4. fc' = [fc EXCEPT ![c] = ctx]
    BY <2>1, <2>2
  <2>. HIDE DEF ctx
  <2> QED
    BY <1>1, <2>2, <2>3, <2>4, DestroyRefines
<1> QED
  BY <1>2, <1>3, <1>4

\* The steps of attach and detach on a context.
LEMMA ListenerStepsRefine ==
  ASSUME ReleaseInv, NEW t \in Mutators, AttachFlags(t) \/ DetachRetire(t)
  PROVE  AbstractStep
<1>1. /\ TypeInv /\ SharedBorn /\ fc \in [Ctxs -> FunctionContext] /\ UNCHANGED calls
      /\ t \in Threads
  BY ConstantsAssumption DEF ReleaseInv, TypeInv, TypeOK, AttachFlags, DetachRetire
<1>2. CASE AttachFlags(t)
  <2>1. PICK c, leaves : fc' = [fc EXCEPT ![c].hasLeave = leaves]
    BY <1>2 DEF AttachFlags
  <2>2. \A d \in Ctxs : ContextState(d)' = ContextState(d)
    BY <1>1, <2>1 DEF ContextState, FunctionContext
  <2>3. \A s \in Slots : ContextUsed(s)' = ContextUsed(s)
    BY <1>1 DEF ContextUsed
  <2> QED
    BY <2>2, <2>3 DEF AbstractStep, Deferred!vars
<1>3. CASE DetachRetire(t)
  <2>1. PICK c \in Ctxs : c = op[t].ctx /\ fc[c].state # "unborn"
    BY <1>1, <1>3 DEF DetachRetire, TypeInv, CallsConsistent, CallConsistent, SharedBorn, Born
  <2>2. PICK leaves \in BOOLEAN, gone \in BOOLEAN :
          fc' = [fc EXCEPT ![c] =
                  [[fc[c] EXCEPT !.hasLeave = leaves] EXCEPT !.destroyed = @ \/ gone]]
    BY <1>3, <2>1 DEF DetachRetire, IsEmpty
  <2> DEFINE ctx == [[fc[c] EXCEPT !.hasLeave = leaves] EXCEPT !.destroyed = @ \/ gone]
  <2>3. /\ ctx \in FunctionContext
        /\ ctx.state = fc[c].state /\ ctx.activated = fc[c].activated
        /\ fc[c].destroyed => ctx.destroyed
    BY <1>1 DEF FunctionContext
  <2>4. fc' = [fc EXCEPT ![c] = ctx]
    BY <2>2
  <2>. HIDE DEF ctx
  <2> QED
    BY <1>1, <2>1, <2>3, <2>4, DestroyRefines
<1> QED
  BY <1>2, <1>3

\* A context is patched in while it is published, and patched out once it has
\* been given up: only then is it retired.
LEMMA PatchRefines ==
  ASSUME ReleaseInv, NEW t \in Mutators, NEW c \in Ctxs,
         ActivateUpdate(t, c) \/ DeactivateUpdate(t, c)
  PROVE  AbstractStep
<1>1. fc \in [Ctxs -> FunctionContext] /\ UNCHANGED calls
  BY DEF ReleaseInv, TypeInv, TypeOK, ActivateUpdate, DeactivateUpdate
<1>2. CASE ActivateUpdate(t, c) /\ SkipsActivation(c)
  BY <1>1, <1>2, NoStep DEF ActivateUpdate
<1>3. CASE ActivateUpdate(t, c) /\ ~SkipsActivation(c)
  <2>1. ~fc[c].destroyed /\ fc' = [fc EXCEPT ![c].activated = TRUE]
    BY <1>3 DEF ActivateUpdate, SkipsActivation
  <2>2. \A d \in Ctxs : ContextState(d)' = ContextState(d)
    BY <1>1, <2>1 DEF ContextState, FunctionContext
  <2> QED
    BY <1>1, <2>2, ContextStep DEF ContextMoves
<1>4. CASE DeactivateUpdate(t, c)
  <2>1. fc' = [fc EXCEPT ![c].activated = FALSE]
    BY <1>4 DEF DeactivateUpdate
  <2>2. \A d \in Ctxs : d # c => ContextState(d)' = ContextState(d)
    BY <1>1, <2>1 DEF ContextState
  <2>3. \/ ContextState(c)' = ContextState(c)
        \/ ContextState(c) = "published" /\ ContextState(c)' = "retired"
    BY <1>1, <2>1 DEF ContextState, FunctionContext
  <2> QED
    BY <1>1, <2>2, <2>3, ContextStep DEF ContextMoves
<1> QED
  BY <1>2, <1>3, <1>4

\* What a notification releases is retired, and no frame uses it.
LEMMA NotifyRefines ==
  ASSUME ReleaseInv, NEW t \in Mutators, Notify(t)
  PROVE  AbstractStep
<1>1. /\ t \in Threads /\ fc \in [Ctxs -> FunctionContext] /\ UNCHANGED calls
      /\ op[t].task \in DestroyTask /\ Due(op[t].task, {})
      /\ \A u \in Threads : \A i \in DOMAIN calls[u] : Spares(op[t].task, calls[u][i])
  BY ConstantsAssumption
     DEF ReleaseInv, TypeInv, TypeOK, CallsConsistent, CallConsistent, NotifyInv, Notify
<1>2. PICK task \in DestroyTask, c \in Ctxs :
        /\ task = op[t].task /\ c = task.ctx
        /\ fc' = IF task.what = "context" THEN [fc EXCEPT ![c].state = "freed"] ELSE fc
  BY <1>1 DEF Notify, DestroyTask
<1>3. CASE task.what # "context"
  BY <1>1, <1>2, <1>3, NoStep
<1>4. CASE task.what = "context"
  <2>1. fc[c].destroyed /\ ~fc[c].activated
    BY <1>1, <1>2, <1>4 DEF Due
  <2>2. fc[c].state # "unborn"
    BY <1>2, <2>1 DEF ReleaseInv, SharedBorn, Unborn
  <2>3. \A d \in Ctxs : d # c => ContextState(d)' = ContextState(d)
    BY <1>1, <1>2, <1>4 DEF ContextState
  <2>4. ContextState(c) \in {"retired", "released"} /\ ContextState(c)' = "released"
    BY <1>1, <1>2, <1>4, <2>1, <2>2 DEF ContextState, FunctionContext
  <2>5. \A s \in Slots : c \notin ContextUsed(s)
    BY <1>1, <1>2, <1>4 DEF Slots, ContextUsed, Spares, Safe
  <2> QED
    BY <1>1, <2>3, <2>4, <2>5, ContextStep DEF ContextMoves
<1> QED
  BY <1>3, <1>4

-----------------------------------------------------------------------------
(* The theorem *)

\* No context exists at first, and nobody is in a function.
LEMMA InitRefines == Init => Deferred!Init
<1> SUFFICES ASSUME Init PROVE Deferred!Init
  OBVIOUS
<1>1. \A c \in Ctxs : ContextState(c) = "unborn"
  BY DEF Init, ContextState, Unborn
<1>2. \A s \in Slots : ContextUsed(s) = {}
  BY DEF Init, ContextUsed, Slots
<1> QED
  BY <1>1, <1>2 DEF Deferred!Init

\* Every step is abstractly a step or none.
LEMMA NextRefines == ReleaseInv /\ [Next]_vars => AbstractStep
<1> SUFFICES ASSUME ReleaseInv, [Next]_vars PROVE AbstractStep
  OBVIOUS
<1>1. ASSUME NEW t \in Mutators, ApiStarts(t) PROVE AbstractStep
  <2>1. ASSUME \/ Refused(t) \/ (\E l \in Listeners : Detach(t, l))
               \/ BeginTransaction(t) \/ EndTransaction(t) \/ Flush(t)
        PROVE  AbstractStep
    BY <2>1, NoStep DEF Refused, Detach, BeginTransaction, EndTransaction, Flush, heap
  <2>2. ASSUME NEW f \in Functions,
               \/ \E l \in Listeners : Attach(t, f, l)
               \/ \E r \in Replacements, fast \in BOOLEAN : Replace(t, f, r, fast)
               \/ Revert(t, f)
        PROVE  AbstractStep
    BY <2>2, HooksRefine
  <2> QED
    BY <1>1, <2>1, <2>2 DEF ApiStarts, AttachRefused, ReplaceRefused, RevertNothing
<1>2. ASSUME NEW t \in Mutators, ApiSteps(t) \/ Relock(t) PROVE AbstractStep
  <2>1. CASE \/ (\E c \in Ctxs : DetachFrom(t, c)) \/ DetachDone(t) \/ EndNothingToDo(t)
             \/ EndTakesCopy(t) \/ Patched(t) \/ TaskRuns(t) \/ TaskRequeued(t)
             \/ TasksDone(t) \/ Relock(t)
    BY <2>1, NoStep DEF DetachFrom, DetachDone, EndNothingToDo, EndTakesCopy, Patched,
       TaskRuns, TaskRequeued, TasksDone, Relock, heap
  <2>2. CASE AttachFlags(t) \/ DetachRetire(t)
    BY <2>2, ListenerStepsRefine
  <2>3. CASE \E c \in Ctxs : ActivateUpdate(t, c) \/ DeactivateUpdate(t, c)
    BY <2>3, PatchRefines
  <2>4. CASE Notify(t)
    BY <2>4, NotifyRefines
  <2> QED
    BY <1>2, <2>1, <2>2, <2>3, <2>4 DEF ApiSteps
<1>3. ASSUME NEW t \in Callers, InvocationSteps(t) PROVE AbstractStep
  BY <1>3, QuietStepsRefine, BeginRefines, LoadRefines, DropRefines DEF InvocationSteps
<1>4. ASSUME NEW t \in Callers,
             \/ \E f \in Functions : Call(t, f)
             \/ \E c \in Ctxs : CallOriginal(t, c)
             \/ Return(t)
      PROVE  AbstractStep
  BY <1>4, CallsRefine
<1>5. ASSUME NEW l \in Listeners, Unref(l) PROVE AbstractStep
  BY <1>5, NoStep DEF Unref
<1>6. CASE UNCHANGED vars
  BY <1>6, NoStep DEF vars
<1> QED
  BY <1>1, <1>2, <1>3, <1>4, <1>5, <1>6 DEF Next

\* The interceptor implements deferred release: whatever the threads do, the
\* context of a function is published, retired once no code leads to it, and
\* released after that, when no invocation that begin_invocation counted while
\* the context was patched in is still using it.
THEOREM ReleasesInOrder == Spec => ContextsAreReleasedInOrder
<1>1. ReleaseInv /\ [Next]_vars => [Deferred!Next]_(Deferred!vars)
  BY NextRefines DEF AbstractStep
<1> QED
  BY <1>1, InitRefines, ReleaseInvariant, PTL
     DEF Spec, ContextsAreReleasedInOrder, Deferred!Spec

=============================================================================
