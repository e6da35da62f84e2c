------------------------- MODULE V4L2Capturer_proofs -------------------------
(***************************************************************************)
(* What V4L2Capturer's safety runs check on three buffers and five frames, *)
(* proved for every buffer_count_, MaxFrames and MaxFailures.              *)
(***************************************************************************)
EXTENDS V4L2Capturer, TLAPS

\* The capture thread lives while the destructor has not joined it.
Threads ==
  pc.capture \notin {"none", "ended"} => pc.main \in {"running", "join"}

\* What Create has done when it reaches a statement.
Created ==
  /\ pc.main \in Starting =>
       ~streaming /\ pc.capture = "none" /\ lost = {}
  /\ pc.main = "stream_on" => \A i \in Index : where[i] = "queued"
  /\ pc.main \in {"queue", "stream_on", "running", "join"} =>
       \A i \in Index : start[i]

\* The frames in the filled buffers are distinct, and later than the one the
\* capture thread dequeued last.
Ordered ==
  /\ frame <= shot
  /\ \A i \in Index : content[i] <= shot
  /\ \A i \in Index : where[i] = "done" => frame < content[i]
  /\ \A i, j \in Index :
       where[i] = "done" /\ where[j] = "done" /\ content[i] = content[j]
         => i = j

\* BuffersConserved, buffer by buffer.
Conserved ==
  pc.main \in {"running", "join"} =>
    /\ \A i \in Index :
         where[i] = "user" <=> i \in lost \/ (Holding /\ i = buf)
    /\ Holding => buf \notin lost

IInv ==
  TypeOK /\ Threads /\ Created /\ Ordered /\ Conserved /\ ReadsOwnFrame

-----------------------------------------------------------------------------
LEMMA InitInv == Init => IInv
<1>1. 0 \in Index /\ 0 \in Frames /\ 0 \in 0..MaxFailures
  BY CapturerAssumption DEF Index, Frames
<1>2. Init => TypeOK
  <2>. SUFFICES ASSUME Init PROVE TypeOK
    OBVIOUS
  <2>1. pc \in [main : MainLabels, capture : CaptureLabels]
    BY DEF Init, MainLabels, Starting, CaptureLabels
  <2>2. /\ start \in [Index -> BOOLEAN]
        /\ where \in [Index -> {"user", "queued", "done"}]
        /\ content \in [Index -> Frames]
    BY <1>1 DEF Init
  <2>. QED
    BY <1>1, <2>1, <2>2 DEF Init, TypeOK
<1>3. Init => Threads /\ Created /\ Conserved /\ ReadsOwnFrame
  BY DEF Init, Starting, Threads, Created, Conserved, ReadsOwnFrame, Holding
<1>4. Init => Ordered
  BY DEF Init, Ordered
<1>. QED
  BY <1>2, <1>3, <1>4 DEF IInv

LEMMA TypeStep == TypeOK /\ [Next]_vars => TypeOK'
<1>. SUFFICES ASSUME TypeOK, [Next]_vars PROVE TypeOK'
  OBVIOUS
<1>. USE CapturerAssumption
     DEF still, TypeOK, MainLabels, Starting, CaptureLabels
<1>1. CASE Create
  <2>1. CASE OpenDevice \/ InitBuffer \/ SetFps \/ SetResolution \/ SetControls
    BY <2>1 DEF OpenDevice, InitBuffer, SetFps, SetResolution, SetControls,
      Attempt, Main, Die, state, driver, loop
  <2>2. CASE AllocateBuffer
    BY <2>2 DEF AllocateBuffer, Main, Die, state, driver, loop
  <2>3. CASE QueueBuffers
    BY <2>3 DEF QueueBuffers, Main, Die, state, driver, loop
  <2>4. CASE StreamOn
    BY <2>4 DEF StreamOn, loop
  <2>. QED
    BY <1>1, <2>1, <2>2, <2>3, <2>4 DEF Create
<1>2. CASE Stop \/ Destroy
  BY <1>2 DEF Stop, Destroy, Join, StreamOff, Deallocate, Main, driver, loop
<1>3. CASE \E i \in Index : Fill(i)
  BY <1>3 DEF Fill, Frames, loop
<1>4. CASE Drop
  BY <1>4 DEF Drop, Frames, loop
<1>5. CASE Loop
  BY <1>5 DEF Loop, Capture, driver, loop
<1>6. CASE Select
  BY <1>6 DEF Select, Capture, Failed, driver
<1>7. CASE DequeueBuffer
  BY <1>7 DEF DequeueBuffer, Capture, Failed, driver, Oldest
<1>8. CASE NextBuffer
  BY <1>8 DEF NextBuffer, Capture, Die, state, driver, loop
<1>9. CASE QueueBuffer
  BY <1>9 DEF QueueBuffer, Capture, Failed, driver
<1>10. CASE UNCHANGED vars
  BY <1>10 DEF vars, state, driver, loop
<1>. QED
  BY <1>1, <1>2, <1>3, <1>4, <1>5, <1>6, <1>7, <1>8, <1>9, <1>10
    DEF Next, Driver, CaptureThread, Over

LEMMA InvStep == IInv /\ [Next]_vars => IInv'
<1>. SUFFICES ASSUME IInv, [Next]_vars PROVE IInv'
  OBVIOUS
<1>0. TypeOK' BY TypeStep DEF IInv
<1>. USE CapturerAssumption, <1>0
     DEF still, IInv, TypeOK, Threads, Created, Ordered, Conserved,
         ReadsOwnFrame,
         Starting, Holding
<1>1. CASE Create
  BY <1>1 DEF Create, OpenDevice, InitBuffer, SetFps, SetResolution,
    SetControls, Attempt, AllocateBuffer, QueueBuffers, StreamOn, Main, Die,
    state, driver, loop
<1>2. CASE Stop \/ Destroy
  BY <1>2 DEF Stop, Destroy, Join, StreamOff, Deallocate, Main, driver, loop
<1>3. CASE \E i \in Index : Fill(i)
  BY <1>3 DEF Fill, Frames, loop
<1>4. CASE Drop
  BY <1>4 DEF Drop, Frames, loop
<1>5. CASE Loop
  BY <1>5 DEF Loop, Capture, driver, loop
<1>6. CASE Select
  BY <1>6 DEF Select, Capture, driver
<1>7. CASE DequeueBuffer
  BY <1>7 DEF DequeueBuffer, Capture, driver, Oldest, Frames
<1>8. CASE NextBuffer
  BY <1>8 DEF NextBuffer, Capture, Die, state, driver, loop
<1>9. CASE QueueBuffer
  BY <1>9 DEF QueueBuffer, Capture, driver
<1>10. CASE UNCHANGED vars
  BY <1>10 DEF vars, state, driver, loop
<1>. QED
  BY <1>1, <1>2, <1>3, <1>4, <1>5, <1>6, <1>7, <1>8, <1>9, <1>10
    DEF Next, Driver, CaptureThread, Over

\* Every variable keeps its type, frame and buffer numbers their bounds.
THEOREM TypeCorrect == Spec => []TypeOK
BY InitInv, TypeStep, PTL DEF Spec, IInv

\* The conjuncts of IInv hold in every state.
THEOREM Invariance == Spec => []IInv
BY InitInv, InvStep, PTL DEF Spec

\* The observers of NextBuffer (v4l2_capturer.cpp:117) read the frame that
\* was dequeued, from memory that is mapped and not the driver's.
THEOREM ReadsCorrect == Spec => []ReadsOwnFrame
BY Invariance, PTL DEF IInv

\* No path through CaptureImage (v4l2_capturer.cpp:80-110) loses a buffer,
\* but for a QBUF that fails.
THEOREM ConservedCorrect == Spec => []BuffersConserved
<1>1. IInv => BuffersConserved
  <2>. SUFFICES ASSUME IInv, pc.main \in {"running", "join"}
                PROVE  /\ {i \in Index : where[i] = "user"} =
                            lost \cup (IF Holding THEN {buf} ELSE {})
                       /\ ~(Holding /\ buf \in lost)
    BY DEF BuffersConserved
  <2>1. lost \subseteq Index /\ buf \in Index
    BY DEF IInv, TypeOK
  <2>2. \A i \in Index :
          where[i] = "user" <=> i \in lost \/ (Holding /\ i = buf)
    BY DEF IInv, Conserved
  <2>3. Holding => buf \notin lost
    BY DEF IInv, Conserved
  <2>. QED
    BY <2>1, <2>2, <2>3
<1>. QED
  BY <1>1, Invariance, PTL

\* The frames reach the observers in the camera's order, each at most once,
\* whatever fails in between.
THEOREM OrderCorrect == Spec => FramesInOrder
<1>1. IInv /\ [Next]_vars =>
        [pc'.capture = "next" /\ pc.capture # "next" => frame' > frame]_vars
  <2>. SUFFICES ASSUME IInv, Next, pc'.capture = "next", pc.capture # "next"
                PROVE  frame' > frame
    BY DEF vars, state
  <2>1. DequeueBuffer
    BY DEF still, IInv, TypeOK, MainLabels, Starting, CaptureLabels, Next,
      Create,
      OpenDevice, InitBuffer, SetFps, SetResolution, SetControls, Attempt,
      AllocateBuffer, QueueBuffers, StreamOn, Stop, Destroy, Join, StreamOff,
      Deallocate, Driver, Fill, Drop, CaptureThread, Loop, Select, NextBuffer,
      QueueBuffer, Over, Main, Capture, Die, vars, state
  <2>. QED
    BY <2>1 DEF DequeueBuffer, Capture, Oldest, IInv, Ordered, TypeOK, Frames,
      CaptureLabels
<1>. QED
  BY <1>1, Invariance, PTL DEF Spec, FramesInOrder
\* A buffer that select saw filled is there for DQBUF: only the capture
\* thread takes one from the driver before it has been joined.
THEOREM DequeueCorrect == Spec => []DequeueReady
<1>1. Init => DequeueReady
  BY DEF Init, DequeueReady
<1>2. IInv /\ DequeueReady /\ [Next]_vars => DequeueReady'
  <2>. SUFFICES ASSUME IInv, DequeueReady, [Next]_vars PROVE DequeueReady'
    OBVIOUS
  <2>. USE DEF still, IInv, TypeOK, Threads, Created, DequeueReady, Starting,
         CaptureLabels
  <2>1. CASE Create
    BY <2>1 DEF Create, OpenDevice, InitBuffer, SetFps, SetResolution,
      SetControls, Attempt, AllocateBuffer, QueueBuffers, StreamOn, Main, Die,
      state, driver, loop
  <2>2. CASE Stop \/ Destroy
    BY <2>2 DEF Stop, Destroy, Join, StreamOff, Deallocate, Main, driver, loop
  <2>3. CASE \E i \in Index : Fill(i)
    BY <2>3 DEF Fill, loop
  <2>4. CASE Drop \/ UNCHANGED vars
    BY <2>4 DEF Drop, loop, vars, state, driver
  <2>5. CASE Select
    BY <2>5 DEF Select, Capture, driver
  <2>6. CASE Loop \/ DequeueBuffer \/ NextBuffer \/ QueueBuffer
    BY <2>6 DEF Loop, DequeueBuffer, NextBuffer, QueueBuffer, Capture, Die,
      driver, loop, state
  <2>. QED
    BY <2>1, <2>2, <2>3, <2>4, <2>5, <2>6 DEF Next, Driver, CaptureThread, Over
<1>. QED
  BY <1>1, <1>2, Invariance, PTL DEF Spec

-----------------------------------------------------------------------------
(* The end of the destructor: all but the fairness of the threads.         *)

\* Remaining in its two parts.
CaptureLeft(label) ==
  CASE label = "select"  -> 5
    [] label = "dequeue" -> 4
    [] label = "next"    -> 3
    [] label = "requeue" -> 2
    [] label = "loop"    -> 1
    [] OTHER             -> 0
MainLeft(label) ==
  CASE label = "join"       -> 3
    [] label = "stream_off" -> 2
    [] label = "unmap"      -> 1
    [] OTHER                -> 0

LEMMA Parts ==
  /\ Remaining = CaptureLeft(pc.capture) + MainLeft(pc.main)
  /\ Remaining' = CaptureLeft(pc'.capture) + MainLeft(pc'.main)
BY DEF Remaining, CaptureLeft, MainLeft

LEMMA CaptureValues ==
  /\ CaptureLeft("select") = 5 /\ CaptureLeft("dequeue") = 4
  /\ CaptureLeft("next") = 3 /\ CaptureLeft("requeue") = 2
  /\ CaptureLeft("loop") = 1 /\ CaptureLeft("ended") = 0
  /\ CaptureLeft("none") = 0
BY DEF CaptureLeft

LEMMA MainValues ==
  /\ MainLeft("join") = 3 /\ MainLeft("stream_off") = 2
  /\ MainLeft("unmap") = 1 /\ MainLeft("closed") = 0
BY DEF MainLeft

\* capture_stop_ is set by the destructor, and stays.
Stopping == {"join", "stream_off", "unmap", "closed"}
Stopped == capture_stop_ => pc.main \in Stopping

LEMMA LeftNat ==
  /\ \A label \in CaptureLabels : CaptureLeft(label) \in Nat
  /\ \A label \in Stopping : MainLeft(label) \in Nat
BY CaptureValues, MainValues DEF CaptureLabels, Stopping

LEMMA RemainingNat == TypeOK /\ Stopped /\ capture_stop_ => Remaining \in Nat
BY Parts, LeftNat DEF TypeOK, Stopped

LEMMA StoppedStep == IInv /\ Stopped /\ [Next]_vars => Stopped'
<1>. SUFFICES ASSUME IInv, Stopped, [Next]_vars PROVE Stopped'
  OBVIOUS
<1>. USE DEF still, IInv, TypeOK, Stopped, Stopping
<1>1. CASE Create \/ Stop \/ Destroy
  BY <1>1 DEF Create, OpenDevice, InitBuffer, SetFps, SetResolution,
    SetControls, Attempt, AllocateBuffer, QueueBuffers, StreamOn, Main, Die,
    state, Stop, Destroy, Join, StreamOff, Deallocate
<1>2. CASE Driver \/ UNCHANGED vars
  BY <1>2 DEF Driver, Fill, Drop, vars, state
<1>3. CASE CaptureThread
  BY <1>3 DEF CaptureThread, Loop, Select, DequeueBuffer, NextBuffer,
    QueueBuffer, Capture, Die, state
<1>. QED
  BY <1>1, <1>2, <1>3 DEF Next, Over

\* The capture thread is on its way to its test of capture_stop_.
LEMMA CaptureAdvances ==
  ASSUME TypeOK, Stopped, CaptureThread, capture_stop_
  PROVE  capture_stop_' /\ Remaining' <= Remaining
         /\ (dead' # "no" \/ Remaining' < Remaining)
<1>1. CASE dead' # "no" /\ UNCHANGED <<pc, capture_stop_>>
  BY <1>1, Parts, RemainingNat
<1>2. CASE ~(dead' # "no" /\ UNCHANGED <<pc, capture_stop_>>)
  <2>1. \E from, to \in CaptureLabels :
          /\ pc.capture = from /\ pc' = [pc EXCEPT !.capture = to]
          /\ CaptureLeft(to) < CaptureLeft(from)
    <3>. DEFINE Goes(from, to) ==
           pc.capture = from /\ pc' = [pc EXCEPT !.capture = to]
    <3>1. \/ Goes("loop", "ended")
          \/ Goes("select", "dequeue") \/ Goes("select", "loop")
          \/ Goes("dequeue", "next") \/ Goes("dequeue", "loop")
          \/ Goes("next", "requeue")
          \/ Goes("requeue", "loop")
      BY <1>2 DEF CaptureThread, Loop, Select, DequeueBuffer, NextBuffer,
        QueueBuffer, Capture, Die, state
    <3>2. ASSUME NEW from \in CaptureLabels, NEW to \in CaptureLabels,
                 Goes(from, to), CaptureLeft(to) < CaptureLeft(from)
          PROVE  \E f, t \in CaptureLabels :
                   /\ pc.capture = f /\ pc' = [pc EXCEPT !.capture = t]
                   /\ CaptureLeft(t) < CaptureLeft(f)
      BY <3>2
    <3>3. /\ CaptureLeft("ended") < CaptureLeft("loop")
          /\ CaptureLeft("loop") < CaptureLeft("select")
          /\ CaptureLeft("dequeue") < CaptureLeft("select")
          /\ CaptureLeft("next") < CaptureLeft("dequeue")
          /\ CaptureLeft("loop") < CaptureLeft("dequeue")
          /\ CaptureLeft("requeue") < CaptureLeft("next")
          /\ CaptureLeft("loop") < CaptureLeft("requeue")
      BY CaptureValues
    <3>. HIDE DEF Goes
    <3>. QED
      BY <3>1, <3>2, <3>3 DEF CaptureLabels
  <2>2. capture_stop_'
    BY DEF CaptureThread, Loop, Select, DequeueBuffer, NextBuffer,
      QueueBuffer, still, Die, state
  <2>3. pc'.main = pc.main /\ MainLeft(pc.main) \in Nat
    BY <2>1, LeftNat DEF TypeOK, Stopped
  <2>. QED
    BY <2>1, <2>2, <2>3, LeftNat, Parts DEF TypeOK
<1>. QED
  BY <1>1, <1>2

LEMMA DestroyAdvances ==
  ASSUME TypeOK, Stopped, Destroy, capture_stop_
  PROVE  capture_stop_' /\ Remaining' <= Remaining /\ Remaining' < Remaining
<1>1. \E from, to \in Stopping :
        /\ pc.main = from /\ pc' = [pc EXCEPT !.main = to]
        /\ MainLeft(to) < MainLeft(from)
  <2>. DEFINE Goes(from, to) ==
         pc.main = from /\ pc' = [pc EXCEPT !.main = to]
  <2>1. \/ Goes("join", "stream_off") \/ Goes("stream_off", "unmap")
        \/ Goes("unmap", "closed")
    BY DEF Destroy, Join, StreamOff, Deallocate, Main
  <2>2. ASSUME NEW from \in Stopping, NEW to \in Stopping,
               Goes(from, to), MainLeft(to) < MainLeft(from)
        PROVE  \E f, t \in Stopping :
                 /\ pc.main = f /\ pc' = [pc EXCEPT !.main = t]
                 /\ MainLeft(t) < MainLeft(f)
    BY <2>2
  <2>3. /\ MainLeft("stream_off") < MainLeft("join")
        /\ MainLeft("unmap") < MainLeft("stream_off")
        /\ MainLeft("closed") < MainLeft("unmap")
    BY MainValues
  <2>. HIDE DEF Goes
  <2>. QED
    BY <2>1, <2>2, <2>3 DEF Stopping
<1>2. capture_stop_'
  BY DEF Destroy, Join, StreamOff, Deallocate, still
<1>3. pc'.capture = pc.capture /\ CaptureLeft(pc.capture) \in Nat
  BY <1>1, LeftNat DEF TypeOK
<1>. QED
  BY <1>1, <1>2, <1>3, LeftNat, Parts DEF TypeOK

\* ~V4L2Capturer (v4l2_capturer.cpp:38-45) has a bounded number of steps left
\* once capture_stop_ is set, and each step of the two threads uses one up,
\* with any camera.  StopCompletes adds that the threads do step.
THEOREM StopAdvancesCorrect ==
  Spec => [](capture_stop_ => Remaining \in Nat) /\ StopAdvances
<1>1. Init => Stopped
  BY DEF Init, Stopped
<1>2. Spec => [](IInv /\ Stopped)
  BY <1>1, StoppedStep, Invariance, PTL DEF Spec
<1>3. IInv /\ Stopped => (capture_stop_ => Remaining \in Nat)
  BY RemainingNat DEF IInv
<1>4. IInv /\ Stopped /\ [Next]_vars =>
        [capture_stop_ =>
           /\ capture_stop_' /\ Remaining' <= Remaining
           /\ CaptureThread \/ Destroy => dead' # "no" \/ Remaining' < Remaining
        ]_vars
  <2>. SUFFICES ASSUME IInv, Stopped, Next, capture_stop_
                PROVE  /\ capture_stop_' /\ Remaining' <= Remaining
                       /\ CaptureThread \/ Destroy =>
                            dead' # "no" \/ Remaining' < Remaining
    OBVIOUS
  <2>1. TypeOK /\ Remaining \in Nat
    BY RemainingNat DEF IInv
  <2>2. CASE CaptureThread
    BY <2>1, <2>2, CaptureAdvances
  <2>3. CASE Destroy /\ ~CaptureThread
    <3>1. Remaining' <= Remaining /\ Remaining' < Remaining /\ capture_stop_'
      BY <2>1, <2>3, DestroyAdvances
    <3>. QED
      BY <2>1, <2>3, <3>1
  <2>4. CASE ~Destroy /\ ~CaptureThread
    <3>1. UNCHANGED <<pc, capture_stop_>>
      BY <2>4 DEF Next, Create, OpenDevice, InitBuffer, SetFps, SetResolution,
        SetControls, Attempt, AllocateBuffer, QueueBuffers, StreamOn, Main,
        Die, Stop, Driver, Fill, Drop, Over, vars, state, Stopped, Stopping
    <3>2. Remaining' = Remaining
      BY <3>1, Parts
    <3>. QED
      BY <2>1, <2>4, <3>1, <3>2
  <2>. QED
    BY <2>2, <2>3, <2>4
<1>. QED
  BY <1>2, <1>3, <1>4, PTL DEF Spec, StopAdvances
=============================================================================
