---------------------------- MODULE V4L2Capturer ----------------------------
(***************************************************************************)
(* V4L2Capturer (capturer/v4l2_capturer.cpp) with the buffer handling of   *)
(* V4L2Util it uses (common/v4l2_utils.cpp): the thread that creates and   *)
(* destroys it, its capture_thread_, and the V4L2 driver.                  *)
(*                                                                         *)
(* A buffer is with the driver, empty ("queued") or filled ("done"), or    *)
(* with the program ("user").  The frame a buffer holds is its number in   *)
(* the camera's stream.  Observers run inside NextBuffer, on the capture   *)
(* thread, and read the mapped memory (V4L2FrameBuffer keeps a pointer).   *)
(* The driver is not part of the repository: it fills queued buffers while *)
(* it streams, hands them out oldest first, and any ioctl may fail.        *)
(***************************************************************************)
EXTENDS Naturals, FiniteSets

CONSTANTS
  buffer_count_,   \* the number of buffers asked for
  MaxFrames,       \* bound: frames the camera takes
  MaxFailures      \* bound: failures of select, DQBUF and QBUF while streaming

ASSUME CapturerAssumption ==
  /\ buffer_count_ \in Nat \ {0}
  /\ MaxFrames \in Nat
  /\ MaxFailures \in Nat

VARIABLES
  start,           \* capture_.buffers[i].start # nullptr
  where,           \* who has buffer i: "user", "queued" or "done"
  content,         \* the number of the frame in the memory of buffer i
  streaming,       \* driver: between STREAMON and STREAMOFF
  shot,            \* driver: frames taken so far
  buf,             \* capture thread: the index DQBUF returned
  frame,           \* capture thread: the number of the frame DQBUF returned
  lost,            \* history: buffers a failed QBUF left with the program
  failures,        \* history: see MaxFailures
  capture_stop_,
  pc,              \* the next statement of main and of capture_thread_
  dead             \* "no", or what ended the process

driver == <<streaming, shot>>
loop == <<buf, frame, lost, failures>>
state == <<start, where, content, driver, loop, capture_stop_, pc>>
vars == <<state, dead>>

\* All but pc.
still == <<start, where, content, driver, loop, capture_stop_, dead>>

Index == 0..(buffer_count_ - 1)
Frames == 0..MaxFrames

Starting == {"open", "init", "fps", "resolution", "controls", "allocate",
             "queue", "stream_on"}
MainLabels ==
  Starting \cup {"running", "join", "stream_off", "unmap", "closed"}
CaptureLabels == {"none", "loop", "select", "dequeue", "next", "requeue",
                  "ended"}

TypeOK ==
  /\ start \in [Index -> BOOLEAN]
  /\ where \in [Index -> {"user", "queued", "done"}]
  /\ content \in [Index -> Frames]
  /\ streaming \in BOOLEAN
  /\ shot \in Frames
  /\ buf \in Index
  /\ frame \in Frames
  /\ lost \subseteq Index
  /\ failures \in 0..MaxFailures
  /\ capture_stop_ \in BOOLEAN
  /\ pc \in [main : MainLabels, capture : CaptureLabels]
  /\ dead \in {"no", "exit", "uncaught"}

Init ==
  /\ start = [i \in Index |-> FALSE]
  /\ where = [i \in Index |-> "user"]
  /\ content = [i \in Index |-> 0]
  /\ streaming = FALSE
  /\ shot = 0
  /\ buf = 0
  /\ frame = 0
  /\ lost = {}
  /\ failures = 0
  /\ capture_stop_ = FALSE
  /\ pc = [main |-> "open", capture |-> "none"]
  /\ dead = "no"

Main(from, to) == pc.main = from /\ pc' = [pc EXCEPT !.main = to]
Capture(from, to) == pc.capture = from /\ pc' = [pc EXCEPT !.capture = to]
Die(cause) == dead' = cause /\ UNCHANGED state
Failed == failures < MaxFailures /\ failures' = failures + 1

-----------------------------------------------------------------------------
(* The driver.                                                             *)

Fill(i) ==
  /\ streaming
  /\ where[i] = "queued"
  /\ shot < MaxFrames
  /\ shot' = shot + 1
  /\ content' = [content EXCEPT ![i] = shot + 1]
  /\ where' = [where EXCEPT ![i] = "done"]
  /\ UNCHANGED <<start, streaming, loop, capture_stop_, pc, dead>>

\* With no buffer queued the camera's frame is dropped.
Drop ==
  /\ streaming
  /\ shot < MaxFrames
  /\ \A i \in Index : where[i] # "queued"
  /\ shot' = shot + 1
  /\ UNCHANGED <<start, where, content, streaming, loop, capture_stop_, pc,
                 dead>>

Oldest(i) ==
  /\ where[i] = "done"
  /\ \A j \in Index : where[j] = "done" => content[i] <= content[j]

-----------------------------------------------------------------------------
(* Create, before there is a capture thread.                               *)

\* A call whose failure ends the process.
Attempt(from, to, cause) ==
  \/ Main(from, to) /\ UNCHANGED still
  \/ pc.main = from /\ Die(cause)

\* Init: the device, then its capabilities.
OpenDevice == Attempt("open", "init", "uncaught")
InitBuffer == Attempt("init", "fps", "exit")

SetFps == Attempt("fps", "resolution", "exit")

\* SetRotation fails in silence, SetResolution too, but for a frame size
\* that the driver changes.
SetResolution == Attempt("resolution", "controls", "uncaught")

\* It is only logged when the camera knows no such control.
SetControls == Main("controls", "allocate") /\ UNCHANGED still

\* AllocateBuffer: MMap goes through all the buffers asked for, so that a
\* driver that grants fewer fails its QUERYBUF.
AllocateBuffer ==
  \/ /\ Main("allocate", "queue")
     /\ start' = [i \in Index |-> TRUE]
     /\ UNCHANGED <<where, content, driver, loop, capture_stop_, dead>>
  \/ pc.main = "allocate" /\ Die("exit")

QueueBuffers ==
  \/ /\ Main("queue", "stream_on")
     /\ where' = [i \in Index |-> "queued"]
     /\ UNCHANGED <<start, content, driver, loop, capture_stop_, dead>>
  \/ pc.main = "queue" /\ Die("exit")

\* The result of StreamOn is not looked at; the thread starts all the same.
StreamOn ==
  /\ pc.main = "stream_on"
  /\ pc' = [main |-> "running", capture |-> "loop"]
  /\ streaming' \in BOOLEAN
  /\ UNCHANGED <<start, where, content, shot, loop, capture_stop_, dead>>

-----------------------------------------------------------------------------
(* ~V4L2Capturer.                                                          *)

Stop ==
  /\ Main("running", "join")
  /\ capture_stop_' = TRUE
  /\ UNCHANGED <<start, where, content, driver, loop, dead>>

Join ==
  /\ pc.capture = "ended"
  /\ Main("join", "stream_off")
  /\ UNCHANGED still

\* STREAMOFF gives every buffer back; its failure leaves them where they are.
StreamOff ==
  /\ Main("stream_off", "unmap")
  /\ \/ /\ streaming' = FALSE
        /\ where' = [i \in Index |-> "user"]
     \/ UNCHANGED <<streaming, where>>
  /\ UNCHANGED <<start, content, shot, loop, capture_stop_, dead>>

\* DeallocateBuffer and CloseDevice: the driver forgets its buffers.
Deallocate ==
  /\ Main("unmap", "closed")
  /\ start' = [i \in Index |-> FALSE]
  /\ where' = [i \in Index |-> "user"]
  /\ streaming' = FALSE
  /\ UNCHANGED <<content, shot, loop, capture_stop_, dead>>

-----------------------------------------------------------------------------
(* capture_thread_: CaptureImage until capture_stop_.                      *)

\* Mutant of Loop: capture_stop_ is not looked at.
LoopForever ==
  /\ Capture("loop", "select")
  /\ UNCHANGED still

Loop ==
  /\ Capture("loop", IF capture_stop_ THEN "ended" ELSE "select")
  /\ UNCHANGED still

\* Mutant of Select: readiness is taken for the timeout.
SelectInverted ==
  /\ \/ /\ ~streaming \/ \E i \in Index : where[i] = "done"
        /\ Capture("select", "loop")
     \/ /\ streaming /\ \A i \in Index : where[i] # "done"
        /\ Capture("select", "dequeue")
  /\ UNCHANGED still

\* select: a filled buffer, or a stream that is not on, makes it ready; it
\* times out with neither; it fails when it is interrupted.
Select ==
  /\ \/ /\ ~streaming \/ \E i \in Index : where[i] = "done"
        /\ Capture("select", "dequeue")
        /\ UNCHANGED failures
     \/ /\ streaming /\ \A i \in Index : where[i] # "done"
        /\ Capture("select", "loop")
        /\ UNCHANGED failures
     \/ /\ Capture("select", "loop")
        /\ Failed
  /\ UNCHANGED <<start, where, content, driver, buf, frame, lost,
                 capture_stop_, dead>>

\* Mutant of DequeueBuffer: its result is not looked at, and the index of
\* the v4l2_buffer keeps its initial zero.
DequeueUnchecked ==
  /\ Capture("dequeue", "next")
  /\ \/ \E i \in Index :
          /\ Oldest(i)
          /\ buf' = i
          /\ frame' = content[i]
          /\ where' = [where EXCEPT ![i] = "user"]
     \/ buf' = 0 /\ UNCHANGED <<frame, where>>
  /\ UNCHANGED <<start, content, driver, lost, failures, capture_stop_, dead>>

DequeueBuffer ==
  \/ /\ Capture("dequeue", "next")
     /\ \E i \in Index :
          /\ Oldest(i)
          /\ buf' = i
          /\ frame' = content[i]
          /\ where' = [where EXCEPT ![i] = "user"]
     /\ UNCHANGED <<start, content, driver, lost, failures, capture_stop_,
                    dead>>
  \/ /\ Capture("dequeue", "loop")
     /\ IF streaming THEN Failed ELSE UNCHANGED failures
     /\ UNCHANGED <<start, where, content, driver, buf, frame, lost,
                    capture_stop_, dead>>

\* Mutant of NextBuffer: it returns from CaptureImage.
NextBufferReturns ==
  /\ Capture("next", "loop")
  /\ UNCHANGED still

\* Mutant of NextBuffer: the buffer is queued before its observers ran.
NextBufferQueued ==
  /\ Capture("next", "requeue")
  /\ where' = [where EXCEPT ![buf] = "queued"]
  /\ UNCHANGED <<start, content, driver, loop, capture_stop_, dead>>

\* The observers run; what they throw ends the process.
NextBuffer ==
  \/ /\ Capture("next", "requeue")
     /\ UNCHANGED still
  \/ pc.capture = "next" /\ Die("uncaught")

\* A buffer QBUF fails for is never tried again.
QueueBuffer ==
  /\ Capture("requeue", "loop")
  /\ \/ /\ where' = [where EXCEPT ![buf] = "queued"]
        /\ UNCHANGED <<lost, failures>>
     \/ /\ lost' = lost \cup {buf}
        /\ Failed
        /\ UNCHANGED where
  /\ UNCHANGED <<start, content, driver, buf, frame, capture_stop_, dead>>

-----------------------------------------------------------------------------
Create ==
  \/ OpenDevice \/ InitBuffer \/ SetFps \/ SetResolution \/ SetControls
  \/ AllocateBuffer \/ QueueBuffers \/ StreamOn
Destroy == Join \/ StreamOff \/ Deallocate
Driver == (\E i \in Index : Fill(i)) \/ Drop
CaptureThread == Loop \/ Select \/ DequeueBuffer \/ NextBuffer \/ QueueBuffer

Over == (dead # "no" \/ pc.main = "closed") /\ UNCHANGED vars

Next ==
  \/ dead = "no" /\ (Create \/ Stop \/ Destroy \/ Driver \/ CaptureThread)
  \/ Over

Spec == Init /\ [][Next]_vars

\* Both threads keep running; nothing is assumed of the camera, and the
\* owner of the capturer need not destroy it.
FairSpec ==
  /\ Spec
  /\ WF_vars(dead = "no" /\ Destroy)
  /\ WF_vars(dead = "no" /\ CaptureThread)

-----------------------------------------------------------------------------
\* The capture thread holds the buffer it dequeued.
Holding == pc.capture \in {"next", "requeue"}

\* While the observers run, the memory they read is mapped, is the program's,
\* and still holds the frame that was dequeued: the driver does not write the
\* next picture into it.
ReadsOwnFrame ==
  Holding => start[buf] /\ where[buf] = "user" /\ content[buf] = frame

\* While the capturer runs a buffer is with the driver, in the hands of the
\* capture thread, or lost to a failed QBUF; the last two do not overlap.
BuffersConserved ==
  pc.main \in {"running", "join"} =>
    /\ {i \in Index : where[i] = "user"} =
         lost \cup (IF Holding THEN {buf} ELSE {})
    /\ ~(Holding /\ buf \in lost)

\* The observers see the camera's frames in order, and none of them twice.
FramesInOrder ==
  [][pc'.capture = "next" /\ pc.capture # "next" => frame' > frame]_vars

\* The device is opened without O_NONBLOCK, so that a DQBUF with no filled
\* buffer would wait for the camera, and the destructor with it: the buffer
\* that select saw is still there.
DequeueReady ==
  pc.capture = "dequeue" => ~streaming \/ \E i \in Index : where[i] = "done"

\* The statements left to the capture thread before it looks at
\* capture_stop_, and to the destructor.
Remaining ==
  LET capture == CASE pc.capture = "select"  -> 5
                   [] pc.capture = "dequeue" -> 4
                   [] pc.capture = "next"    -> 3
                   [] pc.capture = "requeue" -> 2
                   [] pc.capture = "loop"    -> 1
                   [] OTHER                  -> 0
      main == CASE pc.main = "join"       -> 3
                [] pc.main = "stream_off" -> 2
                [] pc.main = "unmap"      -> 1
                [] OTHER                  -> 0
  IN  capture + main

\* Once capture_stop_ is set, every step of the two threads brings the end
\* closer, whatever fails, and nothing the driver does puts it off.
StopAdvances ==
  [][capture_stop_ =>
       /\ capture_stop_' /\ Remaining' <= Remaining
       /\ CaptureThread \/ Destroy => dead' # "no" \/ Remaining' < Remaining
    ]_vars

\* The destructor comes to its end: the capture thread leaves its loop though
\* the camera may have stopped sending frames.
StopCompletes == capture_stop_ ~> (pc.main = "closed" \/ dead # "no")

\* A filled buffer is taken from the driver, whatever failed before it.
FrameDelivered ==
  \A i \in Index :
    where[i] = "done" ~> (where[i] # "done" \/ capture_stop_ \/ dead # "no")
=============================================================================
