---------------------------- MODULE LibAvEncoder ----------------------------
(***************************************************************************)
(* The way of a frame (encoder/libav_encoder.cpp, and the lambda of        *)
(* RtcPeer::SubscribeEncoder): the capture thread takes it from the        *)
(* camera, encodes it and hands the packets to every peer, all in the      *)
(* observers' callbacks, while the main thread still starts the program    *)
(* and, later, peers subscribe and their tracks open and shut.             *)
(*                                                                         *)
(* A frame is its timestamp, which the monotonic clock never makes 0; a    *)
(* packet is its pts.  libav's encoder is a queue that may hold frames     *)
(* back, and keeps their order: libx264 is opened with no B-frames.        *)
(* Next of the packets is no more than a Broadcast, which Subject shows    *)
(* the real one to be: it has the list of observers and the races on it.   *)
(* V4L2Capturer has the buffers, FrameLayout the picture.                  *)
(***************************************************************************)
EXTENDS Integers, Sequences

CONSTANTS
  Peers,
  MaxTime,      \* bound: the time of the last frame
  NoPeer        \* serving, when no lambda runs

ASSUME EncoderAssumption == MaxTime \in Nat /\ NoPeer \notin Peers

VARIABLES
  start,            \* what of V4L2Webrtc the main thread has made
  pc,               \* the capture thread
  clock,            \* the time of the last frame
  frame,            \* the frame in EncodeBuffer, 0 for none
  video_start_ts_,
  codec,            \* libav: the frames it holds
  holders,          \* the frames whose I420Buffer a holder keeps
  pkt,              \* the frame in pkt_[Video], 0 for a blank packet
  pending,          \* the observers Next has yet to call
  serving,          \* the peer in whose lambda Next is
  passed,           \* history: the last packet passed to Next, 0 for none
  given,            \* history: the last packet each lambda was called with
  track,            \* "none" before SubscribeEncoder, "closed", "open", "shut",
                    \* "gone" with ~RtcPeer
  start_ts_,
  sent,             \* history: pts and time of what sendFrame was given
  dead              \* "no", or what ended the process

encoding == <<frame, video_start_ts_, codec, holders, pkt>>
calls == <<passed, given>>
delivery == <<serving, start_ts_, sent, calls>>
state == <<start, pc, clock, encoding, pending, delivery, track>>
vars == <<state, dead>>

TypeOK ==
  /\ start \in {"none", "capturer", "codec", "encoder"}
  /\ pc \in {"idle", "next", "encode", "receive", "serve", "send", "free"}
  /\ clock \in 0..MaxTime
  /\ frame \in 0..MaxTime
  /\ video_start_ts_ \in 0..MaxTime
  /\ codec \in Seq(1..MaxTime)
  /\ holders \subseteq 1..MaxTime
  /\ pkt \in 0..MaxTime
  /\ pending \subseteq Peers
  /\ serving \in Peers \cup {NoPeer}
  /\ passed \in 0..MaxTime
  /\ given \in [Peers -> 0..MaxTime]
  /\ track \in [Peers -> {"none", "closed", "open", "shut", "gone"}]
  /\ start_ts_ \in [Peers -> 0..MaxTime]
  /\ sent \in [Peers -> Seq([pts: 0..MaxTime, time: 0..MaxTime])]
  /\ dead \in {"no", "uncaught", "vector_race"}

Init ==
  /\ start = "none"
  /\ pc = "idle"
  /\ clock = 0
  /\ frame = 0
  /\ video_start_ts_ = 0
  /\ codec = <<>>
  /\ holders = {}
  /\ pkt = 0
  /\ pending = {}
  /\ serving = NoPeer
  /\ passed = 0
  /\ given = [p \in Peers |-> 0]
  /\ track = [p \in Peers |-> "none"]
  /\ start_ts_ = [p \in Peers |-> 0]
  /\ sent = [p \in Peers |-> <<>>]
  /\ dead = "no"

Die(cause) == dead' = cause /\ UNCHANGED state
Move(from, to) == pc = from /\ pc' = to
Held == {codec[i] : i \in DOMAIN codec}
Members == {p \in Peers : track[p] \in {"closed", "open", "shut"}}
Departed == {p \in Peers : track[p] = "gone"}

\* libav stamps a packet with the pts of its frame.
Pts(f) == f - video_start_ts_

-----------------------------------------------------------------------------
(* V4L2Webrtc's constructor, on the main thread.                           *)

CreateCapturer ==
  /\ start = "none" /\ start' = "capturer"
  /\ UNCHANGED <<pc, clock, encoding, pending, delivery, track, dead>>

\* No libx264, no profile, or it cannot be opened: nothing catches that.
InitVideoCodec ==
  /\ start = "capturer"
  /\ \/ /\ start' = "codec"
        /\ UNCHANGED <<pc, clock, encoding, pending, delivery, track, dead>>
     \/ Die("uncaught")

\* The capturer has begun: its Next may be going through the list.
SubscribeVideoSource ==
  /\ start = "codec"
  /\ \/ /\ start' = "encoder"
        /\ UNCHANGED <<pc, clock, encoding, pending, delivery, track, dead>>
     \/ pc = "next" /\ Die("vector_race")

-----------------------------------------------------------------------------
(* The capture thread.                                                     *)

\* CaptureImage, as far as NextBuffer.
Capture ==
  /\ start # "none"
  /\ Move("idle", "next")
  /\ clock' \in (clock + 1)..MaxTime
  /\ UNCHANGED <<start, encoding, pending, delivery, track, dead>>

\* NextFrameBuffer of the capturer: the encoder is its only observer.
NextBuffer ==
  /\ Move("next", IF start = "encoder" THEN "encode" ELSE "idle")
  /\ UNCHANGED <<start, clock, encoding, pending, delivery, track, dead>>

\* EncodeBuffer up to avcodec_send_frame, which refers to the AVBuffer that
\* owns the holder.
EncodeBuffer ==
  /\ Move("encode", "receive")
  /\ frame' = clock
  /\ video_start_ts_' = IF video_start_ts_ = 0 THEN clock ELSE video_start_ts_
  /\ holders' = holders \cup {clock}
  /\ codec' = Append(codec, clock)
  /\ UNCHANGED <<start, clock, pkt, pending, delivery, track, dead>>

\* avcodec_receive_packet returns a packet, for which NextFrameBuffer begins;
\* libav lets go of its frame.
Packet ==
  /\ Move("receive", "serve")
  /\ codec # <<>>
  /\ pkt' = Head(codec)
  /\ codec' = Tail(codec)
  /\ holders' = holders \ ({Head(codec)} \ {frame})
  /\ pending' = Members
  /\ passed' = Head(codec)
  /\ UNCHANGED <<start, clock, frame, video_start_ts_, serving, start_ts_,
                 sent, given, track, dead>>

\* Mutant of Again: the loop goes on until there is a packet.
AgainAndAgain ==
  /\ Move("receive", "receive")
  /\ UNCHANGED <<start, clock, encoding, pending, delivery, track, dead>>

\* EAGAIN ends the loop, whether libav holds frames back or not.
Again ==
  /\ Move("receive", "free")
  /\ UNCHANGED <<start, clock, encoding, pending, delivery, track, dead>>

\* Mutant of Serve: Next stays at the observer it called.
ServeAgain(p) ==
  /\ p \in pending
  /\ given' = [given EXCEPT ![p] = pkt]
  /\ IF track[p] = "open"
       THEN Move("serve", "send") /\ serving' = p
       ELSE Move("serve", "serve") /\ UNCHANGED serving
  /\ UNCHANGED <<start, clock, encoding, pending, start_ts_, sent, passed,
                 track, dead>>

\* The next observer: its lambda looks at the track.
Serve(p) ==
  /\ p \in pending
  /\ pending' = pending \ {p}
  /\ given' = [given EXCEPT ![p] = pkt]
  /\ IF track[p] = "open"
       THEN Move("serve", "send") /\ serving' = p
       ELSE Move("serve", "serve") /\ UNCHANGED serving
  /\ UNCHANGED <<start, clock, encoding, start_ts_, sent, passed, track,
                 dead>>

\* Mutant of Origin: every packet sets start_ts_.
OriginAlways(p) == Pts(pkt)

\* start_ts_, 0 for unset.
Origin(p) == IF start_ts_[p] = 0 THEN Pts(pkt) ELSE start_ts_[p]

\* The rest of the lambda; the track may have shut since it was looked at.
SendFrame ==
  /\ Move("send", "serve")
  /\ start_ts_' = [start_ts_ EXCEPT ![serving] = Origin(serving)]
  /\ sent' = [sent EXCEPT ![serving] =
                IF track[serving] = "open"
                  THEN Append(@, [pts |-> Pts(pkt),
                                  time |-> Pts(pkt) - Origin(serving)])
                  ELSE @]
  /\ serving' = NoPeer
  /\ UNCHANGED <<start, clock, encoding, pending, calls, track, dead>>

\* Mutant of Unref: Next is left before it has come to everybody.
UnrefEarly ==
  /\ Move("serve", "receive")
  /\ pkt' = 0
  /\ UNCHANGED <<start, clock, frame, video_start_ts_, codec, holders,
                 pending, delivery, track, dead>>

\* Next is done: the packet that the H264FrameBuffer points into is blank.
Unref ==
  /\ Move("serve", "receive")
  /\ pending = {}
  /\ pkt' = 0
  /\ UNCHANGED <<start, clock, frame, video_start_ts_, codec, holders,
                 pending, delivery, track, dead>>

\* Mutant of FreeFrame: there is no holder, and the picture goes with
\* EncodeBuffer's own pointer.
FreePicture ==
  /\ Move("free", "idle")
  /\ holders' = holders \ {frame}
  /\ frame' = 0
  /\ UNCHANGED <<start, clock, video_start_ts_, codec, pkt, pending, delivery,
                 track, dead>>

\* av_frame_free; releaseBuffer deletes the holder when libav has let go too.
FreeFrame ==
  /\ Move("free", "idle")
  /\ holders' = holders \ ({frame} \ Held)
  /\ frame' = 0
  /\ UNCHANGED <<start, clock, video_start_ts_, codec, pkt, pending, delivery,
                 track, dead>>

\* An error of libav, or of a track that has shut, is thrown through
\* CaptureImage, and nothing on the capture thread catches it.
Throw ==
  /\ \/ pc \in {"encode", "receive"}
     \/ pc = "send" /\ track[serving] \in {"shut", "gone"}
  /\ Die("uncaught")

-----------------------------------------------------------------------------
(* The peers: SubscribeEncoder on the io thread, their tracks on the       *)
(* library's, ~RtcPeer on the io or the cleaner thread.                    *)

Turn(p, from, to) ==
  /\ start = "encoder"
  /\ track[p] \in from
  /\ track' = [track EXCEPT ![p] = to]
  /\ UNCHANGED <<start, pc, clock, encoding, delivery, dead>>

\* A Next that is running comes to the new entry of the list, or has passed
\* it before the Observable has its lambda.
SubscribeEncoder(p) ==
  /\ Turn(p, {"none"}, "closed")
  /\ \/ UNCHANGED pending
     \/ pc \in {"serve", "send"} /\ pending' = pending \cup {p}

Open(p) == Turn(p, {"closed"}, "open") /\ UNCHANGED pending
Shut(p) == Turn(p, {"closed", "open"}, "shut") /\ UNCHANGED pending

\* ~RtcPeer: Terminate has closed the connection, and with it the track, when
\* encoder_observer_ is reset.
Leave(p) == Turn(p, {"shut"}, "gone") /\ pending' = pending \ {p}

-----------------------------------------------------------------------------
Main == CreateCapturer \/ InitVideoCodec \/ SubscribeVideoSource
CaptureThread ==
  \/ Capture \/ NextBuffer \/ EncodeBuffer \/ Packet \/ Again \/ SendFrame
  \/ Unref \/ FreeFrame
  \/ \E p \in Peers : Serve(p)
Peer(p) == SubscribeEncoder(p) \/ Open(p) \/ Shut(p) \/ Leave(p)

\* The last frame was taken, or the process has ended.
Over == (dead # "no" \/ clock = MaxTime) /\ UNCHANGED vars

Next ==
  \/ /\ dead = "no"
     /\ Main \/ CaptureThread \/ Throw \/ \E p \in Peers : Peer(p)
  \/ Over

Spec == Init /\ [][Next]_vars

\* The capture thread keeps running.
FairSpec == Spec /\ WF_vars(dead = "no" /\ CaptureThread)

-----------------------------------------------------------------------------
\* The times of a peer's frames increase.  start_ts_ takes 0 for unset, and
\* the first packet of the program has pts 0: only the peer that is sent
\* that one gets two frames with time 0, the second of them too early.
TimesIncrease ==
  \A p \in Peers : \A i \in 1..(Len(sent[p]) - 1) :
    \/ sent[p][i].time < sent[p][i + 1].time
    \/ i = 1 /\ sent[p][1].pts = 0 /\ sent[p][2].time = 0

\* What libav and the peers read is there for as long as they may: the
\* picture of every frame that libav holds back, though EncodeBuffer has
\* returned and the camera's buffer is filled again, and the packet that the
\* H264FrameBuffer points into.  No holder outlives its frame.
DataKept ==
  /\ Held \subseteq holders
  /\ pc \in {"serve", "send"} => pkt # 0
  /\ pc = "idle" => holders \subseteq Held

Broadcast ==
  INSTANCE Broadcast WITH
    Observers <- Peers, members <- Members, left <- Departed,
    message <- passed, due <- pending, busy <- pc \in {"serve", "send"},
    last <- given, running <- dead = "no"

\* The packets go to the peers as a Broadcast's messages do, each later than
\* the one before: this is all that is taken for granted of Next here.
IsBroadcast == Broadcast!Spec

\* What the capture thread has left to do with a frame: a round of receive
\* and serve for each frame that libav holds.
Ahead ==
  CASE pc = "idle"              -> 0
    [] pc = "free"              -> 1
    [] pc = "receive"           -> 2 * Len(codec) + 2
    [] pc \in {"serve", "send"} -> 2 * Len(codec) + 3
    [] pc = "encode"            -> 2 * Len(codec) + 5
    [] pc = "next"              -> 2 * Len(codec) + 6

\* In the observers' callbacks the capture thread never goes round in place.
\* Each step has less ahead, or fewer peers to call with the packet in hand,
\* or comes back from one; and what peers do meanwhile, though they may add
\* to those to call, takes nothing back of the rest.
EncodeAdvances ==
  [][/\ pc # "idle" => Ahead' <= Ahead
     /\ pc # "idle" /\ CaptureThread =>
          \/ Ahead' < Ahead
          \/ pending' \subseteq pending /\ pending' # pending
          \/ pending' = pending /\ pc = "send" /\ pc' = "serve"]_vars

\* Whatever libav returns, the capture thread comes back from the observers
\* and gives the camera its buffer again, or the process ends.
EncodeReturns == pc # "idle" ~> (pc = "idle" \/ dead # "no")
=============================================================================
