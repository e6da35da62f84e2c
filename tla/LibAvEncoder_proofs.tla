------------------------- MODULE LibAvEncoder_proofs -------------------------
(* Theorems about LibAvEncoder for every set of peers and any number of      *)
(* frames.                                                                   *)
EXTENDS LibAvEncoder, TLAPS

USE DEF encoding, calls, delivery, state, vars, Move

\* The capture thread's step changes these; the others leave them alone, but
\* for what Next has yet to call.
stream == <<pc, clock, encoding, delivery>>

-----------------------------------------------------------------------------
(* TypeOK in the parts that a step can disturb apart from each other.      *)

Sent == [pts: 0..MaxTime, time: 0..MaxTime]

ControlOK ==
  /\ start \in {"none", "capturer", "codec", "encoder"}
  /\ pc \in {"idle", "next", "encode", "receive", "serve", "send", "free"}
  /\ pending \subseteq Peers
  /\ serving \in Peers \cup {NoPeer}
  /\ track \in [Peers -> {"none", "closed", "open", "shut", "gone"}]
  /\ dead \in {"no", "uncaught", "vector_race"}

FramesOK ==
  /\ clock \in 0..MaxTime
  /\ frame \in 0..MaxTime
  /\ video_start_ts_ \in 0..MaxTime
  /\ pkt \in 0..MaxTime
  /\ holders \subseteq 1..MaxTime

CodecOK == codec \in Seq(1..MaxTime)

SentOK ==
  /\ start_ts_ \in [Peers -> 0..MaxTime]
  /\ sent \in [Peers -> Seq(Sent)]

CallsOK ==
  /\ passed \in 0..MaxTime
  /\ given \in [Peers -> 0..MaxTime]

Typed == ControlOK /\ FramesOK /\ CodecOK /\ SentOK /\ CallsOK

LEMMA TypedIsTypeOK == TypeOK <=> Typed
BY DEF TypeOK, Typed, ControlOK, FramesOK, CodecOK, SentOK, CallsOK, Sent

\* The same without the bound.
LEMMA Numbers ==
  ASSUME FramesOK
  PROVE  /\ clock \in Nat /\ frame \in Nat /\ video_start_ts_ \in Nat
         /\ pkt \in Nat /\ MaxTime \in Nat /\ 0 \in 0..MaxTime
BY EncoderAssumption DEF FramesOK

LEMMA CodecNumbers ==
  ASSUME CodecOK
  PROVE  /\ Len(codec) \in Nat /\ DOMAIN codec = 1..Len(codec)
         /\ \A i \in DOMAIN codec : codec[i] \in 1..MaxTime /\ codec[i] \in Nat
BY EncoderAssumption DEF CodecOK

LEMMA SentNumbers ==
  ASSUME SentOK, NEW p \in Peers
  PROVE  /\ Len(sent[p]) \in Nat /\ DOMAIN sent[p] = 1..Len(sent[p])
         /\ \A i \in DOMAIN sent[p] : sent[p][i].pts \in Nat
                                     /\ sent[p][i].time \in Nat
         /\ start_ts_[p] \in Nat /\ sent[p] \in Seq(Sent)
         /\ sent[p] = <<>> <=> Len(sent[p]) = 0
<1>1. sent[p] \in Seq(Sent) /\ start_ts_[p] \in 0..MaxTime
  BY DEF SentOK
<1>2. /\ Len(sent[p]) \in Nat /\ DOMAIN sent[p] = 1..Len(sent[p])
      /\ sent[p] = <<>> <=> Len(sent[p]) = 0
      /\ \A i \in DOMAIN sent[p] : sent[p][i] \in Sent
  BY <1>1
<1>3. \A r \in Sent : r.pts \in Nat /\ r.time \in Nat
  BY EncoderAssumption DEF Sent
<1> QED
  BY <1>1, <1>2, <1>3, EncoderAssumption

-----------------------------------------------------------------------------
(* Data: TypeOK and DataKept.                                              *)

\* The frame of EncodeBuffer and the packet of encode() are there between
\* the labels that make and release them, and the lambda has its peer.
Labelled ==
  /\ pc \in {"idle", "next", "encode"} => frame = 0
  /\ pc \in {"serve", "send"} <=> pkt # 0
  /\ pc = "send" <=> serving # NoPeer
  /\ pc = "send" =>
       /\ serving \notin pending
       /\ track[serving] \in {"open", "shut", "gone"}

\* A holder is kept for a frame that libav or EncodeBuffer refers to.
Kept ==
  /\ Held \subseteq holders
  /\ holders \subseteq Held \cup {frame}

-----------------------------------------------------------------------------
(* Order: frames come out of libav as they went in.                        *)

\* Peer p was given nothing as late as frame f.
Before(p, f) == \A i \in DOMAIN sent[p] : sent[p][i].pts < f - video_start_ts_

Ascending ==
  /\ \A i, j \in DOMAIN codec : i < j => codec[i] < codec[j]
  /\ \A i \in DOMAIN codec :
       /\ video_start_ts_ <= codec[i] /\ codec[i] <= clock
       /\ pkt < codec[i]
       /\ pc \in {"next", "encode"} => codec[i] < clock
  /\ pkt # 0 => video_start_ts_ <= pkt /\ pkt <= clock
  /\ pc \in {"next", "encode"} => clock > 0
  /\ video_start_ts_ <= clock
  /\ video_start_ts_ = 0 =>
       codec = <<>> /\ pkt = 0 /\ \A p \in Peers : sent[p] = <<>>

InOrder ==
  \A p \in Peers :
    /\ \A i \in DOMAIN codec : Before(p, codec[i])
    /\ pc \in {"next", "encode"} => Before(p, clock)
    /\ \A i \in DOMAIN sent[p] : sent[p][i].pts <= clock - video_start_ts_
    /\ pkt # 0 /\ (p \in pending \/ p = serving) => Before(p, pkt)
    /\ \A i, j \in DOMAIN sent[p] : i < j => sent[p][i].pts < sent[p][j].pts

\* A peer that has not subscribed was sent nothing.
Unsent == \A p \in Peers : track[p] = "none" => sent[p] = <<>>

\* The packet in hand is the one passed last, before all that libav holds.
Passing ==
  /\ pkt # 0 => passed = pkt
  /\ \A i \in DOMAIN codec : passed < codec[i]
  /\ pc \in {"next", "encode"} => passed < clock
  /\ passed <= clock
  /\ pending # {} => pkt # 0

\* start_ts_ is the pts of the first frame, or of the second one when the
\* first has pts 0; a shut track may leave it ahead of what was sent.
Timed ==
  \A p \in Peers :
    /\ sent[p] # <<>> => sent[p][1].time = 0
    /\ \A i \in DOMAIN sent[p] \ {1} :
         start_ts_[p] > 0 /\ sent[p][i].time = sent[p][i].pts - start_ts_[p]
    /\ Len(sent[p]) > 1 =>
         \/ start_ts_[p] = sent[p][1].pts
         \/ sent[p][1].pts = 0 /\ start_ts_[p] = sent[p][2].pts
    /\ track[p] \notin {"shut", "gone"} =>
         /\ sent[p] = <<>> => start_ts_[p] = 0
         /\ Len(sent[p]) = 1 => start_ts_[p] = sent[p][1].pts

Inv ==
  Labelled /\ Kept /\ Ascending /\ InOrder /\ Unsent /\ Passing /\ Timed
IInv == Typed /\ Inv

LEMMA InitIInv == Init => IInv
<1> SUFFICES ASSUME Init PROVE IInv
  OBVIOUS
<1>1. Typed
  BY EncoderAssumption DEF Init, Typed, ControlOK, FramesOK, CodecOK, SentOK,
    CallsOK
<1>2. Inv
  BY EncoderAssumption DEF Init, Inv, Labelled, Kept, Held, Ascending,
    InOrder, Before, Unsent, Passing, Timed
<1> QED
  BY <1>1, <1>2 DEF IInv

\* Steps of other threads, and the end of the process.
LEMMA StayIInv ==
  ASSUME IInv, UNCHANGED <<stream, pending, track>>,
         start' \in {"none", "capturer", "codec", "encoder"},
         dead' \in {"no", "uncaught", "vector_race"}
  PROVE  IInv'
<1>1. Typed'
  BY DEF stream, IInv, Typed, ControlOK, FramesOK, CodecOK, SentOK, CallsOK
<1>2. Inv'
  BY DEF stream, IInv, Inv, Labelled, Kept, Held, Ascending, InOrder, Before,
    Unsent, Passing, Timed
<1> QED
  BY <1>1, <1>2 DEF IInv

LEMMA DieIInv ==
  ASSUME IInv, NEW cause \in {"uncaught", "vector_race"}, Die(cause)
  PROVE  IInv'
BY StayIInv DEF Die, stream, IInv, Typed, ControlOK

LEMMA MainIInv == ASSUME IInv, Main PROVE IInv'
<1> USE DEF Main, stream, IInv, Typed, ControlOK
<1>1. CASE CreateCapturer
  BY <1>1, StayIInv DEF CreateCapturer
<1>2. CASE InitVideoCodec
  BY <1>2, StayIInv, DieIInv DEF InitVideoCodec
<1>3. CASE SubscribeVideoSource
  BY <1>3, StayIInv, DieIInv DEF SubscribeVideoSource
<1> QED
  BY <1>1, <1>2, <1>3

\* A track goes one way: it is not opened again once it is shut.  A peer may
\* subscribe, and leave, while Next runs.
LEMMA PeerIInv == ASSUME IInv, NEW p \in Peers, Peer(p) PROVE IInv'
<1>1. PICK to \in {"closed", "open", "shut", "gone"} :
        \E from \in SUBSET {"none", "closed", "open", "shut"} :
          /\ Turn(p, from, to)
          /\ "open" \in from => to = "shut"
          /\ "shut" \in from => to = "gone"
          /\ \/ UNCHANGED pending
             \/ pending' = pending \ {p}
             \/ /\ from = {"none"} /\ pending' = pending \cup {p}
                /\ pc \in {"serve", "send"}
  BY DEF Peer, SubscribeEncoder, Open, Shut, Leave
<1>2. Typed'
  BY <1>1 DEF Turn, IInv, Typed, ControlOK, FramesOK, CodecOK, SentOK, CallsOK
<1>3. /\ track' = [track EXCEPT ![p] = to]
      /\ track[p] = "open" => to = "shut"
      /\ track[p] = "shut" => to = "gone"
      /\ track[p] # "gone"
  BY <1>1 DEF Turn
<1>4. UNCHANGED stream
  BY <1>1 DEF Turn, stream
<1>5. /\ pending' \subseteq pending \cup {p}
      /\ p \in pending' \ pending =>
           track[p] = "none" /\ pc \in {"serve", "send"}
  BY <1>1 DEF Turn
<1>6. Labelled'
  BY <1>3, <1>4, <1>5, EncoderAssumption DEF stream, IInv, Inv, Typed,
    ControlOK, Labelled
<1>7. Timed' /\ Unsent'
  BY <1>3, <1>4 DEF stream, IInv, Inv, Typed, ControlOK, Unsent, Timed
<1>8. Kept' /\ Ascending'
  BY <1>4 DEF stream, IInv, Inv, Kept, Held, Ascending
<1>9. Passing'
  BY <1>4, <1>5 DEF stream, IInv, Inv, Labelled, Passing
<1>10. InOrder'
  <2>1. p \in pending' \ pending => sent[p] = <<>> /\ DOMAIN sent[p] = {}
    BY <1>5 DEF IInv, Inv, Unsent
  <2> QED
    BY <1>4, <1>5, <2>1 DEF stream, IInv, Inv, InOrder, Before
<1> QED
  BY <1>2, <1>6, <1>7, <1>8, <1>9, <1>10 DEF IInv, Inv

-----------------------------------------------------------------------------
(* The capture thread.                                                     *)

LEMMA CaptureIInv == ASSUME IInv, Capture PROVE IInv'
<1> USE DEF IInv, Inv, Capture
<1>1. clock' \in Nat /\ clock' > clock /\ clock' \in 0..MaxTime
  BY Numbers DEF Typed
<1>2. Typed'
  BY <1>1 DEF Typed, ControlOK, FramesOK, CodecOK, SentOK, CallsOK
<1>3. Labelled' /\ Kept' /\ Unsent' /\ Timed'
  BY DEF Labelled, Kept, Held, Unsent, Timed
<1>4. Ascending'
  BY <1>1, Numbers, CodecNumbers DEF Typed, Ascending, Labelled
<1>5. ASSUME NEW p \in Peers, NEW i \in DOMAIN sent[p]
      PROVE  sent[p][i].pts < clock' - video_start_ts_
  <2>1. sent[p][i].pts \in Nat /\ sent[p][i].pts <= clock - video_start_ts_
    BY SentNumbers DEF Typed, InOrder
  <2> QED
    BY <2>1, <1>1, Numbers DEF Typed
<1>6. InOrder'
  <2>1. \A p \in Peers : \A i \in DOMAIN sent[p] :
          sent[p][i].pts <= clock' - video_start_ts_
    BY <1>1, <1>5, Numbers, SentNumbers DEF Typed
  <2> QED
    BY <1>5, <2>1 DEF InOrder, Before, Labelled
<1>7. Passing'
  BY <1>1, Numbers DEF Typed, CallsOK, Passing, Labelled
<1> QED
  BY <1>2, <1>3, <1>4, <1>6, <1>7

LEMMA NextBufferIInv == ASSUME IInv, NextBuffer PROVE IInv'
<1> USE DEF IInv, Inv, NextBuffer
<1>1. Typed'
  BY DEF Typed, ControlOK, FramesOK, CodecOK, SentOK, CallsOK
<1>2. Labelled' /\ Kept' /\ Unsent' /\ Timed'
  BY DEF Labelled, Kept, Held, Unsent, Timed
<1>3. Ascending' /\ InOrder'
  BY DEF Ascending, InOrder, Before
<1>4. Passing'
  BY DEF Passing
<1> QED
  BY <1>1, <1>2, <1>3, <1>4

LEMMA EncodeBufferIInv == ASSUME IInv, EncodeBuffer PROVE IInv'
<1> USE DEF IInv, Inv, EncodeBuffer
<1>1. clock \in 1..MaxTime /\ clock \in Nat /\ clock > 0
  BY Numbers DEF Typed, FramesOK, Ascending
<1>2. Typed'
  <2>1. video_start_ts_' \in 0..MaxTime /\ holders' \subseteq 1..MaxTime
    BY <1>1, Numbers DEF Typed, FramesOK
  <2>2. ControlOK' /\ SentOK' /\ CodecOK' /\ CallsOK'
    BY <1>1 DEF Typed, ControlOK, CodecOK, SentOK, CallsOK
  <2> QED
    BY <2>1, <2>2 DEF Typed, FramesOK
<1>3. /\ DOMAIN codec = 1..Len(codec) /\ Len(codec) \in Nat
      /\ DOMAIN codec' = 1..(Len(codec) + 1)
      /\ codec'[Len(codec) + 1] = clock
      /\ \A i \in DOMAIN codec : codec'[i] = codec[i]
  BY DEF Typed, CodecOK
<1>4. Held' = Held \cup {clock}
  BY <1>3 DEF Held
<1>5. Labelled'
  BY <1>1 DEF Labelled
<1>6. Kept'
  <2>1. frame = 0 /\ 0 \notin holders
    BY DEF Labelled, Typed, FramesOK
  <2> QED
    BY <1>4, <2>1 DEF Kept
<1>12. Timed' /\ Unsent'
  BY DEF Timed, Unsent
<1>13. Passing'
  BY <1>1, <1>3 DEF Passing, Labelled
<1>7. Ascending'
  <2>1. \A i \in DOMAIN codec : codec[i] < clock /\ codec[i] \in Nat
    BY CodecNumbers DEF Typed, Ascending
  <2>2. pkt = 0 /\ video_start_ts_' \in Nat /\ video_start_ts_' > 0
        /\ video_start_ts_' <= clock
    BY <1>1, Numbers DEF Typed, Labelled, Ascending
  <2>3. \A i \in DOMAIN codec : video_start_ts_' <= codec[i] /\ codec[i] > 0
    BY <2>1, CodecNumbers, Numbers DEF Typed, Ascending
  <2> QED
    BY <1>1, <1>3, <2>1, <2>2, <2>3 DEF Ascending
<1>8. InOrder'
  <2>1. CASE video_start_ts_ = 0
    <3>1. \A p \in Peers : sent'[p] = <<>>
      BY <2>1 DEF Ascending
    <3>2. \A p \in Peers : DOMAIN sent'[p] = {}
      BY <3>1
    <3> QED
      BY <3>2 DEF InOrder, Before
  <2>2. CASE video_start_ts_ # 0
    <3>1. UNCHANGED <<video_start_ts_, sent, clock, pending, serving, pkt>>
      BY <2>2
    <3>2. ASSUME NEW p \in Peers, NEW i \in DOMAIN codec'
          PROVE  Before(p, codec[i])'
      <4>1. \A j \in DOMAIN codec : Before(p, codec[j])
        BY DEF InOrder
      <4>2. Before(p, clock)
        BY DEF InOrder
      <4>3. codec'[i] = clock \/ \E j \in DOMAIN codec : codec'[i] = codec[j]
        BY <1>3
      <4> QED
        BY <3>1, <4>1, <4>2, <4>3 DEF Before
    <3> QED
      BY <3>1, <3>2 DEF InOrder, Before
  <2> QED
    BY <2>1, <2>2
<1> QED
  BY <1>2, <1>5, <1>6, <1>7, <1>8, <1>12, <1>13

LEMMA PacketIInv == ASSUME IInv, Packet PROVE IInv'
<1> USE DEF IInv, Inv, Packet
<1>1. /\ Len(codec) \in Nat /\ DOMAIN codec = 1..Len(codec) /\ Len(codec) > 0
      /\ Head(codec) = codec[1]
      /\ Len(codec') = Len(codec) - 1 /\ DOMAIN codec' = 1..(Len(codec) - 1)
      /\ \A i \in DOMAIN codec' : codec'[i] = codec[i + 1]
      /\ codec' \in Seq(1..MaxTime)
  BY DEF Typed, CodecOK
<1>2. /\ 1 \in DOMAIN codec /\ codec[1] \in 1..MaxTime /\ codec[1] \in Nat
      /\ \A i \in DOMAIN codec' : i + 1 \in DOMAIN codec
  BY <1>1, CodecNumbers DEF Typed
<1>3. Typed'
  <2>1. ControlOK' /\ CodecOK' /\ SentOK'
    BY <1>1 DEF Typed, ControlOK, CodecOK, SentOK, Members
  <2>2. pkt' \in 0..MaxTime
    BY <1>1, <1>2, EncoderAssumption
  <2>3. FramesOK'
    BY <2>2 DEF Typed, FramesOK
  <2>4. CallsOK'
    BY <2>2 DEF Typed, CallsOK
  <2> QED
    BY <2>1, <2>3, <2>4 DEF Typed
<1>4. \A i \in DOMAIN codec' : codec[1] < codec'[i]
  BY <1>1, <1>2 DEF Ascending
<1>5. Held = Held' \cup {Head(codec)}
  <2>1. \A i \in DOMAIN codec \ {1} : i - 1 \in DOMAIN codec'
                                      /\ codec[i] = codec'[i - 1]
    BY <1>1
  <2>2. \A i \in DOMAIN codec' : codec'[i] \in Held
    BY <1>1, <1>2 DEF Held
  <2>3. \A i \in DOMAIN codec : codec[i] \in Held' \cup {Head(codec)}
    BY <1>1, <2>1 DEF Held
  <2>4. Head(codec) \in Held
    BY <1>1, <1>2 DEF Held
  <2> QED
    BY <2>2, <2>3, <2>4 DEF Held
<1>6. Head(codec) \notin Held'
  BY <1>1, <1>2, <1>4 DEF Held
<1>7. Labelled'
  BY <1>1, <1>2 DEF Labelled
<1>8. Kept'
  BY <1>5, <1>6 DEF Kept
<1>9. Ascending'
  <2>1. \A i \in DOMAIN codec' : \A j \in DOMAIN codec' :
          i < j => codec'[i] < codec'[j]
    <3> SUFFICES ASSUME NEW i \in DOMAIN codec', NEW j \in DOMAIN codec', i < j
                 PROVE  codec'[i] < codec'[j]
      OBVIOUS
    <3>1. i + 1 < j + 1
      BY <1>1
    <3> QED
      BY <1>1, <1>2, <3>1 DEF Ascending
  <2> QED
    BY <1>1, <1>2, <1>4, <2>1, Numbers DEF Ascending, Typed
<1>10. InOrder'
  BY <1>1, <1>2 DEF InOrder, Before
<1>11. Timed' /\ Unsent'
  BY DEF Timed, Unsent
<1>12. Passing'
  BY <1>1, <1>2, <1>4, Numbers DEF Typed, Ascending, Passing
<1> QED
  BY <1>3, <1>7, <1>8, <1>9, <1>10, <1>11, <1>12

LEMMA AgainIInv == ASSUME IInv, Again PROVE IInv'
<1> USE DEF IInv, Inv, Again
<1>1. Typed'
  BY DEF Typed, ControlOK, FramesOK, CodecOK, SentOK, CallsOK
<1>2. Labelled' /\ Kept' /\ Unsent' /\ Timed'
  BY DEF Labelled, Kept, Held, Unsent, Timed
<1>3. Ascending' /\ InOrder'
  BY DEF Ascending, InOrder, Before
<1>4. Passing'
  BY DEF Passing
<1> QED
  BY <1>1, <1>2, <1>3, <1>4

LEMMA ServeIInv == ASSUME IInv, NEW p \in Peers, Serve(p) PROVE IInv'
<1> USE DEF IInv, Inv, Serve
<1>1. Typed'
  BY DEF Typed, ControlOK, FramesOK, CodecOK, SentOK, CallsOK
<1>2. Labelled'
  BY EncoderAssumption DEF Labelled
<1>3. Kept' /\ Timed' /\ Unsent'
  BY DEF Kept, Held, Timed, Unsent
<1>4. Ascending' /\ InOrder'
  BY EncoderAssumption DEF Ascending, InOrder, Before, Labelled
<1>5. Passing'
  BY DEF Passing
<1> QED
  BY <1>1, <1>2, <1>3, <1>4, <1>5

LEMMA UnrefIInv == ASSUME IInv, Unref PROVE IInv'
<1> USE DEF IInv, Inv, Unref
<1>1. Typed'
  BY Numbers DEF Typed, ControlOK, FramesOK, CodecOK, SentOK, CallsOK
<1>2. Labelled' /\ Kept' /\ Unsent' /\ Timed'
  BY DEF Labelled, Kept, Held, Unsent, Timed
<1>3. Ascending'
  BY CodecNumbers, Numbers DEF Ascending, Typed
<1>4. InOrder'
  BY DEF InOrder, Before
<1>5. Passing'
  BY DEF Passing
<1> QED
  BY <1>1, <1>2, <1>3, <1>4, <1>5

LEMMA FreeFrameIInv == ASSUME IInv, FreeFrame PROVE IInv'
<1> USE DEF IInv, Inv, FreeFrame
<1>1. Typed'
  BY Numbers DEF Typed, ControlOK, FramesOK, CodecOK, SentOK, CallsOK
<1>2. Labelled' /\ Timed' /\ Unsent' /\ Passing'
  BY DEF Labelled, Timed, Unsent, Passing
<1>3. Held' = Held
  BY DEF Held
<1>4. Kept'
  BY <1>3 DEF Kept
<1>5. Ascending' /\ InOrder'
  BY DEF Ascending, InOrder, Before, Labelled
<1> QED
  BY <1>1, <1>2, <1>4, <1>5

LEMMA ZeroOneMore == \A n \in Nat : n = 0 \/ n = 1 \/ n > 1
OBVIOUS

\* What the lambda gives its peer comes after all it was given before, and
\* before all that libav still holds.
LEMMA SendFrameIInv == ASSUME IInv, SendFrame PROVE IInv'
<1> USE DEF IInv, Inv
<1>1. PICK p \in Peers :
        /\ p = serving /\ track[p] \in {"open", "shut", "gone"}
        /\ p \notin pending
        /\ pc = "send" /\ pc' = "serve" /\ serving' = NoPeer
        /\ UNCHANGED <<start, clock, encoding, pending, calls, track, dead>>
  BY DEF SendFrame, Typed, ControlOK, Labelled
<1> DEFINE pts == pkt - video_start_ts_
           origin == IF start_ts_[p] = 0 THEN pts ELSE start_ts_[p]
           n == Len(sent[p])
           new == [pts |-> pts, time |-> pts - origin]
<1>2. /\ pts \in Nat /\ pts \in 0..MaxTime /\ pts <= clock - video_start_ts_
      /\ pkt # 0 /\ pts = Pts(pkt)
  BY <1>1, Numbers DEF Typed, FramesOK, Labelled, Ascending, Pts
<1>3. /\ n \in Nat /\ DOMAIN sent[p] = 1..n /\ start_ts_[p] \in Nat
      /\ \A i \in 1..n : sent[p][i].pts \in Nat /\ sent[p][i].pts < pts
      /\ sent[p] = <<>> <=> n = 0
  BY <1>1, <1>2, SentNumbers DEF Typed, InOrder, Before
<1>4. /\ n > 0 => sent[p][1].time = 0
      /\ n > 1 => \/ start_ts_[p] = sent[p][1].pts
                  \/ sent[p][1].pts = 0 /\ start_ts_[p] = sent[p][2].pts
      /\ n > 1 => start_ts_[p] > 0
      /\ \A i \in 2..n : sent[p][i].time = sent[p][i].pts - start_ts_[p]
      /\ track[p] = "open" /\ n = 0 => start_ts_[p] = 0
      /\ track[p] = "open" /\ n = 1 => start_ts_[p] = sent[p][1].pts
  <2>1. \A i \in 2..n : i \in DOMAIN sent[p] \ {1}
    BY <1>3
  <2>2. n > 1 => 2 \in 2..n
    BY <1>3
  <2> QED
    BY <1>1, <1>3, <2>1, <2>2 DEF Timed
<1>5. track[p] = "open" => start_ts_[p] <= pts
  <2>1. CASE n = 0
    BY <1>2, <1>4, <2>1
  <2>2. CASE n = 1
    BY <1>2, <1>3, <1>4, <2>2
  <2>3. CASE n > 1
    BY <1>2, <1>3, <1>4, <2>3
  <2> QED
    BY <1>3, <2>1, <2>2, <2>3, ZeroOneMore
<1>6. /\ start_ts_' = [start_ts_ EXCEPT ![p] = origin]
      /\ origin \in 0..MaxTime /\ origin \in Nat
  BY <1>1, <1>2, <1>3 DEF SendFrame, Origin, Typed, SentOK
<1>7. sent' = [sent EXCEPT ![p] =
                 IF track[p] = "open" THEN Append(@, new) ELSE @]
  BY <1>1, <1>2, <1>6 DEF SendFrame, Origin
<1>8. /\ \A q \in Peers \ {p} :
           sent'[q] = sent[q] /\ start_ts_'[q] = start_ts_[q]
      /\ start_ts_'[p] = origin
  BY <1>1, <1>6, <1>7 DEF Typed, SentOK
<1>9. Labelled'
  BY <1>1, <1>2, EncoderAssumption DEF Labelled
<1>10. Kept'
  BY <1>1 DEF Kept, Held
<1>11. Ascending'
  BY <1>1, <1>2, CodecNumbers DEF Ascending, Typed
<1>12. ControlOK' /\ FramesOK' /\ CodecOK' /\ CallsOK'
  BY <1>1, EncoderAssumption DEF Typed, ControlOK, FramesOK, CodecOK, CallsOK
<1>13. Passing' /\ Unsent'
  BY <1>1, <1>7 DEF Passing, Unsent
<1>14. CASE track[p] # "open"
  <2>1. sent' = sent /\ track[p] \in {"shut", "gone"}
    BY <1>1, <1>7, <1>14 DEF Typed, SentOK
  <2>2. SentOK'
    BY <1>1, <1>6, <2>1 DEF Typed, SentOK
  <2>3. InOrder'
    BY <1>1, <2>1, EncoderAssumption DEF InOrder, Before
  <2>4. n > 1 => origin = start_ts_[p]
    BY <1>3, <1>4
  <2>5. Timed'
    <3>1. DOMAIN sent[p] \ {1} = 2..n
      BY <1>3
    <3> QED
      BY <1>1, <1>3, <1>4, <1>8, <2>1, <2>4, <3>1 DEF Timed
  <2> QED
    BY <1>9, <1>10, <1>11, <1>12, <1>13, <2>2, <2>3, <2>5 DEF Typed
<1>15. CASE track[p] = "open"
  <2>1. sent'[p] = Append(sent[p], new) /\ pts - origin \in 0..MaxTime
    BY <1>1, <1>2, <1>3, <1>5, <1>7, <1>15, EncoderAssumption DEF Typed, SentOK
  <2>2. new \in Sent
    BY <1>2, <2>1 DEF Sent
  <2>3. SentOK'
    <3>1. sent'[p] \in Seq(Sent)
      BY <1>1, <2>1, <2>2, SentNumbers DEF Typed
    <3> QED
      BY <1>1, <1>6, <1>7, <3>1 DEF Typed, SentOK
  <2>4. /\ DOMAIN sent'[p] = 1..(n + 1) /\ Len(sent'[p]) = n + 1
        /\ sent'[p][n + 1] = new
        /\ \A i \in 1..n : sent'[p][i] = sent[p][i]
    BY <1>1, <1>3, <2>1, SentNumbers DEF Typed
  <2>5. new.pts = pts /\ new.time = pts - origin
    OBVIOUS
  <2> HIDE DEF new
  <2>6. InOrder'
    <3>1. \A i \in 1..(n + 1) :
            sent'[p][i].pts \in Nat /\ sent'[p][i].pts <= pts
      BY <1>2, <1>3, <2>4, <2>5
    <3>2. ASSUME NEW i \in DOMAIN codec PROVE Before(p, codec[i])'
      <4>1. codec[i] \in Nat /\ pkt < codec[i]
        BY CodecNumbers DEF Ascending, Typed
      <4>2. pts < codec[i] - video_start_ts_
        BY <4>1, Numbers DEF Typed
      <4>3. \A j \in DOMAIN sent'[p] :
              sent'[p][j].pts < codec[i] - video_start_ts_
        BY <1>2, <2>4, <3>1, <4>1, <4>2, Numbers DEF Typed
      <4> QED
        BY <1>1, <4>3 DEF Before
    <3>3. \A i \in DOMAIN sent'[p] : sent'[p][i].pts <= clock - video_start_ts_
      BY <1>2, <2>4, <3>1, Numbers DEF Typed
    <3>4. \A i, j \in DOMAIN sent'[p] :
            i < j => sent'[p][i].pts < sent'[p][j].pts
      <4>1. \A i, j \in 1..n : i < j => sent[p][i].pts < sent[p][j].pts
        BY <1>1, <1>3 DEF InOrder
      <4>2. \A i \in 1..n : sent'[p][i].pts < sent'[p][n + 1].pts
        BY <1>3, <2>4, <2>5
      <4>3. \A i, j \in 1..(n + 1) :
              i < j => i \in 1..n /\ (j = n + 1 \/ j \in 1..n)
        BY <1>3
      <4> QED
        BY <2>4, <4>1, <4>2, <4>3
    <3>5. ASSUME NEW q \in Peers \ {p}
          PROVE  /\ \A i \in DOMAIN codec : Before(q, codec[i])'
                 /\ \A i \in DOMAIN sent'[q] :
                      sent'[q][i].pts <= clock - video_start_ts_
                 /\ q \in pending => Before(q, pkt)'
                 /\ \A i, j \in DOMAIN sent'[q] :
                      i < j => sent'[q][i].pts < sent'[q][j].pts
      BY <1>1, <1>2, <1>8 DEF InOrder, Before
    <3>6. \A q \in Peers :
            /\ \A i \in DOMAIN codec : Before(q, codec[i])'
            /\ \A i \in DOMAIN sent'[q] :
                 sent'[q][i].pts <= clock - video_start_ts_
            /\ q \in pending => Before(q, pkt)'
            /\ \A i, j \in DOMAIN sent'[q] :
                 i < j => sent'[q][i].pts < sent'[q][j].pts
      BY <1>1, <3>2, <3>3, <3>4, <3>5
    <3> QED
      BY <1>1, <3>6, EncoderAssumption DEF InOrder
  <2>7. Timed'
    <3>1. /\ sent'[p][1].time = 0
          /\ \A i \in 2..(n + 1) :
               /\ start_ts_'[p] > 0
               /\ sent'[p][i].time = sent'[p][i].pts - start_ts_'[p]
          /\ n > 0 =>
               \/ start_ts_'[p] = sent'[p][1].pts
               \/ sent'[p][1].pts = 0 /\ start_ts_'[p] = sent'[p][2].pts
          /\ n = 0 => start_ts_'[p] = sent'[p][1].pts
      <4>1. CASE n = 0
        BY <1>2, <1>4, <1>8, <1>15, <2>4, <2>5, <4>1
      <4>2. CASE n = 1
        <5>1. /\ 0 <= start_ts_[p] /\ start_ts_[p] < pts
              /\ sent'[p][1] = sent[p][1]
          BY <1>2, <1>3, <1>4, <1>15, <2>4, <4>2
        <5>2. origin > 0 /\ sent'[p][2] = new
          BY <1>2, <1>3, <2>4, <4>2, <5>1
        <5>3. \A i \in 2..(n + 1) : i = 2
          BY <4>2
        <5> QED
          BY <1>2, <1>3, <1>4, <1>8, <1>15, <2>5, <4>2, <5>1, <5>2, <5>3
      <4>3. CASE n > 1
        <5>1. origin = start_ts_[p] /\ start_ts_[p] > 0
          BY <1>3, <1>4, <4>3
        <5>2. sent'[p][1] = sent[p][1] /\ sent'[p][2] = sent[p][2]
          BY <1>3, <2>4, <4>3
        <5>3. \A i \in 2..(n + 1) : i = n + 1 \/ i \in 2..n
          BY <1>3
        <5>4. \A i \in 2..n : sent'[p][i] = sent[p][i]
          BY <1>3, <2>4
        <5>5. \A i \in 2..(n + 1) :
                sent'[p][i].time = sent'[p][i].pts - start_ts_[p]
          BY <1>4, <2>4, <2>5, <5>1, <5>3, <5>4
        <5> QED
          BY <1>4, <1>8, <4>3, <5>1, <5>2, <5>5
      <4> QED
        BY <1>3, <4>1, <4>2, <4>3, ZeroOneMore
    <3>2. DOMAIN sent'[p] \ {1} = 2..(n + 1) /\ sent'[p] # <<>>
      <4>1. n + 1 > 0 /\ 1..(n + 1) \ {1} = 2..(n + 1)
        BY <1>3
      <4>2. Len(<<>>) = 0
        OBVIOUS
      <4> QED
        BY <2>4, <4>1, <4>2
    <3>3. ASSUME NEW q \in Peers \ {p}
          PROVE  /\ sent'[q] # <<>> => sent'[q][1].time = 0
                 /\ \A i \in DOMAIN sent'[q] \ {1} :
                      /\ start_ts_'[q] > 0
                      /\ sent'[q][i].time = sent'[q][i].pts - start_ts_'[q]
                 /\ Len(sent'[q]) > 1 =>
                      \/ start_ts_'[q] = sent'[q][1].pts
                      \/ sent'[q][1].pts = 0 /\ start_ts_'[q] = sent'[q][2].pts
                 /\ track'[q] \notin {"shut", "gone"} =>
                      /\ sent'[q] = <<>> => start_ts_'[q] = 0
                      /\ Len(sent'[q]) = 1 => start_ts_'[q] = sent'[q][1].pts
      BY <1>1, <1>8 DEF Timed
    <3>4. /\ Len(sent'[p]) > 1 => n > 0
          /\ Len(sent'[p]) = 1 => n = 0
      BY <1>3, <2>4
    <3> QED
      BY <3>1, <3>2, <3>3, <3>4 DEF Timed
  <2> QED
    BY <1>9, <1>10, <1>11, <1>12, <1>13, <2>3, <2>6, <2>7 DEF Typed
<1> QED
  BY <1>14, <1>15

LEMMA IInvNext == IInv /\ [Next]_vars => IInv'
<1> SUFFICES ASSUME IInv, [Next]_vars PROVE IInv'
  OBVIOUS
<1>1. CASE UNCHANGED vars
  BY <1>1, StayIInv DEF stream, IInv, Typed, ControlOK
<1>2. CASE Throw
  BY <1>2, DieIInv DEF Throw
<1> QED
  BY <1>1, <1>2, MainIInv, PeerIInv, CaptureIInv, NextBufferIInv,
    EncodeBufferIInv, PacketIInv, AgainIInv, ServeIInv, UnrefIInv,
    FreeFrameIInv, SendFrameIInv DEF Next, CaptureThread, Over

THEOREM Invariance == Spec => []IInv
BY InitIInv, IInvNext, PTL DEF Spec

-----------------------------------------------------------------------------
\* For every set of peers and every number of frames: types,
THEOREM TypeCorrect == Spec => []TypeOK
<1>1. IInv => TypeOK
  BY TypedIsTypeOK DEF IInv
<1> QED
  BY <1>1, Invariance, PTL

\* the times of a peer's frames increase, but for a second time 0 at the peer
\* that is sent the program's first packet,
THEOREM TimesCorrect == Spec => []TimesIncrease
<1>1. IInv => TimesIncrease
  <2> SUFFICES ASSUME IInv, NEW p \in Peers, NEW i \in 1..(Len(sent[p]) - 1)
               PROVE  \/ sent[p][i].time < sent[p][i + 1].time
                      \/ i = 1 /\ sent[p][1].pts = 0 /\ sent[p][2].time = 0
    BY DEF TimesIncrease
  <2>1. Len(sent[p]) \in Nat /\ DOMAIN sent[p] = 1..Len(sent[p])
        /\ start_ts_[p] \in Nat
    BY SentNumbers DEF IInv, Typed
  <2>2. /\ i \in DOMAIN sent[p] /\ i + 1 \in DOMAIN sent[p] \ {1} /\ i \in Nat
        /\ sent[p][i].pts \in Nat /\ sent[p][i + 1].pts \in Nat
    BY <2>1, SentNumbers DEF IInv, Typed
  <2>3. sent[p][i].pts < sent[p][i + 1].pts
    BY <2>2 DEF IInv, Inv, InOrder
  <2>4. sent[p][i + 1].time = sent[p][i + 1].pts - start_ts_[p]
    BY <2>2 DEF IInv, Inv, Timed
  <2>5. CASE i = 1
    <3>1. sent[p][1].time = 0
      BY <2>1, <2>2, SentNumbers DEF IInv, Typed, Inv, Timed
    <3>2. \/ start_ts_[p] = sent[p][1].pts
          \/ sent[p][1].pts = 0 /\ start_ts_[p] = sent[p][2].pts
      BY <2>1, <2>5 DEF IInv, Inv, Timed
    <3> QED
      BY <2>1, <2>2, <2>3, <2>4, <2>5, <3>1, <3>2, EncoderAssumption
  <2>6. CASE i # 1
    <3>1. sent[p][i].time = sent[p][i].pts - start_ts_[p]
      BY <2>2, <2>6 DEF IInv, Inv, Timed
    <3> QED
      BY <2>1, <2>2, <2>3, <2>4, <3>1, EncoderAssumption
  <2> QED
    BY <2>5, <2>6
<1> QED
  BY <1>1, Invariance, PTL

\* and nothing that libav or a peer still reads is released.
THEOREM DataCorrect == Spec => []DataKept
<1>1. IInv => DataKept
  BY DEF IInv, Inv, Typed, FramesOK, Labelled, Kept, DataKept
<1> QED
  BY <1>1, Invariance, PTL
-----------------------------------------------------------------------------
(* LibAvEncoder uses Next as a Broadcast.                                  *)

Busy == pc \in {"serve", "send"}
Mapped == <<Members, Departed, passed, pending, Busy, given, dead = "no">>

\* What leaves the tracks alone leaves the members alone.
LEMMA SameMembers ==
  ASSUME UNCHANGED track
  PROVE  UNCHANGED <<Members, Departed>>
BY DEF Members, Departed

LEMMA InitRefines == Init => Broadcast!Init
BY DEF Init, Broadcast!Init, Members, Departed

LEMMA DieRefines ==
  ASSUME dead = "no", NEW cause \in {"uncaught", "vector_race"}, Die(cause)
  PROVE  Broadcast!Crash
BY SameMembers DEF Die, Broadcast!Crash

LEMMA MainRefines ==
  ASSUME dead = "no", Main
  PROVE  Broadcast!Crash \/ UNCHANGED Mapped
<1>1. Die("uncaught") \/ Die("vector_race")
        \/ UNCHANGED <<pc, pending, delivery, track, dead>>
  BY DEF Main, CreateCapturer, InitVideoCodec, SubscribeVideoSource
<1> QED
  BY <1>1, DieRefines, SameMembers DEF Mapped, Busy

\* A packet is passed to those who are members then, and it is later than the
\* last one: libav keeps the order of the frames.
LEMMA PacketRefines == ASSUME IInv, Packet PROVE Broadcast!Publish
<1>1. 1 \in DOMAIN codec /\ Head(codec) = codec[1]
  BY DEF IInv, Typed, CodecOK, Packet
<1>2. passed' \in Nat /\ passed' > passed
  BY <1>1, CodecNumbers DEF IInv, Inv, Typed, Passing, Packet
<1> QED
  BY <1>2, SameMembers DEF Packet, Broadcast!Publish

LEMMA ServeRefines ==
  ASSUME IInv, NEW p \in Peers, Serve(p)
  PROVE  Broadcast!Deliver(p)
<1>1. pkt = passed
  BY DEF IInv, Inv, Labelled, Passing, Serve
<1>2. pc = "serve" /\ pc' \in {"serve", "send"}
  BY DEF Serve
<1> QED
  BY <1>1, <1>2, SameMembers DEF Serve, Broadcast!Deliver

LEMMA UnrefRefines == ASSUME Unref PROVE Broadcast!Return
BY SameMembers DEF Unref, Broadcast!Return

\* The rest of the capture thread's steps are between two packets, or inside
\* of the lambda.
LEMMA CaptureRefines ==
  ASSUME Capture \/ NextBuffer \/ EncodeBuffer \/ Again \/ SendFrame
           \/ FreeFrame
  PROVE  UNCHANGED Mapped
<1>1. UNCHANGED <<passed, pending, given, track, dead, Busy>>
  BY DEF Busy, Capture, NextBuffer, EncodeBuffer, Again, SendFrame, FreeFrame
<1> QED
  BY <1>1, SameMembers DEF Mapped

LEMMA PeerRefines ==
  ASSUME IInv, NEW p \in Peers, Peer(p)
  PROVE  \/ Broadcast!Join(p) \/ Broadcast!Leave(p)
         \/ UNCHANGED Mapped
<1> USE DEF Turn
<1>1. track \in [Peers -> {"none", "closed", "open", "shut", "gone"}]
      /\ UNCHANGED <<pc, passed, given, dead>>
  BY DEF IInv, Typed, ControlOK, Peer, SubscribeEncoder, Open, Shut, Leave
<1>2. CASE SubscribeEncoder(p)
  <2>1. track[p] = "none" /\ track' = [track EXCEPT ![p] = "closed"]
    BY <1>2 DEF SubscribeEncoder
  <2>2. /\ Members' = Members \cup {p} /\ UNCHANGED Departed
        /\ p \notin Members \cup Departed
    BY <1>1, <2>1 DEF Members, Departed
  <2> QED
    BY <1>1, <1>2, <2>2 DEF SubscribeEncoder, Broadcast!Join
<1>3. CASE Open(p) \/ Shut(p)
  <2>1. \E to \in {"open", "shut"} :
          track[p] \in {"closed", "open"} /\ track' = [track EXCEPT ![p] = to]
    BY <1>3 DEF Open, Shut
  <2>2. UNCHANGED <<Members, Departed>>
    BY <1>1, <2>1 DEF Members, Departed
  <2> QED
    BY <1>1, <1>3, <2>2 DEF Open, Shut, Mapped, Busy
<1>4. CASE Leave(p)
  <2>1. track[p] = "shut" /\ track' = [track EXCEPT ![p] = "gone"]
    BY <1>4 DEF Leave
  <2>2. /\ Members' = Members \ {p} /\ p \in Members
        /\ Departed' = Departed \cup {p}
    BY <1>1, <2>1 DEF Members, Departed
  <2> QED
    BY <1>1, <1>4, <2>2 DEF Leave, Broadcast!Leave
<1> QED
  BY <1>2, <1>3, <1>4 DEF Peer

LEMMA StepRefines == IInv /\ [Next]_vars => [Broadcast!Next]_Mapped
<1> SUFFICES ASSUME IInv, [Next]_vars PROVE [Broadcast!Next]_Mapped
  OBVIOUS
<1>1. CASE UNCHANGED vars
  BY <1>1, SameMembers DEF Mapped, Busy
<1>2. CASE dead = "no" /\ (Main \/ Throw)
  BY <1>2, MainRefines, DieRefines DEF Throw, Broadcast!Next
<1>3. CASE dead = "no" /\ CaptureThread
  <2>1. CASE Packet \/ Unref
    BY <1>3, <2>1, PacketRefines, UnrefRefines DEF Broadcast!Next
  <2>2. ASSUME NEW p \in Peers, Serve(p) PROVE [Broadcast!Next]_Mapped
    BY <1>3, <2>2, ServeRefines DEF Broadcast!Next
  <2> QED
    BY <1>3, <2>1, <2>2, CaptureRefines DEF CaptureThread
<1>4. ASSUME dead = "no", NEW p \in Peers, Peer(p)
      PROVE  [Broadcast!Next]_Mapped
  BY <1>4, PeerRefines DEF Broadcast!Next
<1> QED
  BY <1>1, <1>2, <1>3, <1>4 DEF Next, Over

\* The packets go to the peers as a Broadcast's messages, for any number of
\* peers and frames: each is later than the one before, it is given once to
\* every peer that stays from its beginning to its end, and never to one that
\* has gone (libav_encoder.cpp:160-184).
THEOREM BroadcastCorrect == Spec => IsBroadcast
<1>1. [Broadcast!Next]_Mapped => [Broadcast!Next]_(Broadcast!vars)
  BY DEF Mapped, Busy, Broadcast!vars
<1> QED
  BY <1>1, InitRefines, StepRefines, Invariance, PTL
  DEF Spec, IsBroadcast, Broadcast!Spec

-----------------------------------------------------------------------------
(* The way back from the observers: all but the fairness of the thread.    *)

\* Ahead is a number, which cannot shrink for ever.
LEMMA AheadValues ==
  ASSUME CodecOK
  PROVE  /\ Len(codec) \in Nat
         /\ pc = "idle" => Ahead = 0
         /\ pc = "free" => Ahead = 1
         /\ pc = "receive" => Ahead = 2 * Len(codec) + 2
         /\ pc \in {"serve", "send"} => Ahead = 2 * Len(codec) + 3
         /\ pc = "encode" => Ahead = 2 * Len(codec) + 5
         /\ pc = "next" => Ahead = 2 * Len(codec) + 6
BY CodecNumbers DEF Ahead

LEMMA AheadNat == Typed => Ahead \in Nat
BY AheadValues DEF Typed, ControlOK

\* The codec's queue over a step of the capture thread.
LEMMA CodecStep ==
  ASSUME CodecOK
  PROVE  /\ EncodeBuffer => Len(codec') = Len(codec) + 1
         /\ Packet => Len(codec') = Len(codec) - 1 /\ Len(codec) > 0
         /\ NextBuffer \/ Again \/ SendFrame \/ Unref \/ FreeFrame
              \/ (\E p \in Peers : Serve(p)) => UNCHANGED codec
<1>1. EncodeBuffer => Len(codec') = Len(codec) + 1
  BY DEF EncodeBuffer, CodecOK
<1>2. Packet => Len(codec') = Len(codec) - 1 /\ Len(codec) > 0
  BY DEF Packet, CodecOK
<1>3. NextBuffer \/ Again \/ SendFrame \/ Unref \/ FreeFrame
        \/ (\E p \in Peers : Serve(p)) => UNCHANGED codec
  BY DEF NextBuffer, Again, SendFrame, Unref, FreeFrame, Serve
<1> QED
  BY <1>1, <1>2, <1>3

Advances ==
  \/ Ahead' < Ahead
  \/ pending' \subseteq pending /\ pending' # pending
  \/ pending' = pending /\ pc = "send" /\ pc' = "serve"

LEMMA CaptureThreadAdvances ==
  ASSUME Typed, CodecOK', pc # "idle", CaptureThread
  PROVE  Ahead' <= Ahead /\ Advances
<1> USE DEF Typed
<1>1. /\ Len(codec) \in Nat /\ Len(codec') \in Nat
      /\ pc' = "idle" => Ahead' = 0
      /\ pc' = "free" => Ahead' = 1
      /\ pc' = "receive" => Ahead' = 2 * Len(codec') + 2
      /\ pc' \in {"serve", "send"} => Ahead' = 2 * Len(codec') + 3
      /\ pc' = "encode" => Ahead' = 2 * Len(codec') + 5
  BY CodecNumbers DEF Ahead, CodecOK
<1>2. CASE NextBuffer
  BY <1>1, <1>2, AheadValues, CodecStep DEF NextBuffer, Advances
<1>3. CASE EncodeBuffer
  BY <1>1, <1>3, AheadValues, CodecStep DEF EncodeBuffer, Advances
<1>4. CASE Packet
  <2>1. pc = "receive" /\ pc' = "serve"
    BY <1>4 DEF Packet
  <2>2. Len(codec') = Len(codec) - 1 /\ Len(codec) > 0
    BY <1>4, CodecStep
  <2> QED
    BY <1>1, <2>1, <2>2, AheadValues DEF Advances
<1>5. CASE Again
  BY <1>1, <1>5, AheadValues, CodecStep DEF Again, Advances
<1>6. CASE SendFrame
  <2>1. pending' = pending /\ pc = "send" /\ pc' = "serve"
    BY <1>6 DEF SendFrame
  <2> QED
    BY <1>1, <1>6, <2>1, AheadValues, CodecStep DEF Advances
<1>7. CASE Unref
  BY <1>1, <1>7, AheadValues, CodecStep DEF Unref, Advances
<1>8. CASE FreeFrame
  BY <1>1, <1>8, AheadValues, CodecStep DEF FreeFrame, Advances
<1>9. ASSUME NEW p \in Peers, Serve(p) PROVE Ahead' <= Ahead /\ Advances
  <2>1. pending' \subseteq pending /\ pending' # pending
    BY <1>9 DEF Serve
  <2>2. pc = "serve" /\ pc' \in {"serve", "send"}
    BY <1>9 DEF Serve
  <2> QED
    BY <1>1, <1>9, <2>1, <2>2, AheadValues, CodecStep DEF Advances
<1> QED
  BY <1>2, <1>3, <1>4, <1>5, <1>6, <1>7, <1>8, <1>9 DEF CaptureThread, Capture

\* Whatever libav returns and whoever comes and goes, the capture thread gets
\* through EncodeBuffer (libav_encoder.cpp:81-130): it has a bounded number
\* of rounds left, and within one a set of peers that only new ones add to.
\* EncodeReturns adds that the thread does step.
THEOREM EncodeAdvancesCorrect == Spec => [](Ahead \in Nat) /\ EncodeAdvances
<1>1. IInv => Ahead \in Nat
  BY AheadNat DEF IInv
<1>2. IInv /\ IInv' /\ [Next]_vars =>
        [/\ pc # "idle" => Ahead' <= Ahead
         /\ pc # "idle" /\ CaptureThread =>
              \/ Ahead' < Ahead
              \/ pending' \subseteq pending /\ pending' # pending
              \/ pending' = pending /\ pc = "send" /\ pc' = "serve"]_vars
  <2> SUFFICES ASSUME IInv, IInv', Next, pc # "idle"
               PROVE  Ahead' <= Ahead /\ (CaptureThread => Advances)
    BY DEF Advances
  <2>1. CASE CaptureThread
    BY <2>1, CaptureThreadAdvances DEF IInv, Typed
  <2>2. CASE ~CaptureThread
    <3>1. UNCHANGED <<pc, codec>>
      BY <2>2 DEF Next, Main, CreateCapturer, InitVideoCodec,
        SubscribeVideoSource, Throw, Die, Peer, Turn, SubscribeEncoder, Open,
        Shut, Leave, Over
    <3>2. Ahead' = Ahead
      BY <3>1 DEF Ahead
    <3> QED
      BY <2>2, <3>2, AheadNat DEF IInv
  <2> QED
    BY <2>1, <2>2
<1> QED
  BY <1>1, <1>2, Invariance, PTL DEF Spec, EncodeAdvances
=============================================================================
