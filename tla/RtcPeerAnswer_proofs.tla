------------------------ MODULE RtcPeerAnswer_proofs ------------------------
(* A POST is answered at most once, and with every candidate that was found  *)
(* in time, for every set of candidates, any number of restarts, and         *)
(* has_candidates_in_sdp_ either way.                                        *)
EXTENDS RtcPeer_proofs

USE DEF life, flags, texts, handles, library, state, vars, others, rest, quiet,
        members, Move

\* send_sdp runs on one thread only, which one depends on the option.
OneSender ==
  /\ has_candidates_in_sdp_ => pc["lib"] \notin SendLabels
  /\ ~has_candidates_in_sdp_ => pc["sdp"] = "idle"

\* Once it has called on_local_sdp_fn_ the sender resets it before anything
\* else can call it, and only the POST that creates the peer sets it.
AnsweredOnce ==
  /\ Len(responses) <= 1
  /\ responses # <<>> /\ on_local_sdp_fn_ =>
       \E s \in Senders : pc[s] = "clear"
  /\ peer = "absent" \/ pc["io"] = "on_local_sdp" =>
       responses = <<>> /\ ~on_local_sdp_fn_

Answer == OneSender /\ AnsweredOnce

LEMMA InitAnswer == Init => Answer
BY DEF Init, Answer, OneSender, AnsweredOnce, Senders, Threads, SendLabels

LEMMA StayAnswer == ASSUME Answer, UNCHANGED state PROVE Answer'
BY DEF Answer, OneSender, AnsweredOnce

\* A step that neither calls nor sets the callback, nor starts or ends a send.
LEMMA FrameAnswer ==
  ASSUME Answer,
         UNCHANGED responses,
         on_local_sdp_fn_' => on_local_sdp_fn_,
         \A s \in Senders : pc[s] \in SendLabels => pc'[s] = pc[s],
         pc'["lib"] \in SendLabels => pc["lib"] \in SendLabels,
         UNCHANGED pc["sdp"],
         pc'["io"] = "on_local_sdp" =>
           pc["io"] = "on_local_sdp" \/ peer = "absent",
         peer' = "absent" => peer = "absent"
  PROVE  Answer'
BY DEF Answer, OneSender, AnsweredOnce, Senders, SendLabels

LEMMA ClientAnswer ==
  ASSUME IInv, Answer, Client
  PROVE  Answer'
<1> USE DEF IInv, Typed, At, Threads, Senders, SendLabels, Request
<1>1. CASE CreatePeer
  BY <1>1, FrameAnswer, GoPc DEF CreatePeer
<1>2. CASE PatchCandidates
  BY <1>2, FrameAnswer, GoPc DEF PatchCandidates
<1>3. CASE PatchRestart
  BY <1>3, FrameAnswer, GoPc DEF PatchRestart
<1>4. CASE Delete
  BY <1>4, FrameAnswer, GoPc DEF Delete
<1> QED
  BY <1>1, <1>2, <1>3, <1>4 DEF Client

LEMMA NetworkAnswer ==
  ASSUME IInv, Answer, Network
  PROVE  Answer'
<1> USE DEF IInv, Typed, At, Threads, Senders, SendLabels
<1>1. CASE \E c \in Candidates : Gather(c)
  BY <1>1, FrameAnswer DEF Gather
<1>2. CASE Connect
  BY <1>2, FrameAnswer, GoPc DEF Connect
<1>3. CASE Fail
  BY <1>3, FrameAnswer, GoPc DEF Fail
<1>4. CASE RemoteClose
  BY <1>4, FrameAnswer, GoPc DEF RemoteClose
<1> QED
  BY <1>1, <1>2, <1>3, <1>4 DEF Network

LEMMA TerminateAnswer ==
  ASSUME IInv, Answer, NEW t \in Terminators, Terminate(t)
  PROVE  Answer'
<1> USE DEF IInv, Typed, At, Threads, Senders, SendLabels, Terminators
<1>1. CASE StoreConnected(t)
  BY <1>1, FrameAnswer, GoPc DEF StoreConnected
<1>2. CASE StoreComplete(t)
  BY <1>2, FrameAnswer, GoPc DEF StoreComplete
<1>3. CASE JoinTimer(t)
  BY <1>3, FrameAnswer, GoPc DEF JoinTimer
<1>4. CASE JoinSdp(t)
  BY <1>4, FrameAnswer, GoPc DEF JoinSdp
<1>5. CASE TerminateFn(t)
  BY <1>5, StayAnswer, FrameAnswer, GoPc DEF TerminateFn, Die, ClearFn
<1>6. CASE Close(t)
  BY <1>6, FrameAnswer, GoPc DEF Close
<1>7. CASE Release(t)
  BY <1>7, FrameAnswer, GoPc DEF Release
<1>8. CASE Free(t)
  BY <1>8, StayAnswer, FrameAnswer, GoPc DEF Free, Die
<1> QED
  BY <1>1, <1>2, <1>3, <1>4, <1>5, <1>6, <1>7, <1>8 DEF Terminate

LEMMA SendSdpAnswer ==
  ASSUME IInv, Answer, NEW t \in Senders, SendSdp(t)
  PROVE  Answer'
<1> USE DEF IInv, Typed, At, Threads, Senders, SendLabels
<1>1. CASE Serialise(t)
  <2>1. CASE UNCHANGED state
    BY <2>1, StayAnswer
  <2>2. CASE Go(t, "call") /\ UNCHANGED <<responses, on_local_sdp_fn_, peer>>
    BY <1>1, <2>2, GoPc DEF Serialise, Answer, OneSender, AnsweredOnce
  <2> QED
    BY <1>1, <2>1, <2>2 DEF Serialise, Die
<1>2. CASE CallSdpFn(t)
  <2>1. CASE UNCHANGED state
    BY <2>1, StayAnswer
  <2>2. CASE ~UNCHANGED state
    <3>1. /\ on_local_sdp_fn_ /\ Go(t, "clear")
          /\ responses' = Append(responses, modified_sdp_)
          /\ UNCHANGED <<on_local_sdp_fn_, peer>>
      BY <1>2, <2>2 DEF CallSdpFn, Die
    <3>2. \A s \in Senders : pc[s] # "clear"
      BY <1>2, ConstantsAssumption DEF CallSdpFn, Answer, OneSender
    <3>3. responses = <<>>
      BY <3>1, <3>2 DEF Answer, AnsweredOnce
    <3>4. Len(responses') = 1
      BY <3>1, <3>3
    <3>5. pc'[t] = "clear" /\ \A u \in Threads \ {t} : pc'[u] = pc[u]
      BY <3>1, GoPc
    <3>6. OneSender'
      BY <1>2, <3>5 DEF CallSdpFn, Answer, OneSender
    <3>7. AnsweredOnce'
      BY <3>1, <3>4, <3>5 DEF Answer, AnsweredOnce
    <3> QED
      BY <3>6, <3>7 DEF Answer
  <2> QED
    BY <2>1, <2>2
<1>3. CASE SentFn(t)
  <2>1. CASE UNCHANGED state
    BY <2>1, StayAnswer
  <2>2. CASE ~UNCHANGED state
    <3>1. PICK l \in {"done", "idle"} : Go(t, l)
      BY <1>3, <2>2 DEF SentFn, ClearFn, Die
    <3>2. ~on_local_sdp_fn_' /\ UNCHANGED <<responses, peer>>
      BY <1>3, <2>2 DEF SentFn, ClearFn, Die
    <3>3. OneSender'
      BY <1>3, <3>1, GoPc DEF SentFn, ClearFn, Answer, OneSender
    <3>4. AnsweredOnce'
      BY <3>1, <3>2, GoPc DEF Answer, AnsweredOnce
    <3> QED
      BY <3>3, <3>4 DEF Answer
  <2> QED
    BY <2>1, <2>2
<1> QED
  BY <1>1, <1>2, <1>3 DEF SendSdp

LEMMA IoAnswer ==
  ASSUME IInv, Answer, Io
  PROVE  Answer'
<1> USE DEF IInv, Typed, At, Threads, Senders, SendLabels, Terminators
<1>1. CASE OnLocalSdp
  <2>1. responses = <<>>
    BY <1>1 DEF OnLocalSdp, Answer, AnsweredOnce
  <2>2. peer # "absent"
    BY <1>1 DEF OnLocalSdp, Inv, Ownership
  <2> QED
    BY <1>1, <2>1, <2>2, GoPc DEF OnLocalSdp, Answer, OneSender, AnsweredOnce
<1>2. CASE RestartIce
  BY <1>2, StayAnswer, FrameAnswer, GoPc DEF RestartIce, Die
<1>3. CASE SetRemoteDescription
  BY <1>3, StayAnswer, FrameAnswer, GoPc DEF SetRemoteDescription, Die
<1>4. CASE SetLocalDescription
  BY <1>4, StayAnswer, FrameAnswer, GoPc DEF SetLocalDescription, Die
<1>5. CASE Unmap
  BY <1>5, FrameAnswer, GoPc DEF Unmap
<1>6. CASE Drop
  BY <1>6, FrameAnswer, GoPc DEF Drop
<1>7. CASE Terminate("io")
  BY <1>7, TerminateAnswer
<1> QED
  BY <1>1, <1>2, <1>3, <1>4, <1>5, <1>6, <1>7 DEF Io

LEMMA CleanerAnswer ==
  ASSUME IInv, Answer, Cleaner
  PROVE  Answer'
<1> USE DEF IInv, Typed, At, Threads, Senders, SendLabels, Terminators
<1>1. CASE Inspect
  BY <1>1, FrameAnswer, GoPc DEF Inspect
<1>2. CASE Erase
  BY <1>2, StayAnswer, FrameAnswer, GoPc DEF Erase, Die
<1>3. CASE Terminate("cleaner")
  BY <1>3, TerminateAnswer
<1> QED
  BY <1>1, <1>2, <1>3 DEF Cleaner

LEMMA LibAnswer ==
  ASSUME IInv, Answer, Lib
  PROVE  Answer'
<1> USE DEF IInv, Typed, At, Threads, Senders, SendLabels
<1>1. CASE OnSignalingStateChange
  BY <1>1, StayAnswer, FrameAnswer, GoPc DEF OnSignalingStateChange, Die,
    Callback
<1>2. CASE OnLocalDescription
  BY <1>2, StayAnswer, FrameAnswer, GoPc DEF OnLocalDescription, Die, Callback
<1>3. CASE EmitLocalSdp
  BY <1>3, FrameAnswer, GoPc DEF EmitLocalSdp
<1>4. CASE StartSend
  <2>1. pc["sdp"] \notin SendLabels /\ pc["lib"] = "join_prev"
    BY <1>4 DEF StartSend, Inv, Handles
  <2>2. /\ pc'["io"] = pc["io"]
        /\ pc'["lib"] = IF has_candidates_in_sdp_ THEN "idle" ELSE "serialise"
        /\ pc'["sdp"] = IF has_candidates_in_sdp_ THEN "sleep" ELSE pc["sdp"]
    BY <1>4 DEF StartSend, PcOK
  <2>3. UNCHANGED <<responses, on_local_sdp_fn_, peer>>
    BY <1>4 DEF StartSend
  <2>4. OneSender'
    BY <2>2 DEF Answer, OneSender
  <2>5. AnsweredOnce'
    BY <2>1, <2>2, <2>3 DEF Answer, AnsweredOnce
  <2> QED
    BY <2>4, <2>5 DEF Answer
<1>5. CASE OnIceCandidate
  BY <1>5, StayAnswer, FrameAnswer, GoPc DEF OnIceCandidate, Die, Callback
<1>6. CASE OnConnected
  BY <1>6, FrameAnswer, GoPc DEF OnConnected, Callback
<1>7. CASE ConnectedFn
  BY <1>7, StayAnswer, FrameAnswer, GoPc DEF ConnectedFn, Die, ClearFn
<1>8. CASE OnFailed
  BY <1>8, FrameAnswer, GoPc DEF OnFailed, Callback
<1>9. CASE FailClose
  BY <1>9, FrameAnswer, GoPc DEF FailClose
<1>10. CASE SendSdp("lib")
  BY <1>10, SendSdpAnswer
<1> QED
  BY <1>1, <1>2, <1>3, <1>4, <1>5, <1>6, <1>7, <1>8, <1>9, <1>10 DEF Lib

LEMMA TimerAnswer ==
  ASSUME IInv, Answer, Timer
  PROVE  Answer'
<1> USE DEF IInv, Typed, At, Threads, Senders, SendLabels
<1>1. CASE WakeTimer
  BY <1>1, FrameAnswer, GoPc DEF WakeTimer
<1>2. CASE TimerCheck
  BY <1>2, FrameAnswer, GoPc DEF TimerCheck
<1>3. CASE TimerClose
  BY <1>3, FrameAnswer, GoPc DEF TimerClose
<1> QED
  BY <1>1, <1>2, <1>3 DEF Timer

LEMMA SdpAnswer ==
  ASSUME IInv, Answer, Sdp
  PROVE  Answer'
<1> USE DEF IInv, Typed, At, Threads, Senders, SendLabels
<1>1. CASE WakeSdp
  <2>1. has_candidates_in_sdp_
    BY <1>1 DEF WakeSdp, Answer, OneSender
  <2> QED
    BY <1>1, <2>1, GoPc DEF WakeSdp, Answer, OneSender, AnsweredOnce
<1>2. CASE SendSdp("sdp")
  BY <1>2, SendSdpAnswer
<1> QED
  BY <1>1, <1>2 DEF Sdp

LEMMA AnswerNext == IInv /\ Answer /\ [Next]_vars => Answer'
<1> SUFFICES ASSUME IInv, Answer, [Next]_vars PROVE Answer'
  OBVIOUS
<1>1. CASE UNCHANGED vars
  BY <1>1, StayAnswer
<1>2. CASE Next
  BY <1>1, <1>2, ClientAnswer, NetworkAnswer, IoAnswer, CleanerAnswer,
     LibAnswer, TimerAnswer, SdpAnswer DEF Next, Over
<1> QED
  BY <1>1, <1>2

\* In every instance a POST is answered at most once.
THEOREM AnswerCorrect == Spec => []SingleAnswer
<1>1. Answer => SingleAnswer
  BY DEF Answer, AnsweredOnce, SingleAnswer
<1> QED
  BY <1>1, InitAnswer, AnswerNext, Invariance, PTL DEF Spec

-----------------------------------------------------------------------------
(* No candidate is lost on its way to the answer.                          *)

IsDescription(i) == cbq[i].cb = "OnLocalDescription"
IsCandidate(i) == cbq[i].cb = "OnIceCandidate"

\* A candidate that was found is in the description, or queued.
Covered ==
  \A c \in gathered :
    Pending(c) \/ (modified_desc_ # NoDesc /\ c \in modified_desc_.cands)

\* A description on its way has it already, or the candidate comes behind.
Behind ==
  \A i \in DOMAIN cbq : IsDescription(i) =>
    \A c \in gathered :
      \/ c \in cbq[i].desc.cands
      \/ \E j \in i + 1 .. Len(cbq) : IsCandidate(j) /\ cbq[j].candidate = c

\* No candidate comes before the first description.
Described ==
  \A j \in DOMAIN cbq : IsCandidate(j) =>
    modified_desc_ # NoDesc \/ \E i \in 1 .. j - 1 : IsDescription(i)

\* The library gathers behind the first description only.
Gathering ==
  signaling \in {"stable", "local_offer"} =>
    modified_desc_ # NoDesc \/ \E i \in DOMAIN cbq : IsDescription(i)

CandidatesKept ==
  has_candidates_in_sdp_ /\ pcState # "closed" =>
    Covered /\ Behind /\ Described /\ Gathering

LEMMA InitKept == Init => CandidatesKept
BY DEF Init, CandidatesKept, Covered, Behind, Described, Gathering

LEMMA StayKept ==
  ASSUME CandidatesKept,
         UNCHANGED <<cbq, gathered, modified_desc_>>,
         pcState = "closed" => pcState' = "closed",
         signaling' \in {"stable", "local_offer"} => signaling' = signaling
  PROVE  CandidatesKept'
BY DEF CandidatesKept, Covered, Behind, Described, Gathering, Pending,
  IsDescription, IsCandidate

LEMMA ClosedKept == ASSUME pcState' = "closed" PROVE CandidatesKept'
BY DEF CandidatesKept

\* A callback is queued that is not about a candidate of its own.
LEMMA NotifyKept ==
  ASSUME Typed, CandidatesKept, NEW event, Notify(event),
         event.cb = "OnLocalDescription" => event.desc.cands = gathered,
         event.cb # "OnIceCandidate",
         UNCHANGED <<gathered, modified_desc_>>,
         pcState = "closed" => pcState' = "closed",
         signaling' \in {"stable", "local_offer"} =>
           signaling' = signaling \/ event.cb = "OnLocalDescription"
  PROVE  CandidatesKept'
<1>1. CASE pcState' = "closed" \/ ~has_candidates_in_sdp_
  BY <1>1 DEF CandidatesKept
<1>2. CASE pcState' # "closed" /\ has_candidates_in_sdp_
  <2>1. /\ cbq' = Append(cbq, event)
        /\ Covered /\ Behind /\ Described /\ Gathering
    BY <1>2 DEF Notify, CandidatesKept
  <2>2. /\ cbq \in Seq(Events)
        /\ Len(cbq') = Len(cbq) + 1
        /\ DOMAIN cbq = 1 .. Len(cbq)
        /\ DOMAIN cbq' = 1 .. Len(cbq')
        /\ \A i \in DOMAIN cbq : cbq'[i] = cbq[i]
        /\ cbq'[Len(cbq) + 1] = event
        /\ Len(cbq) \in Nat
    BY <2>1 DEF Typed, LibraryOK
  <2>3. Covered'
    BY <2>1, <2>2 DEF Covered, Pending
  <2>4. Behind'
    BY <2>1, <2>2 DEF Behind, IsDescription, IsCandidate
  <2>5. Described'
    BY <2>1, <2>2 DEF Described, IsDescription, IsCandidate
  <2>6. Gathering'
    BY <2>1, <2>2 DEF Gathering, IsDescription
  <2> QED
    BY <2>3, <2>4, <2>5, <2>6 DEF CandidatesKept
<1> QED
  BY <1>1, <1>2

LEMMA GatherKept ==
  ASSUME Typed, CandidatesKept, NEW c \in Candidates, Gather(c)
  PROVE  CandidatesKept'
<1>1. CASE ~has_candidates_in_sdp_
  BY <1>1 DEF CandidatesKept
<1>2. CASE has_candidates_in_sdp_
  <2> DEFINE event == [cb |-> "OnIceCandidate", candidate |-> c]
  <2>1. /\ cbq' = Append(cbq, event)
        /\ gathered' = gathered \cup {c}
        /\ UNCHANGED <<modified_desc_, signaling, pcState>>
        /\ signaling \in {"stable", "local_offer"}
        /\ Covered /\ Behind /\ Described /\ Gathering
    BY <1>2 DEF Gather, Notify, CandidatesKept
  <2>2. /\ Len(cbq') = Len(cbq) + 1
        /\ DOMAIN cbq = 1 .. Len(cbq)
        /\ DOMAIN cbq' = 1 .. Len(cbq')
        /\ \A i \in DOMAIN cbq : cbq'[i] = cbq[i]
        /\ cbq'[Len(cbq) + 1] = event
        /\ Len(cbq) \in Nat
    BY <2>1 DEF Typed, LibraryOK
  <2>3. event.cb = "OnIceCandidate" /\ event.candidate = c
    OBVIOUS
  <2> HIDE DEF event
  <2>4. Covered'
    BY <2>1, <2>2, <2>3 DEF Covered, Pending
  <2>5. Behind'
    BY <2>1, <2>2, <2>3 DEF Behind, IsDescription, IsCandidate
  <2>6. Described'
    BY <2>1, <2>2, <2>3 DEF Described, Gathering, IsDescription, IsCandidate
  <2>7. Gathering'
    BY <2>1, <2>2 DEF Gathering, IsDescription
  <2> QED
    BY <2>4, <2>5, <2>6, <2>7 DEF CandidatesKept
<1> QED
  BY <1>1, <1>2

\* A callback that starts leaves the description as the code has it.
LEMMA CallbackKept ==
  ASSUME Typed, CandidatesKept, NEW cb, Callback(cb),
         cb = "OnLocalDescription" => modified_desc_' = Head(cbq).desc,
         cb = "OnIceCandidate" /\ has_candidates_in_sdp_
           /\ modified_desc_ # NoDesc =>
             modified_desc_'
               = AddCandidate(modified_desc_, Head(cbq).candidate),
         cb \notin {"OnLocalDescription", "OnIceCandidate"} =>
           UNCHANGED modified_desc_,
         TextsOK'
  PROVE  CandidatesKept'
<1>1. CASE pcState = "closed" \/ ~has_candidates_in_sdp_
  BY <1>1 DEF CandidatesKept, Callback
<1>2. CASE pcState # "closed" /\ has_candidates_in_sdp_
  <2>1. Covered /\ Behind /\ Described /\ Gathering
    BY <1>2 DEF CandidatesKept
  <2>2. /\ cbq' = Tail(cbq) /\ cbq # <<>> /\ Head(cbq).cb = cb
        /\ UNCHANGED <<gathered, signaling, pcState>>
    BY DEF Callback
  <2>3. /\ Len(cbq) \in Nat \ {0}
        /\ Len(cbq') = Len(cbq) - 1
        /\ DOMAIN cbq = 1 .. Len(cbq)
        /\ DOMAIN cbq' = 1 .. Len(cbq')
        /\ \A i \in DOMAIN cbq' : cbq'[i] = cbq[i + 1]
        /\ Head(cbq) = cbq[1] /\ cbq[1] \in Events
    BY <2>2 DEF Typed, LibraryOK
  <2>4. IsDescription(1) => modified_desc_' # NoDesc
    BY <2>2, <2>3, ConstantsAssumption DEF IsDescription, Events
  <2>5. IsCandidate(1) =>
          /\ modified_desc_ # NoDesc
          /\ modified_desc_' # NoDesc
          /\ modified_desc_'.cands
               = modified_desc_.cands \cup {cbq[1].candidate}
    <3>1. ASSUME IsCandidate(1) PROVE modified_desc_ # NoDesc
      BY <2>1, <2>3, <3>1 DEF Described
    <3>2. ASSUME modified_desc_ # NoDesc, IsCandidate(1)
          PROVE  AddCandidate(modified_desc_, cbq[1].candidate) \in Descs
      BY <2>3, <3>2 DEF AddCandidate, Typed, TextsOK, Descs, Events,
        IsCandidate
    <3>3. ASSUME IsCandidate(1), modified_desc_ # NoDesc
          PROVE  modified_desc_'
                   = AddCandidate(modified_desc_, cbq[1].candidate)
      BY <1>2, <2>2, <2>3, <3>3 DEF IsCandidate
    <3> QED
      BY <3>1, <3>2, <3>3, ConstantsAssumption DEF AddCandidate
  <2>6. ~IsDescription(1) /\ ~IsCandidate(1) => UNCHANGED modified_desc_
    BY <2>2, <2>3 DEF IsDescription, IsCandidate
  <2>7. modified_desc_ # NoDesc => modified_desc_' # NoDesc
    BY <2>4, <2>5, <2>6
  <2>8. \A i \in DOMAIN cbq :
          i # 1 => i - 1 \in DOMAIN cbq' /\ cbq'[i - 1] = cbq[i]
    BY <2>3
  <2>9. Behind'
    <3> SUFFICES ASSUME NEW i \in DOMAIN cbq', IsDescription(i)',
                        NEW c \in gathered, c \notin cbq'[i].desc.cands
                 PROVE  \E j \in i + 1 .. Len(cbq') :
                          cbq'[j].cb = "OnIceCandidate" /\ cbq'[j].candidate = c
      BY <2>2 DEF Behind, IsCandidate
    <3>1. i + 1 \in DOMAIN cbq /\ cbq'[i] = cbq[i + 1]
      BY <2>3
    <3>2. PICK j \in i + 2 .. Len(cbq) : IsCandidate(j) /\ cbq[j].candidate = c
      BY <2>1, <2>3, <3>1 DEF Behind, IsDescription
    <3>3. j - 1 \in i + 1 .. Len(cbq') /\ cbq'[j - 1] = cbq[j]
      BY <2>3, <2>8, <3>2
    <3> QED
      BY <3>2, <3>3 DEF IsCandidate
  <2>10. Described'
    <3> SUFFICES ASSUME NEW j \in DOMAIN cbq', IsCandidate(j)',
                        modified_desc_' = NoDesc
                 PROVE  \E i \in 1 .. j - 1 : cbq'[i].cb = "OnLocalDescription"
      BY DEF Described, IsDescription
    <3>1. j + 1 \in DOMAIN cbq /\ IsCandidate(j + 1)
      BY <2>3 DEF IsCandidate
    <3>2. PICK i \in 1 .. j : IsDescription(i)
      BY <2>1, <2>3, <2>7, <3>1 DEF Described
    <3>3. i - 1 \in 1 .. j - 1 /\ cbq'[i - 1] = cbq[i]
      BY <2>3, <2>4, <2>8, <3>2
    <3> QED
      BY <3>2, <3>3 DEF IsDescription
  <2>11. Gathering'
    <3> SUFFICES ASSUME signaling \in {"stable", "local_offer"},
                        modified_desc_' = NoDesc
                 PROVE  \E i \in DOMAIN cbq' : cbq'[i].cb = "OnLocalDescription"
      BY <2>2 DEF Gathering, IsDescription
    <3>1. PICK i \in DOMAIN cbq : IsDescription(i)
      BY <2>1, <2>7 DEF Gathering
    <3> QED
      BY <2>4, <2>8, <3>1 DEF IsDescription
  <2>12. Covered'
    <3> SUFFICES ASSUME NEW c \in gathered,
                        ~(/\ modified_desc_' # NoDesc
                          /\ c \in modified_desc_'.cands)
                 PROVE  Pending(c)'
      BY <2>2 DEF Covered
    <3> DEFINE Brings(i) == \/ IsCandidate(i) /\ cbq[i].candidate = c
                            \/ IsDescription(i) /\ c \in cbq[i].desc.cands
    <3>1. ASSUME NEW i \in DOMAIN cbq, i # 1, Brings(i) PROVE Pending(c)'
      BY <2>8, <3>1 DEF Pending, IsCandidate, IsDescription
    <3>2. CASE IsDescription(1)
      <4>1. modified_desc_' = cbq[1].desc
        BY <2>2, <2>3, <3>2 DEF IsDescription
      <4>2. \E i \in 2 .. Len(cbq) : IsCandidate(i) /\ cbq[i].candidate = c
        BY <2>1, <2>3, <2>4, <3>2, <4>1 DEF Behind
      <4> QED
        BY <2>3, <3>1, <4>2
    <3>3. CASE IsCandidate(1)
      <4>1. \E i \in DOMAIN cbq : Brings(i)
        BY <2>1, <2>5, <3>3 DEF Covered, Pending, IsCandidate, IsDescription
      <4>2. ~Brings(1)
        BY <2>5, <3>3 DEF IsCandidate, IsDescription
      <4> QED
        BY <3>1, <4>1, <4>2
    <3>4. CASE ~IsDescription(1) /\ ~IsCandidate(1)
      <4>1. \E i \in DOMAIN cbq : Brings(i)
        BY <2>1, <2>6, <3>4 DEF Covered, Pending, IsCandidate, IsDescription
      <4> QED
        BY <3>1, <3>4, <4>1
    <3> QED
      BY <3>2, <3>3, <3>4
  <2> QED
    BY <2>9, <2>10, <2>11, <2>12 DEF CandidatesKept
<1> QED
  BY <1>1, <1>2

LEMMA KeptNext == IInv /\ Typed' /\ CandidatesKept /\ [Next]_vars
                    => CandidatesKept'
<1> SUFFICES ASSUME IInv, Typed', CandidatesKept, [Next]_vars
             PROVE  CandidatesKept'
  OBVIOUS
<1> USE DEF IInv, Die, At
<1>1. CASE UNCHANGED vars
  BY <1>1, StayKept
<1>2. CASE Client
  BY <1>2, StayKept DEF Client, CreatePeer, PatchCandidates, PatchRestart,
    Delete, Request
<1>3. CASE Network
  <2>1. CASE \E c \in Candidates : Gather(c)
    BY <2>1, GatherKept
  <2>2. CASE Connect \/ Fail
    BY <2>2, NotifyKept DEF Connect, Fail
  <2>3. CASE RemoteClose
    BY <2>3, ClosedKept DEF RemoteClose, CloseConnection
  <2> QED
    BY <1>3, <2>1, <2>2, <2>3 DEF Network
<1>4. ASSUME NEW t \in Terminators, Terminate(t) PROVE CandidatesKept'
  <2>1. CASE Release(t)
    <3>1. pcState' = "closed"
      BY <2>1 DEF Release, Inv, Joined, Reset, Ownership, Terminators, Threads
    <3> QED
      BY <3>1, ClosedKept
  <2>2. CASE Close(t)
    BY <2>2, StayKept, ClosedKept DEF Close, CloseConnection
  <2> QED
    BY <1>4, <2>1, <2>2, StayKept DEF Terminate, StoreConnected,
      StoreComplete, JoinTimer, JoinSdp, TerminateFn, ClearFn, Free
<1>5. CASE Io
  <2>1. CASE SetRemoteDescription
    BY <2>1, StayKept, NotifyKept DEF SetRemoteDescription
  <2>2. CASE SetLocalDescription
    BY <2>2, StayKept, NotifyKept DEF SetLocalDescription, LocalDescription
  <2> QED
    BY <1>4, <1>5, <2>1, <2>2, StayKept DEF Io, OnLocalSdp, RestartIce, Unmap,
      Drop, Terminators
<1>6. CASE Cleaner
  BY <1>4, <1>6, StayKept DEF Cleaner, Inspect, Erase, Terminators
<1>7. CASE SendSdp("lib") \/ Sdp
  BY <1>7, StayKept DEF Sdp, WakeSdp, SendSdp, Serialise, CallSdpFn, SentFn,
    ClearFn
<1>8. CASE Lib
  <2>1. CASE UNCHANGED state
    BY <2>1, StayKept
  <2>2. CASE OnSignalingStateChange /\ ~UNCHANGED state
    BY <2>2, CallbackKept DEF OnSignalingStateChange, Typed
  <2>3. CASE OnLocalDescription /\ ~UNCHANGED state
    BY <2>3, CallbackKept DEF OnLocalDescription, Typed
  <2>4. CASE OnIceCandidate /\ ~UNCHANGED state
    BY <2>4, CallbackKept DEF OnIceCandidate, Typed
  <2>5. CASE OnConnected \/ OnFailed
    BY <2>5, CallbackKept DEF OnConnected, OnFailed, Typed
  <2>6. CASE FailClose
    BY <2>6, ClosedKept DEF FailClose, CloseConnection
  <2>7. CASE EmitLocalSdp \/ StartSend \/ ConnectedFn
    BY <2>7, StayKept DEF EmitLocalSdp, StartSend, ConnectedFn, ClearFn
  <2> QED
    BY <1>7, <1>8, <2>1, <2>2, <2>3, <2>4, <2>5, <2>6, <2>7 DEF Lib
<1>9. CASE Timer
  BY <1>9, StayKept, ClosedKept DEF Timer, WakeTimer, TimerCheck, TimerClose,
    CloseConnection
<1> QED
  BY <1>1, <1>2, <1>3, <1>5, <1>6, <1>7, <1>8, <1>9 DEF Next, Over

\* In every instance a candidate found before the connection closes is in the
\* description that is sent, or on its way there.
THEOREM CandidatesCorrect == Spec => []NoCandidateLost
<1>1. CandidatesKept => NoCandidateLost
  BY DEF CandidatesKept, Covered, NoCandidateLost
<1>2. IInv => Typed
  BY DEF IInv
<1> QED
  BY <1>1, <1>2, InitKept, KeptNext, Invariance, PTL DEF Spec
=============================================================================
