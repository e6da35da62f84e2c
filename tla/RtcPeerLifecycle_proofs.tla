---------------------- MODULE RtcPeerLifecycle_proofs ----------------------
(* Every behaviour of RtcPeer is one of PeerLifecycle, and its teardown ends *)
(* the process for the causes of OrderlyTeardown only, for every set of      *)
(* candidates, any number of restarts, and has_candidates_in_sdp_ either     *)
(* way.                                                                      *)
EXTENDS RtcPeerAnswer_proofs

USE DEF life, flags, texts, handles, library, state, vars, others, rest, quiet,
        members, Move

\* The library reports Connected to a peer that was answered, and nothing
\* happens to a connection that is not made.
IsConnected(event) ==
  event.cb = "OnConnectionChange" /\ event.state = "Connected"
Reported ==
  /\ \A i \in DOMAIN cbq : IsConnected(cbq[i]) => responses # <<>>
  /\ peer = "absent" => pcState = "new"

\* What a step of RtcPeer is for its owner.
Implements == [Lifecycle!Next]_(Lifecycle!vars)

\* What it takes to be one.
Invariants == IInv /\ Answer /\ Reported

-----------------------------------------------------------------------------
(* Reported is an invariant.                                               *)

LEMMA InitReported == Init => Reported
BY DEF Init, Reported

\* A step that queues nothing, or drops the queue or its head.
LEMMA QueueReported ==
  ASSUME Typed, Reported,
         cbq' \in {cbq, <<>>} \/ (cbq # <<>> /\ cbq' = Tail(cbq)),
         responses # <<>> => responses' # <<>>,
         peer' = "absent" => peer = "absent" /\ pcState' = pcState
  PROVE  Reported'
<1>1. \A i \in DOMAIN cbq' : \E j \in DOMAIN cbq : cbq'[i] = cbq[j]
  <2>1. CASE cbq' \in {cbq, <<>>}
    BY <2>1
  <2>2. CASE cbq # <<>> /\ cbq' = Tail(cbq)
    BY <2>2 DEF Typed, LibraryOK
  <2> QED
    BY <2>1, <2>2
<1> QED
  BY <1>1 DEF Reported

LEMMA NotifyReported ==
  ASSUME Typed, Reported, NEW event, Notify(event),
         IsConnected(event) => responses # <<>>,
         UNCHANGED <<peer, responses>>,
         peer # "absent"
  PROVE  Reported'
<1>1. CASE cbq' = cbq
  BY <1>1, QueueReported
<1>2. CASE cbq' = Append(cbq, event)
  <2>1. \A i \in DOMAIN cbq' :
          cbq'[i] = event \/ \E j \in DOMAIN cbq : cbq'[i] = cbq[j]
    BY <1>2 DEF Typed, LibraryOK
  <2> QED
    BY <2>1 DEF Reported
<1> QED
  BY <1>1, <1>2 DEF Notify

LEMMA NetworkReported ==
  ASSUME IInv, Reported, Network
  PROVE  Reported'
<1> USE DEF IInv, Inv, Ownership, Reset, IsConnected
<1>1. CASE \E c \in Candidates : Gather(c)
  BY <1>1, NotifyReported DEF Gather, Reported
<1>2. CASE Connect
  BY <1>2, NotifyReported DEF Connect, Reported
<1>3. CASE Fail
  BY <1>3, NotifyReported DEF Fail, Reported
<1>4. CASE RemoteClose
  BY <1>4, QueueReported DEF RemoteClose, CloseConnection, Reported
<1> QED
  BY <1>1, <1>2, <1>3, <1>4 DEF Network

LEMMA TerminateReported ==
  ASSUME IInv, Reported, NEW t \in Terminators, Terminate(t)
  PROVE  Reported'
<1>1. peer # "absent"
  BY DEF IInv, Inv, Typed, PcOK, Ownership, Terminators, Threads, Terminate,
    StoreConnected, StoreComplete, JoinTimer, JoinSdp, TerminateFn, ClearFn,
    Close, Release, Free, At
<1>2. peer' # "absent" /\ UNCHANGED responses /\ cbq' \in {cbq, <<>>}
  BY <1>1 DEF Terminate, StoreConnected, StoreComplete, JoinTimer, JoinSdp,
    TerminateFn, ClearFn, Close, CloseConnection, Release, Free, Die
<1> QED
  BY <1>2, QueueReported DEF IInv

LEMMA IoReported ==
  ASSUME IInv, Reported, Io
  PROVE  Reported'
<1> USE DEF IInv, Inv, Typed, Ownership, IsConnected, At, Die
<1>1. CASE OnLocalSdp
  BY <1>1, QueueReported DEF OnLocalSdp
<1>2. CASE RestartIce
  BY <1>2, QueueReported DEF RestartIce
<1>3. CASE SetRemoteDescription
  BY <1>3, QueueReported, NotifyReported DEF SetRemoteDescription, Threads
<1>4. CASE SetLocalDescription
  BY <1>4, QueueReported, NotifyReported DEF SetLocalDescription, Threads
<1>5. CASE Unmap
  BY <1>5, QueueReported DEF Unmap
<1>6. CASE Drop
  BY <1>6, QueueReported DEF Drop
<1>7. CASE Terminate("io")
  BY <1>7, TerminateReported DEF Terminators
<1> QED
  BY <1>1, <1>2, <1>3, <1>4, <1>5, <1>6, <1>7 DEF Io

LEMMA SendReported ==
  ASSUME IInv, Reported, NEW t \in Senders, SendSdp(t)
  PROVE  Reported'
<1>1. /\ UNCHANGED <<peer, pcState, cbq>>
      /\ responses # <<>> => responses' # <<>>
  BY DEF SendSdp, Serialise, CallSdpFn, SentFn, ClearFn, Die, IInv, Typed,
    TextsOK
<1> QED
  BY <1>1, QueueReported DEF IInv

LEMMA LibReported ==
  ASSUME IInv, Reported, Lib
  PROVE  Reported'
<1>1. CASE SendSdp("lib")
  BY <1>1, SendReported DEF Senders
<1>2. CASE ~SendSdp("lib")
  <2>1. /\ UNCHANGED responses
        /\ cbq' \in {cbq, <<>>} \/ (cbq # <<>> /\ cbq' = Tail(cbq))
        /\ UNCHANGED peer
        /\ peer = "absent" => pcState' = pcState
    BY <1>2 DEF Lib, OnSignalingStateChange, OnLocalDescription, EmitLocalSdp,
      StartSend, OnIceCandidate, OnConnected, ConnectedFn, OnFailed, FailClose,
      CloseConnection, ClearFn, Callback, Die, At, IInv, Inv, Ownership,
      Threads
  <2> QED
    BY <2>1, QueueReported DEF IInv
<1> QED
  BY <1>1, <1>2

LEMMA ReportedNext == IInv /\ Reported /\ [Next]_vars => Reported'
<1> SUFFICES ASSUME IInv, Reported, [Next]_vars PROVE Reported'
  OBVIOUS
<1>1. CASE UNCHANGED vars
  BY <1>1, QueueReported DEF IInv
<1>2. CASE Client
  BY <1>2, QueueReported DEF IInv, Client, CreatePeer, PatchCandidates,
    PatchRestart, Delete, Request
<1>3. CASE Cleaner
  BY <1>3, QueueReported, TerminateReported DEF IInv, Cleaner, Inspect, Erase,
    Die, Terminators
<1>4. CASE Timer
  BY <1>4, QueueReported DEF IInv, Inv, Ownership, Threads, At, Timer,
    WakeTimer, TimerCheck, TimerClose, CloseConnection
<1>5. CASE Sdp
  BY <1>5, QueueReported, SendReported DEF IInv, Sdp, WakeSdp, Senders
<1> QED
  BY <1>1, <1>2, <1>3, <1>4, <1>5, NetworkReported, IoReported, LibReported
    DEF Next, Over

-----------------------------------------------------------------------------
(* Every step is one of PeerLifecycle, or none its owner sees.             *)

LEMMA InitLifecycle == Init => Lifecycle!Init
BY DEF Init, Lifecycle!Init, stage

LEMMA Unseen ==
  ASSUME UNCHANGED <<peer, responses, flags, dead>>,
         pcState' = "closed" <=> pcState = "closed",
         refs' # {} <=> refs # {}
  PROVE  Implements
BY DEF Implements, Lifecycle!vars, stage

LEMMA Crashes ==
  ASSUME Typed, dead = "no", NEW cause \in Causes, Die(cause)
  PROVE  Implements
<1>1. Lifecycle!Crash
  BY DEF Die, Causes, Lifecycle!Crash, stage
<1> QED
  BY <1>1 DEF Implements, Lifecycle!Next

\* Whoever closes the connection, it is the end of an open stage.
LEMMA Closing ==
  ASSUME Invariants, dead = "no", CloseConnection,
         UNCHANGED <<peer, refs, responses, dead>>, peer # "absent"
  PROVE  Implements
<1>1. CASE pcState = "closed"
  BY <1>1, Unseen DEF CloseConnection
<1>2. CASE pcState # "closed"
  <2>1. peer \in {"live", "dying"}
    BY <1>2 DEF Invariants, IInv, Inv, Typed, LifeOK, Reset, Joined
  <2>2. Lifecycle!Close
    BY <1>2, <2>1 DEF CloseConnection, OnClosed, Lifecycle!Close, stage
  <2> QED
    BY <2>2 DEF Implements, Lifecycle!Next
<1> QED
  BY <1>1, <1>2

LEMMA NetworkImplements ==
  ASSUME Invariants, dead = "no", Network
  PROVE  Implements
<1>1. CASE \E c \in Candidates : Gather(c)
  BY <1>1, Unseen DEF Gather
<1>2. CASE Connect
  BY <1>2, Unseen DEF Connect
<1>3. CASE Fail
  BY <1>3, Unseen DEF Fail
<1>4. CASE RemoteClose
  BY <1>4, Closing DEF RemoteClose, Invariants, Reported
<1> QED
  BY <1>1, <1>2, <1>3, <1>4 DEF Network

LEMMA ClientImplements ==
  ASSUME Invariants, dead = "no", Client
  PROVE  Implements
<1>1. CASE CreatePeer
  <2>1. Lifecycle!Create
    BY <1>1 DEF CreatePeer, Lifecycle!Create, stage, Invariants, Reported
  <2> QED
    BY <2>1 DEF Implements, Lifecycle!Next
<1>2. CASE PatchCandidates \/ PatchRestart \/ Delete
  BY <1>2, Unseen DEF PatchCandidates, PatchRestart, Delete, Request
<1> QED
  BY <1>1, <1>2 DEF Client

LEMMA TerminateImplements ==
  ASSUME Invariants, dead = "no", NEW t \in Terminators, Terminate(t)
  PROVE  Implements
<1> USE DEF Invariants, IInv, Inv, Typed, At
<1>1. peer \in {"live", "dying"}
  BY DEF PcOK, LifeOK, Ownership, Terminators, Threads, Terminate,
    TerminateLabels, StoreConnected, StoreComplete, JoinTimer, JoinSdp,
    TerminateFn, ClearFn, Close, Release, Free
<1>2. CASE StoreConnected(t)
  <2>1. CASE pcState = "closed"
    BY <1>2, <2>1, Unseen DEF StoreConnected, Closed, FlagsOK
  <2>2. CASE pcState # "closed"
    <3>1. Lifecycle!Disconnect
      BY <1>1, <1>2, <2>2 DEF StoreConnected, Lifecycle!Disconnect, stage
    <3> QED
      BY <3>1 DEF Implements, Lifecycle!Next
  <2> QED
    BY <2>1, <2>2
<1>3. CASE StoreComplete(t)
  <2>1. CASE pcState = "closed"
    BY <1>3, <2>1, Unseen DEF StoreComplete, Closed
  <2>2. CASE pcState # "closed"
    <3>1. Lifecycle!End
      BY <1>1, <1>3, <2>2 DEF StoreComplete, Lifecycle!End, stage
    <3> QED
      BY <3>1 DEF Implements, Lifecycle!Next
  <2> QED
    BY <2>1, <2>2
<1>4. CASE JoinTimer(t) \/ JoinSdp(t) \/ Release(t)
  BY <1>4, Unseen DEF JoinTimer, JoinSdp, Release
<1>5. CASE TerminateFn(t)
  BY <1>5, Unseen, Crashes DEF TerminateFn, ClearFn, Causes
<1>6. CASE Close(t)
  BY <1>1, <1>6, Unseen, Closing DEF Close
<1>7. CASE Free(t)
  <2>1. CASE Die("joinable_destroyed")
    BY <2>1, Crashes DEF Causes
  <2>2. CASE peer' = "destroyed" /\ UNCHANGED <<refs, flags, responses, dead>>
    <3>1. refs = {} /\ pcState = "closed"
      BY <1>1, <1>7 DEF Free, Ownership, Reset, Joined, Terminators
    <3>2. Lifecycle!Destroy
      BY <1>1, <2>2, <3>1 DEF Lifecycle!Destroy, stage
    <3> QED
      BY <3>2 DEF Implements, Lifecycle!Next
  <2> QED
    BY <1>7, <2>1, <2>2 DEF Free
<1> QED
  BY <1>2, <1>3, <1>4, <1>5, <1>6, <1>7 DEF Terminate

\* An owner lets go of the peer, the last one starts ~RtcPeer.
LEMMA Releasing ==
  ASSUME Invariants, dead = "no", NEW owner \in refs, refs' = refs \ {owner},
         peer' \in {peer, "dying"}, peer = "live",
         UNCHANGED <<flags, responses, pcState, dead>>
  PROVE  Implements
<1>1. CASE refs' # {}
  BY <1>1 DEF Implements, Lifecycle!vars, stage
<1>2. CASE refs' = {}
  <2>1. Lifecycle!Release
    BY <1>2 DEF Lifecycle!Release, stage
  <2> QED
    BY <2>1 DEF Implements, Lifecycle!Next
<1> QED
  BY <1>1, <1>2

LEMMA IoImplements ==
  ASSUME Invariants, dead = "no", Io
  PROVE  Implements
<1> USE DEF Invariants, IInv, Inv, Typed, At
<1>1. CASE OnLocalSdp
  BY <1>1, Unseen DEF OnLocalSdp
<1>2. CASE RestartIce
  BY <1>2, Unseen, Crashes DEF RestartIce, Causes
<1>3. CASE SetRemoteDescription
  BY <1>3, Unseen, Crashes DEF SetRemoteDescription, Causes
<1>4. CASE SetLocalDescription
  BY <1>4, Unseen, Crashes DEF SetLocalDescription, Causes
<1>5. CASE Unmap
  <2>1. peer # "live" => refs = {}
    BY DEF LifeOK, Ownership
  <2>2. peer = "live" => "io" \in refs
    BY <1>5 DEF Unmap, Ownership
  <2> QED
    BY <1>5, <2>1, <2>2, Unseen DEF Unmap
<1>6. CASE Drop
  <2>1. peer = "live" /\ "io" \in refs
    BY <1>6 DEF Drop, LifeOK, Ownership, TerminateLabels, Threads
  <2> QED
    BY <1>6, <2>1, Releasing DEF Drop
<1>7. CASE Terminate("io")
  BY <1>7, TerminateImplements DEF Terminators
<1> QED
  BY <1>1, <1>2, <1>3, <1>4, <1>5, <1>6, <1>7 DEF Io

LEMMA CleanerImplements ==
  ASSUME Invariants, dead = "no", Cleaner
  PROVE  Implements
<1>1. CASE Inspect
  BY <1>1, Unseen DEF Inspect
<1>2. CASE Erase
  <2>1. CASE "map" \in refs
    <3>1. peer = "live"
      BY <2>1 DEF Invariants, IInv, Inv, Typed, LifeOK, Ownership
    <3> QED
      BY <1>2, <2>1, <3>1, Releasing DEF Erase
  <2>2. CASE Die("map_race")
    BY <2>2, Crashes DEF Invariants, IInv, Causes
  <2>3. CASE UNCHANGED others
    BY <2>3, Unseen DEF others
  <2> QED
    BY <1>2, <2>1, <2>2, <2>3 DEF Erase
<1>3. CASE Terminate("cleaner")
  BY <1>3, TerminateImplements DEF Terminators
<1> QED
  BY <1>1, <1>2, <1>3 DEF Cleaner

LEMMA SendImplements ==
  ASSUME Invariants, Answer', dead = "no", NEW t \in Senders, SendSdp(t)
  PROVE  Implements
<1> USE DEF Invariants, IInv, Inv, Typed, At
<1>1. CASE Serialise(t)
  BY <1>1, Unseen, Crashes DEF Serialise, Causes
<1>2. CASE CallSdpFn(t)
  <2>1. CASE \E cause \in Causes : Die(cause)
    BY <2>1, Crashes
  <2>2. CASE responses' = Append(responses, modified_sdp_)
             /\ UNCHANGED <<peer, refs, flags, pcState, dead>>
    <3>1. peer \in {"live", "dying"}
      BY <1>2 DEF CallSdpFn, PcOK, LifeOK, Ownership, Handles, Reset, Joined,
        Senders, Threads
    <3>2. Len(responses) = 0 /\ Len(responses') = 1
      BY <2>2 DEF TextsOK, Answer, AnsweredOnce
    <3>3. Lifecycle!Answer
      BY <2>2, <3>1, <3>2 DEF Lifecycle!Answer, stage
    <3> QED
      BY <3>3 DEF Implements, Lifecycle!Next
  <2> QED
    BY <1>2, <2>1, <2>2 DEF CallSdpFn, Causes
<1>3. CASE SentFn(t)
  BY <1>3, Unseen, Crashes DEF SentFn, ClearFn, Causes
<1> QED
  BY <1>1, <1>2, <1>3 DEF SendSdp

LEMMA LibImplements ==
  ASSUME Invariants, Answer', dead = "no", Lib
  PROVE  Implements
<1> USE DEF Invariants, IInv, Inv, Typed, At
<1>1. ASSUME cbq # <<>> PROVE pcState # "closed" /\ peer \in {"live", "dying"}
  BY <1>1 DEF LifeOK, Ownership, Closed, Reset, Joined
<1>2. CASE OnSignalingStateChange
  BY <1>2, Unseen, Crashes DEF OnSignalingStateChange, Callback, Causes
<1>3. CASE OnLocalDescription
  BY <1>3, Unseen, Crashes DEF OnLocalDescription, Callback, Causes
<1>4. CASE EmitLocalSdp \/ StartSend
  BY <1>4, Unseen DEF EmitLocalSdp, StartSend
<1>5. CASE OnIceCandidate
  BY <1>5, Unseen, Crashes DEF OnIceCandidate, Callback, Causes
<1>6. CASE OnConnected
  <2>1. responses # <<>>
    BY <1>6 DEF OnConnected, Callback, Reported, IsConnected, LibraryOK
  <2>2. Len(responses) > 0
    BY <2>1 DEF TextsOK
  <2>3. Lifecycle!Connect
    BY <1>1, <1>6, <2>2 DEF OnConnected, Callback, Lifecycle!Connect, stage
  <2> QED
    BY <2>3 DEF Implements, Lifecycle!Next
<1>7. CASE ConnectedFn
  BY <1>7, Unseen, Crashes DEF ConnectedFn, ClearFn, Causes
<1>8. CASE OnFailed
  <2>1. Lifecycle!Disconnect
    BY <1>1, <1>8 DEF OnFailed, Callback, Lifecycle!Disconnect, stage
  <2> QED
    BY <2>1 DEF Implements, Lifecycle!Next
<1>9. CASE FailClose
  BY <1>9, Closing DEF FailClose, Ownership, Threads
<1>10. CASE SendSdp("lib")
  BY <1>10, SendImplements DEF Senders
<1> QED
  BY <1>2, <1>3, <1>4, <1>5, <1>6, <1>7, <1>8, <1>9, <1>10 DEF Lib

LEMMA TimerImplements ==
  ASSUME Invariants, dead = "no", Timer
  PROVE  Implements
<1>1. CASE WakeTimer \/ TimerCheck
  BY <1>1, Unseen DEF WakeTimer, TimerCheck
<1>2. CASE TimerClose
  BY <1>2, Closing DEF TimerClose, At, Invariants, IInv, Inv, Ownership,
    Threads
<1> QED
  BY <1>1, <1>2 DEF Timer

LEMMA NextImplements == Invariants /\ Answer' /\ [Next]_vars => Implements
<1> SUFFICES ASSUME Invariants, Answer', [Next]_vars PROVE Implements
  OBVIOUS
<1>1. CASE UNCHANGED vars
  BY <1>1, Unseen
<1>2. CASE dead = "no" /\ WakeSdp
  BY <1>2, Unseen DEF WakeSdp
<1>3. CASE dead = "no" /\ SendSdp("sdp")
  BY <1>3, SendImplements DEF Senders
<1> QED
  BY <1>1, <1>2, <1>3, ClientImplements, NetworkImplements, IoImplements,
    CleanerImplements, LibImplements, TimerImplements DEF Next, Over,
    Sdp

\* Whatever its threads do, a peer does nothing that PeerLifecycle rules out:
\* the safety half of KeepsLifecycle, in every instance.
THEOREM LifecycleCorrect == Spec => Lifecycle!Spec
<1>1. Init => Lifecycle!Init /\ Answer /\ Reported
  BY InitLifecycle, InitAnswer, InitReported
<1>2. IInv /\ Answer /\ Reported /\ Answer' /\ [Next]_vars
        => [Lifecycle!Next]_(Lifecycle!vars)
  BY NextImplements DEF Invariants, Implements
<1> QED
  BY <1>1, <1>2, AnswerNext, ReportedNext, Invariance, PTL
  DEF Spec, Lifecycle!Spec

-----------------------------------------------------------------------------
(* What can end the process, and what cannot.                              *)

\* The callbacks on their way.
Queued(cb) == \E i \in DOMAIN cbq : cbq[i].cb = cb
Once(cb) ==
  \A i, j \in DOMAIN cbq : cbq[i].cb = cb /\ cbq[j].cb = cb => i = j

\* Without a restart the POST is the one offer, and starts one timer.
Offering == pc["io"] \in {"on_local_sdp", "set_remote"}
OneTimer ==
  restarts = 0 =>
    /\ pc["io"] # "restart"
    /\ Once("OnSignalingStateChange")
    /\ Queued("OnSignalingStateChange") \/ Offering => ~peer_timeout_
    /\ Offering => ~Queued("OnSignalingStateChange")
    /\ peer = "absent" => ~peer_timeout_

\* A description on its way to the response: there is one at most, and until
\* it is there nobody resets what send_sdp will use.
LibSends == pc["lib"] \in {"emit", "join_prev", "serialise", "call"}
SdpSends == pc["sdp"] \in {"sleep", "serialise", "call"}
InFlight == Queued("OnLocalDescription") \/ LibSends \/ SdpSends
OneSend ==
  restarts = 0 /\ ~reaped =>
    /\ Once("OnLocalDescription")
    /\ Queued("OnLocalDescription") => ~LibSends /\ ~SdpSends
    /\ ~(LibSends /\ SdpSends)
    /\ InFlight =>
         responses = <<>> /\ on_local_sdp_fn_ /\ pc["io"] \in {"drop", "idle"}
    /\ LibSends \/ SdpSends => modified_desc_ # NoDesc
    /\ pc["io"] \in {"set_remote", "set_local"} => on_local_sdp_fn_
    /\ pc["io"] \in {"on_local_sdp", "set_remote", "set_local"} =>
         responses = <<>>

\* Only a client that has its answer deletes, and a deleted peer goes through
\* Terminate twice: the second time nothing starts a thread behind the joins.
Deleted ==
  /\ \A s \in Senders : pc[s] = "clear" => responses # <<>>
  /\ pc["lib"] = "conn_fn" => responses # <<>>
  /\ ~reaped =>
       /\ pc["cleaner"] \in {"idle", "erase"}
       /\ pc["io"] \in TerminateLabels => responses # <<>>
       /\ peer # "absent" /\ "map" \notin refs =>
            ~peer_connection_ /\ responses # <<>>
       /\ peer = "dying" =>
            /\ pc["io"] \in {"join_sdp", "clear_fn", "close", "release", "free"}
                 => ~peer_timeout_
            /\ pc["io"] \in {"clear_fn", "close", "release", "free"}
                 => ~sent_sdp_timeout_

Orderly == OneTimer /\ OneSend /\ Deleted

LEMMA InitOrderly == Init => Orderly /\ OrderlyTeardown
BY DEF Init, Orderly, OneTimer, Offering, OneSend, Deleted, Queued, Once,
  InFlight, LibSends, SdpSends, Threads, Senders, TerminateLabels,
  OrderlyTeardown

LEMMA StayOrderly == ASSUME Orderly, UNCHANGED state PROVE Orderly'
BY DEF Orderly, OneTimer, Offering, OneSend, Deleted, Queued, Once, InFlight,
  LibSends, SdpSends

\* No callback cb is queued.
NoNew(cb) == (Queued(cb)' => Queued(cb)) /\ (Once(cb) => Once(cb)')

LEMMA ShrinkNoNew ==
  ASSUME Typed, NEW cb,
         cbq' \in {cbq, <<>>} \/ (cbq # <<>> /\ cbq' = Tail(cbq))
  PROVE  NoNew(cb)
<1>1. CASE cbq' = cbq
  BY <1>1 DEF NoNew, Queued, Once
<1>2. CASE cbq' = <<>>
  BY <1>2 DEF NoNew, Queued, Once
<1>3. CASE cbq # <<>> /\ cbq' = Tail(cbq)
  <2>1. \A i \in DOMAIN cbq' :
          i \in Nat /\ i + 1 \in DOMAIN cbq /\ cbq'[i] = cbq[i + 1]
    BY <1>3 DEF Typed, LibraryOK
  <2>2. Queued(cb)' => Queued(cb)
    BY <2>1 DEF Queued
  <2>3. Once(cb) => Once(cb)'
    <3> SUFFICES ASSUME Once(cb), NEW i \in DOMAIN cbq', NEW j \in DOMAIN cbq',
                        cbq'[i].cb = cb, cbq'[j].cb = cb
                 PROVE  i = j
      BY DEF Once
    <3>1. i + 1 = j + 1
      BY <2>1 DEF Once
    <3> QED
      BY <2>1, <3>1
  <2> QED
    BY <2>2, <2>3 DEF NoNew
<1> QED
  BY <1>1, <1>2, <1>3

LEMMA NotifyStep ==
  ASSUME Typed, NEW cb, NEW event, Notify(event)
  PROVE  /\ Queued(cb)' => Queued(cb) \/ event.cb = cb
         /\ Once(cb) /\ (event.cb = cb => ~Queued(cb)) => Once(cb)'
<1>1. CASE cbq' = cbq
  BY <1>1 DEF Queued, Once
<1>2. CASE cbq' = Append(cbq, event)
  <2>1. \A i \in DOMAIN cbq' :
          \/ i \in DOMAIN cbq /\ cbq'[i] = cbq[i]
          \/ i = Len(cbq) + 1 /\ cbq'[i] = event
    BY <1>2 DEF Typed, LibraryOK
  <2> QED
    BY <2>1 DEF Queued, Once
<1> QED
  BY <1>1, <1>2 DEF Notify

LEMMA NotifyNoNew ==
  ASSUME Typed, NEW cb, NEW event, Notify(event), event.cb # cb
  PROVE  NoNew(cb)
BY NotifyStep DEF NoNew

LEMMA CallbackTakes ==
  ASSUME Typed, NEW cb, Callback(cb), Once(cb)
  PROVE  Queued(cb) /\ ~Queued(cb)'
<1>1. \A i \in DOMAIN cbq' :
        i \in Nat \ {0} /\ i + 1 \in DOMAIN cbq /\ cbq'[i] = cbq[i + 1]
  BY DEF Typed, LibraryOK, Callback
<1>2. 1 \in DOMAIN cbq /\ cbq[1].cb = cb
  BY DEF Typed, LibraryOK, Callback
<1> QED
  BY <1>1, <1>2 DEF Queued, Once

\* Only SetRemoteSdp has the library announce an offer, or a description.
LEMMA NextNoNew ==
  ASSUME Typed, [Next]_vars
  PROVE  /\ ~SetRemoteDescription => NoNew("OnSignalingStateChange")
         /\ ~SetLocalDescription => NoNew("OnLocalDescription")
<1>1. CASE cbq' \in {cbq, <<>>} \/ (cbq # <<>> /\ cbq' = Tail(cbq))
  BY <1>1, ShrinkNoNew
<1>2. CASE (\E c \in Candidates : Gather(c)) \/ Connect \/ Fail
  BY <1>2, NotifyNoNew DEF Gather, Connect, Fail
<1>3. CASE SetRemoteDescription
  BY <1>1, <1>3, NotifyNoNew DEF SetRemoteDescription, Die
<1>4. CASE SetLocalDescription
  BY <1>1, <1>4, NotifyNoNew DEF SetLocalDescription, Die
<1>5. CASE UNCHANGED vars \/ Client \/ RemoteClose \/ Cleaner \/ Timer \/ Sdp
  BY <1>1, <1>5 DEF Client, CreatePeer, PatchCandidates, PatchRestart, Delete,
    Request, RemoteClose, CloseConnection, Cleaner, Inspect, Erase, Die,
    Terminate, StoreConnected, StoreComplete, JoinTimer, JoinSdp, TerminateFn,
    ClearFn, Close, Release, Free, Timer, WakeTimer, TimerCheck, TimerClose,
    Sdp, WakeSdp, SendSdp, Serialise, CallSdpFn, SentFn
<1>6. CASE Io /\ ~SetRemoteDescription /\ ~SetLocalDescription
  BY <1>1, <1>6 DEF Io, OnLocalSdp, RestartIce, Unmap, Drop, CloseConnection,
    Die, Terminate, StoreConnected, StoreComplete, JoinTimer, JoinSdp,
    TerminateFn, ClearFn, Close, Release, Free
<1>7. CASE Lib
  BY <1>1, <1>7 DEF Lib, OnSignalingStateChange, OnLocalDescription,
    EmitLocalSdp, StartSend, OnIceCandidate, OnConnected, ConnectedFn,
    OnFailed, FailClose, Callback, CloseConnection, ClearFn, SendSdp,
    Serialise, CallSdpFn, SentFn, Die
<1> QED
  BY <1>2, <1>3, <1>4, <1>5, <1>6, <1>7 DEF Next, Network, Over

\* A step that announces no offer and starts no timer.
LEMMA FrameTimer ==
  ASSUME OneTimer, NoNew("OnSignalingStateChange"),
         restarts' = 0 => restarts = 0,
         restarts' = 0 =>
           pc'["io"] \in {pc["io"]} \cup {"idle", "drop", "set_local", "stop"}
                         \cup TerminateLabels,
         peer_timeout_' => peer_timeout_,
         peer' = "absent" => peer = "absent"
  PROVE  OneTimer'
BY DEF OneTimer, Offering, NoNew, TerminateLabels

LEMMA TimerNext ==
  ASSUME IInv, OneTimer, [Next]_vars
  PROVE  OneTimer'
<1> USE DEF IInv, Typed, At, Die
<1>1. CASE UNCHANGED state
  BY <1>1 DEF OneTimer, Offering, Queued, Once
<1>2. CASE SetRemoteDescription /\ ~UNCHANGED state
  <2>1. CASE Notify([cb |-> "OnSignalingStateChange"])
    BY <1>2, <2>1, GoPc, NotifyStep DEF SetRemoteDescription, Threads,
      OneTimer, Offering, Inv, Ownership
  <2>2. CASE UNCHANGED cbq
    BY <1>2, <2>2, GoPc DEF SetRemoteDescription, Threads, OneTimer, Offering,
      Inv, Ownership, Queued, Once
  <2> QED
    BY <1>2, <2>1, <2>2 DEF SetRemoteDescription
<1>3. CASE ~SetRemoteDescription /\ ~UNCHANGED state
  <2>1. NoNew("OnSignalingStateChange")
    BY <1>3, NextNoNew
  <2>2. CASE Client
    <3>1. CASE CreatePeer
      <4>1. ~Queued("OnSignalingStateChange")
        BY <3>1 DEF CreatePeer, Inv, Ownership, Reset, Queued
      <4> QED
        BY <2>1, <3>1, <4>1, GoPc DEF CreatePeer, Threads, OneTimer, Offering,
          NoNew
    <3>2. CASE PatchCandidates \/ Delete
      BY <2>1, <3>2, GoPc, FrameTimer DEF PatchCandidates, Delete, Request,
        Threads, Inv, Ownership, OneTimer
    <3>3. CASE PatchRestart
      BY <3>3 DEF PatchRestart, OneTimer, LifeOK
    <3> QED
      BY <2>2, <3>1, <3>2, <3>3 DEF Client
  <2>3. CASE Network
    <3>1. UNCHANGED <<peer, restarts, pc, peer_timeout_>>
      BY <2>3 DEF Network, Gather, Connect, Fail, RemoteClose
    <3> QED
      BY <2>1, <3>1, FrameTimer
  <2>4. ASSUME NEW t \in Terminators, Terminate(t) PROVE OneTimer'
    <3>1. \E l \in TerminateLabels \cup {"idle"} : Go(t, l)
      BY <1>3, <2>4 DEF Terminate, StoreConnected, StoreComplete, JoinTimer,
        JoinSdp, TerminateFn, ClearFn, Close, Release, Free, TerminateLabels
    <3>2. /\ restarts' = restarts
          /\ peer_timeout_' => peer_timeout_
          /\ peer' = "absent" => peer = "absent"
      BY <1>3, <2>4 DEF Terminate, StoreConnected, StoreComplete, JoinTimer,
        JoinSdp, TerminateFn, ClearFn, Close, Release, Free
    <3> QED
      BY <2>1, <3>1, <3>2, GoPc, FrameTimer DEF Terminators, Threads
  <2>5. CASE Io
    <3>1. CASE OnLocalSdp
      BY <2>1, <3>1, GoPc DEF OnLocalSdp, Threads, OneTimer, Offering, NoNew
    <3>2. CASE RestartIce
      BY <1>3, <3>2 DEF RestartIce, OneTimer
    <3>3. CASE SetLocalDescription \/ Unmap \/ Drop
      BY <1>3, <2>1, <3>3, GoPc, FrameTimer DEF SetLocalDescription, Unmap,
        Drop, Threads
    <3> QED
      BY <1>3, <2>4, <2>5, <3>1, <3>2, <3>3 DEF Io, Terminators
  <2>6. CASE Cleaner
    BY <1>3, <2>1, <2>4, <2>6, GoPc, FrameTimer DEF Cleaner, Inspect, Erase,
      Threads, Terminators
  <2>7. CASE Timer \/ Sdp
    BY <1>3, <2>1, <2>7, GoPc, FrameTimer DEF Timer, WakeTimer, TimerCheck,
      TimerClose, Sdp, WakeSdp, SendSdp, Serialise, CallSdpFn, SentFn, ClearFn,
      Threads
  <2>8. CASE OnSignalingStateChange
    <3>1. CASE restarts = 0
      <4>1. /\ Callback("OnSignalingStateChange")
            /\ pc'["io"] = pc["io"]
            /\ UNCHANGED <<peer, restarts>>
        BY <1>3, <2>8, GoPc DEF OnSignalingStateChange, Threads
      <4>2. /\ Queued("OnSignalingStateChange")
            /\ ~Queued("OnSignalingStateChange")'
        BY <3>1, <4>1, CallbackTakes DEF OneTimer
      <4>3. peer # "absent"
        BY <4>1 DEF Callback, Inv, Ownership, Reset
      <4> QED
        BY <2>1, <3>1, <4>1, <4>2, <4>3 DEF OneTimer, Offering, NoNew
    <3>2. CASE restarts # 0
      BY <1>3, <2>8, <3>2 DEF OnSignalingStateChange, OneTimer
    <3> QED
      BY <3>1, <3>2
  <2>9. CASE Lib /\ ~OnSignalingStateChange
    <3>1. pc'["io"] = pc["io"]
      BY <1>3, <2>9, GoPc DEF Lib, OnLocalDescription, EmitLocalSdp, StartSend,
        OnIceCandidate, OnConnected, ConnectedFn, OnFailed, FailClose, ClearFn,
        SendSdp, Serialise, CallSdpFn, SentFn, Threads, PcOK
    <3> QED
      BY <1>3, <2>1, <2>9, <3>1, FrameTimer DEF Lib, OnLocalDescription,
        EmitLocalSdp, StartSend, OnIceCandidate, OnConnected, ConnectedFn,
        OnFailed, FailClose, ClearFn, SendSdp, Serialise, CallSdpFn, SentFn
  <2> QED
    BY <1>3, <2>2, <2>3, <2>5, <2>6, <2>7, <2>8, <2>9 DEF Next, Over
<1> QED
  BY <1>1, <1>2, <1>3

\* A step that starts no send and answers no request, and that resets what a
\* send needs only when the answer is out.
LEMMA FrameSend ==
  ASSUME OneSend, NoNew("OnLocalDescription"), UNCHANGED responses,
         restarts' = 0 => restarts = 0,
         reaped => reaped',
         LibSends' => LibSends,
         SdpSends' => SdpSends,
         restarts' = 0 /\ ~reaped' /\ responses = <<>> =>
           /\ on_local_sdp_fn_ => on_local_sdp_fn_'
           /\ modified_desc_ # NoDesc => modified_desc_' # NoDesc
           /\ pc'["io"] \in {pc["io"], "idle", "drop"},
         restarts' = 0 /\ ~reaped' =>
           \/ pc'["io"] = pc["io"]
           \/ pc'["io"] \notin {"on_local_sdp", "set_remote", "set_local"}
  PROVE  OneSend'
BY DEF OneSend, InFlight, NoNew

LEMMA IoSend ==
  ASSUME IInv, Answer, OneTimer, OneSend, Deleted, [Next]_vars, Io,
         ~UNCHANGED state
  PROVE  OneSend'
<1> USE DEF IInv, Typed, At, Die
<1>1. UNCHANGED <<pc["lib"], pc["sdp"]>>
  BY GoPc DEF Io, OnLocalSdp, RestartIce, SetRemoteDescription,
    SetLocalDescription, Unmap, Drop, Terminate, StoreConnected,
    StoreComplete, JoinTimer, JoinSdp, TerminateFn, ClearFn, Close, Release,
    Free, Threads
<1>2. ~SetLocalDescription => NoNew("OnLocalDescription")
  BY NextNoNew
<1>3. CASE OnLocalSdp
  BY <1>1, <1>2, <1>3, GoPc DEF OnLocalSdp, Threads, OneSend, InFlight, NoNew,
    LibSends, SdpSends, SetLocalDescription
<1>4. CASE RestartIce
  BY <1>4 DEF RestartIce, OneTimer, OneSend
<1>5. CASE SetRemoteDescription
  <2>1. NoNew("OnLocalDescription")
    BY <1>2, <1>5 DEF SetRemoteDescription, SetLocalDescription
  <2>2. /\ pc["io"] = "set_remote" /\ pc'["io"] \in {"drop", "set_local"}
        /\ UNCHANGED <<responses, on_local_sdp_fn_, modified_desc_, restarts,
                       reaped>>
    BY <1>5, GoPc DEF SetRemoteDescription, Threads
  <2> QED
    BY <1>1, <2>1, <2>2 DEF OneSend, InFlight, NoNew, LibSends, SdpSends
<1>6. CASE SetLocalDescription
  <2>1. /\ pc["io"] = "set_local" /\ pc'["io"] = "drop"
        /\ UNCHANGED <<responses, on_local_sdp_fn_, modified_desc_, restarts,
                       reaped>>
    BY <1>6, GoPc DEF SetLocalDescription, Threads
  <2>2. LibSends' = LibSends /\ SdpSends' = SdpSends
    BY <1>1 DEF LibSends, SdpSends
  <2>3. CASE restarts = 0 /\ ~reaped
    <3>1. ~InFlight /\ responses = <<>> /\ on_local_sdp_fn_
      BY <2>1, <2>3 DEF OneSend
    <3>2. Once("OnLocalDescription") /\ ~Queued("OnLocalDescription")
      BY <2>3, <3>1 DEF OneSend, InFlight
    <3>3. Once("OnLocalDescription")'
      BY <1>6, <3>2, NotifyStep, ShrinkNoNew DEF SetLocalDescription, NoNew
    <3> QED
      BY <2>1, <2>2, <3>1, <3>3 DEF OneSend, InFlight
  <2>4. CASE ~(restarts = 0 /\ ~reaped)
    BY <2>1, <2>4 DEF OneSend
  <2> QED
    BY <2>3, <2>4
<1>7. CASE Unmap
  BY <1>1, <1>2, <1>7, GoPc, FrameSend DEF Unmap, Threads, LibSends, SdpSends,
    SetLocalDescription
<1>8. CASE Drop
  <2>1. peer = "live"
    BY <1>8 DEF Drop, Inv, Ownership, LifeOK, TerminateLabels, Threads
  <2>2. ~reaped /\ responses = <<>> => "map" \in refs
    BY <2>1 DEF Deleted
  <2> QED
    BY <1>1, <1>2, <1>8, <2>2, GoPc, FrameSend DEF Drop, Threads, LibSends,
      SdpSends, SetLocalDescription
<1>9. CASE Terminate("io")
  <2>1. pc["io"] \in TerminateLabels
    BY <1>9 DEF Terminate, StoreConnected, StoreComplete, JoinTimer, JoinSdp,
      TerminateFn, ClearFn, Close, Release, Free, TerminateLabels
  <2>2. /\ pc'["io"] \in TerminateLabels \cup {"idle"}
        /\ UNCHANGED <<responses, restarts, reaped>>
    BY <1>9, GoPc DEF Terminate, StoreConnected, StoreComplete, JoinTimer,
      JoinSdp, TerminateFn, ClearFn, Close, Release, Free, TerminateLabels,
      Threads
  <2>3. ~reaped => responses # <<>>
    BY <2>1 DEF Deleted
  <2>4. NoNew("OnLocalDescription")
    BY <1>2, <2>1 DEF SetLocalDescription, TerminateLabels
  <2> QED
    BY <1>1, <2>2, <2>3, <2>4, FrameSend DEF LibSends, SdpSends,
      TerminateLabels
<1> QED
  BY <1>3, <1>4, <1>5, <1>6, <1>7, <1>8, <1>9 DEF Io

LEMMA LibSend ==
  ASSUME IInv, Answer, OneSend, Deleted, [Next]_vars, Lib, ~UNCHANGED state
  PROVE  OneSend'
<1> USE DEF IInv, Typed, At, Die
<1>1. /\ UNCHANGED <<pc["io"], restarts, reaped>>
      /\ ~StartSend => UNCHANGED pc["sdp"]
  BY GoPc DEF Lib, OnSignalingStateChange, OnLocalDescription, EmitLocalSdp,
    StartSend, OnIceCandidate, OnConnected, ConnectedFn, OnFailed, FailClose,
    ClearFn, Callback, SendSdp, Serialise, CallSdpFn, SentFn, Threads, PcOK
<1>2. NoNew("OnLocalDescription")
  BY NextNoNew DEF Lib, OnSignalingStateChange, OnLocalDescription,
    EmitLocalSdp, StartSend, OnIceCandidate, OnConnected, ConnectedFn,
    OnFailed, FailClose, ClearFn, Callback, SendSdp, Serialise, CallSdpFn,
    SentFn, SetLocalDescription, Inv, Ownership, LifeOK, Threads, Go, PcOK
<1>3. CASE OnLocalDescription
  <2>1. /\ Callback("OnLocalDescription")
        /\ pc["lib"] = "idle" /\ pc'["lib"] = "emit"
        /\ UNCHANGED <<responses, on_local_sdp_fn_, pc["sdp"]>>
    BY <1>3, GoPc DEF OnLocalDescription, Callback, Threads
  <2>2. modified_desc_' # NoDesc
    BY <1>3, CallbackType, ConstantsAssumption DEF OnLocalDescription, Callback,
      Events
  <2>3. CASE restarts = 0 /\ ~reaped
    <3>1. Queued("OnLocalDescription") /\ ~Queued("OnLocalDescription")'
      BY <2>1, <2>3, CallbackTakes DEF OneSend
    <3> QED
      BY <1>1, <1>2, <2>1, <2>2, <2>3, <3>1 DEF OneSend, InFlight, NoNew,
        LibSends, SdpSends
  <2>4. CASE ~(restarts = 0 /\ ~reaped)
    BY <1>1, <2>4 DEF OneSend
  <2> QED
    BY <2>3, <2>4
<1>4. CASE StartSend
  <2>1. /\ pc["lib"] = "join_prev"
        /\ pc'["lib"] = IF has_candidates_in_sdp_ THEN "idle" ELSE "serialise"
        /\ pc'["sdp"] = IF has_candidates_in_sdp_ THEN "sleep" ELSE pc["sdp"]
        /\ UNCHANGED <<responses, on_local_sdp_fn_, modified_desc_>>
    BY <1>4, ConstantsAssumption DEF StartSend, PcOK, Threads
  <2> QED
    BY <1>1, <1>2, <2>1, ConstantsAssumption DEF OneSend, InFlight, NoNew,
      LibSends, SdpSends
<1>5. CASE CallSdpFn("lib")
  <2>1. /\ pc["lib"] = "call" /\ pc'["lib"] = "clear"
        /\ UNCHANGED <<on_local_sdp_fn_, modified_desc_, pc["sdp"]>>
    BY <1>5, GoPc DEF CallSdpFn, Threads
  <2> QED
    BY <1>1, <1>2, <2>1 DEF OneSend, InFlight, NoNew, LibSends, SdpSends
<1>6. CASE ConnectedFn \/ SentFn("lib")
  <2>1. responses # <<>>
    BY <1>6 DEF ConnectedFn, SentFn, ClearFn, Deleted, Senders
  <2>2. /\ pc'["lib"] = "idle"
        /\ UNCHANGED <<responses, modified_desc_, pc["sdp"]>>
    BY <1>6, GoPc DEF ConnectedFn, SentFn, ClearFn, Threads
  <2> QED
    BY <1>1, <1>2, <2>1, <2>2, FrameSend DEF LibSends, SdpSends
<1>7. CASE OnIceCandidate
  <2>1. modified_desc_ # NoDesc => modified_desc_' # NoDesc
    BY <1>7, CallbackType, ConstantsAssumption DEF OnIceCandidate, Callback,
      AddCandidate, TextsOK, Descs, Events
  <2> QED
    BY <1>1, <1>2, <1>7, <2>1, FrameSend DEF OnIceCandidate, LibSends, SdpSends
<1>8. CASE Serialise("lib")
  BY <1>1, <1>2, <1>8, GoPc, FrameSend DEF Serialise, Threads, LibSends,
    SdpSends
<1>9. CASE EmitLocalSdp
  BY <1>1, <1>2, <1>9, GoPc, FrameSend DEF EmitLocalSdp, Threads, LibSends,
    SdpSends
<1>10. CASE OnSignalingStateChange \/ OnConnected \/ OnFailed \/ FailClose
  <2>1. /\ pc'["lib"] \notin {"emit", "join_prev", "serialise", "call"}
        /\ UNCHANGED <<responses, on_local_sdp_fn_, modified_desc_, pc["sdp"]>>
    BY <1>10, GoPc DEF OnSignalingStateChange, OnConnected, OnFailed, FailClose,
      Callback, Threads
  <2> QED
    BY <1>1, <1>2, <2>1, FrameSend DEF LibSends, SdpSends
<1> QED
  BY <1>3, <1>4, <1>5, <1>6, <1>7, <1>8, <1>9, <1>10 DEF Lib, SendSdp

LEMMA SdpSend ==
  ASSUME IInv, Answer, OneSend, Deleted, [Next]_vars, Sdp, ~UNCHANGED state
  PROVE  OneSend'
<1> USE DEF IInv, Typed, At, Die
<1>1. UNCHANGED <<pc["io"], pc["lib"], restarts, reaped, modified_desc_, cbq>>
  BY GoPc DEF Sdp, WakeSdp, SendSdp, Serialise, CallSdpFn, SentFn, ClearFn,
    Threads
<1>2. NoNew("OnLocalDescription")
  BY <1>1, ShrinkNoNew
<1>3. CASE WakeSdp \/ Serialise("sdp")
  BY <1>1, <1>2, <1>3, GoPc, FrameSend DEF WakeSdp, Serialise, Threads,
    LibSends, SdpSends
<1>4. CASE CallSdpFn("sdp")
  <2>1. pc["sdp"] = "call" /\ pc'["sdp"] = "clear" /\ UNCHANGED on_local_sdp_fn_
    BY <1>4, GoPc DEF CallSdpFn, Threads
  <2> QED
    BY <1>1, <1>2, <2>1 DEF OneSend, InFlight, NoNew, LibSends, SdpSends
<1>5. CASE SentFn("sdp")
  <2>1. responses # <<>> /\ pc'["sdp"] = "done" /\ UNCHANGED responses
    BY <1>5, GoPc DEF SentFn, ClearFn, Deleted, Senders, Threads
  <2> QED
    BY <1>1, <1>2, <2>1, FrameSend DEF LibSends, SdpSends
<1> QED
  BY <1>3, <1>4, <1>5 DEF Sdp, SendSdp

LEMMA SendNext ==
  ASSUME IInv, Answer, OneTimer, OneSend, Deleted, [Next]_vars
  PROVE  OneSend'
<1> USE DEF IInv, Typed, At, Die
<1>1. CASE UNCHANGED state
  BY <1>1 DEF OneSend, Once, InFlight, Queued, LibSends, SdpSends
<1>2. CASE Client
  <2>1. NoNew("OnLocalDescription")
    BY <1>2, ShrinkNoNew DEF Client, CreatePeer, PatchCandidates, PatchRestart,
      Delete, Request
  <2>2. CASE CreatePeer
    <3>1. ~InFlight /\ responses = <<>>
      BY <2>2 DEF CreatePeer, Inv, Ownership, Reset, Answer, AnsweredOnce,
        InFlight, Queued, LibSends, SdpSends, Threads
    <3>2. /\ pc'["io"] = "on_local_sdp"
          /\ UNCHANGED <<pc["lib"], pc["sdp"], responses, restarts, reaped>>
      BY <2>2, GoPc DEF CreatePeer, Threads
    <3> QED
      BY <2>1, <3>1, <3>2 DEF OneSend, InFlight, NoNew, LibSends, SdpSends
  <2>3. CASE PatchCandidates \/ PatchRestart \/ Delete
    <3>1. /\ responses # <<>>
          /\ pc'["io"] \in {"drop", "restart", "stop"}
          /\ UNCHANGED <<pc["lib"], pc["sdp"], responses, reaped>>
      BY <2>3, GoPc DEF PatchCandidates, PatchRestart, Delete, Request, Threads
    <3>2. restarts' = 0 => restarts = 0
      BY <2>3 DEF PatchCandidates, PatchRestart, Delete, LifeOK
    <3> QED
      BY <2>1, <3>1, <3>2, FrameSend DEF LibSends, SdpSends
  <2> QED
    BY <1>2, <2>2, <2>3 DEF Client
<1>3. CASE (Network \/ Timer) /\ ~UNCHANGED state
  <2>1. /\ UNCHANGED <<pc["io"], pc["lib"], pc["sdp"], responses, restarts,
                       reaped, on_local_sdp_fn_, modified_desc_>>
    BY <1>3, GoPc DEF Network, Gather, Connect, Fail, RemoteClose, Timer,
      WakeTimer, TimerCheck, TimerClose, Threads
  <2>2. NoNew("OnLocalDescription")
    BY <1>3, ShrinkNoNew, NotifyNoNew DEF Network, Gather, Connect, Fail,
      RemoteClose, CloseConnection, Timer, WakeTimer, TimerCheck, TimerClose
  <2> QED
    BY <2>1, <2>2, FrameSend DEF LibSends, SdpSends
<1>4. CASE Cleaner /\ ~UNCHANGED state
  <2>1. NoNew("OnLocalDescription")
    BY <1>4, ShrinkNoNew DEF Cleaner, Inspect, Erase, Terminate,
      StoreConnected, StoreComplete, JoinTimer, JoinSdp, TerminateFn, ClearFn,
      Close, CloseConnection, Release, Free
  <2>2. CASE Inspect
    BY <2>1, <2>2, GoPc, FrameSend DEF Inspect, Threads, LibSends, SdpSends
  <2>3. CASE Erase /\ UNCHANGED others
    BY <2>1, <2>3, GoPc, FrameSend DEF Erase, Threads, LibSends, SdpSends,
      others
  <2>4. CASE ~Inspect /\ ~(Erase /\ UNCHANGED others)
    <3>1. reaped'
      BY <1>4, <2>4 DEF Cleaner, Erase, Terminate, StoreConnected,
        StoreComplete, JoinTimer, JoinSdp, TerminateFn, ClearFn, Close, Release,
        Free, Deleted
    <3> QED
      BY <3>1 DEF OneSend
  <2> QED
    BY <2>2, <2>3, <2>4
<1> QED
  BY <1>1, <1>2, <1>3, <1>4, IoSend, LibSend, SdpSend DEF Next, Over

LEMMA DeletedNext ==
  ASSUME IInv, Reported, Deleted, [Next]_vars
  PROVE  Deleted'
<1> USE DEF IInv, Typed, At, Die, Threads, Senders, Terminators
<1>1. CASE UNCHANGED state
  BY <1>1 DEF Deleted
<1>2. CASE Client
  <2>1. CASE CreatePeer
    BY <2>1, GoPc DEF CreatePeer, Deleted, TerminateLabels
  <2>2. CASE PatchCandidates \/ PatchRestart \/ Delete
    BY <2>2, GoPc DEF PatchCandidates, PatchRestart, Delete, Request, Deleted,
      Inv, Ownership, TerminateLabels
  <2> QED
    BY <1>2, <2>1, <2>2 DEF Client
<1>3. CASE Network
  <2>1. UNCHANGED <<life, pc, responses, handles, peer_connection_>>
    BY <1>3 DEF Network, Gather, Connect, Fail, RemoteClose
  <2> QED
    BY <2>1 DEF Deleted
<1>4. ASSUME NEW t \in Terminators, Terminate(t), ~UNCHANGED state
      PROVE  Deleted'
  <2>1. /\ UNCHANGED <<responses, reaped, refs>>
        /\ peer' = "absent" <=> peer = "absent"
        /\ peer_connection_' => peer_connection_
        /\ \A u \in Threads \ {t} : pc'[u] = pc[u]
    BY <1>4, GoPc DEF Terminate, StoreConnected, StoreComplete, JoinTimer,
      JoinSdp, TerminateFn, ClearFn, Close, Release, Free, Inv, Ownership
  <2>2. CASE t = "cleaner"
    <3>1. reaped
      BY <1>4, <2>2 DEF Terminate, StoreConnected, StoreComplete, JoinTimer,
        JoinSdp, TerminateFn, ClearFn, Close, Release, Free, Deleted
    <3> QED
      BY <2>1, <2>2, <3>1 DEF Deleted
  <2>3. CASE t = "io"
    <3>1. pc["io"] \in TerminateLabels
      BY <1>4, <2>3 DEF Terminate, StoreConnected, StoreComplete, JoinTimer,
        JoinSdp, TerminateFn, ClearFn, Close, Release, Free, TerminateLabels
    <3>2. peer' = "dying" /\ ~reaped =>
            /\ pc'["io"] \in {"join_sdp", "clear_fn", "close", "release",
                              "free"} => ~peer_timeout_'
            /\ pc'["io"] \in {"clear_fn", "close", "release", "free"}
                 => ~sent_sdp_timeout_'
      BY <1>4, <2>3, GoPc DEF Terminate, StoreConnected, StoreComplete,
        JoinTimer, JoinSdp, TerminateFn, ClearFn, Close, Release, Free, Deleted
    <3> QED
      BY <2>1, <2>3, <3>1, <3>2 DEF Deleted
  <2> QED
    BY <2>2, <2>3
<1>5. CASE Io /\ ~UNCHANGED state
  <2>1. CASE OnLocalSdp \/ RestartIce \/ SetRemoteDescription
               \/ SetLocalDescription
    <3>1. /\ \A u \in Threads \ {"io"} : pc'[u] = pc[u]
          /\ pc'["io"] \notin TerminateLabels
          /\ UNCHANGED <<life, responses, handles, peer_connection_>>
      BY <1>5, <2>1, GoPc DEF OnLocalSdp, RestartIce, SetRemoteDescription,
        SetLocalDescription, TerminateLabels
    <3> QED
      BY <3>1 DEF Deleted, TerminateLabels
  <2>2. CASE Unmap
    BY <2>2, GoPc DEF Unmap, Deleted, Inv, Joined, TerminateLabels
  <2>3. CASE Drop
    <3>1. peer = "live"
      BY <2>3 DEF Drop, Inv, Ownership, LifeOK, TerminateLabels
    <3> QED
      BY <2>3, <3>1, GoPc DEF Drop, Deleted, TerminateLabels
  <2> QED
    BY <1>4, <1>5, <2>1, <2>2, <2>3 DEF Io
<1>6. CASE Cleaner /\ ~UNCHANGED state
  BY <1>4, <1>6, GoPc DEF Cleaner, Inspect, Erase, Deleted, TerminateLabels
<1>7. CASE Timer /\ ~UNCHANGED state
  BY <1>7, GoPc DEF Timer, WakeTimer, TimerCheck, TimerClose, Deleted
<1>8. CASE (SendSdp("lib") \/ Sdp) /\ ~UNCHANGED state
  <2>1. /\ UNCHANGED <<life, handles, peer_connection_, pc["io"],
                       pc["cleaner"]>>
        /\ pc'["lib"] = "conn_fn" => pc["lib"] = "conn_fn"
        /\ responses # <<>> => responses' # <<>>
        /\ \A s \in Senders :
             pc'[s] = "clear" => pc[s] = "clear" \/ responses' # <<>>
    BY <1>8, GoPc DEF Sdp, WakeSdp, SendSdp, Serialise, CallSdpFn, SentFn,
      ClearFn, TextsOK
  <2> QED
    BY <2>1 DEF Deleted
<1>9. CASE Lib /\ ~SendSdp("lib") /\ ~UNCHANGED state
  <2>1. peer = "dying" /\ ~reaped => peer_connection_ = FALSE
    BY DEF Deleted, Inv, Ownership
  <2>2. CASE OnConnected
    <3>1. responses # <<>>
      BY <2>2 DEF OnConnected, Callback, Reported, IsConnected, LibraryOK
    <3> QED
      BY <2>2, <3>1, GoPc DEF OnConnected, Deleted
  <2>3. CASE ~OnConnected
    <3>1. /\ UNCHANGED <<life, peer_connection_, responses>>
          /\ \A u \in Threads \ {"lib", "timer", "sdp"} : pc'[u] = pc[u]
          /\ pc'["lib"] \notin {"conn_fn", "clear"}
          /\ pc'["sdp"] = "clear" => pc["sdp"] = "clear"
      BY <1>9, <2>3, GoPc DEF Lib, OnSignalingStateChange, OnLocalDescription,
        EmitLocalSdp, StartSend, OnIceCandidate, ConnectedFn, OnFailed,
        FailClose, Callback, ClearFn, PcOK
    <3>2. peer_connection_ \/ UNCHANGED handles
      BY <1>9, <2>3 DEF Lib, OnSignalingStateChange, OnLocalDescription,
        EmitLocalSdp, StartSend, OnIceCandidate, ConnectedFn, OnFailed,
        FailClose, Callback, ClearFn, Inv, Reset
    <3> QED
      BY <2>1, <3>1, <3>2 DEF Deleted
  <2> QED
    BY <2>2, <2>3
<1> QED
  BY <1>1, <1>2, <1>3, <1>5, <1>6, <1>7, <1>8, <1>9 DEF Next, Over

LEMMA OrderlyNext ==
  IInv /\ Answer /\ Reported /\ Orderly /\ [Next]_vars => Orderly'
BY TimerNext, SendNext, DeletedNext DEF Orderly

\* Where the process can end by one of these causes, and in what state.
LEMMA Endings ==
  ASSUME [Next]_vars, dead = "no", dead' # "no"
  PROVE  /\ UNCHANGED state
         /\ dead' = "timer_reassigned" =>
              /\ cbq # <<>> /\ Head(cbq).cb = "OnSignalingStateChange"
              /\ peer_timeout_
         /\ dead' = "joinable_destroyed" =>
              \E t \in Terminators :
                pc[t] = "free" /\ (peer_timeout_ \/ sent_sdp_timeout_)
         /\ dead' \in {"empty_fn", "null_desc"} =>
              \E t \in Senders :
                \/ pc[t] = "call" /\ ~on_local_sdp_fn_
                \/ pc[t] = "serialise" /\ modified_desc_ = NoDesc
BY DEF Next, Over, Client, CreatePeer, PatchCandidates, PatchRestart, Delete,
  Request, Network, Gather, Connect, Fail, RemoteClose, Io, OnLocalSdp,
  RestartIce, SetRemoteDescription, SetLocalDescription, Unmap, Drop, Cleaner,
  Inspect, Erase, Terminate, StoreConnected, StoreComplete, JoinTimer, JoinSdp,
  TerminateFn, ClearFn, Close, Release, Free, Lib, OnSignalingStateChange,
  OnLocalDescription, EmitLocalSdp, StartSend, OnIceCandidate, OnConnected,
  ConnectedFn, OnFailed, FailClose, SendSdp, Serialise, CallSdpFn, SentFn,
  Timer, WakeTimer, TimerCheck, TimerClose, Sdp, WakeSdp, Die, At, Terminators,
  Senders

LEMMA TeardownNext ==
  IInv /\ Orderly /\ OrderlyTeardown /\ [Next]_vars => OrderlyTeardown'
<1> SUFFICES ASSUME IInv, Orderly, OrderlyTeardown, [Next]_vars
             PROVE  OrderlyTeardown'
  OBVIOUS
<1>1. CASE dead # "no"
  <2>1. UNCHANGED vars
    BY <1>1 DEF Next, Over
  <2> QED
    BY <2>1 DEF OrderlyTeardown
<1>2. CASE dead = "no" /\ dead' # "no"
  <2>1. CASE dead' = "timer_reassigned"
    <3>1. 1 \in DOMAIN cbq /\ cbq[1].cb = "OnSignalingStateChange"
      BY <1>2, <2>1, Endings DEF IInv, Typed, LibraryOK
    <3>2. Queued("OnSignalingStateChange") /\ peer_timeout_
      BY <1>2, <2>1, <3>1, Endings DEF Queued
    <3> QED
      BY <1>2, <2>1, <3>2, Endings DEF Orderly, OneTimer, OrderlyTeardown,
        IInv, Typed, LifeOK
  <2>2. CASE dead' = "joinable_destroyed"
    <3>1. PICK t \in Terminators :
            pc[t] = "free" /\ (peer_timeout_ \/ sent_sdp_timeout_)
      BY <1>2, <2>2, Endings
    <3>2. peer = "dying"
      BY <3>1 DEF IInv, Typed, LifeOK, Inv, Ownership, Terminators, Threads
    <3> QED
      BY <1>2, <2>2, <3>1, <3>2, Endings DEF Orderly, Deleted,
        OrderlyTeardown, Terminators
  <2>3. CASE dead' \in {"empty_fn", "null_desc"}
    <3>1. reaped \/ restarts # 0
      BY <1>2, <2>3, Endings DEF Orderly, OneSend, InFlight, LibSends,
        SdpSends, Senders
    <3> QED
      BY <1>2, <2>3, <3>1, Endings DEF OrderlyTeardown, IInv, Typed, LifeOK
  <2> QED
    BY <2>1, <2>2, <2>3 DEF OrderlyTeardown
<1>3. CASE dead' = "no"
  BY <1>3 DEF OrderlyTeardown
<1> QED
  BY <1>1, <1>2, <1>3

\* In every instance the teardown of a peer that is posted, answered and
\* deleted cannot end the process: it takes a restart or the cleaner.
THEOREM TeardownCorrect == Spec => []OrderlyTeardown
<1>1. Init => Answer /\ Reported /\ Orderly /\ OrderlyTeardown
  BY InitAnswer, InitReported, InitOrderly
<1> QED
  BY <1>1, AnswerNext, ReportedNext, OrderlyNext, TeardownNext, Invariance, PTL
  DEF Spec
=============================================================================
