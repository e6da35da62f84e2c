--------------------------- MODULE RtcPeer_proofs ---------------------------
(* Theorems about RtcPeer for every set of candidates and any number of      *)
(* restarts, with has_candidates_in_sdp_ either way.                         *)
EXTENDS RtcPeer, TLAPS

USE DEF life, flags, texts, handles, library, state, vars, others, rest, quiet,
        members, Move

-----------------------------------------------------------------------------
(* Types.                                                                  *)

\* TypeOK in the parts a step can disturb apart from each other.
PcOK ==
  /\ DOMAIN pc = Threads
  /\ \A t \in Threads : pc[t] \in Labels[t]

LifeOK ==
  /\ peer \in {"absent", "live", "dying", "destroyed"}
  /\ refs \subseteq {"map", "io"}
  /\ restarts \in 0..MaxRestarts
  /\ dead \in Causes \cup {"no"}

FlagsOK ==
  /\ reaped \in BOOLEAN
  /\ is_connected_ \in BOOLEAN
  /\ is_complete_ \in BOOLEAN
  /\ on_local_sdp_fn_ \in BOOLEAN
  /\ peer_timeout_ \in BOOLEAN
  /\ sent_sdp_timeout_ \in BOOLEAN
  /\ peer_connection_ \in BOOLEAN

TextsOK ==
  /\ modified_desc_ \in Descs \cup {NoDesc}
  /\ modified_sdp_ \in Descs \cup {NoDesc}
  /\ responses \in Seq(Descs \cup {NoDesc})

LibraryOK ==
  /\ pcState \in {"new", "connected", "failed", "closed"}
  /\ signaling \in {"new", "offered", "stable", "local_offer"}
  /\ gathered \subseteq Candidates
  /\ cbq \in Seq(Events)

Typed == PcOK /\ LifeOK /\ FlagsOK /\ TextsOK /\ LibraryOK

LEMMA TypedIsTypeOK == TypeOK <=> Typed
BY DEF Typed, TypeOK, PcOK, LifeOK, FlagsOK, TextsOK, LibraryOK

LEMMA GoType ==
  ASSUME PcOK, NEW t \in Threads, NEW l \in Labels[t], Go(t, l)
  PROVE  PcOK'
BY DEF PcOK, Go

LEMMA StayType == ASSUME PcOK, UNCHANGED pc PROVE PcOK'
BY DEF PcOK

LEMMA TerminateGo ==
  ASSUME PcOK, NEW t \in Terminators,
         \E l \in TerminateLabels \cup {"idle"} : Go(t, l)
  PROVE  PcOK'
<1>1. PICK l \in TerminateLabels \cup {"idle"} : Go(t, l)
  OBVIOUS
<1>2. t \in Threads /\ l \in Labels[t]
  BY DEF Terminators, Threads, Labels
<1> QED
  BY <1>1, <1>2, GoType

LEMMA SendGo ==
  ASSUME PcOK, NEW t \in Senders,
         \E l \in {"serialise", "call", "clear"} : Go(t, l)
  PROVE  PcOK'
<1>1. PICK l \in {"serialise", "call", "clear"} : Go(t, l)
  OBVIOUS
<1>2. t \in Threads /\ l \in Labels[t]
  BY DEF Senders, Threads, Labels, SendLabels
<1> QED
  BY <1>1, <1>2, GoType

\* What a step of the process may leave in dead.
LEMMA DieType ==
  ASSUME Typed, NEW cause \in Causes, Die(cause)
  PROVE  Typed'
BY DEF Die, Typed, PcOK, LifeOK, FlagsOK, TextsOK, LibraryOK

LEMMA NotifyType ==
  ASSUME LibraryOK, NEW event \in Events, Notify(event)
  PROVE  cbq' \in Seq(Events)
BY DEF LibraryOK, Notify

LEMMA CloseConnectionType ==
  ASSUME LibraryOK, FlagsOK, CloseConnection
  PROVE  LibraryOK' /\ is_connected_' \in BOOLEAN /\ is_complete_' \in BOOLEAN
<1>1. LibraryOK'
  BY DEF LibraryOK, CloseConnection
<1>2. is_connected_' \in BOOLEAN /\ is_complete_' \in BOOLEAN
  BY DEF FlagsOK, CloseConnection, OnClosed
<1> QED
  BY <1>1, <1>2

LEMMA CallbackType ==
  ASSUME LibraryOK, NEW cb, Callback(cb)
  PROVE  LibraryOK' /\ Head(cbq) \in Events
BY DEF LibraryOK, Callback

LEMMA DescType ==
  ASSUME LibraryOK, NEW type \in {"offer", "answer"}
  PROVE  LocalDescription(type) \in Descs
BY DEF LibraryOK, LocalDescription, Descs

LEMMA InitTyped == Init => Typed
<1> SUFFICES ASSUME Init PROVE Typed
  OBVIOUS
<1>1. PcOK
  BY DEF Init, PcOK, Labels, Threads, TerminateLabels, SendLabels
<1>2. LifeOK
  BY ConstantsAssumption DEF Init, LifeOK
<1>3. FlagsOK
  BY DEF Init, FlagsOK
<1>4. TextsOK /\ LibraryOK
  BY DEF Init, TextsOK, LibraryOK
<1> QED
  BY <1>1, <1>2, <1>3, <1>4 DEF Typed

LEMMA CreatePeerType ==
  ASSUME Typed, CreatePeer
  PROVE  Typed'
<1>1. PcOK'
  BY GoType, StayType DEF Typed, CreatePeer, Threads, Labels
<1>2. FlagsOK'
  BY DEF Typed, FlagsOK, CreatePeer
<1>3. LifeOK' /\ TextsOK' /\ LibraryOK'
  BY DEF Typed, LifeOK, TextsOK, LibraryOK, CreatePeer
<1> QED
  BY <1>1, <1>2, <1>3 DEF Typed

LEMMA PatchCandidatesType ==
  ASSUME Typed, PatchCandidates
  PROVE  Typed'
<1>1. PcOK'
  BY GoType, StayType DEF Typed, PatchCandidates, Request, Threads, Labels
<1>2. FlagsOK'
  BY DEF Typed, FlagsOK, PatchCandidates, Request
<1>3. LifeOK' /\ TextsOK' /\ LibraryOK'
  BY DEF Typed, LifeOK, TextsOK, LibraryOK, PatchCandidates, Request
<1> QED
  BY <1>1, <1>2, <1>3 DEF Typed

LEMMA PatchRestartType ==
  ASSUME Typed, PatchRestart
  PROVE  Typed'
<1>1. PcOK'
  BY GoType, StayType DEF Typed, PatchRestart, Request, Threads, Labels
<1>2. FlagsOK'
  BY DEF Typed, FlagsOK, PatchRestart, Request
<1>3. LifeOK' /\ TextsOK' /\ LibraryOK'
  BY ConstantsAssumption DEF Typed, LifeOK, TextsOK, LibraryOK, PatchRestart,
    Request
<1> QED
  BY <1>1, <1>2, <1>3 DEF Typed

LEMMA DeleteType ==
  ASSUME Typed, Delete
  PROVE  Typed'
<1>1. PcOK'
  BY GoType, StayType DEF Typed, Delete, Request, TerminateLabels, Threads,
    Labels
<1>2. FlagsOK'
  BY DEF Typed, FlagsOK, Delete, Request
<1>3. LifeOK' /\ TextsOK' /\ LibraryOK'
  BY DEF Typed, LifeOK, TextsOK, LibraryOK, Delete, Request
<1> QED
  BY <1>1, <1>2, <1>3 DEF Typed

LEMMA GatherType ==
  ASSUME Typed, \E c \in Candidates : Gather(c)
  PROVE  Typed'
<1>1. PcOK'
  BY GoType, StayType DEF Typed, Gather, Threads, Labels
<1>2. FlagsOK'
  BY DEF Typed, FlagsOK, Gather
<1>3. LifeOK' /\ TextsOK' /\ LibraryOK'
  BY NotifyType DEF Typed, LifeOK, TextsOK, LibraryOK, Gather, Events
<1> QED
  BY <1>1, <1>2, <1>3 DEF Typed

LEMMA ConnectType ==
  ASSUME Typed, Connect
  PROVE  Typed'
<1>1. PcOK'
  BY GoType, StayType DEF Typed, Connect, Threads, Labels
<1>2. FlagsOK'
  BY DEF Typed, FlagsOK, Connect
<1>3. LifeOK' /\ TextsOK' /\ LibraryOK'
  BY NotifyType DEF Typed, LifeOK, TextsOK, LibraryOK, Connect, Events
<1> QED
  BY <1>1, <1>2, <1>3 DEF Typed

LEMMA FailType ==
  ASSUME Typed, Fail
  PROVE  Typed'
<1>1. PcOK'
  BY GoType, StayType DEF Typed, Fail, Threads, Labels
<1>2. FlagsOK'
  BY DEF Typed, FlagsOK, Fail
<1>3. LifeOK' /\ TextsOK' /\ LibraryOK'
  BY NotifyType DEF Typed, LifeOK, TextsOK, LibraryOK, Fail, Events
<1> QED
  BY <1>1, <1>2, <1>3 DEF Typed

LEMMA RemoteCloseType ==
  ASSUME Typed, RemoteClose
  PROVE  Typed'
<1>1. PcOK'
  BY GoType, StayType DEF Typed, RemoteClose, Threads, Labels
<1>2. FlagsOK'
  BY CloseConnectionType DEF Typed, FlagsOK, RemoteClose
<1>3. LifeOK' /\ TextsOK' /\ LibraryOK'
  BY CloseConnectionType DEF Typed, LifeOK, TextsOK, LibraryOK, RemoteClose
<1> QED
  BY <1>1, <1>2, <1>3 DEF Typed

LEMMA OnLocalSdpType ==
  ASSUME Typed, OnLocalSdp
  PROVE  Typed'
<1>1. PcOK'
  BY GoType, StayType DEF Typed, OnLocalSdp, Threads, Labels
<1>2. FlagsOK'
  BY DEF Typed, FlagsOK, OnLocalSdp
<1>3. LifeOK' /\ TextsOK' /\ LibraryOK'
  BY DEF Typed, LifeOK, TextsOK, LibraryOK, OnLocalSdp
<1> QED
  BY <1>1, <1>2, <1>3 DEF Typed

LEMMA RestartIceType ==
  ASSUME Typed, RestartIce
  PROVE  Typed'
<1>1. PcOK'
  BY GoType, StayType DEF Typed, RestartIce, Die, Threads, Labels
<1>2. FlagsOK'
  BY DEF Typed, FlagsOK, RestartIce, Die
<1>3. LifeOK' /\ TextsOK' /\ LibraryOK'
  BY DEF Typed, LifeOK, TextsOK, LibraryOK, RestartIce, Die, Causes
<1> QED
  BY <1>1, <1>2, <1>3 DEF Typed

LEMMA SetRemoteDescriptionType ==
  ASSUME Typed, SetRemoteDescription
  PROVE  Typed'
<1>1. PcOK'
  BY GoType, StayType DEF Typed, SetRemoteDescription, Die, Threads, Labels
<1>2. FlagsOK'
  BY DEF Typed, FlagsOK, SetRemoteDescription, Die
<1>3. LifeOK' /\ TextsOK' /\ LibraryOK'
  BY NotifyType DEF Typed, LifeOK, TextsOK, LibraryOK, SetRemoteDescription,
    Events, Die, Causes
<1> QED
  BY <1>1, <1>2, <1>3 DEF Typed

LEMMA SetLocalDescriptionType ==
  ASSUME Typed, SetLocalDescription
  PROVE  Typed'
<1>1. PcOK'
  BY GoType, StayType DEF Typed, SetLocalDescription, Die, Threads, Labels
<1>2. FlagsOK'
  BY DEF Typed, FlagsOK, SetLocalDescription, Die
<1>3. LifeOK' /\ TextsOK' /\ LibraryOK'
  BY NotifyType, DescType DEF Typed, LifeOK, TextsOK, LibraryOK,
    SetLocalDescription, Events, Die, Causes
<1> QED
  BY <1>1, <1>2, <1>3 DEF Typed

LEMMA DropType ==
  ASSUME Typed, Drop
  PROVE  Typed'
<1>1. PcOK'
  BY GoType, StayType DEF Typed, Drop, TerminateLabels, Threads, Labels
<1>2. FlagsOK'
  BY DEF Typed, FlagsOK, Drop
<1>3. LifeOK' /\ TextsOK' /\ LibraryOK'
  BY DEF Typed, LifeOK, TextsOK, LibraryOK, Drop
<1> QED
  BY <1>1, <1>2, <1>3 DEF Typed

LEMMA InspectType ==
  ASSUME Typed, Inspect
  PROVE  Typed'
<1>1. PcOK'
  BY GoType, StayType DEF Typed, Inspect, Threads, Labels
<1>2. FlagsOK'
  BY DEF Typed, FlagsOK, Inspect
<1>3. LifeOK' /\ TextsOK' /\ LibraryOK'
  BY DEF Typed, LifeOK, TextsOK, LibraryOK, Inspect
<1> QED
  BY <1>1, <1>2, <1>3 DEF Typed

LEMMA EraseType ==
  ASSUME Typed, Erase
  PROVE  Typed'
<1>1. PcOK'
  BY GoType, StayType DEF Typed, Erase, TerminateLabels, Die, Threads, Labels
<1>2. FlagsOK'
  BY DEF Typed, FlagsOK, Erase, Die
<1>3. LifeOK' /\ TextsOK' /\ LibraryOK'
  BY DEF Typed, LifeOK, TextsOK, LibraryOK, Erase, Die, Causes
<1> QED
  BY <1>1, <1>2, <1>3 DEF Typed

LEMMA OnSignalingStateChangeType ==
  ASSUME Typed, OnSignalingStateChange
  PROVE  Typed'
<1>1. PcOK'
  BY GoType, StayType DEF Typed, OnSignalingStateChange, Die, Threads, Labels
<1>2. FlagsOK'
  BY DEF Typed, FlagsOK, OnSignalingStateChange, Die
<1>3. LifeOK' /\ TextsOK' /\ LibraryOK'
  BY CallbackType DEF Typed, LifeOK, TextsOK, LibraryOK,
    OnSignalingStateChange, Callback, Die, Causes
<1> QED
  BY <1>1, <1>2, <1>3 DEF Typed

LEMMA OnLocalDescriptionType ==
  ASSUME Typed, OnLocalDescription
  PROVE  Typed'
<1>1. PcOK'
  BY GoType, StayType DEF Typed, OnLocalDescription, Die, Threads, Labels
<1>2. FlagsOK'
  BY DEF Typed, FlagsOK, OnLocalDescription, Die
<1>3. LifeOK' /\ TextsOK' /\ LibraryOK'
  BY CallbackType DEF Typed, LifeOK, TextsOK, LibraryOK, OnLocalDescription,
    Callback, Events, Die, Causes
<1> QED
  BY <1>1, <1>2, <1>3 DEF Typed

LEMMA EmitLocalSdpType ==
  ASSUME Typed, EmitLocalSdp
  PROVE  Typed'
<1>1. PcOK'
  BY GoType, StayType DEF Typed, EmitLocalSdp, Threads, Labels
<1>2. FlagsOK'
  BY DEF Typed, FlagsOK, EmitLocalSdp
<1>3. LifeOK' /\ TextsOK' /\ LibraryOK'
  BY DEF Typed, LifeOK, TextsOK, LibraryOK, EmitLocalSdp
<1> QED
  BY <1>1, <1>2, <1>3 DEF Typed

LEMMA StartSendType ==
  ASSUME Typed, StartSend
  PROVE  Typed'
<1>1. PcOK'
  <2>1. CASE has_candidates_in_sdp_
    <3>1. pc' = [pc EXCEPT !["lib"] = "idle", !["sdp"] = "sleep"]
      BY <2>1 DEF StartSend
    <3> QED
      BY <3>1 DEF Typed, PcOK, Threads, Labels
  <2>2. CASE ~has_candidates_in_sdp_
    <3>1. Go("lib", "serialise")
      BY <2>2 DEF StartSend, Go
    <3> QED
      BY <3>1, GoType DEF Typed, Threads, Labels, SendLabels
  <2> QED
    BY <2>1, <2>2
<1>2. FlagsOK'
  BY ConstantsAssumption DEF Typed, FlagsOK, StartSend
<1>3. LifeOK' /\ TextsOK' /\ LibraryOK'
  BY DEF Typed, LifeOK, TextsOK, LibraryOK, StartSend
<1> QED
  BY <1>1, <1>2, <1>3 DEF Typed

LEMMA OnIceCandidateType ==
  ASSUME Typed, OnIceCandidate
  PROVE  Typed'
<1>1. PcOK'
  BY GoType, StayType DEF Typed, OnIceCandidate, Die, Threads, Labels
<1>2. FlagsOK'
  BY DEF Typed, FlagsOK, OnIceCandidate, Die
<1>3. LifeOK' /\ LibraryOK'
  BY CallbackType DEF Typed, LifeOK, LibraryOK, OnIceCandidate, Die, Causes
<1>4. TextsOK'
  <2>1. CASE UNCHANGED modified_desc_
    BY <2>1 DEF Typed, TextsOK, OnIceCandidate, Die
  <2>2. CASE ~UNCHANGED modified_desc_
    <3>1. /\ Callback("OnIceCandidate") /\ modified_desc_ # NoDesc
          /\ modified_desc_' =
               AddCandidate(modified_desc_, Head(cbq).candidate)
          /\ UNCHANGED <<modified_sdp_, responses>>
      BY <2>2 DEF OnIceCandidate, Die
    <3>2. Head(cbq) \in Events /\ Head(cbq).cb = "OnIceCandidate"
      BY <3>1, CallbackType DEF Typed, Callback
    <3>3. Head(cbq).candidate \in Candidates
      BY <3>2 DEF Events
    <3>4. modified_desc_' \in Descs
      BY <3>1, <3>3 DEF Typed, TextsOK, AddCandidate, Descs
    <3> QED
      BY <3>1, <3>4 DEF Typed, TextsOK
  <2> QED
    BY <2>1, <2>2
<1> QED
  BY <1>1, <1>2, <1>3, <1>4 DEF Typed

LEMMA OnConnectedType ==
  ASSUME Typed, OnConnected
  PROVE  Typed'
<1>1. PcOK'
  BY GoType, StayType DEF Typed, OnConnected, Threads, Labels
<1>2. FlagsOK'
  BY DEF Typed, FlagsOK, OnConnected
<1>3. LifeOK' /\ TextsOK' /\ LibraryOK'
  BY CallbackType DEF Typed, LifeOK, TextsOK, LibraryOK, OnConnected
<1> QED
  BY <1>1, <1>2, <1>3 DEF Typed

LEMMA ConnectedFnType ==
  ASSUME Typed, ConnectedFn
  PROVE  Typed'
<1>1. PcOK'
  BY GoType, StayType DEF Typed, ConnectedFn, ClearFn, Die, Threads, Labels
<1>2. FlagsOK'
  BY DEF Typed, FlagsOK, ConnectedFn, ClearFn, Die
<1>3. LifeOK' /\ TextsOK' /\ LibraryOK'
  BY DEF Typed, LifeOK, TextsOK, LibraryOK, ConnectedFn, ClearFn, Die, Causes
<1> QED
  BY <1>1, <1>2, <1>3 DEF Typed

LEMMA OnFailedType ==
  ASSUME Typed, OnFailed
  PROVE  Typed'
<1>1. PcOK'
  BY GoType, StayType DEF Typed, OnFailed, Threads, Labels
<1>2. FlagsOK'
  BY DEF Typed, FlagsOK, OnFailed
<1>3. LifeOK' /\ TextsOK' /\ LibraryOK'
  BY CallbackType DEF Typed, LifeOK, TextsOK, LibraryOK, OnFailed
<1> QED
  BY <1>1, <1>2, <1>3 DEF Typed

LEMMA FailCloseType ==
  ASSUME Typed, FailClose
  PROVE  Typed'
<1>1. PcOK'
  BY GoType, StayType DEF Typed, FailClose, Threads, Labels
<1>2. FlagsOK'
  BY CloseConnectionType DEF Typed, FlagsOK, FailClose
<1>3. LifeOK' /\ TextsOK' /\ LibraryOK'
  BY CloseConnectionType DEF Typed, LifeOK, TextsOK, LibraryOK, FailClose
<1> QED
  BY <1>1, <1>2, <1>3 DEF Typed

LEMMA WakeTimerType ==
  ASSUME Typed, WakeTimer
  PROVE  Typed'
<1>1. PcOK'
  BY GoType, StayType DEF Typed, WakeTimer, Threads, Labels
<1>2. FlagsOK'
  BY DEF Typed, FlagsOK, WakeTimer
<1>3. LifeOK' /\ TextsOK' /\ LibraryOK'
  BY DEF Typed, LifeOK, TextsOK, LibraryOK, WakeTimer
<1> QED
  BY <1>1, <1>2, <1>3 DEF Typed

LEMMA TimerCheckType ==
  ASSUME Typed, TimerCheck
  PROVE  Typed'
<1>1. PcOK'
  BY GoType, StayType DEF Typed, TimerCheck, Threads, Labels
<1>2. FlagsOK'
  BY DEF Typed, FlagsOK, TimerCheck
<1>3. LifeOK' /\ TextsOK' /\ LibraryOK'
  BY DEF Typed, LifeOK, TextsOK, LibraryOK, TimerCheck
<1> QED
  BY <1>1, <1>2, <1>3 DEF Typed

LEMMA TimerCloseType ==
  ASSUME Typed, TimerClose
  PROVE  Typed'
<1>1. PcOK'
  BY GoType, StayType DEF Typed, TimerClose, Threads, Labels
<1>2. FlagsOK'
  BY CloseConnectionType DEF Typed, FlagsOK, TimerClose
<1>3. LifeOK' /\ TextsOK' /\ LibraryOK'
  BY CloseConnectionType DEF Typed, LifeOK, TextsOK, LibraryOK, TimerClose
<1> QED
  BY <1>1, <1>2, <1>3 DEF Typed

LEMMA WakeSdpType ==
  ASSUME Typed, WakeSdp
  PROVE  Typed'
<1>1. PcOK'
  BY GoType, StayType DEF Typed, WakeSdp, SendLabels, Threads, Labels
<1>2. FlagsOK'
  BY DEF Typed, FlagsOK, WakeSdp
<1>3. LifeOK' /\ TextsOK' /\ LibraryOK'
  BY DEF Typed, LifeOK, TextsOK, LibraryOK, WakeSdp
<1> QED
  BY <1>1, <1>2, <1>3 DEF Typed

LEMMA StoreConnectedType ==
  ASSUME Typed, NEW t \in Terminators, StoreConnected(t)
  PROVE  Typed'
<1>1. PcOK'
  BY TerminateGo DEF Typed, StoreConnected, TerminateLabels
<1>2. FlagsOK'
  BY DEF Typed, FlagsOK, StoreConnected
<1>3. LifeOK' /\ TextsOK' /\ LibraryOK'
  BY DEF Typed, LifeOK, TextsOK, LibraryOK, StoreConnected
<1> QED
  BY <1>1, <1>2, <1>3 DEF Typed

LEMMA StoreCompleteType ==
  ASSUME Typed, NEW t \in Terminators, StoreComplete(t)
  PROVE  Typed'
<1>1. PcOK'
  BY TerminateGo DEF Typed, StoreComplete, TerminateLabels
<1>2. FlagsOK'
  BY DEF Typed, FlagsOK, StoreComplete
<1>3. LifeOK' /\ TextsOK' /\ LibraryOK'
  BY DEF Typed, LifeOK, TextsOK, LibraryOK, StoreComplete
<1> QED
  BY <1>1, <1>2, <1>3 DEF Typed

LEMMA JoinTimerType ==
  ASSUME Typed, NEW t \in Terminators, JoinTimer(t)
  PROVE  Typed'
<1>1. PcOK'
  BY TerminateGo DEF Typed, JoinTimer, TerminateLabels
<1>2. FlagsOK'
  BY DEF Typed, FlagsOK, JoinTimer
<1>3. LifeOK' /\ TextsOK' /\ LibraryOK'
  BY DEF Typed, LifeOK, TextsOK, LibraryOK, JoinTimer
<1> QED
  BY <1>1, <1>2, <1>3 DEF Typed

LEMMA JoinSdpType ==
  ASSUME Typed, NEW t \in Terminators, JoinSdp(t)
  PROVE  Typed'
<1>1. PcOK'
  BY TerminateGo DEF Typed, JoinSdp, TerminateLabels
<1>2. FlagsOK'
  BY DEF Typed, FlagsOK, JoinSdp
<1>3. LifeOK' /\ TextsOK' /\ LibraryOK'
  BY DEF Typed, LifeOK, TextsOK, LibraryOK, JoinSdp
<1> QED
  BY <1>1, <1>2, <1>3 DEF Typed

LEMMA TerminateFnType ==
  ASSUME Typed, NEW t \in Terminators, TerminateFn(t)
  PROVE  Typed'
<1>1. PcOK'
  BY TerminateGo, StayType DEF Typed, TerminateFn, TerminateLabels, ClearFn,
    Die
<1>2. FlagsOK'
  BY DEF Typed, FlagsOK, TerminateFn, ClearFn, Die
<1>3. LifeOK' /\ TextsOK' /\ LibraryOK'
  BY DEF Typed, LifeOK, TextsOK, LibraryOK, TerminateFn, ClearFn, Die, Causes
<1> QED
  BY <1>1, <1>2, <1>3 DEF Typed

LEMMA CloseType ==
  ASSUME Typed, NEW t \in Terminators, Close(t)
  PROVE  Typed'
<1>1. PcOK'
  BY TerminateGo DEF Typed, Close, TerminateLabels
<1>2. FlagsOK'
  BY CloseConnectionType DEF Typed, FlagsOK, Close
<1>3. LifeOK' /\ TextsOK' /\ LibraryOK'
  BY CloseConnectionType DEF Typed, LifeOK, TextsOK, LibraryOK, Close
<1> QED
  BY <1>1, <1>2, <1>3 DEF Typed

LEMMA ReleaseType ==
  ASSUME Typed, NEW t \in Terminators, Release(t)
  PROVE  Typed'
<1>1. PcOK'
  BY TerminateGo DEF Typed, Release, TerminateLabels
<1>2. FlagsOK'
  BY DEF Typed, FlagsOK, Release
<1>3. LifeOK' /\ TextsOK' /\ LibraryOK'
  BY DEF Typed, LifeOK, TextsOK, LibraryOK, Release
<1> QED
  BY <1>1, <1>2, <1>3 DEF Typed

LEMMA UnmapType ==
  ASSUME Typed, Unmap
  PROVE  Typed'
<1>1. PcOK'
  BY GoType, StayType DEF Typed, Unmap, Threads, Labels
<1>2. FlagsOK'
  BY DEF Typed, FlagsOK, Unmap
<1>3. LifeOK' /\ TextsOK' /\ LibraryOK'
  BY DEF Typed, LifeOK, TextsOK, LibraryOK, Unmap
<1> QED
  BY <1>1, <1>2, <1>3 DEF Typed

LEMMA FreeType ==
  ASSUME Typed, NEW t \in Terminators, Free(t)
  PROVE  Typed'
<1>1. PcOK'
  BY TerminateGo, StayType DEF Typed, Free, TerminateLabels, Die
<1>2. FlagsOK'
  BY DEF Typed, FlagsOK, Free, Die
<1>3. LifeOK' /\ TextsOK' /\ LibraryOK'
  BY DEF Typed, LifeOK, TextsOK, LibraryOK, Free, Die, Causes
<1> QED
  BY <1>1, <1>2, <1>3 DEF Typed

LEMMA SerialiseType ==
  ASSUME Typed, NEW t \in Senders, Serialise(t)
  PROVE  Typed'
<1>1. PcOK'
  BY SendGo, StayType DEF Typed, Serialise, Die
<1>2. FlagsOK'
  BY DEF Typed, FlagsOK, Serialise, Die
<1>3. LifeOK' /\ TextsOK' /\ LibraryOK'
  BY DEF Typed, LifeOK, TextsOK, LibraryOK, Serialise, Die, Causes
<1> QED
  BY <1>1, <1>2, <1>3 DEF Typed

LEMMA CallSdpFnType ==
  ASSUME Typed, NEW t \in Senders, CallSdpFn(t)
  PROVE  Typed'
<1>1. PcOK'
  BY SendGo, StayType DEF Typed, CallSdpFn, Die
<1>2. FlagsOK'
  BY DEF Typed, FlagsOK, CallSdpFn, Die
<1>3. LifeOK' /\ LibraryOK'
  BY DEF Typed, LifeOK, LibraryOK, CallSdpFn, Die, Causes
<1>4. TextsOK'
  <2>1. \/ responses' = Append(responses, modified_sdp_)
        \/ responses' = responses
    BY DEF CallSdpFn, Die
  <2>2. UNCHANGED <<modified_desc_, modified_sdp_>>
    BY DEF CallSdpFn, Die
  <2> QED
    BY <2>1, <2>2 DEF Typed, TextsOK
<1> QED
  BY <1>1, <1>2, <1>3, <1>4 DEF Typed

LEMMA SentFnType ==
  ASSUME Typed, NEW t \in Senders, SentFn(t)
  PROVE  Typed'
<1>1. PcOK'
  BY GoType, StayType DEF Typed, SentFn, ClearFn, Senders, Die, Threads, Labels
<1>2. FlagsOK'
  BY DEF Typed, FlagsOK, SentFn, ClearFn, Die
<1>3. LifeOK' /\ TextsOK' /\ LibraryOK'
  BY DEF Typed, LifeOK, TextsOK, LibraryOK, SentFn, ClearFn, Die, Causes
<1> QED
  BY <1>1, <1>2, <1>3 DEF Typed

LEMMA TypedNext == Typed /\ [Next]_vars => Typed'
<1> SUFFICES ASSUME Typed, [Next]_vars PROVE Typed'
  OBVIOUS
<1>1. CASE UNCHANGED vars
  BY <1>1 DEF Typed, PcOK, LifeOK, FlagsOK, TextsOK, LibraryOK
<1>2. CASE Client
  BY <1>2, CreatePeerType, PatchCandidatesType, PatchRestartType, DeleteType
  DEF Client
<1>3. CASE Network
  BY <1>3, GatherType, ConnectType, FailType, RemoteCloseType DEF Network
<1>4. ASSUME NEW t \in Terminators, Terminate(t) PROVE Typed'
  BY <1>4, StoreConnectedType, StoreCompleteType, JoinTimerType, JoinSdpType,
     TerminateFnType, CloseType, ReleaseType, FreeType DEF Terminate
<1>5. ASSUME NEW t \in Senders, SendSdp(t) PROVE Typed'
  BY <1>5, SerialiseType, CallSdpFnType, SentFnType DEF SendSdp
<1>6. CASE Io
  BY <1>6, <1>4, OnLocalSdpType, RestartIceType, SetRemoteDescriptionType,
     SetLocalDescriptionType, UnmapType, DropType DEF Io, Terminators
<1>7. CASE Cleaner
  BY <1>7, <1>4, InspectType, EraseType DEF Cleaner, Terminators
<1>8. CASE Lib
  BY <1>8, <1>5, OnSignalingStateChangeType, OnLocalDescriptionType,
     EmitLocalSdpType, StartSendType, OnIceCandidateType, OnConnectedType,
     ConnectedFnType, OnFailedType, FailCloseType DEF Lib, Senders
<1>9. CASE Timer
  BY <1>9, WakeTimerType, TimerCheckType, TimerCloseType DEF Timer
<1>10. CASE Sdp
  BY <1>10, <1>5, WakeSdpType DEF Sdp, Senders
<1> QED
  BY <1>1, <1>2, <1>3, <1>6, <1>7, <1>8, <1>9, <1>10 DEF Next, Over

\* Every variable of the peer keeps its type.
THEOREM TypeCorrect == Spec => []TypeOK
<1>1. Spec => []Typed
  BY InitTyped, TypedNext, PTL DEF Spec
<1> QED
  BY <1>1, TypedIsTypeOK, PTL
-----------------------------------------------------------------------------
(* The inductive invariant behind the safety properties.                   *)

\* Who holds the peer in each stage of its life, and that at most one thread
\* runs ~RtcPeer.  A live peer has its connection until DELETE resets it.
Ownership ==
  /\ peer = "absent" =>
       refs = {} /\ ~peer_connection_ /\ \A t \in Threads : pc[t] = "idle"
  /\ peer = "live" =>
       /\ pc["cleaner"] \in {"idle", "erase"}
       /\ "io" \in refs <=> pc["io"] # "idle"
       /\ pc["io"] # "free"
       /\ \/ peer_connection_
          \/ pc["io"] \in {"release", "unmap"}
          \/ pc["io"] = "drop" /\ "map" \notin refs
  /\ peer = "dying" =>
       /\ refs = {}
       /\ \/ /\ pc["io"] \in TerminateLabels \ {"unmap"}
             /\ pc["cleaner"] \in {"idle", "erase"}
          \/ /\ pc["io"] = "idle"
             /\ pc["cleaner"] \in TerminateLabels \ {"unmap"}
  /\ peer = "destroyed" =>
       /\ refs = {}
       /\ pc["io"] = "idle"
       /\ pc["cleaner"] \in {"idle", "erase"}

\* A closed connection has delivered its last callback.
Closed == pcState = "closed" => cbq = <<>> /\ ~is_connected_ /\ is_complete_

\* Without a connection there is no callback, neither running nor to come.
Reset ==
  ~peer_connection_ =>
    /\ cbq = <<>>
    /\ pc["lib"] = "idle"
    /\ \/ pcState = "closed"
       \/ peer = "absent" /\ signaling = "new" /\ responses = <<>>

\* A thread that has not returned is held by its std::thread, and a joinable
\* std::thread is one that was started.
Handles ==
  /\ pc["timer"] \notin {"idle", "done"} => peer_timeout_
  /\ peer_timeout_ => pc["timer"] # "idle"
  /\ pc["sdp"] \notin {"idle", "done"} => sent_sdp_timeout_
  /\ sent_sdp_timeout_ => pc["sdp"] # "idle"

\* What Terminate has established at each of its labels.
Joined ==
  /\ \A t \in Terminators :
       /\ pc[t] \in {"join_timer", "join_sdp", "clear_fn", "close"} =>
            is_complete_
       /\ pc[t] \in {"join_sdp", "clear_fn", "close"} => pc["timer"] # "close"
       /\ pc[t] \in {"release", "unmap", "free"} => ~peer_connection_
  /\ pc["timer"] = "close" => peer_connection_
  /\ peer = "destroyed" =>
       ~peer_connection_ /\ ~peer_timeout_ /\ ~sent_sdp_timeout_

Inv == Ownership /\ Closed /\ Reset /\ Handles /\ Joined

IInv == Typed /\ Inv

LEMMA GoPc ==
  ASSUME PcOK, NEW t \in Threads, NEW l, Go(t, l)
  PROVE  pc'[t] = l /\ \A u \in Threads \ {t} : pc'[u] = pc[u]
BY DEF PcOK, Go

LEMMA StayInv == ASSUME IInv, UNCHANGED state PROVE Inv'
BY DEF IInv, Inv, Ownership, Closed, Reset, Handles, Joined

LEMMA InitInv == Init => Inv
BY DEF Init, Inv, Ownership, Closed, Reset, Handles, Joined, Threads,
  Terminators

LEMMA ClientInv ==
  ASSUME IInv, Client
  PROVE  Inv'
<1> USE DEF IInv, Inv, Typed, Ownership, Closed, Reset, Handles, Joined,
            At, Threads, Terminators, Senders, Request
<1>1. CASE CreatePeer
  BY <1>1, GoPc DEF CreatePeer
<1>2. CASE PatchCandidates
  BY <1>2, GoPc DEF PatchCandidates
<1>3. CASE PatchRestart
  BY <1>3, GoPc DEF PatchRestart
<1>4. CASE Delete
  BY <1>4, GoPc DEF Delete, TerminateLabels
<1> QED
  BY <1>1, <1>2, <1>3, <1>4 DEF Client

LEMMA NetworkInv ==
  ASSUME IInv, Network
  PROVE  Inv'
<1> USE DEF IInv, Inv, Typed, Ownership, Closed, Reset, Handles, Joined,
            At, Threads, Terminators, Senders
<1>1. ASSUME NEW c \in Candidates, Gather(c) PROVE Inv'
  BY <1>1, GoPc DEF Gather, Notify
<1>2. CASE Connect
  BY <1>2, GoPc DEF Connect, Notify
<1>3. CASE Fail
  BY <1>3, GoPc DEF Fail, Notify
<1>4. CASE RemoteClose
  BY <1>4, GoPc DEF RemoteClose, CloseConnection, OnClosed
<1> QED
  BY <1>1, <1>2, <1>3, <1>4 DEF Network

LEMMA TerminateInv ==
  ASSUME IInv, NEW t \in Terminators, Terminate(t)
  PROVE  Inv'
<1> USE DEF IInv, Inv, Typed, Ownership, Closed, Reset, Handles, Joined,
            At, Threads, Terminators, Senders, TerminateLabels
<1>1. CASE StoreConnected(t)
  BY <1>1, GoPc DEF StoreConnected
<1>2. CASE StoreComplete(t)
  BY <1>2, GoPc DEF StoreComplete
<1>3. CASE JoinTimer(t)
  BY <1>3, GoPc DEF JoinTimer
<1>4. CASE JoinSdp(t)
  BY <1>4, GoPc DEF JoinSdp
<1>5. CASE TerminateFn(t)
  BY <1>5, GoPc DEF TerminateFn, ClearFn, Die
<1>6. CASE Close(t)
  BY <1>6, GoPc DEF Close, CloseConnection, OnClosed
<1>7. CASE Release(t)
  BY <1>7, GoPc DEF Release
<1>8. CASE Free(t)
  <2>1. CASE UNCHANGED state
    BY <2>1, StayInv
  <2>2. CASE ~UNCHANGED state
    <3>1. peer = "dying" /\ peer' = "destroyed" /\ Go(t, "idle")
      BY <1>8, <2>2 DEF Free, Die, LifeOK
    <3>2. /\ pc'["io"] = "idle"
          /\ pc'["cleaner"] \in {"idle", "erase"}
      BY <1>8, <3>1, GoPc DEF Free
    <3>3. refs' = {}
      BY <1>8, <2>2, <3>1 DEF Free, Die
    <3>4. Ownership'
      BY <3>1, <3>2, <3>3
    <3>5. Closed' /\ Reset'
      BY <1>8, <2>2, <3>1, GoPc DEF Free, Die
    <3>6. Handles' /\ Joined'
      BY <1>8, <2>2, <3>1, GoPc DEF Free, Die
    <3> QED
      BY <3>4, <3>5, <3>6
  <2> QED
    BY <2>1, <2>2
<1> QED
  BY <1>1, <1>2, <1>3, <1>4, <1>5, <1>6, <1>7, <1>8 DEF Terminate

LEMMA SendSdpInv ==
  ASSUME IInv, NEW t \in Senders, SendSdp(t)
  PROVE  Inv'
<1> USE DEF IInv, Inv, Typed, Ownership, Closed, Reset, Handles, Joined,
            At, Threads, Terminators, Senders
<1>1. CASE Serialise(t)
  BY <1>1, GoPc DEF Serialise, Die
<1>2. CASE CallSdpFn(t)
  <2>1. CASE UNCHANGED state
    BY <2>1, StayInv
  <2>2. CASE ~UNCHANGED state
    <3>1. /\ Go(t, "clear")
          /\ UNCHANGED <<life, flags, handles, peer_connection_, library>>
      BY <1>2, <2>2 DEF CallSdpFn, Die
    <3>2. Ownership'
      BY <1>2, <2>2, <3>1, GoPc DEF CallSdpFn, Die
    <3>3. Closed' /\ Reset'
      BY <1>2, <2>2, <3>1, GoPc DEF CallSdpFn, Die
    <3>4. Handles' /\ Joined'
      BY <1>2, <2>2, <3>1, GoPc DEF CallSdpFn, Die
    <3> QED
      BY <3>2, <3>3, <3>4
  <2> QED
    BY <2>1, <2>2
<1>3. CASE SentFn(t)
  BY <1>3, GoPc DEF SentFn, ClearFn, Die
<1> QED
  BY <1>1, <1>2, <1>3 DEF SendSdp

\* A step of a handler on a live peer, whatever it asks of the library.
LEMMA HandlerInv ==
  ASSUME IInv, peer = "live", peer_connection_,
         pc["io"] \in {"restart", "set_remote", "set_local"},
         NEW l \in {"set_remote", "set_local", "drop"}, Go("io", l),
         UNCHANGED <<life, flags, handles, peer_connection_, pcState>>,
         pcState = "closed" => cbq' = cbq
  PROVE  Inv'
<1> USE GoPc DEF IInv, Inv, Typed, Threads
<1>1. Ownership'
  BY DEF Ownership
<1>2. Closed' /\ Reset'
  BY DEF Closed, Reset
<1>3. Handles' /\ Joined'
  BY DEF Handles, Joined, Terminators
<1> QED
  BY <1>1, <1>2, <1>3

LEMMA IoInv ==
  ASSUME IInv, Io
  PROVE  Inv'
<1> USE DEF IInv, Inv, Typed, Ownership, Closed, Reset, Handles, Joined,
            At, Threads, Terminators, Senders, TerminateLabels, Die, LifeOK
<1>1. CASE OnLocalSdp
  BY <1>1, GoPc DEF OnLocalSdp
<1>2. CASE RestartIce
  <2>1. CASE UNCHANGED state
    BY <2>1, StayInv
  <2>2. CASE ~UNCHANGED state
    <3>1. peer = "live" /\ peer_connection_
      BY <1>2 DEF RestartIce
    <3>2. PICK l \in {"set_remote", "set_local", "drop"} : Go("io", l)
      BY <1>2, <2>2 DEF RestartIce
    <3>3. /\ UNCHANGED <<life, flags, handles, peer_connection_, pcState>>
          /\ pcState = "closed" => cbq' = cbq
      BY <1>2, <2>2 DEF RestartIce
    <3> QED
      BY <1>2, <3>1, <3>2, <3>3, HandlerInv DEF RestartIce
  <2> QED
    BY <2>1, <2>2
<1>3. CASE SetRemoteDescription
  <2>1. CASE UNCHANGED state
    BY <2>1, StayInv
  <2>2. CASE ~UNCHANGED state
    <3>1. peer = "live" /\ peer_connection_
      BY <1>3 DEF SetRemoteDescription
    <3>2. PICK l \in {"set_remote", "set_local", "drop"} : Go("io", l)
      BY <1>3, <2>2 DEF SetRemoteDescription
    <3>3. /\ UNCHANGED <<life, flags, handles, peer_connection_, pcState>>
          /\ pcState = "closed" => cbq' = cbq
      BY <1>3, <2>2 DEF SetRemoteDescription, Notify
    <3> QED
      BY <1>3, <3>1, <3>2, <3>3, HandlerInv DEF SetRemoteDescription
  <2> QED
    BY <2>1, <2>2
<1>4. CASE SetLocalDescription
  <2>1. CASE UNCHANGED state
    BY <2>1, StayInv
  <2>2. CASE ~UNCHANGED state
    <3>1. peer = "live" /\ peer_connection_
      BY <1>4 DEF SetLocalDescription
    <3>2. PICK l \in {"set_remote", "set_local", "drop"} : Go("io", l)
      BY <1>4, <2>2 DEF SetLocalDescription
    <3>3. /\ UNCHANGED <<life, flags, handles, peer_connection_, pcState>>
          /\ pcState = "closed" => cbq' = cbq
      BY <1>4, <2>2 DEF SetLocalDescription, Notify
    <3> QED
      BY <1>4, <3>1, <3>2, <3>3, HandlerInv DEF SetLocalDescription
  <2> QED
    BY <2>1, <2>2
<1>5. CASE Unmap
  BY <1>5, GoPc DEF Unmap
<1>6. CASE Drop
  <2>1. CASE UNCHANGED state
    BY <2>1, StayInv
  <2>2. CASE ~UNCHANGED state
    <3>1. peer = "live"
      BY <1>6, <2>2 DEF Drop
    <3>2. Ownership'
      BY <1>6, <2>2, <3>1, GoPc DEF Drop
    <3>3. Closed' /\ Reset'
      BY <1>6, <2>2, <3>1, GoPc DEF Drop
    <3>4. Handles' /\ Joined'
      BY <1>6, <2>2, <3>1, GoPc DEF Drop
    <3> QED
      BY <3>2, <3>3, <3>4
  <2> QED
    BY <2>1, <2>2
<1>7. CASE Terminate("io")
  BY <1>7, TerminateInv
<1> QED
  BY <1>1, <1>2, <1>3, <1>4, <1>5, <1>6, <1>7 DEF Io

LEMMA CleanerInv ==
  ASSUME IInv, Cleaner
  PROVE  Inv'
<1> USE DEF IInv, Inv, Typed, Ownership, Closed, Reset, Handles, Joined,
            At, Threads, Terminators, Senders, TerminateLabels, Die, LifeOK
<1>1. CASE Inspect
  BY <1>1, GoPc DEF Inspect
<1>2. CASE Erase
  <2>1. CASE UNCHANGED state
    BY <2>1, StayInv
  <2>2. CASE "map" \notin refs /\ Move("cleaner", "erase", "idle")
             /\ UNCHANGED others
    BY <2>2, GoPc DEF Move, others
  <2>3. CASE "map" \in refs /\ ~UNCHANGED state
    <3>1. peer = "live"
      BY <1>2, <2>3 DEF Erase
    <3>2. Ownership'
      <4>1. CASE "io" \in refs
        <5>1. UNCHANGED peer /\ Go("cleaner", "idle") /\ refs' = refs \ {"map"}
          BY <1>2, <2>3, <4>1 DEF Erase
        <5> QED
          BY <1>2, <2>3, <3>1, <5>1, GoPc DEF Erase
      <4>2. CASE "io" \notin refs
        <5>1. peer' = "dying" /\ Go("cleaner", "stop") /\ refs' = {}
          BY <1>2, <2>3, <4>2 DEF Erase
        <5> QED
          BY <3>1, <4>2, <5>1, GoPc
      <4> QED
        BY <4>1, <4>2
    <3>3. Closed' /\ Reset'
      BY <1>2, <2>3, <3>1, GoPc DEF Erase
    <3>4. Handles' /\ Joined'
      BY <1>2, <2>3, <3>1, GoPc DEF Erase
    <3> QED
      BY <3>2, <3>3, <3>4
  <2> QED
    BY <1>2, <2>1, <2>2, <2>3 DEF Erase, Move
<1>3. CASE Terminate("cleaner")
  BY <1>3, TerminateInv
<1> QED
  BY <1>1, <1>2, <1>3 DEF Cleaner

LEMMA StartSendInv == ASSUME IInv, StartSend PROVE Inv'
<1> USE DEF IInv, Inv, Typed, Terminators, Threads, StartSend
<1>1. /\ pc["lib"] = "join_prev"
      /\ pc'["lib"] \in {"idle", "serialise"}
      /\ pc'["sdp"] \in {pc["sdp"], "sleep"}
      /\ \A u \in Threads \ {"lib", "sdp"} : pc'[u] = pc[u]
  BY DEF PcOK, At
<1>2. /\ pc'["sdp"] \notin {"idle", "done"} => sent_sdp_timeout_'
      /\ sent_sdp_timeout_' => pc'["sdp"] # "idle"
  BY ConstantsAssumption DEF PcOK, At, Handles
<1>3. Ownership'
  BY <1>1 DEF Ownership
<1>4. Closed' /\ Reset'
  BY <1>1 DEF Closed, Reset
<1>5. Handles'
  BY <1>1, <1>2 DEF Handles
<1>6. Joined'
  BY <1>1 DEF Joined, Reset
<1> QED
  BY <1>3, <1>4, <1>5, <1>6

LEMMA LibInv ==
  ASSUME IInv, Lib
  PROVE  Inv'
<1> USE DEF IInv, Inv, Typed, Ownership, Closed, Reset, Handles, Joined,
            At, Threads, Terminators, Senders
<1>1. CASE OnSignalingStateChange
  BY <1>1, GoPc DEF OnSignalingStateChange, Die, Callback
<1>2. CASE OnLocalDescription
  BY <1>2, GoPc DEF OnLocalDescription, Die, Callback
<1>3. CASE EmitLocalSdp
  BY <1>3, GoPc DEF EmitLocalSdp
<1>4. CASE StartSend
  BY <1>4, StartSendInv
<1>5. CASE OnIceCandidate
  BY <1>5, GoPc DEF OnIceCandidate, Die, Callback
<1>6. CASE OnConnected
  BY <1>6, GoPc DEF OnConnected, Callback
<1>7. CASE ConnectedFn
  BY <1>7, GoPc DEF ConnectedFn, ClearFn, Die
<1>8. CASE OnFailed
  BY <1>8, GoPc DEF OnFailed, Callback
<1>9. CASE FailClose
  BY <1>9, GoPc DEF FailClose, CloseConnection, OnClosed
<1>10. CASE SendSdp("lib")
  BY <1>10, SendSdpInv
<1> QED
  BY <1>1, <1>2, <1>3, <1>4, <1>5, <1>6, <1>7, <1>8, <1>9, <1>10 DEF Lib

LEMMA TimerInv ==
  ASSUME IInv, Timer
  PROVE  Inv'
<1> USE DEF IInv, Inv, Typed, Ownership, Closed, Reset, Handles, Joined,
            At, Threads, Terminators, Senders
<1>1. CASE WakeTimer
  BY <1>1, GoPc DEF WakeTimer
<1>2. CASE TimerCheck
  BY <1>2, GoPc DEF TimerCheck
<1>3. CASE TimerClose
  BY <1>3, GoPc DEF TimerClose, CloseConnection, OnClosed
<1> QED
  BY <1>1, <1>2, <1>3 DEF Timer

LEMMA SdpInv ==
  ASSUME IInv, Sdp
  PROVE  Inv'
<1> USE DEF IInv, Inv, Typed, Ownership, Closed, Reset, Handles, Joined,
            At, Threads, Terminators, Senders
<1>1. CASE WakeSdp
  BY <1>1, GoPc DEF WakeSdp
<1>2. CASE SendSdp("sdp")
  BY <1>2, SendSdpInv
<1> QED
  BY <1>1, <1>2 DEF Sdp

LEMMA IInvNext == IInv /\ [Next]_vars => IInv'
<1> SUFFICES ASSUME IInv, [Next]_vars PROVE Inv'
  BY TypedNext DEF IInv
<1>1. CASE UNCHANGED vars
  BY <1>1, StayInv
<1>2. CASE Next
  BY <1>1, <1>2, ClientInv, NetworkInv, IoInv, CleanerInv, LibInv, TimerInv,
     SdpInv DEF Next, Over
<1> QED
  BY <1>1, <1>2

THEOREM Invariance == Spec => []IInv
<1>1. Init => IInv
  BY InitTyped, InitInv DEF IInv
<1> QED
  BY <1>1, IInvNext, PTL DEF Spec

\* Safety of every instance: nobody calls through a null peer_connection_.
THEOREM ConnectionCorrect == Spec => []NoNullConnection
<1>1. IInv => NoNullConnection
  BY DEF IInv, Inv, Typed, LifeOK, Ownership, Reset, Joined, NoNullConnection,
         Dereferences, Threads, TerminateLabels
<1> QED
  BY <1>1, Invariance, PTL

\* In every instance a closed connection stays disconnected and complete.
THEOREM ClosedCorrect == Spec => []ClosedIsFinal
<1>1. IInv => ClosedIsFinal
  BY DEF IInv, Inv, Closed, ClosedIsFinal
<1> QED
  BY <1>1, Invariance, PTL

\* In every instance nothing runs on the members of a destroyed peer.
THEOREM DestroyCorrect == Spec => []NoUseAfterDestroy
<1>1. IInv => NoUseAfterDestroy
  BY DEF IInv, Inv, Ownership, Reset, Handles, Joined, NoUseAfterDestroy,
         Threads
<1> QED
  BY <1>1, Invariance, PTL

-----------------------------------------------------------------------------
(* The two halves of termination: somebody can go on, and not for ever.    *)

\* In every instance whoever is waited for was started, and nobody waits in
\* a circle: sdp waits for nobody, lib for sdp only, the timer for lib, and
\* the threads that run Terminate for these three.
THEOREM NoCircularWaitCorrect == Spec => []NoCircularWait
<1>1. ASSUME IInv PROVE NoCircularWait
  <2> USE DEF WaitsFor, At, Threads
  <2>1. /\ pc["timer"] \in Labels["timer"]
        /\ pc["sdp"] \in Labels["sdp"]
        /\ pc["lib"] \in Labels["lib"]
    BY <1>1 DEF IInv, Typed, PcOK
  <2>2. ASSUME NEW t \in Threads, NEW u \in Threads, WaitsFor(t, u)
        PROVE  pc[u] \notin {"idle", "done"}
    BY <1>1, <2>1, <2>2 DEF IInv, Inv, Handles, Labels, SendLabels
  <2>3. ASSUME NEW u \in Threads
        PROVE  /\ ~WaitsFor("sdp", u)
               /\ WaitsFor("lib", u) => u = "sdp"
               /\ WaitsFor("timer", u) => u = "lib"
               /\ WaitsFor(u, "io") = FALSE
               /\ WaitsFor(u, "cleaner") = FALSE
    BY <2>1 DEF Labels, SendLabels
  <2>4. ASSUME NEW group \in SUBSET Threads, group # {}
        PROVE  \E t \in group : \A u \in group : ~WaitsFor(t, u)
    <3>1. CASE "sdp" \in group
      BY <2>3, <3>1
    <3>2. CASE "sdp" \notin group /\ "lib" \in group
      BY <2>3, <3>2
    <3>3. CASE "sdp" \notin group /\ "lib" \notin group /\ "timer" \in group
      BY <2>3, <3>3
    <3>4. CASE group \subseteq {"io", "cleaner"}
      <4>1. PICK t \in group : TRUE
        BY <2>4
      <4>2. \A u \in group : ~WaitsFor(t, u)
        BY <2>3, <3>4, <4>1
      <4> QED
        BY <4>2
    <3> QED
      BY <3>1, <3>2, <3>3, <3>4
  <2>5. \A group \in (SUBSET Threads) \ {{}} :
          \E t \in group : \A u \in group : ~WaitsFor(t, u)
    BY <2>4
  <2> QED
    BY <2>2, <2>5 DEF NoCircularWait
<1> QED
  BY <1>1, Invariance, PTL

LEMMA RankNat == ASSUME PcOK, NEW t \in Threads PROVE Rank(pc[t]) \in Nat
<1>1. pc[t] \in Labels[t]
  BY DEF PcOK
<1> QED
  BY <1>1 DEF Threads, Labels, TerminateLabels, SendLabels, Rank

LEMMA StillQueuedNat ==
  ASSUME Typed PROVE StillQueued \in Nat /\ Len(cbq) \in Nat
BY DEF Typed, LibraryOK, StillQueued

\* The work that is left is a number: it cannot fall for ever.
LEMMA WorkNat == ASSUME Typed PROVE Work \in Nat
<1>1. \A t \in Threads : Rank(pc[t]) \in Nat
  BY RankNat DEF Typed
<1> QED
  BY <1>1, StillQueuedNat DEF Work, Threads

\* One thread moves on.
LEMMA MoveWork ==
  ASSUME IInv, Typed', NEW t \in Threads, NEW l, Go(t, l),
         Rank(l) + StillQueued' < Rank(pc[t]) + StillQueued
  PROVE  Work' < Work
<1>1. pc'[t] = l /\ \A u \in Threads \ {t} : pc'[u] = pc[u]
  BY GoPc DEF IInv, Typed
<1>2. \A u \in Threads : Rank(pc[u]) \in Nat /\ Rank(pc'[u]) \in Nat
  <2>1. PcOK /\ PcOK'
    BY DEF IInv, Typed
  <2> QED
    BY <2>1, RankNat DEF PcOK, Threads, Labels, TerminateLabels, SendLabels,
      Rank
<1>3. StillQueued \in Nat /\ StillQueued' \in Nat
  <2>1. Len(cbq') \in Nat
    BY DEF Typed, LibraryOK
  <2> QED
    BY <2>1, StillQueuedNat DEF IInv, StillQueued
<1>4. \A u \in Threads \ {t} : Rank(pc'[u]) = Rank(pc[u])
  BY <1>1
<1>5. Rank(pc'[t]) + StillQueued' < Rank(pc[t]) + StillQueued
  BY <1>1
<1> HIDE DEF StillQueued
<1> QED
  BY <1>2, <1>3, <1>4, <1>5 DEF Work, Threads

\* Nothing is queued behind the thread that moves on, and no second
\* Terminate lies ahead that did not before.
LEMMA CalmWork ==
  ASSUME IInv, Typed', NEW t \in Threads, NEW l, Go(t, l),
         Len(cbq') <= Len(cbq), TwiceToGo' => TwiceToGo,
         Rank(l) \in Nat, Rank(l) < Rank(pc[t])
  PROVE  Work' < Work
<1>1. Len(cbq) \in Nat /\ Len(cbq') \in Nat
  BY DEF IInv, Typed, LibraryOK
<1>2. StillQueued' <= StillQueued /\ StillQueued \in Nat /\ StillQueued' \in Nat
  BY <1>1 DEF StillQueued
<1>3. Rank(pc[t]) \in Nat
  BY RankNat DEF IInv, Typed
<1>4. Rank(l) + StillQueued' < Rank(pc[t]) + StillQueued
  <2> HIDE DEF StillQueued
  <2> QED
    BY <1>2, <1>3
<1> QED
  BY <1>4, MoveWork

\* A callback is taken from the queue, and thread t goes to l.
LEMMA CallbackWork ==
  ASSUME IInv, Typed', NEW cb, Callback(cb), NEW t \in Threads \ {"io"}, NEW l,
         Go(t, l), UNCHANGED peer, Rank(l) \in 0..8
  PROVE  Work' < Work
<1>1. Len(cbq) \in Nat /\ Len(cbq') = Len(cbq) - 1
  BY DEF IInv, Typed, LibraryOK, Callback
<1>2. pc'["io"] = pc["io"]
  BY GoPc DEF IInv, Typed, Threads
<1>3. StillQueued' = StillQueued - 9 /\ StillQueued \in Nat
  BY <1>1, <1>2 DEF StillQueued, TwiceToGo
<1>4. Rank(pc[t]) \in Nat
  BY RankNat DEF IInv, Typed
<1>5. Rank(l) + StillQueued' < Rank(pc[t]) + StillQueued
  <2> HIDE DEF StillQueued
  <2> QED
    BY <1>3, <1>4
<1> QED
  BY <1>5, MoveWork

LEMMA CloseQueue ==
  ASSUME IInv, CloseConnection
  PROVE  Len(cbq') <= Len(cbq)
BY DEF IInv, Typed, LibraryOK, CloseConnection

LEMMA TerminateWork ==
  ASSUME IInv, Typed', NEW t \in Terminators, Terminate(t)
  PROVE  dead' # "no" \/ Work' < Work
<1>1. t \in Threads /\ Len(cbq) \in Nat
  BY DEF Terminators, Threads, IInv, Typed, LibraryOK
<1>2. ASSUME NEW l \in TerminateLabels, pc[t] \in TerminateLabels, Go(t, l),
             UNCHANGED peer, Len(cbq') <= Len(cbq), Rank(l) < Rank(pc[t])
      PROVE  Work' < Work
  <2>1. TwiceToGo' => TwiceToGo
    BY <1>1, <1>2, GoPc DEF TwiceToGo, IInv, Typed, Terminators, Threads
  <2>2. Rank(l) \in Nat
    BY DEF TerminateLabels, Rank
  <2> QED
    BY <1>1, <1>2, <2>1, <2>2, CalmWork
<1> USE DEF At, TerminateLabels, Rank
<1>3. CASE StoreConnected(t)
  BY <1>1, <1>2, <1>3 DEF StoreConnected
<1>4. CASE StoreComplete(t)
  BY <1>1, <1>2, <1>4 DEF StoreComplete
<1>5. CASE JoinTimer(t)
  BY <1>1, <1>2, <1>5 DEF JoinTimer
<1>6. CASE JoinSdp(t)
  BY <1>1, <1>2, <1>6 DEF JoinSdp
<1>7. CASE TerminateFn(t)
  BY <1>1, <1>2, <1>7 DEF TerminateFn, ClearFn, Die
<1>8. CASE Close(t)
  BY <1>1, <1>2, <1>8, CloseQueue DEF Close
<1>9. CASE Release(t)
  BY <1>1, <1>2, <1>9 DEF Release
<1>10. CASE Free(t)
  <2>1. CASE peer_timeout_ \/ sent_sdp_timeout_
    BY <1>10, <2>1 DEF Free, Die
  <2>2. CASE ~peer_timeout_ /\ ~sent_sdp_timeout_
    <3>1. /\ pc[t] = "free" /\ Go(t, "idle")
          /\ peer' = "destroyed" /\ UNCHANGED cbq
      BY <1>10, <2>2 DEF Free
    <3> QED
      BY <1>1, <3>1, CalmWork DEF TwiceToGo
  <2> QED
    BY <2>1, <2>2
<1> QED
  BY <1>3, <1>4, <1>5, <1>6, <1>7, <1>8, <1>9, <1>10 DEF Terminate

LEMMA SendSdpWork ==
  ASSUME IInv, Typed', NEW t \in Senders, SendSdp(t)
  PROVE  dead' # "no" \/ Work' < Work
<1>1. ASSUME NEW l \in {"call", "clear", "idle", "done"}, Go(t, l),
             UNCHANGED <<peer, cbq>>, Rank(l) < Rank(pc[t])
      PROVE  Work' < Work
  <2>1. t \in Threads /\ pc'["io"] = pc["io"] /\ Len(cbq) \in Nat
    BY <1>1, GoPc DEF IInv, Typed, LibraryOK, Threads, Senders
  <2>2. TwiceToGo' => TwiceToGo
    BY <1>1, <2>1 DEF TwiceToGo
  <2>3. Rank(l) \in Nat
    BY DEF Rank
  <2> QED
    BY <1>1, <2>1, <2>2, <2>3, CalmWork
<1> USE DEF At, Rank
<1>2. CASE Serialise(t)
  BY <1>1, <1>2 DEF Serialise, Die
<1>3. CASE CallSdpFn(t)
  BY <1>1, <1>3 DEF CallSdpFn, Die
<1>4. CASE SentFn(t)
  BY <1>1, <1>4 DEF SentFn, ClearFn, Die
<1> QED
  BY <1>2, <1>3, <1>4 DEF SendSdp

\* A handler queues one callback at most, and pays for it.
LEMMA HandlerWork ==
  ASSUME IInv, Typed', NEW l \in {"set_remote", "set_local", "drop"},
         Go("io", l), UNCHANGED peer,
         pc["io"] \in {"on_local_sdp", "restart", "set_remote", "set_local"},
         \/ Len(cbq') <= Len(cbq) /\ Rank(l) < Rank(pc["io"])
         \/ Len(cbq') <= Len(cbq) + 1 /\ Rank(l) + 9 < Rank(pc["io"])
  PROVE  Work' < Work
<1>1. Len(cbq) \in Nat /\ Len(cbq') \in Nat
  BY DEF IInv, Typed, LibraryOK
<1>2. ~TwiceToGo /\ ~TwiceToGo'
  BY GoPc DEF TwiceToGo, TerminateLabels, IInv, Typed, Threads
<1>3. StillQueued = 9 * Len(cbq) /\ StillQueued' = 9 * Len(cbq')
  BY <1>2 DEF StillQueued
<1>4. Rank(l) \in Nat /\ Rank(pc["io"]) \in Nat
  BY DEF Rank
<1>5. Rank(l) + StillQueued' < Rank(pc["io"]) + StillQueued
  BY <1>1, <1>3, <1>4
<1> QED
  BY <1>5, MoveWork DEF Threads

LEMMA NotifyQueue ==
  ASSUME IInv, NEW event, Notify(event)
  PROVE  Len(cbq') <= Len(cbq) + 1
BY DEF Notify, IInv, Typed, LibraryOK

LEMMA IoWork ==
  ASSUME IInv, Typed', Io
  PROVE  dead' # "no" \/ Work' < Work
<1>1. Len(cbq) \in Nat
  BY DEF IInv, Typed, LibraryOK
<1>2. CASE OnLocalSdp
  BY <1>1, <1>2, HandlerWork DEF OnLocalSdp, At, Rank
<1>3. CASE RestartIce
  BY <1>1, <1>3, HandlerWork DEF RestartIce, At, Rank, Die
<1>4. CASE SetRemoteDescription
  <2>1. CASE Len(cbq') <= Len(cbq)
    BY <1>4, <2>1, HandlerWork DEF SetRemoteDescription, At, Rank, Die
  <2>2. CASE ~(Len(cbq') <= Len(cbq))
    BY <1>1, <1>4, <2>2, HandlerWork, NotifyQueue
    DEF SetRemoteDescription, At, Rank, Die
  <2> QED
    BY <2>1, <2>2
<1>5. CASE SetLocalDescription
  <2>1. CASE Len(cbq') <= Len(cbq)
    BY <1>5, <2>1, HandlerWork DEF SetLocalDescription, At, Rank, Die
  <2>2. CASE ~(Len(cbq') <= Len(cbq))
    BY <1>1, <1>5, <2>2, HandlerWork, NotifyQueue
    DEF SetLocalDescription, At, Rank, Die
  <2> QED
    BY <2>1, <2>2
<1>6. CASE Unmap
  <2>1. /\ pc["io"] = "unmap" /\ Go("io", "drop") /\ UNCHANGED <<peer, cbq>>
    BY <1>6 DEF Unmap, At
  <2>2. peer = "live" /\ TwiceToGo /\ ~TwiceToGo'
    BY <2>1, GoPc DEF IInv, Inv, Typed, LifeOK, Ownership, TwiceToGo,
      TerminateLabels, Threads
  <2>3. StillQueued = 9 * Len(cbq) + 9 /\ StillQueued' = 9 * Len(cbq)
    BY <2>1, <2>2 DEF StillQueued
  <2>4. Rank("drop") + StillQueued' < Rank(pc["io"]) + StillQueued
    BY <1>1, <2>1, <2>3 DEF Rank
  <2> QED
    BY <2>1, <2>4, MoveWork DEF Threads
<1>7. CASE Drop
  <2>1. /\ pc["io"] = "drop" /\ UNCHANGED cbq
        /\ \/ Go("io", "idle") /\ UNCHANGED peer
           \/ Go("io", "stop") /\ peer' = "dying"
    BY <1>7 DEF Drop, At
  <2>2. ~TwiceToGo'
    BY <2>1, GoPc DEF IInv, Typed, TwiceToGo, TerminateLabels, Threads
  <2>3. Rank("idle") = 0 /\ Rank("stop") = 9 /\ Rank(pc["io"]) = 10
    BY <2>1 DEF Rank
  <2> QED
    BY <1>1, <2>1, <2>2, <2>3, CalmWork DEF Threads
<1>8. CASE Terminate("io")
  BY <1>8, TerminateWork DEF Terminators
<1> QED
  BY <1>2, <1>3, <1>4, <1>5, <1>6, <1>7, <1>8 DEF Io

LEMMA EraseWork ==
  ASSUME IInv, Typed', Erase
  PROVE  dead' # "no" \/ Work' < Work
<1>1. CASE dead' # "no"
  BY <1>1
<1>2. CASE dead' = "no"
  <2>1. /\ pc["cleaner"] = "erase" /\ UNCHANGED cbq
        /\ \/ Go("cleaner", "idle") /\ UNCHANGED peer
           \/ Go("cleaner", "stop") /\ peer' = "dying"
    BY <1>2 DEF Erase, At, Die
  <2>2. TwiceToGo' => TwiceToGo
    BY <2>1, GoPc DEF IInv, Typed, TwiceToGo, Threads
  <2>3. Rank("idle") = 0 /\ Rank("stop") = 9 /\ Rank(pc["cleaner"]) = 10
    BY <2>1 DEF Rank
  <2>4. Len(cbq) \in Nat
    BY DEF IInv, Typed, LibraryOK
  <2> QED
    BY <2>1, <2>2, <2>3, <2>4, CalmWork DEF Threads
<1> QED
  BY <1>1, <1>2

\* A callback pays for the thread it starts.
LEMMA LibWork ==
  ASSUME IInv, Typed', Lib
  PROVE  dead' # "no" \/ Work' < Work
<1>1. Len(cbq) \in Nat /\ "lib" \in Threads \ {"io"}
      /\ "timer" \in Threads \ {"io"}
  BY DEF IInv, Typed, LibraryOK, Threads
<1>2. ASSUME NEW l, Go("lib", l), UNCHANGED <<peer>>, Len(cbq') <= Len(cbq),
             Rank(l) \in Nat, Rank(l) < Rank(pc["lib"])
      PROVE  Work' < Work
  <2>1. TwiceToGo' => TwiceToGo
    BY <1>2, GoPc DEF IInv, Typed, TwiceToGo, Threads
  <2> QED
    BY <1>1, <1>2, <2>1, CalmWork
<1>3. CASE OnSignalingStateChange
  <2>1. Rank("sleep") \in 0..8
    BY DEF Rank
  <2> QED
    BY <1>1, <1>3, <2>1, CallbackWork DEF OnSignalingStateChange, Die
<1>4. CASE OnLocalDescription
  <2>1. Rank("emit") \in 0..8
    BY DEF Rank
  <2> QED
    BY <1>1, <1>4, <2>1, CallbackWork DEF OnLocalDescription, Die
<1>5. CASE EmitLocalSdp
  BY <1>1, <1>2, <1>5 DEF EmitLocalSdp, At, Rank
<1>6. CASE StartSend
  <2>1. /\ pc["lib"] = "join_prev" /\ UNCHANGED <<peer, cbq>>
        /\ pc'["io"] = pc["io"] /\ pc'["cleaner"] = pc["cleaner"]
        /\ pc'["timer"] = pc["timer"]
        /\ \/ pc'["lib"] = "idle" /\ pc'["sdp"] = "sleep"
           \/ pc'["lib"] = "serialise" /\ pc'["sdp"] = pc["sdp"]
    BY <1>6 DEF StartSend, At, IInv, Typed, PcOK, Threads
  <2>2. \A t \in Threads : Rank(pc[t]) \in Nat
    BY RankNat DEF IInv, Typed
  <2>3. StillQueued' = StillQueued /\ StillQueued \in Nat
    BY <2>1, StillQueuedNat DEF StillQueued, TwiceToGo, IInv
  <2>4. /\ Rank(pc["lib"]) = 7
        /\ \/ Rank(pc'["lib"]) = 0 /\ Rank(pc'["sdp"]) = 6
           \/ Rank(pc'["lib"]) = 3 /\ Rank(pc'["sdp"]) = Rank(pc["sdp"])
    BY <2>1 DEF Rank
  <2>5. /\ Rank(pc'["io"]) = Rank(pc["io"])
        /\ Rank(pc'["cleaner"]) = Rank(pc["cleaner"])
        /\ Rank(pc'["timer"]) = Rank(pc["timer"])
    BY <2>1
  <2> HIDE DEF StillQueued
  <2> QED
    BY <2>2, <2>3, <2>4, <2>5 DEF Work, Threads
<1>7. CASE OnIceCandidate
  <2>1. CASE dead' = "no"
    <3>1. /\ cbq # <<>> /\ cbq' = Tail(cbq) /\ UNCHANGED <<peer, pc>>
      BY <1>7, <2>1 DEF OnIceCandidate, Callback, Die
    <3>2. Len(cbq') = Len(cbq) - 1
      BY <3>1 DEF IInv, Typed, LibraryOK
    <3>3. /\ StillQueued' < StillQueued
          /\ StillQueued' \in Nat /\ StillQueued \in Nat
      BY <1>1, <3>1, <3>2, StillQueuedNat DEF StillQueued, TwiceToGo, IInv
    <3>4. \A t \in Threads : Rank(pc[t]) \in Nat
      BY RankNat DEF IInv, Typed
    <3>5. UNCHANGED pc
      BY <3>1
    <3> HIDE DEF StillQueued
    <3> QED
      BY <3>3, <3>4, <3>5 DEF Work, Threads
  <2> QED
    BY <2>1
<1>8. CASE OnConnected
  <2>1. Rank("conn_fn") \in 0..8
    BY DEF Rank
  <2> QED
    BY <1>1, <1>8, <2>1, CallbackWork DEF OnConnected
<1>9. CASE ConnectedFn
  BY <1>1, <1>2, <1>9 DEF ConnectedFn, ClearFn, At, Rank, Die
<1>10. CASE OnFailed
  <2>1. Rank("fail_close") \in 0..8
    BY DEF Rank
  <2> QED
    BY <1>1, <1>10, <2>1, CallbackWork DEF OnFailed
<1>11. CASE FailClose
  BY <1>1, <1>2, <1>11, CloseQueue DEF FailClose, At, Rank
<1>12. CASE SendSdp("lib")
  BY <1>12, SendSdpWork DEF Senders
<1> QED
  BY <1>3, <1>4, <1>5, <1>6, <1>7, <1>8, <1>9, <1>10, <1>11, <1>12 DEF Lib

LEMMA TimerWork ==
  ASSUME IInv, Typed', Timer
  PROVE  Work' < Work
<1>1. Len(cbq) \in Nat /\ "timer" \in Threads
  BY DEF IInv, Typed, LibraryOK, Threads
<1>2. ASSUME NEW l, Go("timer", l), UNCHANGED <<peer>>, Len(cbq') <= Len(cbq),
             Rank(l) \in Nat, Rank(l) < Rank(pc["timer"])
      PROVE  Work' < Work
  <2>1. TwiceToGo' => TwiceToGo
    BY <1>2, GoPc DEF IInv, Typed, TwiceToGo, Threads
  <2> QED
    BY <1>1, <1>2, <2>1, CalmWork
<1> USE DEF At, Rank
<1>3. CASE WakeTimer
  BY <1>1, <1>2, <1>3 DEF WakeTimer
<1>4. CASE TimerCheck
  BY <1>1, <1>2, <1>4 DEF TimerCheck
<1>5. CASE TimerClose
  BY <1>1, <1>2, <1>5, CloseQueue DEF TimerClose
<1> QED
  BY <1>3, <1>4, <1>5 DEF Timer

LEMMA SdpWork ==
  ASSUME IInv, Typed', Sdp
  PROVE  dead' # "no" \/ Work' < Work
<1>1. CASE WakeSdp
  <2>1. /\ pc["sdp"] = "sleep" /\ Go("sdp", "serialise")
        /\ UNCHANGED <<peer, cbq>> /\ "sdp" \in Threads
        /\ Len(cbq) \in Nat
    BY <1>1 DEF WakeSdp, At, Threads, IInv, Typed, LibraryOK
  <2>2. TwiceToGo' => TwiceToGo
    BY <2>1, GoPc DEF IInv, Typed, TwiceToGo, Threads
  <2>3. Rank("serialise") = 3 /\ Rank(pc["sdp"]) = 6
    BY <2>1 DEF Rank
  <2> QED
    BY <2>1, <2>2, <2>3, CalmWork
<1>2. CASE SendSdp("sdp")
  BY <1>2, SendSdpWork DEF Senders
<1> QED
  BY <1>1, <1>2 DEF Sdp

\* In every instance the work that is left is a number, and every step that
\* the process takes of itself, until one ends it, takes from it.
THEOREM WindsDownCorrect == Spec => [](Work \in Nat) /\ WindsDown
<1>1. IInv => Work \in Nat
  BY WorkNat DEF IInv
<1>2. IInv /\ IInv' /\ [Next]_vars =>
        [Io \/ Erase \/ Terminate("cleaner") \/ Lib \/ Timer \/ Sdp
           => dead' # "no" \/ Work' < Work]_vars
  BY IoWork, EraseWork, TerminateWork, LibWork, TimerWork, SdpWork
  DEF IInv, Terminators
<1> QED
  BY <1>1, <1>2, Invariance, PTL DEF Spec, WindsDown
=============================================================================
