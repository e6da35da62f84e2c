------------------------------- MODULE RtcPeer -------------------------------
(***************************************************************************)
(* One RtcPeer (src/rtc/rtc_peer.cpp) from the POST that creates it to its *)
(* destructor, and the five threads that touch it:                         *)
(*                                                                         *)
(*   io       the io_context thread: the HTTP handlers POST, PATCH, DELETE *)
(*   cleaner  HttpService's cleaner_ thread (RefreshPeerMap)               *)
(*   lib      the libdatachannel thread that runs the peer's callbacks     *)
(*   timer    peer_timeout_, started by OnSignalingStateChange             *)
(*   sdp      sent_sdp_timeout_, started by EmitLocalSdp                   *)
(*                                                                         *)
(* pc[t] is the label of the next statement of thread t.  Sleeps are not   *)
(* timed: a sleeping thread may wake at any moment.  Whatever ends the     *)
(* process, or leaves its behaviour undefined, sets dead to its cause; no  *)
(* thread takes a step after that.                                         *)
(*                                                                         *)
(* libdatachannel is not part of the repository.  Its connection is the    *)
(* environment (variables conn, actions under "library"), under the        *)
(* assumptions the code rests on when it binds a raw this into it:         *)
(*   - the callbacks of one connection run one at a time, in order;        *)
(*   - close() waits for a callback that another thread is in, runs        *)
(*     onStateChange(Closed) in the closing thread, and no callback        *)
(*     starts after it.                                                    *)
(***************************************************************************)
EXTENDS Naturals, Sequences, FiniteSets

CONSTANTS
  Candidates,               \* the local ICE candidates the library gathers
  NoDesc,                   \* a null modified_desc_, an unset modified_sdp_
  has_candidates_in_sdp_,   \* PeerConfig::has_candidates_in_sdp
  MaxRestarts               \* bound: PATCH requests with If-Match "*"

Descs == [type: {"offer", "answer"}, cands: SUBSET Candidates]

ASSUME ConstantsAssumption ==
  /\ NoDesc \notin Descs
  /\ has_candidates_in_sdp_ \in BOOLEAN
  /\ MaxRestarts \in Nat

VARIABLES
  peer,               \* "absent", "live", "dying" (in ~RtcPeer), "destroyed"
  refs,               \* who owns the shared_ptr: peer_map_, a handler of io
  reaped,             \* history: the cleaner erased the peer from peer_map_
  is_connected_,
  is_complete_,
  modified_desc_,
  modified_sdp_,
  responses,          \* the bodies of the 201s handed to WriteResponse
  on_local_sdp_fn_,   \* TRUE iff the std::function is not empty
  peer_timeout_,      \* TRUE iff the std::thread is joinable
  sent_sdp_timeout_,  \* TRUE iff the std::thread is joinable
  peer_connection_,   \* TRUE iff the pointer is not null
  pcState,            \* library: state of the connection
  signaling,          \* library: signaling state
  gathered,           \* library: candidates found so far
  cbq,                \* library: callbacks not yet started
  restarts,           \* history: ICE restarts requested
  pc,
  dead                \* "no", or what ended the process

life == <<peer, refs, reaped>>
flags == <<is_connected_, is_complete_>>
texts == <<modified_desc_, modified_sdp_, responses>>
handles == <<peer_timeout_, sent_sdp_timeout_>>
library == <<pcState, signaling, gathered, cbq>>
state == <<life, flags, texts, on_local_sdp_fn_, handles, peer_connection_,
           library, restarts, pc>>
vars == <<state, dead>>

\* What a step leaves alone that changes little else than flags and library,
\* than the other members, or than life and library.
rest == <<life, texts, on_local_sdp_fn_, handles, peer_connection_, restarts,
          dead>>
quiet == <<life, flags, library, restarts, dead>>
members == <<flags, texts, on_local_sdp_fn_, handles, peer_connection_>>

\* All but pc: a step that only moves on leaves these alone.
others == <<life, flags, texts, on_local_sdp_fn_, handles, peer_connection_,
            library, restarts, dead>>

Threads == {"io", "cleaner", "lib", "timer", "sdp"}

\* The threads that can run Terminate().
Terminators == {"io", "cleaner"}

\* The threads that can run the lambda send_sdp of EmitLocalSdp.
Senders == {"lib", "sdp"}

\* Terminate(), and what follows it in DELETE and in ~RtcPeer.
TerminateLabels == {"stop", "complete", "join_timer", "join_sdp", "clear_fn",
                    "close", "release", "unmap", "free"}

\* send_sdp.
SendLabels == {"serialise", "call", "clear"}
Labels ==
  [io      |-> TerminateLabels \cup {"idle", "on_local_sdp", "restart",
                                     "set_remote", "set_local", "drop"},
   cleaner |-> TerminateLabels \cup {"idle", "erase"},
   lib     |-> SendLabels \cup {"idle", "emit", "join_prev", "conn_fn",
                                "fail_close"},
   timer   |-> {"idle", "sleep", "check", "close", "done"},
   sdp     |-> SendLabels \cup {"idle", "sleep", "done"}]

Events ==
  [cb: {"OnSignalingStateChange"}]
    \cup [cb: {"OnLocalDescription"}, desc: Descs]
    \cup [cb: {"OnIceCandidate"}, candidate: Candidates]
    \cup [cb: {"OnConnectionChange"}, state: {"Connected", "Failed"}]

Causes == {"uncaught", "timer_reassigned", "joinable_destroyed", "empty_fn",
           "null_desc", "fn_race", "desc_race", "map_race"}

TypeOK ==
  /\ peer \in {"absent", "live", "dying", "destroyed"}
  /\ refs \subseteq {"map", "io"}
  /\ reaped \in BOOLEAN
  /\ is_connected_ \in BOOLEAN
  /\ is_complete_ \in BOOLEAN
  /\ modified_desc_ \in Descs \cup {NoDesc}
  /\ modified_sdp_ \in Descs \cup {NoDesc}
  /\ responses \in Seq(Descs \cup {NoDesc})
  /\ on_local_sdp_fn_ \in BOOLEAN
  /\ peer_timeout_ \in BOOLEAN
  /\ sent_sdp_timeout_ \in BOOLEAN
  /\ peer_connection_ \in BOOLEAN
  /\ pcState \in {"new", "connected", "failed", "closed"}
  /\ signaling \in {"new", "offered", "stable", "local_offer"}
  /\ gathered \subseteq Candidates
  /\ cbq \in Seq(Events)
  /\ restarts \in 0..MaxRestarts
  /\ DOMAIN pc = Threads
  /\ \A t \in Threads : pc[t] \in Labels[t]
  /\ dead \in Causes \cup {"no"}

Init ==
  /\ peer = "absent"
  /\ refs = {}
  /\ reaped = FALSE
  /\ is_connected_ = FALSE
  /\ is_complete_ = FALSE
  /\ modified_desc_ = NoDesc
  /\ modified_sdp_ = NoDesc
  /\ responses = <<>>
  /\ on_local_sdp_fn_ = FALSE
  /\ peer_timeout_ = FALSE
  /\ sent_sdp_timeout_ = FALSE
  /\ peer_connection_ = FALSE
  /\ pcState = "new"
  /\ signaling = "new"
  /\ gathered = {}
  /\ cbq = <<>>
  /\ restarts = 0
  /\ pc = [t \in Threads |-> "idle"]
  /\ dead = "no"

At(t, label) == pc[t] = label
Go(t, label) == pc' = [pc EXCEPT ![t] = label]
Move(t, from, to) == At(t, from) /\ Go(t, to)
Die(cause) == dead' = cause /\ UNCHANGED state

-----------------------------------------------------------------------------
(* The library, as far as the code uses it.                                *)

\* A callback is queued unless the connection is closed.
Notify(event) ==
  cbq' = IF pcState = "closed" THEN cbq ELSE Append(cbq, event)

\* Mutant of OnClosed: only is_complete_ is stored.
OnClosedKeepsConnected ==
  is_connected_' = is_connected_ /\ is_complete_' = TRUE

\* OnConnectionChange(Closed).
OnClosed == is_connected_' = FALSE /\ is_complete_' = TRUE

\* peer_connection_->close(): the last callback runs in the calling thread.
CloseConnection ==
  /\ pcState' = "closed"
  /\ cbq' = <<>>
  /\ IF pcState = "closed" THEN UNCHANGED flags ELSE OnClosed
  /\ UNCHANGED <<signaling, gathered>>

\* The description the library makes of what it knows.
LocalDescription(type) == [type |-> type, cands |-> gathered]

\* A candidate is found once a local description is set.
Gather(c) ==
  /\ signaling \in {"stable", "local_offer"}
  /\ pcState # "closed"
  /\ c \notin gathered
  /\ gathered' = gathered \cup {c}
  /\ Notify([cb |-> "OnIceCandidate", candidate |-> c])
  /\ UNCHANGED <<rest, flags, pcState, signaling, pc>>

\* ICE and DTLS can only complete with a client that has the 201's body.
Connect ==
  /\ responses # <<>>
  /\ pcState = "new"
  /\ pcState' = "connected"
  /\ Notify([cb |-> "OnConnectionChange", state |-> "Connected"])
  /\ UNCHANGED <<rest, flags, signaling, gathered, pc>>

Fail ==
  /\ signaling \in {"stable", "local_offer"}
  /\ pcState \in {"new", "connected"}
  /\ pcState' = "failed"
  /\ Notify([cb |-> "OnConnectionChange", state |-> "Failed"])
  /\ UNCHANGED <<rest, flags, signaling, gathered, pc>>

\* The remote side closes: the library closes the connection on its thread.
RemoteClose ==
  /\ pcState = "connected"
  /\ At("lib", "idle")
  /\ CloseConnection
  /\ UNCHANGED <<rest, pc>>

-----------------------------------------------------------------------------
(* The handlers on the io thread.                                          *)

\* HttpService::CreatePeer: the peer is in peer_map_ before it has a handler.
CreatePeer ==
  /\ Move("io", "idle", "on_local_sdp")
  /\ peer = "absent"
  /\ peer' = "live"
  /\ refs' = {"map", "io"}
  /\ peer_connection_' = TRUE
  /\ UNCHANGED <<reaped, flags, texts, on_local_sdp_fn_, handles, library,
                 restarts, dead>>

OnLocalSdp ==
  /\ Move("io", "on_local_sdp", "set_remote")
  /\ on_local_sdp_fn_' = TRUE
  /\ UNCHANGED <<quiet, texts, handles, peer_connection_>>

\* Mutant of Request: GetPeer hands out a pointer that owns nothing.
RequestBorrowed ==
  /\ At("io", "idle")
  /\ responses # <<>>
  /\ "map" \in refs
  /\ UNCHANGED <<members, life, library, dead>>

\* A request for the peer: the client knows its id from the 201's Location,
\* and GetPeer finds it in peer_map_.
Request ==
  /\ At("io", "idle")
  /\ responses # <<>>
  /\ "map" \in refs
  /\ refs' = refs \cup {"io"}
  /\ UNCHANGED <<members, peer, reaped, library, dead>>

\* PATCH with candidates: SetRemoteIce hands them to the library, or skips
\* them on a connected peer; the peer itself keeps nothing of them.
PatchCandidates == Request /\ Go("io", "drop") /\ UNCHANGED restarts

\* PATCH with If-Match "*".
PatchRestart ==
  /\ Request
  /\ restarts < MaxRestarts
  /\ restarts' = restarts + 1
  /\ Go("io", "restart")

Delete == Request /\ Go("io", "stop") /\ UNCHANGED restarts

\* remoteDescription().value() throws when the POST's offer was rejected.
RestartIce ==
  /\ At("io", "restart")
  /\ \/ /\ signaling \in {"offered", "stable"}
        /\ Go("io", "set_remote")
        /\ UNCHANGED others
     \/ /\ signaling \notin {"offered", "stable"}
        /\ Die("uncaught")

\* SetRemoteSdp up to the end of its try block: nothing on a connected peer;
\* a description that does not parse throws before the try, one that the
\* library rejects is logged.
SetRemoteDescription ==
  /\ At("io", "set_remote")
  /\ \/ /\ is_connected_
        /\ Go("io", "drop")
        /\ UNCHANGED others
     \/ /\ ~is_connected_
        /\ signaling' = "offered"
        /\ Notify([cb |-> "OnSignalingStateChange"])
        /\ Go("io", "set_local")
        /\ UNCHANGED <<rest, flags, pcState, gathered>>
     \/ /\ ~is_connected_
        /\ Go("io", "set_local")
        /\ UNCHANGED others
     \/ ~is_connected_ /\ Die("uncaught")

\* The rest of SetRemoteSdp: createAnswer and setLocalDescription.  Without
\* a remote offer the library throws, makes an offer of its own for the
\* track that was added, or has nothing to negotiate.
SetLocalDescription ==
  /\ At("io", "set_local")
  /\ \/ /\ signaling = "offered"
        /\ signaling' = "stable"
        /\ Notify([cb |-> "OnLocalDescription",
                   desc |-> LocalDescription("answer")])
        /\ Go("io", "drop")
        /\ UNCHANGED <<rest, flags, pcState, gathered>>
     \/ /\ signaling = "new"
        /\ signaling' = "local_offer"
        /\ Notify([cb |-> "OnLocalDescription",
                   desc |-> LocalDescription("offer")])
        /\ Go("io", "drop")
        /\ UNCHANGED <<rest, flags, pcState, gathered>>
     \/ /\ signaling = "stable"
        /\ Go("io", "drop")
        /\ UNCHANGED others
     \/ signaling # "offered" /\ Die("uncaught")

\* The handler returns: its shared_ptr may be the last one.
Drop ==
  /\ At("io", "drop")
  /\ refs' = refs \ {"io"}
  /\ \/ /\ "map" \in refs
        /\ Go("io", "idle")
        /\ UNCHANGED peer
     \/ /\ "map" \notin refs
        /\ peer' = "dying"
        /\ Go("io", "stop")
  /\ UNCHANGED <<members, reaped, library, restarts, dead>>

-----------------------------------------------------------------------------
(* HttpService's cleaner_ thread, every 60 seconds.                        *)

\* Mutant of Inspect: only a peer that is complete is erased.
InspectComplete ==
  /\ Move("cleaner", "idle", "erase")
  /\ "map" \in refs
  /\ ~is_connected_ /\ is_complete_
  /\ UNCHANGED others

\* RefreshPeerMap looks at the peer.
Inspect ==
  /\ Move("cleaner", "idle", "erase")
  /\ "map" \in refs
  /\ ~is_connected_
  /\ UNCHANGED others

\* RefreshPeerMap erases it through its iterator, which a DELETE may have
\* invalidated since: the process ends, or nothing is left to erase.
Erase ==
  /\ At("cleaner", "erase")
  /\ \/ /\ "map" \in refs
        /\ refs' = refs \ {"map"}
        /\ reaped' = TRUE
        /\ \/ /\ "io" \in refs
              /\ Go("cleaner", "idle")
              /\ UNCHANGED peer
           \/ /\ "io" \notin refs
              /\ peer' = "dying"
              /\ Go("cleaner", "stop")
        /\ UNCHANGED <<members, library, restarts, dead>>
     \/ /\ "map" \notin refs
        /\ Go("cleaner", "idle")
        /\ UNCHANGED others
     \/ "map" \notin refs /\ Die("map_race")

-----------------------------------------------------------------------------
(* RtcPeer::Terminate, run by DELETE and by ~RtcPeer, and the destructor.  *)

StoreConnected(t) ==
  /\ Move(t, "stop", "complete")
  /\ is_connected_' = FALSE
  /\ UNCHANGED <<rest, is_complete_, library>>

StoreComplete(t) ==
  /\ Move(t, "complete", "join_timer")
  /\ is_complete_' = TRUE
  /\ UNCHANGED <<rest, is_connected_, library>>

\* Mutant of JoinTimer: the timer is not waited for.
JoinTimerNoWait(t) ==
  /\ Move(t, "join_timer", "join_sdp")
  /\ peer_timeout_' = FALSE
  /\ UNCHANGED <<quiet, texts, on_local_sdp_fn_, sent_sdp_timeout_,
                 peer_connection_>>

\* Mutant of JoinTimer: peer_timeout_ is forgotten.
JoinTimerForgotten(t) ==
  /\ Move(t, "join_timer", "join_sdp")
  /\ UNCHANGED others

JoinTimer(t) ==
  /\ Move(t, "join_timer", "join_sdp")
  /\ peer_timeout_ => At("timer", "done")
  /\ peer_timeout_' = FALSE
  /\ UNCHANGED <<quiet, texts, on_local_sdp_fn_, sent_sdp_timeout_,
                 peer_connection_>>

\* Mutant of JoinSdp: sent_sdp_timeout_ is forgotten.
JoinSdpForgotten(t) ==
  /\ Move(t, "join_sdp", "clear_fn")
  /\ UNCHANGED others

JoinSdp(t) ==
  /\ Move(t, "join_sdp", "clear_fn")
  /\ sent_sdp_timeout_ => At("sdp", "done")
  /\ sent_sdp_timeout_' = FALSE
  /\ UNCHANGED <<quiet, texts, on_local_sdp_fn_, peer_timeout_,
                 peer_connection_>>

\* Two threads at these labels use the same std::function without a lock.
FnRace(t) ==
  /\ on_local_sdp_fn_
  /\ \E u \in Threads \ {t} :
        pc[u] \in {"call", "clear", "conn_fn", "clear_fn"}

\* on_local_sdp_fn_ = nullptr; the HTTP session it captured is released.
ClearFn(t, from, to) ==
  /\ At(t, from)
  /\ \/ /\ on_local_sdp_fn_' = FALSE
        /\ Go(t, to)
        /\ UNCHANGED <<quiet, texts, handles, peer_connection_>>
     \/ FnRace(t) /\ Die("fn_race")

TerminateFn(t) == ClearFn(t, "clear_fn", "close")

\* if (peer_connection_) { close(); peer_connection_ = nullptr; }
Close(t) ==
  /\ Move(t, "close", "release")
  /\ \/ /\ peer_connection_
        /\ At("lib", "idle")
        /\ CloseConnection
        /\ peer_connection_' = FALSE
     \/ /\ ~peer_connection_
        /\ UNCHANGED <<flags, library, peer_connection_>>
  /\ UNCHANGED <<life, texts, on_local_sdp_fn_, handles, restarts, dead>>

\* modified_desc_.release(), the end of Terminate.
Release(t) ==
  /\ Move(t, "release", IF peer = "dying" THEN "free" ELSE "unmap")
  /\ modified_desc_' = NoDesc
  /\ UNCHANGED <<quiet, modified_sdp_, responses, on_local_sdp_fn_, handles,
                 peer_connection_>>

\* RemovePeerFromMap, after Terminate in HandleDeleteRequest.
Unmap ==
  /\ Move("io", "unmap", "drop")
  /\ refs' = refs \ {"map"}
  /\ UNCHANGED <<members, peer, reaped, library, restarts, dead>>

\* The members are destroyed; a joinable std::thread ends the process.
Free(t) ==
  /\ At(t, "free")
  /\ \/ /\ ~peer_timeout_ /\ ~sent_sdp_timeout_
        /\ peer' = "destroyed"
        /\ on_local_sdp_fn_' = FALSE
        /\ Go(t, "idle")
        /\ UNCHANGED <<refs, reaped, flags, texts, handles, peer_connection_,
                       library, restarts, dead>>
     \/ /\ peer_timeout_ \/ sent_sdp_timeout_
        /\ Die("joinable_destroyed")

Terminate(t) ==
  \/ StoreConnected(t) \/ StoreComplete(t) \/ JoinTimer(t) \/ JoinSdp(t)
  \/ TerminateFn(t) \/ Close(t) \/ Release(t) \/ Free(t)

-----------------------------------------------------------------------------
(* The callbacks on the library thread.                                    *)

Callback(cb) ==
  /\ At("lib", "idle")
  /\ cbq # <<>>
  /\ Head(cbq).cb = cb
  /\ cbq' = Tail(cbq)
  /\ UNCHANGED <<pcState, signaling, gathered>>

\* Mutant of OnSignalingStateChange: the timer is detached.
OnSignalingStateChangeDetached ==
  /\ Callback("OnSignalingStateChange")
  /\ Go("timer", "sleep")
  /\ UNCHANGED <<rest, flags>>

\* HaveRemoteOffer: peer_timeout_ is assigned, which ends the process when
\* it still holds a thread nobody joined.
OnSignalingStateChange ==
  \/ /\ Callback("OnSignalingStateChange")
     /\ ~peer_timeout_
     /\ peer_timeout_' = TRUE
     /\ Go("timer", "sleep")
     /\ UNCHANGED <<life, flags, texts, on_local_sdp_fn_, sent_sdp_timeout_,
                    peer_connection_, restarts, dead>>
  \/ /\ At("lib", "idle")
     /\ cbq # <<>>
     /\ Head(cbq).cb = "OnSignalingStateChange"
     /\ peer_timeout_
     /\ Die("timer_reassigned")

\* Mutant of OnLocalDescription: the description is left to send_sdp.
OnLocalDescriptionLazy ==
  /\ Callback("OnLocalDescription")
  /\ modified_sdp_' = Head(cbq).desc
  /\ Go("lib", "emit")
  /\ UNCHANGED <<life, flags, modified_desc_, responses, on_local_sdp_fn_,
                 handles, peer_connection_, restarts, dead>>

\* After an ICE restart the last sender may still be printing modified_desc_,
\* or have modified_sdp_ in its hands, when both are replaced.
OnLocalDescription ==
  \/ /\ Callback("OnLocalDescription")
     /\ modified_sdp_' = Head(cbq).desc
     /\ modified_desc_' = Head(cbq).desc
     /\ Go("lib", "emit")
     /\ UNCHANGED <<life, flags, responses, on_local_sdp_fn_, handles,
                    peer_connection_, restarts, dead>>
  \/ /\ At("lib", "idle")
     /\ cbq # <<>>
     /\ Head(cbq).cb = "OnLocalDescription"
     /\ pc["sdp"] \in {"serialise", "call"}
     /\ Die("desc_race")

\* Mutant of EmitLocalSdp: the guard is inverted.
EmitLocalSdpInverted ==
  /\ Move("lib", "emit", IF on_local_sdp_fn_ THEN "idle" ELSE "join_prev")
  /\ UNCHANGED others

\* EmitLocalSdp looks at on_local_sdp_fn_ before it joins the last sender.
EmitLocalSdp ==
  /\ Move("lib", "emit", IF on_local_sdp_fn_ THEN "join_prev" ELSE "idle")
  /\ UNCHANGED others

\* Mutant of StartSend: the branch of the immediate answer is also taken.
StartSendTwice ==
  /\ At("lib", "join_prev")
  /\ sent_sdp_timeout_ => At("sdp", "done")
  /\ sent_sdp_timeout_' = TRUE
  /\ pc' = [pc EXCEPT !["lib"] = "serialise", !["sdp"] = "sleep"]
  /\ UNCHANGED <<quiet, texts, on_local_sdp_fn_, peer_timeout_,
                 peer_connection_>>

\* The rest of EmitLocalSdp: send_sdp in a thread that sleeps one second
\* first, so that candidates are gathered, or right here.
StartSend ==
  /\ At("lib", "join_prev")
  /\ sent_sdp_timeout_ => At("sdp", "done")
  /\ sent_sdp_timeout_' = has_candidates_in_sdp_
  /\ pc' = IF has_candidates_in_sdp_
             THEN [pc EXCEPT !["lib"] = "idle", !["sdp"] = "sleep"]
             ELSE [pc EXCEPT !["lib"] = "serialise"]
  /\ UNCHANGED <<quiet, texts, on_local_sdp_fn_, peer_timeout_,
                 peer_connection_>>

AddCandidate(desc, c) == [type |-> desc.type, cands |-> desc.cands \cup {c}]

\* The candidate joins modified_desc_, which send_sdp may be printing.
\* on_local_ice_fn_ is never set by the repository's callers.
OnIceCandidate ==
  \/ /\ Callback("OnIceCandidate")
     /\ modified_desc_' =
          IF has_candidates_in_sdp_ /\ modified_desc_ # NoDesc
            THEN AddCandidate(modified_desc_, Head(cbq).candidate)
            ELSE modified_desc_
     /\ UNCHANGED <<life, flags, modified_sdp_, responses, on_local_sdp_fn_,
                    handles, peer_connection_, restarts, pc, dead>>
  \/ /\ At("lib", "idle")
     /\ cbq # <<>>
     /\ Head(cbq).cb = "OnIceCandidate"
     /\ has_candidates_in_sdp_
     /\ At("sdp", "serialise")
     /\ Die("desc_race")

OnConnected ==
  /\ Callback("OnConnectionChange")
  /\ Head(cbq).state = "Connected"
  /\ is_connected_' = TRUE
  /\ Go("lib", "conn_fn")
  /\ UNCHANGED <<rest, is_complete_>>

ConnectedFn == ClearFn("lib", "conn_fn", "idle")

\* Mutant of OnFailed: the callback calls Terminate, as DELETE does.
OnFailedTerminates ==
  /\ Callback("OnConnectionChange")
  /\ Head(cbq).state = "Failed"
  /\ is_connected_' = FALSE
  /\ Go("lib", "join_timer")
  /\ UNCHANGED <<rest, is_complete_>>

OnFailed ==
  /\ Callback("OnConnectionChange")
  /\ Head(cbq).state = "Failed"
  /\ is_connected_' = FALSE
  /\ Go("lib", "fail_close")
  /\ UNCHANGED <<rest, is_complete_>>

FailClose ==
  /\ Move("lib", "fail_close", "idle")
  /\ CloseConnection
  /\ UNCHANGED rest

-----------------------------------------------------------------------------
(* send_sdp, on sent_sdp_timeout_ or on the library thread.                *)

WakeSdp ==
  /\ Move("sdp", "sleep", "serialise")
  /\ UNCHANGED others

Serialise(t) ==
  /\ At(t, "serialise")
  /\ \/ /\ modified_desc_ # NoDesc
        /\ modified_sdp_' = modified_desc_
        /\ Go(t, "call")
        /\ UNCHANGED <<quiet, modified_desc_, responses, on_local_sdp_fn_,
                       handles, peer_connection_>>
     \/ modified_desc_ = NoDesc /\ Die("null_desc")

\* The call writes the POST's response; an empty std::function throws.
CallSdpFn(t) ==
  /\ At(t, "call")
  /\ \/ /\ on_local_sdp_fn_
        /\ responses' = Append(responses, modified_sdp_)
        /\ Go(t, "clear")
        /\ UNCHANGED <<quiet, modified_desc_, modified_sdp_, on_local_sdp_fn_,
                       handles, peer_connection_>>
     \/ ~on_local_sdp_fn_ /\ Die("empty_fn")
     \/ FnRace(t) /\ Die("fn_race")

SentFn(t) == ClearFn(t, "clear", IF t = "sdp" THEN "done" ELSE "idle")

SendSdp(t) == Serialise(t) \/ CallSdpFn(t) \/ SentFn(t)

-----------------------------------------------------------------------------
(* peer_timeout_, started by OnSignalingStateChange.                       *)

\* Mutant of TimerCheck: the timer only looks at is_complete_ the wrong way.
TimerCheckInverted ==
  /\ At("timer", "check")
  /\ Go("timer", IF peer_connection_ /\ is_complete_ /\ ~is_connected_
                   THEN "close" ELSE "done")
  /\ UNCHANGED others

\* Mutant of TimerCheck: the timer polls until the peer is connected.
TimerCheckPolls ==
  /\ Move("timer", "check", IF is_connected_ THEN "done" ELSE "sleep")
  /\ UNCHANGED others

WakeTimer ==
  /\ Move("timer", "sleep", "check")
  /\ UNCHANGED others

TimerCheck ==
  /\ At("timer", "check")
  /\ Go("timer", IF peer_connection_ /\ ~is_complete_ /\ ~is_connected_
                   THEN "close" ELSE "done")
  /\ UNCHANGED others

TimerClose ==
  /\ Move("timer", "close", "done")
  /\ At("lib", "idle")
  /\ CloseConnection
  /\ UNCHANGED rest

-----------------------------------------------------------------------------
Client == CreatePeer \/ PatchCandidates \/ PatchRestart \/ Delete

Network == (\E c \in Candidates : Gather(c)) \/ Connect \/ Fail \/ RemoteClose

Io ==
  \/ OnLocalSdp \/ RestartIce \/ SetRemoteDescription \/ SetLocalDescription
  \/ Unmap \/ Drop \/ Terminate("io")

Cleaner == Inspect \/ Erase \/ Terminate("cleaner")

Lib ==
  \/ OnSignalingStateChange \/ OnLocalDescription \/ EmitLocalSdp \/ StartSend
  \/ OnIceCandidate \/ OnConnected \/ ConnectedFn \/ OnFailed \/ FailClose
  \/ SendSdp("lib")

Timer == WakeTimer \/ TimerCheck \/ TimerClose

Sdp == WakeSdp \/ SendSdp("sdp")

\* The process has ended, or the peer is gone: nothing more happens to it.
Over == (dead # "no" \/ peer = "destroyed") /\ UNCHANGED vars

Next ==
  \/ dead = "no" /\ (Client \/ Network \/ Io \/ Cleaner \/ Lib \/ Timer \/ Sdp)
  \/ Over

Spec == Init /\ [][Next]_vars

\* Every thread of the process keeps running what it has begun; nothing is
\* assumed of the client and of the network.  The cleaner's next round is
\* far away, and only NoForgottenPeer counts on it.
Running(step) == dead = "no" /\ step
Fairness ==
  /\ WF_vars(Running(Io))
  /\ WF_vars(Running(Erase \/ Terminate("cleaner")))
  /\ WF_vars(Running(Lib))
  /\ WF_vars(Running(Timer))
  /\ WF_vars(Running(Sdp))
CleanerReturns == WF_vars(Running(Inspect))

FairSpec == Spec /\ Fairness

-----------------------------------------------------------------------------
(* Safety.                                                                 *)

\* The labels at which a thread calls through peer_connection_ unchecked.
Dereferences(t) ==
  CASE t = "io"    -> {"restart", "set_remote", "set_local"}
    [] t = "lib"   -> {"fail_close"}
    [] t = "timer" -> {"close"}
    [] OTHER       -> {}

\* Nobody calls through peer_connection_ after Terminate has reset it: the
\* timer's own test of the pointer (rtc_peer.cpp:133) and its close() two
\* lines on are apart, and only the joins in Terminate keep them together.
NoNullConnection ==
  \A t \in Threads : pc[t] \in Dereferences(t) => peer_connection_

\* A closed connection stays disconnected and complete, whichever thread
\* closed it: no Connected callback overtakes Closed, or RefreshPeerMap
\* would keep the dead peer for ever.
ClosedIsFinal == pcState = "closed" => ~is_connected_ /\ is_complete_

\* When ~RtcPeer returns, no thread of the peer runs or sleeps, and no
\* callback is in progress: all of them hold a raw this.
NoUseAfterDestroy ==
  peer = "destroyed" /\ dead = "no" =>
    /\ cbq = <<>>
    /\ \A t \in Threads \ {"cleaner"} : pc[t] \in {"idle", "done"}

\* A peer that is answered and then deleted by its client goes down in
\* order.  What can end the process has an outside cause: peer_timeout_ is
\* only assigned twice after an ICE restart; a thread is only destroyed
\* joinable, when a callback started it behind the joins of the one
\* Terminate that a reaped peer gets; and only one of the two makes send_sdp
\* find its callback or its description gone.
OrderlyTeardown ==
  /\ dead = "timer_reassigned" => restarts > 0
  /\ dead = "joinable_destroyed" => reaped
  /\ dead \in {"empty_fn", "null_desc"} => reaped \/ restarts > 0

\* Every candidate found while the connection is open is in modified_desc_
\* or about to be handed to it: the one-second wait of send_sdp is worth
\* nothing if OnLocalDescription can lose what OnIceCandidate added.
Pending(c) ==
  \E i \in DOMAIN cbq :
    \/ cbq[i].cb = "OnIceCandidate" /\ cbq[i].candidate = c
    \/ cbq[i].cb = "OnLocalDescription" /\ c \in cbq[i].desc.cands
NoCandidateLost ==
  has_candidates_in_sdp_ /\ pcState # "closed" =>
    \A c \in gathered :
      Pending(c) \/ (modified_desc_ # NoDesc /\ c \in modified_desc_.cands)

\* A POST is answered at most once, though two threads and every restart can
\* reach send_sdp: a second WriteResponse would write to a finished session.
SingleAnswer == Len(responses) <= 1

\* Thread t is inside a join of thread u, or inside a close() that waits for
\* the callback u is in.
WaitsFor(t, u) ==
  \/ /\ u = "timer"
     /\ At(t, "join_timer")
     /\ peer_timeout_ /\ ~At(u, "done")
  \/ /\ u = "sdp"
     /\ pc[t] \in {"join_sdp", "join_prev"}
     /\ sent_sdp_timeout_ /\ ~At(u, "done")
  \/ /\ u = "lib"
     /\ At(t, "close")
     /\ t = "timer" \/ peer_connection_
     /\ ~At(u, "idle")

\* Who is waited for was started and still runs, and no threads wait for
\* each other in a circle, whoever joins, closes, or is called back: some
\* thread of any group of them waits for none of the group.
NoCircularWait ==
  dead = "no" =>
    /\ \A t, u \in Threads : WaitsFor(t, u) => pc[u] \notin {"idle", "done"}
    /\ \A group \in (SUBSET Threads) \ {{}} :
         \E t \in group : \A u \in group : ~WaitsFor(t, u)

\* The most steps that thread t, at this label, and the thread that t is yet
\* to start take before they rest, as long as no handler is called and no
\* callback queued.  A handler counts with the callbacks it queues.
Rank(label) ==
  CASE label \in {"idle", "done"}              -> 0
    [] label \in {"clear", "conn_fn", "fail_close"} -> 1
    [] label \in {"call", "unmap", "free"}     -> 2
    [] label \in {"serialise", "release"}      -> 3
    [] label = "close"                         -> 4
    [] label \in {"check", "clear_fn"}         -> 5
    [] label \in {"sleep", "join_sdp"}         -> 6
    [] label \in {"join_prev", "join_timer"}   -> 7
    [] label \in {"emit", "complete"}          -> 8
    [] label = "stop"                          -> 9
    [] label \in {"drop", "erase"}             -> 10
    [] label = "set_local"                     -> 20
    [] label = "set_remote"                    -> 30
    [] label \in {"on_local_sdp", "restart"}   -> 31

\* A DELETE's Terminate may be followed by that of ~RtcPeer.
TwiceToGo == peer = "live" /\ pc["io"] \in TerminateLabels

StillQueued == 9 * Len(cbq) + (IF TwiceToGo THEN 9 ELSE 0)

Work ==
  StillQueued + Rank(pc["io"]) + Rank(pc["cleaner"]) + Rank(pc["lib"])
         + Rank(pc["timer"]) + Rank(pc["sdp"])

\* What the process does of itself comes to an end: every step that is not
\* the client's, the network's or the beginning of the cleaner's round takes
\* from the work that is left.  Callbacks start threads and threads close
\* connections, but nothing polls, and nothing starts itself again.
WindsDown ==
  [][Io \/ Erase \/ Terminate("cleaner") \/ Lib \/ Timer \/ Sdp
       => dead' # "no" \/ Work' < Work]_vars

-----------------------------------------------------------------------------
(* Liveness, under FairSpec.                                               *)

\* Terminate returns and the peer goes away: the joins do not wait for a
\* thread that waits for the joining one, whoever runs them.
TerminateCompletes ==
  \A t \in Terminators :
    At(t, "stop") ~> (peer = "destroyed" \/ dead # "no")

\* As long as the cleaner comes back, a peer that is not connected becomes
\* connected or is destroyed, even when its offer was rejected and no timer
\* was ever started.
NoForgottenPeer ==
  CleanerReturns =>
    ((peer = "live" /\ ~is_connected_)
       ~> (is_connected_ \/ peer = "destroyed" \/ dead # "no"))

\* The timer of a remote offer ends with a connected or a closed peer, with
\* no help from the cleaner.
TimeoutCloses ==
  At("timer", "sleep") ~> (is_connected_ \/ pcState = "closed" \/ dead # "no")

\* Once a local description is made, the POST is answered, unless the
\* connection is closed first.
Answered ==
  (on_local_sdp_fn_ /\ signaling \in {"stable", "local_offer"})
    ~> (responses # <<>> \/ pcState = "closed" \/ dead # "no")

-----------------------------------------------------------------------------
(* What the signaling service may count on.                                *)

stage ==
  IF peer \in {"live", "dying"}
    THEN IF pcState = "closed" THEN "closed" ELSE "open"
    ELSE IF peer = "absent" THEN "absent" ELSE "gone"

Lifecycle ==
  INSTANCE PeerLifecycle WITH
    held <- refs # {}, answers <- Len(responses), connected <- is_connected_,
    over <- is_complete_, running <- dead = "no"

\* A peer keeps its lifecycle through all interleavings of its threads: it
\* is answered before it connects, closed before it goes, and goes only when
\* peer_map_ and the handlers have let go, which it then always does.
KeepsLifecycle == Lifecycle!FairSpec

-----------------------------------------------------------------------------
(* What the program says of itself.                                        *)

\* "The connection timeout (in seconds) after receiving a remote offer"
\* (parser.cpp:45): the cleaner does not start to destroy a peer whose
\* timer still sleeps.  RefreshPeerMap does not look at the timer.
ReapedOnlyAfterTimeout == At("cleaner", "stop") => ~At("timer", "sleep")
=============================================================================
