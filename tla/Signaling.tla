------------------------------ MODULE Signaling ------------------------------
(***************************************************************************)
(* HttpService and its HttpSessions (signaling/http_service.cpp) with      *)
(* several clients and peers: the io thread, which runs every handler, and *)
(* cleaner_, which goes through peer_map_ every 60 seconds with no lock.   *)
(* A peer stands for its id.  What peers do by themselves is PeerLifecycle.*)
(*                                                                         *)
(* session[s] is how far a connection is: accepted and "reading" its       *)
(* request, in a handler, "waiting" for the peer's answer with nothing but *)
(* the lambda in on_local_sdp_fn_ to keep it alive, "writing" its          *)
(* response.  A session that ended frees its slot for the next client.     *)
(*                                                                         *)
(* handled is the shared_ptr that a handler of io has in a local variable, *)
(* target[t] the peer that thread t terminates.  Terminate is three steps; *)
(* RtcPeer has all of them, and shows that they return.                    *)
(***************************************************************************)
EXTENDS Naturals, Sequences

CONSTANTS
  Peers,                  \* bound: the peers that can ever be created
  Sessions,               \* bound: the connections at one time
  NoPeer, NoSession       \* null pointers, an id nobody has

ASSUME NullAssumption == NoPeer \notin Peers /\ NoSession \notin Sessions

VARIABLES
  peer_map_,
  session,
  res_,               \* the statuses a session handed to WriteResponse
  stage, connected, over, answers,        \* see PeerLifecycle
  on_local_sdp_fn_,   \* the session the peer's lambda captured
  pc,
  request,            \* io: what the handler knows of its request
  handled,
  target,
  pm_it,              \* cleaner: the iterator, NoPeer at the end
  todo,               \* cleaner: the peers behind it
  rehashed,           \* an insertion rehashed the map under the iterator
  deleted,            \* history: the peers a DELETE removed
  dead                \* "no", or what ended the process

http == <<session, res_>>
peers == <<stage, connected, over, answers>>
round == <<pm_it, todo, rehashed>>
local == <<request, handled, target>>
state ==
  <<peer_map_, http, peers, on_local_sdp_fn_, pc, local, round, deleted>>
vars == <<state, dead>>

Threads == {"io", "cleaner"}
TerminateLabels == {"stop", "clear", "close", "free"}
Labels ==
  [io      |-> TerminateLabels \cup {"idle", "insert", "hook", "offer", "find",
                                     "serve", "unmap", "accepted", "drop"},
   cleaner |-> TerminateLabels \cup {"idle", "look", "erase"}]

Statuses == {200, 201, 202, 204, 405, 412, 422}

\* PATCH without or with If-Match "*", DELETE.
Kinds == {"post", "trickle", "restart", "delete"}
NoRequest == [session |-> NoSession]
RequestOf(s, kind, id, resource) ==
  [session |-> s, kind |-> kind, id |-> id, resource |-> resource]

\* A target split at its slashes: how many routes, whether the first one is
\* "resource", and what the second one is.
Routes == [size: 0..2, resource: BOOLEAN, id: Peers \cup {NoPeer}]

TypeOK ==
  /\ peer_map_ \subseteq Peers
  /\ session \in [Sessions ->
                    {"none", "reading", "handling", "waiting", "writing"}]
  /\ \A s \in Sessions : res_[s] \in Seq(Statuses)
  /\ stage \in [Peers -> {"absent", "open", "closed", "gone"}]
  /\ connected \in [Peers -> BOOLEAN]
  /\ over \in [Peers -> BOOLEAN]
  /\ answers \in [Peers -> {0, 1}]
  /\ on_local_sdp_fn_ \in [Peers -> Sessions \cup {NoSession}]
  /\ \A t \in Threads : pc[t] \in Labels[t]
  /\ request = NoRequest \/ request.session \in Sessions
  /\ handled \in Peers \cup {NoPeer}
  /\ target \in [Threads -> Peers \cup {NoPeer}]
  /\ pm_it \in Peers \cup {NoPeer}
  /\ todo \subseteq Peers
  /\ rehashed \in BOOLEAN
  /\ deleted \subseteq Peers
  /\ dead \in {"no", "uncaught", "routes", "iterator", "map_race"}

Init ==
  /\ peer_map_ = {}
  /\ session = [s \in Sessions |-> "none"]
  /\ res_ = [s \in Sessions |-> <<>>]
  /\ stage = [p \in Peers |-> "absent"]
  /\ connected = [p \in Peers |-> FALSE]
  /\ over = [p \in Peers |-> FALSE]
  /\ answers = [p \in Peers |-> 0]
  /\ on_local_sdp_fn_ = [p \in Peers |-> NoSession]
  /\ pc = [t \in Threads |-> "idle"]
  /\ request = NoRequest
  /\ handled = NoPeer
  /\ target = [t \in Threads |-> NoPeer]
  /\ pm_it = NoPeer
  /\ todo = {}
  /\ rehashed = FALSE
  /\ deleted = {}
  /\ dead = "no"

Move(t, from, to) == pc[t] = from /\ pc' = [pc EXCEPT ![t] = to]
Die(cause) == dead' = cause /\ UNCHANGED state
Becomes(s, to) == session' = [session EXCEPT ![s] = to]

Held(p) == p \in peer_map_ \/ handled = p

\* WriteResponse
Write(s, status) ==
  /\ res_' = [res_ EXCEPT ![s] = Append(@, status)]
  /\ Becomes(s, "writing")

-----------------------------------------------------------------------------
(* Connections.                                                            *)

\* AcceptConnection, again after every client and every error.
Accept(s) ==
  /\ pc["io"] = "idle"
  /\ session[s] = "none"
  /\ Becomes(s, "reading")
  /\ UNCHANGED <<res_, peer_map_, peers, on_local_sdp_fn_, pc, local, round,
                 deleted, dead>>

\* A read error, or a response that is written or that the client does not
\* take: in each case nobody holds the session any more.
EndSession(s) ==
  /\ pc["io"] = "idle"
  /\ session[s] \in {"reading", "writing"}
  /\ Becomes(s, "none")
  /\ res_' = [res_ EXCEPT ![s] = <<>>]
  /\ UNCHANGED <<peer_map_, peers, on_local_sdp_fn_, pc, local, round,
                 deleted, dead>>

-----------------------------------------------------------------------------
(* HandleRequest.                                                          *)

Reading(s) == pc["io"] = "idle" /\ session[s] = "reading"

Respond(s, status) ==
  /\ Write(s, status)
  /\ UNCHANGED <<peer_map_, peers, on_local_sdp_fn_, pc, local, round,
                 deleted, dead>>

Handle(req, label) ==
  /\ request' = req
  /\ Becomes(req.session, "handling")
  /\ Move("io", "idle", label)
  /\ UNCHANGED <<res_, peer_map_, peers, on_local_sdp_fn_, handled, target,
                 round, deleted, dead>>

\* OPTIONS, another method, no Content-Type, a POST of another type.
Plain(s) ==
  Reading(s) /\ \E status \in {204, 405, 422} : Respond(s, status)

\* Bound: Peers.
Post(s) ==
  /\ Reading(s)
  /\ \E p \in Peers : stage[p] = "absent"
  /\ Handle(RequestOf(s, "post", NoPeer, TRUE), "insert")

\* A client knows the ids of the peers that were answered.
Known == {NoPeer} \cup {p \in Peers : answers[p] > 0}

\* The guard of PATCH and of DELETE, as it is written.
Inapplicable(r) == r.size < 2 /\ ~r.resource

\* routes[1] of a shorter list is whatever lies behind it.
Served(s, kind, r) ==
  \/ /\ r.size = 2 /\ r.id \in Known
     /\ Handle(RequestOf(s, kind, r.id, r.resource), "find")
  \/ /\ r.size < 2
     /\ \/ Handle(RequestOf(s, kind, NoPeer, r.resource), "find")
        \/ Die("routes")

\* The guard reads routes[0] of an empty list: r.resource is any outcome.
Guarded(s, r) ==
  \/ r.size = 0 /\ Die("routes")
  \/ Inapplicable(r) /\ Respond(s, 422)

\* Mutant of Unmatched: it does not return.
UnmatchedGoesOn(s) ==
  /\ res_' = [res_ EXCEPT ![s] = <<412, 422>>]
  /\ Becomes(s, "writing")
  /\ UNCHANGED <<peer_map_, peers, on_local_sdp_fn_, pc, local, round,
                 deleted, dead>>

\* PATCH without If-Match.
Unmatched(s) == Respond(s, 412)

Patch(s) ==
  /\ Reading(s)
  /\ \/ Respond(s, 422)             \* the Content-Type
     \/ \E r \in Routes :
          \/ Guarded(s, r)
          \/ /\ ~Inapplicable(r)
             /\ \/ Unmatched(s)
                \/ \E kind \in {"trickle", "restart"} : Served(s, kind, r)

Delete(s) ==
  /\ Reading(s)
  /\ \E r \in Routes :
       \/ Guarded(s, r)
       \/ ~Inapplicable(r) /\ Served(s, "delete", r)

-----------------------------------------------------------------------------
(* The handlers.                                                           *)

\* Where the new element lies from the cleaner's iterator.  An insertion that
\* rehashes the map invalidates the iterator, which erase holds as well while
\* it destroys a peer, and orders the map anew.
Placed(p) ==
  \/ todo' = todo /\ UNCHANGED rehashed
  \/ pm_it # NoPeer /\ todo' = todo \cup {p} /\ UNCHANGED rehashed
  \/ /\ pc["cleaner"] # "idle"
     /\ rehashed' = TRUE
     /\ todo' \in IF pm_it = NoPeer THEN {{}}
                                    ELSE SUBSET (peer_map_' \ {pm_it})

\* CreatePeer.
Insert ==
  \/ /\ Move("io", "insert", "hook")
     /\ \E p \in Peers :
          /\ stage[p] = "absent"
          /\ stage' = [stage EXCEPT ![p] = "open"]
          /\ peer_map_' = peer_map_ \cup {p}
          /\ handled' = p
          /\ Placed(p)
     /\ UNCHANGED <<http, connected, over, answers, on_local_sdp_fn_, request,
                    target, pm_it, deleted, dead>>
  \/ pc["io"] = "insert" /\ Die("uncaught")

OnLocalSdp ==
  /\ Move("io", "hook", "offer")
  /\ on_local_sdp_fn_' = [on_local_sdp_fn_ EXCEPT ![handled] = request.session]
  /\ UNCHANGED <<peer_map_, http, peers, local, round, deleted, dead>>

\* SetRemoteSdp, which throws when the offer does not parse.
Offer ==
  \/ /\ Move("io", "offer", "drop")
     /\ UNCHANGED <<peer_map_, http, peers, on_local_sdp_fn_, local, round,
                    deleted, dead>>
  \/ pc["io"] = "offer" /\ Die("uncaught")

GetPeer ==
  /\ request.id \in peer_map_
  /\ handled' = request.id
  /\ target' = [target EXCEPT
                  !["io"] = IF request.kind = "delete" THEN request.id ELSE @]
  /\ Move("io", "find", IF request.kind = "delete" THEN "stop" ELSE "serve")
  /\ UNCHANGED http

Find ==
  /\ pc["io"] = "find"
  /\ \/ GetPeer /\ UNCHANGED request
     \/ /\ request.id \notin peer_map_
        /\ Write(request.session, 422)
        /\ Move("io", "find", "idle")
        /\ request' = NoRequest
        /\ UNCHANGED <<handled, target>>
  /\ UNCHANGED <<peer_map_, peers, on_local_sdp_fn_, round, deleted, dead>>

\* PATCH hands its candidates on; RestartIce may throw.
Serve ==
  \/ /\ Move("io", "serve", "drop")
     /\ Write(request.session, IF request.kind = "restart" THEN 200 ELSE 204)
     /\ UNCHANGED <<peer_map_, peers, on_local_sdp_fn_, local, round, deleted,
                    dead>>
  \/ pc["io"] = "serve" /\ request.kind = "restart" /\ Die("uncaught")

\* Mutant of Unmap: Terminate is all that a DELETE does.
UnmapNothing ==
  /\ Move("io", "unmap", "accepted")
  /\ deleted' = deleted \cup {handled}
  /\ UNCHANGED <<peer_map_, http, peers, on_local_sdp_fn_, local, round, dead>>

\* RemovePeerFromMap.  The cleaner's iterator may be at the peer.
Unmap ==
  /\ Move("io", "unmap", "accepted")
  /\ peer_map_' = peer_map_ \ {handled}
  /\ todo' = todo \ {handled}
  /\ deleted' = deleted \cup {handled}
  /\ UNCHANGED <<http, peers, on_local_sdp_fn_, local, pm_it, rehashed, dead>>

Accepted ==
  /\ Move("io", "accepted", "drop")
  /\ Write(request.session, 202)
  /\ UNCHANGED <<peer_map_, peers, on_local_sdp_fn_, local, round, deleted,
                 dead>>

\* Mutant of Drop: something else still holds a peer that has left the map.
DropLeaks ==
  /\ pc["io"] = "drop"
  /\ IF session[request.session] = "handling"
       THEN Becomes(request.session, "waiting") ELSE UNCHANGED session
  /\ handled' = NoPeer
  /\ request' = NoRequest
  /\ Move("io", "drop", "idle")
  /\ target' = [target EXCEPT !["io"] = NoPeer]
  /\ UNCHANGED <<res_, peer_map_, peers, on_local_sdp_fn_, round, deleted,
                 dead>>

\* The handler returns and lets go of the session and of the peer; the last
\* owner destroys it.
Drop ==
  /\ pc["io"] = "drop"
  /\ IF session[request.session] = "handling"
       THEN Becomes(request.session, "waiting") ELSE UNCHANGED session
  /\ handled' = NoPeer
  /\ request' = NoRequest
  /\ \/ /\ handled \in peer_map_
        /\ Move("io", "drop", "idle")
        /\ target' = [target EXCEPT !["io"] = NoPeer]
     \/ /\ handled \notin peer_map_
        /\ Move("io", "drop", "stop")
        /\ target' = [target EXCEPT !["io"] = handled]
  /\ UNCHANGED <<res_, peer_map_, peers, on_local_sdp_fn_, round, deleted,
                 dead>>

-----------------------------------------------------------------------------
(* Terminate, for DELETE and in ~RtcPeer.                                  *)

Stop(t) ==
  /\ Move(t, "stop", "clear")
  /\ connected' = [connected EXCEPT ![target[t]] = FALSE]
  /\ over' = [over EXCEPT ![target[t]] = TRUE]
  /\ UNCHANGED <<peer_map_, http, stage, answers, on_local_sdp_fn_, local,
                 round, deleted, dead>>

\* Mutant of ClearFn: on_local_sdp_fn_ keeps its lambda.
ClearFnForgotten(t) ==
  /\ Move(t, "clear", "close")
  /\ UNCHANGED <<peer_map_, http, peers, on_local_sdp_fn_, local, round,
                 deleted, dead>>

\* A session that waits for the peer goes with the lambda, unanswered.
ClearFn(t) ==
  LET s == on_local_sdp_fn_[target[t]] IN
  /\ Move(t, "clear", "close")
  /\ on_local_sdp_fn_' = [on_local_sdp_fn_ EXCEPT ![target[t]] = NoSession]
  /\ IF s # NoSession /\ session[s] = "waiting"
       THEN Becomes(s, "none") ELSE UNCHANGED session
  /\ UNCHANGED <<res_, peer_map_, peers, local, round, deleted, dead>>

Close(t) ==
  /\ Move(t, "close", IF handled = target[t] THEN "unmap" ELSE "free")
  /\ IF stage[target[t]] = "open"
       THEN /\ stage' = [stage EXCEPT ![target[t]] = "closed"]
            /\ connected' = [connected EXCEPT ![target[t]] = FALSE]
       ELSE UNCHANGED <<stage, connected>>
  /\ UNCHANGED <<peer_map_, http, over, answers, on_local_sdp_fn_, local,
                 round, deleted, dead>>

Free(t) ==
  /\ Move(t, "free", IF t = "cleaner" /\ pm_it # NoPeer
                       THEN "look" ELSE "idle")
  /\ stage' = [stage EXCEPT ![target[t]] = "gone"]
  /\ target' = [target EXCEPT ![t] = NoPeer]
  /\ UNCHANGED <<peer_map_, http, connected, over, answers, on_local_sdp_fn_,
                 request, handled, round, deleted, dead>>

Terminate(t) == Stop(t) \/ ClearFn(t) \/ Close(t) \/ Free(t)

-----------------------------------------------------------------------------
(* cleaner_: RefreshPeerMap.                                               *)

\* The iterator goes to one of the peers ahead, or to the end.
Advance(ahead) ==
  /\ rehashed' = FALSE
  /\ \/ pm_it' \in ahead /\ todo' = ahead \ {pm_it'}
     \/ ahead = {} /\ pm_it' = NoPeer /\ todo' = {}

Resume == IF pm_it' = NoPeer THEN "idle" ELSE "look"

BeginRound ==
  /\ Advance(peer_map_)
  /\ Move("cleaner", "idle", Resume)
  /\ UNCHANGED <<peer_map_, http, peers, on_local_sdp_fn_, local, deleted,
                 dead>>

\* Mutant of Look: only a peer that is over is erased.
LookOver ==
  /\ pc["cleaner"] = "look"
  /\ pm_it \in peer_map_
  /\ IF connected[pm_it] \/ ~over[pm_it]
       THEN Advance(todo) /\ Move("cleaner", "look", Resume)
       ELSE UNCHANGED round /\ Move("cleaner", "look", "erase")
  /\ UNCHANGED <<peer_map_, http, peers, on_local_sdp_fn_, local, deleted,
                 dead>>

Look ==
  /\ pc["cleaner"] = "look"
  /\ pm_it \in peer_map_
  /\ IF connected[pm_it]
       THEN Advance(todo) /\ Move("cleaner", "look", Resume)
       ELSE UNCHANGED round /\ Move("cleaner", "look", "erase")
  /\ UNCHANGED <<peer_map_, http, peers, on_local_sdp_fn_, local, deleted,
                 dead>>

\* The next element is looked up before the erased one is destroyed, which
\* takes as long as the peer's Terminate does.
EraseFrom ==
  /\ peer_map_' = peer_map_ \ {pm_it}
  /\ \/ /\ handled = pm_it
        /\ Move("cleaner", "erase", Resume)
        /\ UNCHANGED target
     \/ /\ handled # pm_it
        /\ Move("cleaner", "erase", "stop")
        /\ target' = [target EXCEPT !["cleaner"] = pm_it]
  /\ UNCHANGED <<http, peers, on_local_sdp_fn_, request, handled, deleted,
                 dead>>

\* Mutant of Erase: the iterator stays at the erased element.
EraseStale ==
  /\ pc["cleaner"] = "erase" /\ pm_it \in peer_map_
  /\ UNCHANGED round
  /\ EraseFrom

Erase ==
  /\ pc["cleaner"] = "erase" /\ pm_it \in peer_map_
  /\ Advance(todo)
  /\ EraseFrom

\* The iterator is at an element that a DELETE has erased, or an insertion has
\* invalidated it: what it points to may still do, or not.  After a rehash
\* what still does is Look, Erase or the end of Terminate.
Stale ==
  \/ /\ pm_it \notin peer_map_
     /\ \/ /\ Advance(todo)
           /\ \E from \in {"look", "erase"} : Move("cleaner", from, Resume)
           /\ UNCHANGED <<peer_map_, http, peers, on_local_sdp_fn_, local,
                          deleted, dead>>
        \/ pc["cleaner"] \in {"look", "erase"} /\ Die("iterator")
  \/ /\ rehashed
     /\ \/ pc["cleaner"] \in {"look", "erase"}
        \/ pc["cleaner"] = "free" /\ pm_it = NoPeer
     /\ Die("iterator")

\* Both threads are in the map, and one of them changes it.  The cleaner is
\* in erase until the peer's destructor has returned.
MapRace ==
  /\ \/ /\ pc["cleaner"] \in {"erase"} \cup TerminateLabels
        /\ pc["io"] \in {"insert", "find", "unmap"}
     \/ pc["cleaner"] = "look" /\ pc["io"] \in {"insert", "unmap"}
  /\ Die("map_race")

-----------------------------------------------------------------------------
(* The peers, and the clients behind them.                                 *)

\* The lambda of HandlePostRequest, called by send_sdp.
Answer(p) ==
  /\ on_local_sdp_fn_[p] # NoSession
  /\ ~(pc["io"] = "offer" /\ handled = p)
  /\ answers' = [answers EXCEPT ![p] = @ + 1]
  /\ Write(on_local_sdp_fn_[p], 201)
  /\ on_local_sdp_fn_' = [on_local_sdp_fn_ EXCEPT ![p] = NoSession]
  /\ UNCHANGED <<peer_map_, stage, connected, over, pc, local, round, deleted,
                 dead>>

SetConnected(p, value) ==
  /\ stage[p] = "open"
  /\ answers[p] > 0
  /\ connected' = [connected EXCEPT ![p] = value]
  /\ UNCHANGED <<peer_map_, http, stage, over, answers, on_local_sdp_fn_, pc,
                 local, round, deleted, dead>>

\* The timer, the client or a failure closes the connection.
CloseByItself(p) ==
  /\ stage[p] = "open"
  /\ stage' = [stage EXCEPT ![p] = "closed"]
  /\ connected' = [connected EXCEPT ![p] = FALSE]
  /\ over' = [over EXCEPT ![p] = TRUE]
  /\ UNCHANGED <<peer_map_, http, answers, on_local_sdp_fn_, pc, local, round,
                 deleted, dead>>

-----------------------------------------------------------------------------
Client(s) ==
  Accept(s) \/ EndSession(s) \/ Plain(s) \/ Post(s) \/ Patch(s) \/ Delete(s)

Io ==
  \/ Insert \/ OnLocalSdp \/ Offer \/ Find \/ Serve \/ Unmap \/ Accepted
  \/ Drop \/ Terminate("io")

Cleaner ==
  \/ BeginRound \/ Look \/ Erase \/ Stale
  \/ Terminate("cleaner")

Peer(p) ==
  Answer(p) \/ CloseByItself(p) \/ \E b \in BOOLEAN : SetConnected(p, b)

Over == dead # "no" /\ UNCHANGED vars

Next ==
  \/ /\ dead = "no"
     /\ \/ \E s \in Sessions : Client(s)
        \/ Io \/ Cleaner \/ MapRace
        \/ \E p \in Peers : Peer(p)
  \/ Over

Spec == Init /\ [][Next]_vars

\* Both threads keep running, and cleaner_ wakes up again and again.
FairSpec ==
  /\ Spec
  /\ WF_vars(dead = "no" /\ Io)
  /\ WF_vars(dead = "no" /\ Cleaner)

-----------------------------------------------------------------------------
\* A request gets one response at most, whichever thread writes it: the
\* handlers return where they have responded, and the lambda of a POST is
\* gone once it was called.
OneResponse == \A s \in Sessions : Len(res_[s]) <= 1

\* Once a DELETE has removed a peer, nobody finds it again, and its
\* connection is closed for good; the cleaner cannot be in its way.
DeletedIsFinal ==
  \A p \in deleted : p \notin peer_map_ /\ stage[p] \in {"closed", "gone"}

\* Two things on io invalidate the cleaner's iterator, which it holds through
\* a peer's whole destructor, and nothing else does: a DELETE takes the peer
\* it is at, or a POST's insertion rehashes the map.  The cleaner's own
\* erasing never leaves it at a peer that is gone from the map.
IteratorKept ==
  /\ pm_it # NoPeer => pm_it \in peer_map_ \cup deleted
  /\ dead = "iterator" => pm_it \in deleted \/ rehashed

\* A session that waits has nothing but the lambda of one peer to keep it
\* and to answer it.  That peer can be found by the cleaner, or a thread is
\* about to clear the lambda: no order of the handler's return, the answer
\* and the cleaner's erasing leaves a client waiting for nobody.
WaitingHasPeer ==
  \A s \in Sessions : session[s] = "waiting" =>
    \E p \in Peers :
      /\ on_local_sdp_fn_[p] = s
      /\ \/ p \in peer_map_
         \/ \E t \in Threads : target[t] = p /\ pc[t] \in {"stop", "clear"}

\* Whatever the two threads do with it, the service creates a peer once,
\* terminates it on one thread at a time, and destroys it when neither the
\* map nor a handler holds it any more.
Lifecycle(p) ==
  INSTANCE PeerLifecycle WITH
    stage <- stage[p], held <- Held(p), answers <- answers[p],
    connected <- connected[p], over <- over[p], running <- dead = "no"
PeersKeepLifecycle ==
  /\ \A p \in Peers : Lifecycle(p)!Init
  /\ [][\A p \in Peers : [Lifecycle(p)!Next]_(Lifecycle(p)!vars)]_vars

\* A POST that waits for its answer is answered or dropped: the cleaner
\* comes to every peer that does not connect, and the session goes with it.
PostSettles ==
  \A s \in Sessions :
    session[s] = "waiting" ~> (session[s] # "waiting" \/ dead # "no")

-----------------------------------------------------------------------------
\* "The resource is not appplicable." (http_service.cpp:244): a DELETE of a
\* target outside of /resource is refused.
OnlyResources ==
  pc["io"] = "stop" /\ handled # NoPeer => request.resource
=============================================================================
