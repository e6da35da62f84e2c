-------------------------- MODULE Signaling_proofs --------------------------
(* Theorems about Signaling for every set of peers and of sessions.          *)
EXTENDS Signaling, TLAPS

USE DEF http, peers, round, local, state, vars, Move

-----------------------------------------------------------------------------
(* Types, in the parts that a step can disturb apart from each other.      *)

Control ==
  /\ DOMAIN pc = Threads
  /\ \A t \in Threads : pc[t] \in Labels[t]
  /\ handled \in Peers \cup {NoPeer}
  /\ target \in [Threads -> Peers \cup {NoPeer}]
  /\ dead \in {"no", "uncaught", "routes", "iterator", "map_race"}

MapOK ==
  /\ peer_map_ \subseteq Peers
  /\ pm_it \in Peers \cup {NoPeer}
  /\ todo \subseteq Peers
  /\ rehashed \in BOOLEAN
  /\ deleted \subseteq Peers

HttpOK ==
  /\ session \in [Sessions ->
                    {"none", "reading", "handling", "waiting", "writing"}]
  /\ DOMAIN res_ = Sessions
  /\ \A s \in Sessions : res_[s] \in Seq(Statuses)
  /\ on_local_sdp_fn_ \in [Peers -> Sessions \cup {NoSession}]
  /\ request = NoRequest \/ request.session \in Sessions

PeersOK ==
  /\ stage \in [Peers -> {"absent", "open", "closed", "gone"}]
  /\ connected \in [Peers -> BOOLEAN]
  /\ over \in [Peers -> BOOLEAN]
  /\ answers \in [Peers -> {0, 1}]

Typed == Control /\ MapOK /\ HttpOK /\ PeersOK

LEMMA TypedIsTypeOK == Typed => TypeOK
BY DEF Typed, TypeOK, Control, MapOK, HttpOK, PeersOK

-----------------------------------------------------------------------------
(* The inductive invariant.                                                *)

\* The iterator and what lies behind it are apart, and in the map.
Round ==
  /\ todo \subseteq peer_map_
  /\ pm_it \notin todo
  /\ pm_it # NoPeer => pm_it \in peer_map_ \cup deleted

\* io is in a handler that has not responded yet.
InHandler ==
  \/ pc["io"] \in {"insert", "hook", "offer", "find", "serve", "unmap",
                   "accepted"}
  \/ pc["io"] \in {"stop", "clear", "close"} /\ handled # NoPeer

\* A session that is not writing has no response.
Unwritten ==
  \A s \in Sessions :
    Len(res_[s]) <= 1 /\ (session[s] # "writing" => res_[s] = <<>>)

\* The lambda of a POST holds a session that nobody has responded to, and
\* that is still the handler's until it returns.
Awaits(p) ==
  \/ session[on_local_sdp_fn_[p]] = "waiting"
  \/ /\ session[on_local_sdp_fn_[p]] = "handling"
     /\ request.session = on_local_sdp_fn_[p]
     /\ handled = p
     /\ pc["io"] \in {"offer", "drop"}

Responses ==
  /\ Unwritten
  /\ InHandler \/ pc["io"] = "drop" => request.session \in Sessions
  /\ InHandler => session[request.session] = "handling"
  /\ \A p \in Peers : on_local_sdp_fn_[p] # NoSession =>
       /\ Awaits(p)
       /\ \A q \in Peers :
            on_local_sdp_fn_[q] = on_local_sdp_fn_[p] => q = p

\* What is known of a peer from its stage.
Staged ==
  \A p \in Peers :
    /\ Held(p) \/ on_local_sdp_fn_[p] # NoSession =>
         stage[p] \in {"open", "closed"}
    /\ stage[p] = "absent" \/ on_local_sdp_fn_[p] # NoSession =>
         answers[p] = 0
    /\ stage[p] \in {"closed", "gone"} => ~connected[p] /\ over[p]
    /\ p \in deleted => p \notin peer_map_ /\ stage[p] \in {"closed", "gone"}

\* Where io has a peer in its hands, and what it has done with it.
Handling ==
  /\ pc["io"] \in {"idle", "insert", "find", "free"} => handled = NoPeer
  /\ pc["io"] \in {"hook", "offer", "serve", "unmap", "accepted", "drop"} =>
       handled \in Peers
  /\ pc["io"] \in {"stop", "clear", "close"} =>
       handled = NoPeer \/ handled = target["io"]
  /\ pc["io"] = "hook" =>
       answers[handled] = 0 /\ on_local_sdp_fn_[handled] = NoSession
  /\ pc["io"] = "unmap" => stage[handled] = "closed"

\* A peer is terminated on one thread, and by its destructor only when it
\* is not held.
Terminating ==
  /\ \A t \in Threads : pc[t] \in TerminateLabels =>
       /\ target[t] \in Peers
       /\ stage[target[t]] \in {"open", "closed"}
       /\ pc[t] # "stop" => over[target[t]]
       /\ pc[t] \in {"close", "free"} =>
            on_local_sdp_fn_[target[t]] = NoSession
       /\ pc[t] = "free" => stage[target[t]] = "closed"
       /\ Held(target[t]) => t = "io" /\ handled = target[t]
  /\ pc["io"] \in TerminateLabels /\ pc["cleaner"] \in TerminateLabels =>
       target["io"] # target["cleaner"]

Life == Staged /\ Handling /\ Terminating

Inv == Round /\ Responses /\ Life
IInv == Typed /\ Inv

\* What a step is for the owner of one peer.
Implements == \A p \in Peers : [Lifecycle(p)!Next]_(Lifecycle(p)!vars)

LEMMA InitIInv == Init => IInv
<1> SUFFICES ASSUME Init PROVE IInv
  OBVIOUS
<1>0. rehashed \in BOOLEAN
  BY Zenon DEF Init
<1>1. Typed
  BY <1>0 DEF Init, Typed, Control, MapOK, HttpOK, PeersOK, Threads, Labels
<1>2. Inv
  BY NullAssumption DEF Init, Inv, Round, Responses, Unwritten, InHandler,
    Life, Staged, Handling, Terminating, Held, Threads, TerminateLabels
<1> QED
  BY <1>1, <1>2 DEF IInv

LEMMA StayIInv ==
  ASSUME IInv, UNCHANGED state,
         dead' \in {"no", "uncaught", "routes", "iterator", "map_race"}
  PROVE  IInv'
<1>1. Typed'
  BY DEF IInv, Typed, Control, MapOK, HttpOK, PeersOK
<1>2. Inv'
  BY DEF IInv, Inv, Round, Responses, Unwritten, InHandler, Awaits, Life,
    Staged, Handling, Terminating, Held
<1> QED
  BY <1>1, <1>2 DEF IInv

LEMMA StayRound ==
  ASSUME Round, UNCHANGED <<peer_map_, pm_it, todo, deleted>>
  PROVE  Round'
BY DEF Round

\* A step of the cleaner that leaves sessions and lambdas alone.
LEMMA StayResponses ==
  ASSUME Responses, UNCHANGED <<session, res_, on_local_sdp_fn_, request,
                                handled>>, pc'["io"] = pc["io"]
  PROVE  Responses'
BY DEF Responses, Unwritten, InHandler, Awaits

LEMMA Moves ==
  ASSUME Control, NEW t \in Threads, NEW from, NEW to, Move(t, from, to)
  PROVE  /\ DOMAIN pc' = Threads /\ pc[t] = from /\ pc'[t] = to
         /\ \A u \in Threads \ {t} : pc'[u] = pc[u]
         /\ to \in Labels[t] => \A u \in Threads : pc'[u] \in Labels[u]
BY DEF Control

LEMMA Becoming ==
  ASSUME HttpOK, NEW s \in Sessions, NEW to, Becomes(s, to),
         to \in {"none", "reading", "handling", "waiting", "writing"}
  PROVE  /\ session' \in [Sessions -> {"none", "reading", "handling",
                                       "waiting", "writing"}]
         /\ session'[s] = to
         /\ \A u \in Sessions \ {s} : session'[u] = session[u]
BY DEF HttpOK, Becomes

LEMMA Writing ==
  ASSUME HttpOK, Unwritten, NEW s \in Sessions, NEW status \in Statuses,
         session[s] # "writing", Write(s, status)
  PROVE  /\ session' \in [Sessions -> {"none", "reading", "handling",
                                       "waiting", "writing"}]
         /\ session'[s] = "writing"
         /\ \A u \in Sessions \ {s} : session'[u] = session[u]
         /\ DOMAIN res_' = Sessions
         /\ \A u \in Sessions : res_'[u] \in Seq(Statuses)
         /\ Unwritten'
<1>1. /\ session' \in [Sessions -> {"none", "reading", "handling",
                                    "waiting", "writing"}]
      /\ session'[s] = "writing"
      /\ \A u \in Sessions \ {s} : session'[u] = session[u]
  BY Becoming DEF Write
<1>2. /\ DOMAIN res_' = Sessions /\ res_'[s] = Append(<<>>, status)
      /\ \A u \in Sessions \ {s} : res_'[u] = res_[u]
  BY DEF Write, HttpOK, Unwritten
<1>3. Append(<<>>, status) \in Seq(Statuses) /\ Len(Append(<<>>, status)) = 1
  OBVIOUS
<1>4. \A u \in Sessions : res_'[u] \in Seq(Statuses)
  BY <1>2, <1>3 DEF HttpOK
<1>5. Unwritten'
  BY <1>1, <1>2, <1>3 DEF Unwritten
<1> QED
  BY <1>1, <1>2, <1>4, <1>5

-----------------------------------------------------------------------------
(* What the owner of a peer sees.                                          *)

\* A step at which neither a peer nor who holds it changes.
LEMMA Unseen ==
  ASSUME UNCHANGED <<peers, dead>>, \A p \in Peers : Held(p)' <=> Held(p)
  PROVE  Implements
<1> SUFFICES ASSUME NEW p \in Peers
             PROVE  [Lifecycle(p)!Next]_(Lifecycle(p)!vars)
  BY DEF Implements
<1>1. Held(p)' = Held(p)
  BY DEF Held
<1> QED
  BY <1>1 DEF Lifecycle!vars

LEMMA Dies ==
  ASSUME IInv, dead = "no", NEW cause,
         cause \in {"uncaught", "routes", "iterator", "map_race"}, Die(cause)
  PROVE  IInv' /\ Implements
<1>1. IInv'
  BY StayIInv DEF Die
<1>2. ASSUME NEW p \in Peers PROVE Lifecycle(p)!Crash
  BY DEF Die, Lifecycle!Crash, Held
<1>3. ASSUME NEW p \in Peers PROVE Lifecycle(p)!Next
  BY <1>2 DEF Lifecycle!Next
<1> QED
  BY <1>1, <1>3 DEF Implements

\* What every step has to show.
Good == IInv' /\ Implements

-----------------------------------------------------------------------------
(* Connections and HandleRequest: io is idle.                              *)

LEMMA Idle ==
  ASSUME IInv, pc["io"] = "idle"
  PROVE  /\ handled = NoPeer
         /\ \A p \in Peers : on_local_sdp_fn_[p] # NoSession =>
              /\ on_local_sdp_fn_[p] \in Sessions
              /\ session[on_local_sdp_fn_[p]] = "waiting"
BY DEF IInv, Typed, HttpOK, Inv, Life, Handling, Responses, Awaits

\* A session that nobody waits for goes on, or goes away.
LEMMA SessionStep ==
  ASSUME IInv, pc["io"] = "idle", NEW s \in Sessions,
         session[s] # "waiting",
         NEW to \in {"none", "reading", "writing"}, Becomes(s, to),
         DOMAIN res_' = Sessions,
         \A u \in Sessions : res_'[u] \in Seq(Statuses),
         Unwritten',
         UNCHANGED <<peer_map_, peers, on_local_sdp_fn_, pc, local, round,
                     deleted, dead>>
  PROVE  Good
<1> USE DEF IInv, Inv
<1>1. /\ session' \in [Sessions -> {"none", "reading", "handling",
                                    "waiting", "writing"}]
      /\ \A u \in Sessions \ {s} : session'[u] = session[u]
  BY Becoming DEF Typed
<1>2. Typed'
  BY <1>1 DEF Typed, Control, MapOK, HttpOK, PeersOK
<1>3. Round'
  BY StayRound
<1>4. Responses'
  BY <1>1, Idle DEF Responses, InHandler, Awaits
<1>5. Life'
  BY DEF Life, Staged, Handling, Terminating, Held
<1>6. Implements
  BY Unseen DEF Held
<1> QED
  BY <1>2, <1>3, <1>4, <1>5, <1>6 DEF Good

LEMMA AcceptGood ==
  ASSUME IInv, NEW s \in Sessions, Accept(s)
  PROVE  Good
<1>1. /\ session'[s] = "reading"
      /\ \A u \in Sessions \ {s} : session'[u] = session[u]
  BY Becoming DEF Accept, IInv, Typed
<1>2. Unwritten'
  BY <1>1 DEF Accept, IInv, Inv, Responses, Unwritten
<1> QED
  BY <1>2, SessionStep DEF Accept, IInv, Typed, HttpOK

LEMMA EndSessionGood ==
  ASSUME IInv, NEW s \in Sessions, EndSession(s)
  PROVE  Good
<1>1. \A u \in Sessions \ {s} : session'[u] = session[u] /\ res_'[u] = res_[u]
  BY Becoming DEF EndSession, IInv, Typed, HttpOK
<1>2. DOMAIN res_' = Sessions /\ res_'[s] = <<>>
  BY DEF EndSession, IInv, Typed, HttpOK
<1>3. \A u \in Sessions : res_'[u] \in Seq(Statuses)
  <2>1. <<>> \in Seq(Statuses)
    OBVIOUS
  <2> QED
    BY <1>1, <1>2, <2>1 DEF IInv, Typed, HttpOK
<1>4. Unwritten'
  BY <1>1, <1>2 DEF IInv, Inv, Responses, Unwritten
<1> QED
  BY <1>2, <1>3, <1>4, SessionStep DEF EndSession

LEMMA RespondGood ==
  ASSUME IInv, NEW s \in Sessions, NEW status \in Statuses, Reading(s),
         Respond(s, status)
  PROVE  Good
<1>1. /\ DOMAIN res_' = Sessions /\ Unwritten'
      /\ \A u \in Sessions : res_'[u] \in Seq(Statuses)
  BY Writing DEF Reading, Respond, IInv, Inv, Typed, Responses
<1> QED
  BY <1>1, SessionStep DEF Reading, Respond, Write

LEMMA HandleGood ==
  ASSUME IInv, NEW s \in Sessions, NEW kind, NEW id, NEW resource,
         NEW label \in {"insert", "find"}, Reading(s),
         Handle(RequestOf(s, kind, id, resource), label)
  PROVE  Good
<1> USE DEF IInv, Inv, Handle
<1>1. request'.session = s /\ Becomes(s, "handling")
  BY DEF RequestOf
<1>2. /\ session' \in [Sessions -> {"none", "reading", "handling",
                                    "waiting", "writing"}]
      /\ session'[s] = "handling"
      /\ \A u \in Sessions \ {s} : session'[u] = session[u]
  BY <1>1, Becoming DEF Typed
<1>3. /\ DOMAIN pc' = Threads /\ pc'["io"] = label /\ pc["io"] = "idle"
      /\ \A u \in Threads \ {"io"} : pc'[u] = pc[u]
      /\ \A u \in Threads : pc'[u] \in Labels[u]
  BY Moves DEF Typed, Threads, Labels
<1>4. Typed'
  BY <1>1, <1>2, <1>3 DEF Typed, Control, MapOK, HttpOK, PeersOK
<1>5. Round'
  BY StayRound
<1>6. Responses'
  <2>1. Unwritten'
    BY <1>2 DEF Reading, Responses, Unwritten
  <2>2. \A p \in Peers : on_local_sdp_fn_[p] # NoSession =>
          session'[on_local_sdp_fn_[p]] = "waiting"
    BY <1>2, <1>3, Idle DEF Reading
  <2> QED
    BY <1>1, <1>2, <2>1, <2>2 DEF Responses, Awaits
<1>7. Life'
  BY <1>3, Idle DEF Life, Staged, Handling, Terminating, Held, Threads,
    TerminateLabels
<1>8. Implements
  BY Unseen DEF Held
<1> QED
  BY <1>4, <1>5, <1>6, <1>7, <1>8 DEF Good

LEMMA ClientGood ==
  ASSUME IInv, dead = "no", NEW s \in Sessions, Client(s)
  PROVE  Good
<1>1. CASE Accept(s) \/ EndSession(s)
  BY <1>1, AcceptGood, EndSessionGood
<1>2. CASE Plain(s)
  BY <1>2, RespondGood DEF Plain, Statuses
<1>3. CASE Post(s)
  BY <1>3, HandleGood DEF Post
<1>4. ASSUME Reading(s), NEW kind, NEW r, Served(s, kind, r) PROVE Good
  BY <1>4, HandleGood, Dies DEF Served, Good
<1>5. ASSUME Reading(s), NEW r, Guarded(s, r) PROVE Good
  BY <1>5, RespondGood, Dies DEF Guarded, Good, Statuses
<1>6. CASE Patch(s)
  BY <1>4, <1>5, <1>6, RespondGood DEF Patch, Unmatched, Statuses
<1>7. CASE Delete(s)
  BY <1>4, <1>5, <1>7 DEF Delete
<1> QED
  BY <1>1, <1>2, <1>3, <1>6, <1>7 DEF Client

-----------------------------------------------------------------------------
(* The handlers.                                                           *)

LEMMA InsertGood == ASSUME IInv, dead = "no", Insert PROVE Good
<1> USE DEF IInv, Inv
<1>1. CASE Die("uncaught")
  BY <1>1, Dies DEF Good
<1>2. CASE ~Die("uncaught")
  <2>1. PICK p \in Peers :
          /\ stage[p] = "absent"
          /\ stage' = [stage EXCEPT ![p] = "open"]
          /\ peer_map_' = peer_map_ \cup {p}
          /\ handled' = p
          /\ Placed(p)
    BY <1>2 DEF Insert
  <2>2. /\ UNCHANGED <<http, connected, over, answers, on_local_sdp_fn_,
                       request, target, pm_it, deleted, dead>>
        /\ Move("io", "insert", "hook")
    BY <1>2 DEF Insert
  <2>3. /\ DOMAIN pc' = Threads /\ pc'["io"] = "hook" /\ pc["io"] = "insert"
        /\ \A u \in Threads \ {"io"} : pc'[u] = pc[u]
        /\ \A u \in Threads : pc'[u] \in Labels[u]
    BY <2>2, Moves DEF Typed, Threads, Labels
  <2>4. stage'[p] = "open" /\ \A q \in Peers \ {p} : stage'[q] = stage[q]
    BY <2>1 DEF Typed, PeersOK
  <2>a. pm_it # p
    BY <2>1, NullAssumption DEF Life, Staged, Held, Round
  <2>b. todo' \subseteq peer_map_' /\ pm_it \notin todo'
    BY <2>1, <2>a DEF Placed, Round
  <2>c. rehashed' \in BOOLEAN
    BY <2>1, Zenon DEF Placed, Typed, MapOK
  <2>5. Typed'
    BY <2>1, <2>2, <2>3, <2>b, <2>c DEF Typed, Control, MapOK, HttpOK, PeersOK
  <2>6. Round'
    BY <2>1, <2>2, <2>b DEF Round
  <2>7. Responses'
    BY <2>2, <2>3 DEF Responses, Unwritten, InHandler, Awaits
  <2>8. handled = NoPeer
    BY <2>3 DEF Life, Handling
  <2>9. p \notin peer_map_ /\ p \notin deleted /\ answers[p] = 0
        /\ on_local_sdp_fn_[p] = NoSession
    BY <2>1 DEF Life, Staged, Held
  <2>10. Staged'
    BY <2>1, <2>2, <2>4, <2>8, <2>9 DEF Life, Staged, Held
  <2>11. Handling'
    BY <2>1, <2>2, <2>3, <2>9 DEF Handling
  <2>12. Terminating'
    <3>1. \A t \in Threads : pc'[t] \in TerminateLabels =>
            pc[t] = pc'[t] /\ t # "io" /\ target[t] # p
      BY <2>1, <2>3 DEF Life, Terminating, TerminateLabels
    <3> QED
      BY <2>1, <2>2, <2>3, <2>4, <2>8, <3>1 DEF Life, Terminating, Held,
        TerminateLabels
  <2>13. Implements
    <3>1. Lifecycle(p)!Create
      BY <2>1, <2>2, <2>4 DEF Lifecycle!Create, Held
    <3>3. ASSUME NEW q \in Peers \ {p}
          PROVE  UNCHANGED Lifecycle(q)!vars
      <4>1. Held(q)' = Held(q)
        BY <2>1, <2>8, NullAssumption DEF Held
      <4> QED
        BY <2>2, <2>4, <4>1 DEF Lifecycle!vars
    <3> QED
      BY <3>1, <3>3 DEF Implements, Lifecycle!Next
  <2> QED
    BY <2>5, <2>6, <2>7, <2>10, <2>11, <2>12, <2>13 DEF Life, Good
<1> QED
  BY <1>1, <1>2

LEMMA OnLocalSdpGood == ASSUME IInv, OnLocalSdp PROVE Good
<1> USE DEF IInv, Inv, OnLocalSdp
<1>1. /\ DOMAIN pc' = Threads /\ pc'["io"] = "offer" /\ pc["io"] = "hook"
      /\ \A u \in Threads \ {"io"} : pc'[u] = pc[u]
      /\ \A u \in Threads : pc'[u] \in Labels[u]
  BY Moves DEF Typed, Threads, Labels
<1>2. /\ handled \in Peers /\ request.session \in Sessions
      /\ session[request.session] = "handling"
      /\ answers[handled] = 0 /\ on_local_sdp_fn_[handled] = NoSession
  BY <1>1 DEF Life, Handling, Responses, InHandler
<1>3. /\ on_local_sdp_fn_'[handled] = request.session
      /\ \A q \in Peers \ {handled} :
           on_local_sdp_fn_'[q] = on_local_sdp_fn_[q]
  BY <1>2 DEF Typed, HttpOK
<1>4. Typed'
  BY <1>1, <1>2 DEF Typed, Control, MapOK, HttpOK, PeersOK
<1>5. Round'
  BY StayRound
<1>6. Responses'
  <2>1. \A q \in Peers : on_local_sdp_fn_[q] # NoSession =>
          /\ session[on_local_sdp_fn_[q]] = "waiting"
          /\ on_local_sdp_fn_[q] # request.session
    BY <1>1, <1>2 DEF Responses, Awaits
  <2>2. Awaits(handled)'
    BY <1>1, <1>2, <1>3 DEF Awaits
  <2>3. \A q \in Peers \ {handled} : on_local_sdp_fn_[q] # NoSession =>
          Awaits(q)'
    BY <1>3, <2>1 DEF Awaits
  <2> QED
    BY <1>1, <1>2, <1>3, <2>1, <2>2, <2>3
    DEF Responses, Unwritten, InHandler
<1>7. Life'
  <2>1. Held(handled)
    BY DEF Held
  <2>2. Staged'
    BY <1>2, <1>3, <2>1 DEF Life, Staged, Held
  <2>3. Handling'
    BY <1>1, <1>2 DEF Handling
  <2>4. Terminating'
    BY <1>1, <1>2, <1>3, <2>1 DEF Life, Terminating, Held, TerminateLabels
  <2> QED
    BY <2>2, <2>3, <2>4 DEF Life
<1>8. Implements
  BY Unseen DEF Held
<1> QED
  BY <1>4, <1>5, <1>6, <1>7, <1>8 DEF Good

LEMMA OfferGood == ASSUME IInv, dead = "no", Offer PROVE Good
<1> USE DEF IInv, Inv
<1>1. CASE Die("uncaught")
  BY <1>1, Dies DEF Good
<1>2. CASE ~Die("uncaught")
  <2> USE <1>2 DEF Offer
  <2>1. /\ DOMAIN pc' = Threads /\ pc'["io"] = "drop" /\ pc["io"] = "offer"
        /\ \A u \in Threads \ {"io"} : pc'[u] = pc[u]
        /\ \A u \in Threads : pc'[u] \in Labels[u]
    BY Moves DEF Typed, Threads, Labels
  <2>2. Typed'
    BY <2>1 DEF Typed, Control, MapOK, HttpOK, PeersOK
  <2>3. Round'
    BY StayRound
  <2>4. Responses'
    BY <2>1 DEF Responses, Unwritten, InHandler, Awaits
  <2>5. Life'
    BY <2>1 DEF Life, Staged, Handling, Terminating, Held, TerminateLabels
  <2>6. Implements
    BY Unseen DEF Held
  <2> QED
    BY <2>2, <2>3, <2>4, <2>5, <2>6 DEF Good
<1> QED
  BY <1>1, <1>2

\* The handler has its peer and responds; nobody awaits its session.
LEMMA WriteGood ==
  ASSUME IInv, NEW status \in Statuses, Write(request.session, status),
         pc["io"] \in {"find", "serve", "accepted"},
         NEW to \in {"idle", "drop"}, Move("io", pc["io"], to),
         IF to = "idle" THEN handled = NoPeer /\ request' = NoRequest
                        ELSE handled # NoPeer /\ UNCHANGED request,
         UNCHANGED <<peer_map_, peers, on_local_sdp_fn_, handled, target,
                     round, deleted, dead>>
  PROVE  Good
<1> USE DEF IInv, Inv
<1>1. request.session \in Sessions /\ session[request.session] = "handling"
  BY DEF Responses, InHandler
<1>2. /\ session' \in [Sessions -> {"none", "reading", "handling",
                                    "waiting", "writing"}]
      /\ \A u \in Sessions \ {request.session} : session'[u] = session[u]
      /\ DOMAIN res_' = Sessions
      /\ \A u \in Sessions : res_'[u] \in Seq(Statuses)
      /\ Unwritten'
  BY <1>1, Writing DEF Typed, Responses
<1>3. /\ DOMAIN pc' = Threads /\ pc'["io"] = to
      /\ \A u \in Threads \ {"io"} : pc'[u] = pc[u]
      /\ \A u \in Threads : pc'[u] \in Labels[u]
  BY Moves DEF Typed, Threads, Labels
<1>4. Typed'
  BY <1>2, <1>3 DEF Typed, Control, MapOK, HttpOK, PeersOK
<1>5. Round'
  BY StayRound
<1>6. Responses'
  <2>1. \A p \in Peers : on_local_sdp_fn_[p] # NoSession =>
          /\ session'[on_local_sdp_fn_[p]] = "waiting"
          /\ on_local_sdp_fn_[p] \in Sessions
    BY <1>1, <1>2 DEF Responses, Awaits, Typed, HttpOK
  <2> QED
    BY <1>1, <1>2, <1>3, <2>1 DEF Responses, InHandler, Awaits
<1>7. Life'
  BY <1>3 DEF Life, Staged, Handling, Terminating, Held, TerminateLabels,
    Typed, Control
<1>8. Implements
  BY Unseen DEF Held
<1> QED
  BY <1>4, <1>5, <1>6, <1>7, <1>8 DEF Good

LEMMA GetPeerGood ==
  ASSUME IInv, pc["io"] = "find", GetPeer,
         UNCHANGED <<request, peer_map_, peers, on_local_sdp_fn_, round,
                     deleted, dead>>
  PROVE  Good
<1> USE DEF IInv, Inv, GetPeer
<1>1. PICK to \in {"stop", "serve"} :
        /\ Move("io", "find", to)
        /\ to = "stop" => target' = [target EXCEPT !["io"] = request.id]
        /\ to # "stop" => UNCHANGED target
  BY DEF Typed, Control
<1>2. /\ DOMAIN pc' = Threads /\ pc'["io"] = to
      /\ \A u \in Threads \ {"io"} : pc'[u] = pc[u]
      /\ \A u \in Threads : pc'[u] \in Labels[u]
  BY <1>1, Moves DEF Typed, Threads, Labels, TerminateLabels
<1>3. /\ request.id \in Peers /\ handled = NoPeer /\ handled' = request.id
      /\ handled' # NoPeer
  BY NullAssumption DEF Typed, MapOK, Life, Handling
<1>4. /\ target' \in [Threads -> Peers \cup {NoPeer}]
      /\ to = "stop" => target'["io"] = request.id
      /\ \A u \in Threads \ {"io"} : target'[u] = target[u]
  BY <1>1, <1>3 DEF Typed, Control, Threads
<1>5. Typed'
  BY <1>2, <1>3, <1>4 DEF Typed, Control, MapOK, HttpOK, PeersOK
<1>6. Round'
  BY StayRound
<1>7. Responses'
  BY <1>2, <1>3 DEF Responses, Unwritten, InHandler, Awaits
<1>8. \A p \in Peers : Held(p)' <=> Held(p)
  BY <1>3, NullAssumption DEF Held
<1>9. Staged'
  BY <1>8 DEF Life, Staged
<1>10. Handling'
  BY <1>2, <1>3, <1>4 DEF Handling
<1>11. Terminating'
  <2>1. stage[request.id] \in {"open", "closed"} /\ Held(request.id)
    BY <1>3 DEF Life, Staged, Held
  <2>2. pc["cleaner"] \in TerminateLabels => target["cleaner"] # request.id
    BY <2>1 DEF Life, Terminating, Threads
  <2>3. /\ pc'["cleaner"] = pc["cleaner"]
        /\ target'["cleaner"] = target["cleaner"]
    BY <1>2, <1>4 DEF Threads
  <2>4. ASSUME NEW t \in Threads, pc'[t] \in TerminateLabels, t # "io"
        PROVE  pc[t] = pc'[t] /\ target'[t] = target[t] /\ target[t] \in Peers
    BY <1>2, <1>4, <2>4 DEF Life, Terminating
  <2>5. ASSUME NEW t \in Threads, pc'[t] \in TerminateLabels
        PROVE /\ target'[t] \in Peers
              /\ stage[target'[t]] \in {"open", "closed"}
              /\ pc'[t] # "stop" => over[target'[t]]
              /\ pc'[t] \in {"close", "free"} =>
                   on_local_sdp_fn_[target'[t]] = NoSession
              /\ pc'[t] = "free" => stage[target'[t]] = "closed"
              /\ Held(target'[t]) => t = "io" /\ handled' = target'[t]
    <3>1. CASE t = "io"
      BY <1>2, <1>3, <1>4, <2>1, <2>5, <3>1 DEF TerminateLabels
    <3>2. CASE t # "io"
      BY <2>4, <2>5, <3>2 DEF Life, Terminating
    <3> QED
      BY <3>1, <3>2
  <2> QED
    BY <1>2, <1>3, <1>4, <1>8, <2>2, <2>3, <2>5
    DEF Terminating, TerminateLabels
<1>12. Implements
  BY <1>8, Unseen
<1> QED
  BY <1>5, <1>6, <1>7, <1>9, <1>10, <1>11, <1>12 DEF Life, Good

LEMMA FindGood == ASSUME IInv, Find PROVE Good
<1>1. CASE GetPeer
  <2>1. request.id \in peer_map_
    BY <1>1 DEF GetPeer
  <2> QED
    BY <1>1, <2>1, GetPeerGood DEF Find
<1>2. CASE ~GetPeer
  <2>1. handled = NoPeer
    BY DEF Find, IInv, Inv, Life, Handling
  <2> QED
    BY <1>2, <2>1, WriteGood DEF Find, Statuses
<1> QED
  BY <1>1, <1>2

LEMMA ServeGood == ASSUME IInv, dead = "no", Serve PROVE Good
<1>1. CASE Die("uncaught")
  BY <1>1, Dies DEF Good
<1>2. CASE ~Die("uncaught")
  <2>1. handled # NoPeer
    BY <1>2, NullAssumption DEF Serve, IInv, Inv, Life, Handling
  <2>2. PICK status \in Statuses : Write(request.session, status)
    BY <1>2 DEF Serve, Statuses
  <2> QED
    BY <1>2, <2>1, <2>2, WriteGood DEF Serve
<1> QED
  BY <1>1, <1>2

LEMMA AcceptedGood == ASSUME IInv, Accepted PROVE Good
<1>1. handled # NoPeer
  BY NullAssumption DEF Accepted, IInv, Inv, Life, Handling
<1> QED
  BY <1>1, WriteGood DEF Accepted, Statuses

LEMMA UnmapGood == ASSUME IInv, Unmap PROVE Good
<1> USE DEF IInv, Inv, Unmap
<1>1. /\ DOMAIN pc' = Threads /\ pc'["io"] = "accepted" /\ pc["io"] = "unmap"
      /\ \A u \in Threads \ {"io"} : pc'[u] = pc[u]
      /\ \A u \in Threads : pc'[u] \in Labels[u]
  BY Moves DEF Typed, Threads, Labels
<1>2. handled \in Peers /\ stage[handled] = "closed"
  BY <1>1 DEF Life, Handling
<1>3. Typed'
  BY <1>1, <1>2 DEF Typed, Control, MapOK, HttpOK, PeersOK
<1>4. Round'
  BY DEF Round
<1>5. Responses'
  BY <1>1 DEF Responses, Unwritten, InHandler, Awaits
<1>6. \A p \in Peers : Held(p)' <=> Held(p)
  BY DEF Held
<1>7. Staged'
  BY <1>2, <1>6 DEF Life, Staged
<1>8. Handling'
  BY <1>1, <1>2 DEF Handling
<1>9. Terminating'
  <2>1. \A t \in Threads : pc'[t] \in TerminateLabels => pc[t] = pc'[t]
    BY <1>1 DEF TerminateLabels
  <2> QED
    BY <1>1, <1>6, <2>1 DEF Life, Terminating, TerminateLabels
<1>10. Implements
  BY <1>6, Unseen
<1> QED
  BY <1>3, <1>4, <1>5, <1>7, <1>8, <1>9, <1>10 DEF Life, Good

\* The only way a peer is let go of without being gone from the map.
LEMMA Release ==
  ASSUME IInv, dead = "no", NEW p \in Peers, Held(p),
         Held(p)' => Held(p),
         \A q \in Peers \ {p} : Held(q)' <=> Held(q),
         UNCHANGED <<peers, dead>>
  PROVE  Implements
<1>1. CASE Held(p)'
  BY <1>1, Unseen
<1>2. CASE ~Held(p)'
  <2>1. Lifecycle(p)!Release
    BY <1>2 DEF Lifecycle!Release, IInv, Inv, Life, Staged
  <2>2. ASSUME NEW q \in Peers \ {p} PROVE UNCHANGED Lifecycle(q)!vars
    <3>1. Held(q)' = Held(q)
      BY DEF Held
    <3> QED
      BY <3>1 DEF Lifecycle!vars
  <2> QED
    BY <2>1, <2>2 DEF Implements, Lifecycle!Next
<1> QED
  BY <1>1, <1>2

LEMMA DropGood == ASSUME IInv, dead = "no", Drop PROVE Good
<1> USE DEF IInv, Inv, Drop
<1>1. PICK to \in {"idle", "stop"} :
        /\ Move("io", "drop", to)
        /\ to = "idle" => handled \in peer_map_
        /\ to = "stop" => handled \notin peer_map_
        /\ target' = [target EXCEPT
                        !["io"] = IF to = "idle" THEN NoPeer ELSE handled]
  OBVIOUS
<1>2. /\ DOMAIN pc' = Threads /\ pc'["io"] = to
      /\ \A u \in Threads \ {"io"} : pc'[u] = pc[u]
      /\ \A u \in Threads : pc'[u] \in Labels[u]
  BY <1>1, Moves DEF Typed, Threads, Labels, TerminateLabels
<1>3. PICK p \in Peers :
        p = handled /\ handled' = NoPeer /\ request.session \in Sessions
  BY DEF Life, Handling, Responses
<1>4. /\ target' \in [Threads -> Peers \cup {NoPeer}]
      /\ to = "stop" => target'["io"] = handled
      /\ \A u \in Threads \ {"io"} : target'[u] = target[u]
  BY <1>1, <1>3 DEF Typed, Control, Threads
<1>5. /\ session' \in [Sessions -> {"none", "reading", "handling",
                                    "waiting", "writing"}]
      /\ \A u \in Sessions \ {request.session} : session'[u] = session[u]
      /\ session[request.session] = "handling" =>
           session'[request.session] = "waiting"
      /\ session[request.session] # "handling" => session' = session
  BY <1>3, Becoming DEF Typed, HttpOK
<1>6. Typed'
  BY <1>2, <1>4, <1>5 DEF Typed, Control, MapOK, HttpOK, PeersOK
<1>7. Round'
  BY StayRound
<1>8. Responses'
  <2>1. \A q \in Peers : on_local_sdp_fn_[q] # NoSession =>
          session'[on_local_sdp_fn_[q]] = "waiting"
    BY <1>3, <1>5 DEF Responses, Awaits, Typed, HttpOK
  <2>2. Unwritten'
    BY <1>3, <1>5 DEF Responses, Unwritten
  <2> QED
    BY <1>2, <1>3, <2>1, <2>2 DEF Responses, InHandler, Awaits
<1>9. /\ \A q \in Peers \ {p} : Held(q)' <=> Held(q)
      /\ Held(p) /\ (Held(p)' <=> p \in peer_map_)
  BY <1>3, NullAssumption DEF Held
<1>10. Staged'
  BY <1>3, <1>9 DEF Life, Staged
<1>11. Handling'
  BY <1>2, <1>3 DEF Handling
<1>12. Terminating'
  <2>1. stage[p] \in {"open", "closed"}
    BY <1>3, <1>9 DEF Life, Staged
  <2>2. pc["cleaner"] \in TerminateLabels => target["cleaner"] # p
    BY <1>9 DEF Life, Terminating, Threads
  <2>3. /\ pc'["cleaner"] = pc["cleaner"]
        /\ target'["cleaner"] = target["cleaner"]
    BY <1>2, <1>4 DEF Threads
  <2>4. ASSUME NEW t \in Threads, pc'[t] \in TerminateLabels
        PROVE /\ target'[t] \in Peers
              /\ stage[target'[t]] \in {"open", "closed"}
              /\ pc'[t] # "stop" => over[target'[t]]
              /\ pc'[t] \in {"close", "free"} =>
                   on_local_sdp_fn_[target'[t]] = NoSession
              /\ pc'[t] = "free" => stage[target'[t]] = "closed"
              /\ target'[t] \notin peer_map_
    <3>1. CASE t = "io"
      BY <1>1, <1>2, <1>3, <1>4, <2>1, <2>4, <3>1 DEF TerminateLabels
    <3>2. CASE t # "io"
      BY <1>2, <1>4, <2>4, <3>2 DEF Life, Terminating, Held
    <3> QED
      BY <3>1, <3>2
  <2> QED
    BY <1>2, <1>3, <1>4, <2>2, <2>3, <2>4, NullAssumption
    DEF Terminating, TerminateLabels, Held
<1>13. Implements
  BY <1>9, Release
<1> QED
  BY <1>6, <1>7, <1>8, <1>10, <1>11, <1>12, <1>13 DEF Life, Good

-----------------------------------------------------------------------------
(* Terminate, on either thread.                                            *)

\* What holds of the peer that a thread terminates, and of the other one.
LEMMA Target ==
  ASSUME IInv, NEW t \in Threads, pc[t] \in TerminateLabels
  PROVE  /\ target[t] \in Peers
         /\ stage[target[t]] \in {"open", "closed"}
         /\ pc[t] # "stop" => over[target[t]]
         /\ pc[t] \in {"close", "free"} =>
              on_local_sdp_fn_[target[t]] = NoSession
         /\ Held(target[t]) => t = "io" /\ handled = target[t]
         /\ pc[t] = "free" => /\ stage[target[t]] = "closed"
                              /\ ~Held(target[t])
         /\ pc["io"] = "hook" => handled # target[t]
         /\ \A u \in Threads \ {t} :
              pc[u] \in TerminateLabels => target[u] # target[t]
<1>1. pc[t] = "free" => ~Held(target[t])
  BY NullAssumption DEF IInv, Inv, Life, Handling, Terminating
<1>2. pc["io"] = "hook" => handled # target[t]
  BY DEF IInv, Inv, Life, Handling, Terminating, Held, TerminateLabels
<1>3. \A u \in Threads \ {t} :
        pc[u] \in TerminateLabels => target[u] # target[t]
  BY DEF IInv, Inv, Life, Terminating, Threads
<1> QED
  BY <1>1, <1>2, <1>3 DEF IInv, Inv, Life, Terminating

LEMMA StopGood ==
  ASSUME IInv, dead = "no", NEW t \in Threads, Stop(t)
  PROVE  Good
<1> USE DEF IInv, Inv, Stop
<1>1. /\ DOMAIN pc' = Threads /\ pc[t] = "stop" /\ pc'[t] = "clear"
      /\ \A u \in Threads \ {t} : pc'[u] = pc[u]
      /\ \A u \in Threads : pc'[u] \in Labels[u]
  BY Moves DEF Typed, Threads, Labels, TerminateLabels
<1>2. PICK p \in Peers : p = target[t] /\ stage[p] \in {"open", "closed"}
  BY <1>1, Target DEF TerminateLabels
<1>3. /\ ~connected'[p] /\ over'[p]
      /\ \A q \in Peers \ {p} :
           connected'[q] = connected[q] /\ over'[q] = over[q]
      /\ connected' = [connected EXCEPT ![p] = FALSE]
      /\ over' = [over EXCEPT ![p] = TRUE]
  BY <1>2 DEF Typed, PeersOK
<1>4. Typed'
  BY <1>1, <1>2, <1>3 DEF Typed, Control, MapOK, HttpOK, PeersOK
<1>5. Round'
  BY StayRound
<1>6. Responses'
  BY <1>1 DEF Responses, Unwritten, InHandler, Awaits
<1>7. \A q \in Peers : Held(q)' <=> Held(q)
  BY DEF Held
<1>8. Staged'
  BY <1>2, <1>3, <1>7 DEF Life, Staged
<1>9. Handling'
  BY <1>1 DEF Life, Handling, Threads
<1>10. Terminating'
  <2>1. \A u \in Threads :
          pc'[u] \in TerminateLabels <=> pc[u] \in TerminateLabels
    BY <1>1 DEF TerminateLabels
  <2>2. \A q \in Peers : over[q] => over'[q]
    BY <1>3
  <2> QED
    BY <1>1, <1>2, <1>3, <1>7, <2>1, <2>2 DEF Life, Terminating, Threads
<1>11. Implements
  <2>1. ASSUME NEW q \in Peers \ {p} PROVE UNCHANGED Lifecycle(q)!vars
    <3>1. Held(q)' = Held(q)
      BY DEF Held
    <3> QED
      BY <1>3, <3>1 DEF Lifecycle!vars
  <2>2. Held(p)' = Held(p)
    BY DEF Held
  <2>3. CASE stage[p] = "open"
    <3>1. Lifecycle(p)!End
      BY <1>3, <2>2, <2>3 DEF Lifecycle!End
    <3> QED
      BY <2>1, <3>1 DEF Implements, Lifecycle!Next
  <2>4. CASE stage[p] = "closed"
    <3>1. ~connected[p] /\ over[p] /\ connected[p] \in BOOLEAN
          /\ over[p] \in BOOLEAN
      BY <2>4 DEF Life, Staged, Typed, PeersOK
    <3>2. connected'[p] = connected[p] /\ over'[p] = over[p]
      BY <1>3, <3>1 DEF Typed, PeersOK
    <3>3. UNCHANGED Lifecycle(p)!vars
      BY <2>2, <3>2 DEF Lifecycle!vars
    <3> QED
      BY <2>1, <3>3 DEF Implements
  <2> QED
    BY <1>2, <2>3, <2>4
<1> QED
  BY <1>4, <1>5, <1>6, <1>8, <1>9, <1>10, <1>11 DEF Life, Good

LEMMA ClearFnGood ==
  ASSUME IInv, NEW t \in Threads, ClearFn(t)
  PROVE  Good
<1> USE DEF IInv, Inv, ClearFn
<1>1. /\ DOMAIN pc' = Threads /\ pc[t] = "clear" /\ pc'[t] = "close"
      /\ \A u \in Threads \ {t} : pc'[u] = pc[u]
      /\ \A u \in Threads : pc'[u] \in Labels[u]
  BY Moves DEF Typed, Threads, Labels, TerminateLabels
<1>2. PICK p \in Peers : /\ p = target[t] /\ over[p]
                         /\ pc["io"] = "hook" => handled # p
  BY <1>1, Target DEF TerminateLabels
<1>3. /\ on_local_sdp_fn_' \in [Peers -> Sessions \cup {NoSession}]
      /\ on_local_sdp_fn_'[p] = NoSession
      /\ \A q \in Peers \ {p} : on_local_sdp_fn_'[q] = on_local_sdp_fn_[q]
  BY <1>2 DEF Typed, HttpOK
<1>4. /\ session' \in [Sessions -> {"none", "reading", "handling",
                                    "waiting", "writing"}]
      /\ \A u \in Sessions : session'[u] = session[u]
           \/ /\ u = on_local_sdp_fn_[p] /\ session[u] = "waiting"
              /\ session'[u] = "none"
  BY <1>2, Becoming DEF Typed, HttpOK
<1>5. Typed'
  BY <1>1, <1>3, <1>4 DEF Typed, Control, MapOK, HttpOK, PeersOK
<1>6. Round'
  BY StayRound
<1>7. Responses'
  <2>1. Unwritten'
    BY <1>4 DEF Responses, Unwritten
  <2>2. /\ InHandler' <=> InHandler
        /\ pc'["io"] = "drop" <=> pc["io"] = "drop"
    BY <1>1 DEF InHandler, Threads
  <2>3. InHandler => session'[request.session] = "handling"
    BY <1>4 DEF Responses
  <2>4. ASSUME NEW q \in Peers, on_local_sdp_fn_'[q] # NoSession
        PROVE  Awaits(q)'
    <3>1. /\ q # p /\ on_local_sdp_fn_'[q] = on_local_sdp_fn_[q]
          /\ on_local_sdp_fn_[q] # on_local_sdp_fn_[p]
          /\ on_local_sdp_fn_[q] \in Sessions
      BY <1>2, <1>3, <2>4 DEF Responses, Typed, HttpOK
    <3>2. session'[on_local_sdp_fn_[q]] = session[on_local_sdp_fn_[q]]
      BY <1>4, <3>1
    <3>3. pc["io"] \in {"offer", "drop"} => pc'["io"] = pc["io"]
      BY <1>1
    <3> QED
      BY <2>4, <3>1, <3>2, <3>3 DEF Responses, Awaits
  <2>5. \A q \in Peers, r \in Peers :
          on_local_sdp_fn_'[q] # NoSession
            /\ on_local_sdp_fn_'[r] = on_local_sdp_fn_'[q] => r = q
    BY <1>3 DEF Responses
  <2> QED
    BY <2>1, <2>2, <2>3, <2>4, <2>5 DEF Responses
<1>8. \A q \in Peers : Held(q)' <=> Held(q)
  BY DEF Held
<1>9. Staged'
  BY <1>3, <1>8 DEF Life, Staged
<1>10. Handling'
  BY <1>1, <1>3 DEF Life, Handling, Threads
<1>11. Terminating'
  <2>1. \A u \in Threads :
          pc'[u] \in TerminateLabels <=> pc[u] \in TerminateLabels
    BY <1>1 DEF TerminateLabels
  <2>2. \A q \in Peers :
          on_local_sdp_fn_[q] = NoSession => on_local_sdp_fn_'[q] = NoSession
    BY <1>3
  <2> QED
    BY <1>1, <1>2, <1>3, <1>8, <2>1, <2>2 DEF Life, Terminating, Threads
<1>12. Implements
  BY <1>8, Unseen
<1> QED
  BY <1>5, <1>6, <1>7, <1>9, <1>10, <1>11, <1>12 DEF Life, Good

LEMMA CloseGood ==
  ASSUME IInv, dead = "no", NEW t \in Threads, Close(t)
  PROVE  Good
<1> USE DEF IInv, Inv
<1>1. PICK p \in Peers :
        /\ p = target[t] /\ over[p] /\ stage[p] \in {"open", "closed"}
        /\ on_local_sdp_fn_[p] = NoSession
        /\ Held(p) => t = "io" /\ handled = p
  BY Target DEF Close, TerminateLabels
<1>2. PICK to \in {"unmap", "free"} :
        /\ Move(t, "close", to)
        /\ to = "unmap" <=> handled = p
  BY <1>1 DEF Close
<1>3. to = "unmap" => t = "io"
  BY <1>1, <1>2 DEF Held
<1>4. /\ DOMAIN pc' = Threads /\ pc[t] = "close" /\ pc'[t] = to
      /\ \A u \in Threads \ {t} : pc'[u] = pc[u]
      /\ \A u \in Threads : pc'[u] \in Labels[u]
  BY <1>2, <1>3, Moves DEF Typed, Threads, Labels, TerminateLabels
<1>5. UNCHANGED <<peer_map_, http, over, answers, on_local_sdp_fn_, local,
                  round, deleted, dead>>
  BY DEF Close
<1>6. /\ stage' \in [Peers -> {"absent", "open", "closed", "gone"}]
      /\ connected' \in [Peers -> BOOLEAN]
      /\ stage'[p] = "closed" /\ ~connected'[p]
      /\ \A q \in Peers \ {p} :
           stage'[q] = stage[q] /\ connected'[q] = connected[q]
      /\ stage[p] = "closed" => stage' = stage /\ connected' = connected
  <2>1. CASE stage[p] = "open"
    BY <1>1, <2>1 DEF Close, Typed, PeersOK
  <2>2. CASE stage[p] = "closed"
    BY <1>1, <2>2 DEF Close, Typed, PeersOK, Life, Staged
  <2> QED
    BY <1>1, <2>1, <2>2
<1>7. Typed'
  BY <1>4, <1>5, <1>6 DEF Typed, Control, MapOK, HttpOK, PeersOK
<1>8. Round'
  BY <1>5, StayRound
<1>9. Responses'
  <2>1. \A s \in {"offer", "drop", "insert", "hook", "find", "serve",
                  "accepted"} : pc'["io"] = s <=> pc["io"] = s
    BY <1>2, <1>4 DEF Threads
  <2>2. InHandler' <=> InHandler
    <3>1. CASE t = "io"
      <4>1. to = "unmap" <=> handled # NoPeer
        BY <1>1, <1>2, <1>4, <3>1, NullAssumption DEF Life, Handling
      <4> QED
        BY <1>2, <1>4, <1>5, <3>1, <4>1 DEF InHandler
    <3>2. CASE t # "io"
      BY <1>4, <1>5, <3>2 DEF InHandler, Threads
    <3> QED
      BY <3>1, <3>2
  <2> QED
    BY <1>5, <2>1, <2>2 DEF Responses, Unwritten, Awaits
<1>10. \A q \in Peers : Held(q)' <=> Held(q)
  BY <1>5 DEF Held
<1>11. Staged'
  BY <1>1, <1>5, <1>6, <1>10 DEF Life, Staged
<1>12. Handling'
  <2>1. pc["io"] = "unmap" => stage'[handled] = "closed"
    BY <1>6 DEF Life, Handling
  <2> QED
    BY <1>1, <1>2, <1>4, <1>5, <1>6, <2>1 DEF Life, Handling, Threads
<1>13. Terminating'
  <2>1. \A u \in Threads :
          pc'[u] \in TerminateLabels => pc[u] \in TerminateLabels
    BY <1>4 DEF TerminateLabels
  <2>2. \A q \in Peers : /\ stage[q] \in {"open", "closed"} =>
                              stage'[q] \in {"open", "closed"}
                         /\ stage[q] = "closed" => stage'[q] = "closed"
    BY <1>6
  <2> QED
    BY <1>1, <1>2, <1>4, <1>5, <1>6, <1>10, <2>1, <2>2
    DEF Life, Terminating, Threads
<1>14. Implements
  <2>1. ASSUME NEW q \in Peers \ {p} PROVE UNCHANGED Lifecycle(q)!vars
    <3>1. Held(q)' = Held(q)
      BY <1>5 DEF Held
    <3> QED
      BY <1>5, <1>6, <3>1 DEF Lifecycle!vars
  <2>2. Held(p)' = Held(p)
    BY <1>5 DEF Held
  <2>3. CASE stage[p] = "open"
    <3>1. connected'[p] = FALSE /\ over[p] = TRUE
      BY <1>1, <1>6 DEF Typed, PeersOK
    <3>2. Lifecycle(p)!Close
      BY <1>5, <1>6, <2>2, <2>3, <3>1 DEF Lifecycle!Close
    <3> QED
      BY <2>1, <3>2 DEF Implements, Lifecycle!Next
  <2>4. CASE stage[p] = "closed"
    <3>1. UNCHANGED Lifecycle(p)!vars
      BY <1>5, <1>6, <2>2, <2>4 DEF Lifecycle!vars
    <3> QED
      BY <2>1, <3>1 DEF Implements
  <2> QED
    BY <1>1, <2>3, <2>4
<1> QED
  BY <1>7, <1>8, <1>9, <1>11, <1>12, <1>13, <1>14 DEF Life, Good

LEMMA FreeGood ==
  ASSUME IInv, dead = "no", NEW t \in Threads, Free(t)
  PROVE  Good
<1> USE DEF IInv, Inv
<1>1. PICK p \in Peers :
        /\ p = target[t] /\ over[p] /\ stage[p] = "closed" /\ ~Held(p)
        /\ on_local_sdp_fn_[p] = NoSession
        /\ \A u \in Threads \ {t} : pc[u] \in TerminateLabels => target[u] # p
  BY Target DEF Free, TerminateLabels
<1>2. PICK to \in {"look", "idle"} :
        Move(t, "free", to) /\ (to = "look" => t = "cleaner")
  BY DEF Free
<1>3. /\ DOMAIN pc' = Threads /\ pc[t] = "free" /\ pc'[t] = to
      /\ \A u \in Threads \ {t} : pc'[u] = pc[u]
      /\ \A u \in Threads : pc'[u] \in Labels[u]
  BY <1>2, Moves DEF Typed, Threads, Labels, TerminateLabels
<1>4. UNCHANGED <<peer_map_, http, connected, over, answers,
                  on_local_sdp_fn_, request, handled, round, deleted, dead>>
  BY DEF Free
<1>5. /\ stage' \in [Peers -> {"absent", "open", "closed", "gone"}]
      /\ stage'[p] = "gone" /\ \A q \in Peers \ {p} : stage'[q] = stage[q]
      /\ target' \in [Threads -> Peers \cup {NoPeer}]
      /\ \A u \in Threads \ {t} : target'[u] = target[u]
  BY <1>1 DEF Free, Typed, PeersOK, Control
<1>6. Typed'
  BY <1>3, <1>4, <1>5 DEF Typed, Control, MapOK, HttpOK, PeersOK
<1>7. Round'
  BY <1>4, StayRound
<1>8. Responses'
  BY <1>2, <1>3, <1>4 DEF Responses, Unwritten, InHandler, Awaits, Threads
<1>9. \A q \in Peers : Held(q)' <=> Held(q)
  BY <1>4 DEF Held
<1>10. Staged'
  BY <1>1, <1>4, <1>5, <1>9 DEF Life, Staged
<1>11. Handling'
  <2>1. handled # p
    BY <1>1 DEF Held
  <2> QED
    BY <1>2, <1>3, <1>4, <1>5, <2>1 DEF Life, Handling, Threads
<1>12. Terminating'
  <2>1. ASSUME NEW u \in Threads, pc'[u] \in TerminateLabels
        PROVE  /\ u # t /\ pc'[u] = pc[u] /\ target'[u] = target[u]
               /\ target[u] \in Peers \ {p}
               /\ stage'[target[u]] = stage[target[u]]
    <3>1. u # t
      BY <1>2, <1>3, <2>1 DEF TerminateLabels
    <3> QED
      BY <1>1, <1>3, <1>5, <2>1, <3>1, Target
  <2>2. ~(pc'["io"] \in TerminateLabels /\ pc'["cleaner"] \in TerminateLabels)
    BY <2>1 DEF Threads
  <2>3. ASSUME NEW u \in Threads, pc'[u] \in TerminateLabels
        PROVE /\ target'[u] \in Peers
              /\ stage'[target'[u]] \in {"open", "closed"}
              /\ pc'[u] # "stop" => over'[target'[u]]
              /\ pc'[u] \in {"close", "free"} =>
                   on_local_sdp_fn_'[target'[u]] = NoSession
              /\ pc'[u] = "free" => stage'[target'[u]] = "closed"
              /\ Held(target[u])' => u = "io" /\ handled' = target'[u]
    <3>1. /\ u # t /\ pc'[u] = pc[u] /\ target'[u] = target[u]
          /\ stage'[target[u]] = stage[target[u]]
      BY <2>1, <2>3
    <3>2. Held(target[u])' <=> Held(target[u])
      BY <1>4, <3>1 DEF Held
    <3> QED
      BY <1>4, <2>3, <3>1, <3>2 DEF Life, Terminating
  <2> QED
    BY <2>2, <2>3 DEF Terminating
<1>13. Implements
  <2>1. ASSUME NEW q \in Peers \ {p} PROVE UNCHANGED Lifecycle(q)!vars
    <3>1. Held(q)' = Held(q)
      BY <1>4 DEF Held
    <3> QED
      BY <1>4, <1>5, <3>1 DEF Lifecycle!vars
  <2>2. Held(p)' = Held(p)
    BY <1>4 DEF Held
  <2>3. Lifecycle(p)!Destroy
    BY <1>1, <1>4, <1>5, <2>2 DEF Lifecycle!Destroy
  <2> QED
    BY <2>1, <2>3 DEF Implements, Lifecycle!Next
<1> QED
  BY <1>6, <1>7, <1>8, <1>10, <1>11, <1>12, <1>13 DEF Life, Good

LEMMA TerminateGood ==
  ASSUME IInv, dead = "no", NEW t \in Threads, Terminate(t)
  PROVE  Good
BY StopGood, ClearFnGood, CloseGood, FreeGood DEF Terminate

-----------------------------------------------------------------------------
(* cleaner_.                                                               *)

\* A step of the iterator.
LEMMA RoundGood ==
  ASSUME IInv, NEW from \in {"idle", "look", "erase"},
         NEW to \in {"idle", "look", "erase"},
         Move("cleaner", from, to), MapOK', Round',
         UNCHANGED <<peer_map_, http, peers, on_local_sdp_fn_, local, deleted,
                     dead>>
  PROVE  Good
<1> USE DEF IInv, Inv
<1>1. /\ DOMAIN pc' = Threads /\ pc["cleaner"] = from
      /\ pc'["cleaner"] = to /\ pc'["io"] = pc["io"]
      /\ \A u \in Threads : pc'[u] \in Labels[u]
  BY Moves DEF Typed, Threads, Labels
<1>2. Typed'
  BY <1>1 DEF Typed, Control, HttpOK, PeersOK
<1>3. Responses'
  BY <1>1, StayResponses
<1>4. Life'
  BY <1>1 DEF Life, Staged, Handling, Terminating, Held, Threads,
    TerminateLabels
<1>5. Implements
  BY Unseen DEF Held
<1> QED
  BY <1>2, <1>3, <1>4, <1>5 DEF Good

\* Where the iterator goes.
LEMMA Advancing ==
  ASSUME Typed, NEW ahead \in SUBSET peer_map_, Advance(ahead)
  PROVE  /\ todo' \subseteq ahead /\ pm_it' \notin todo'
         /\ pm_it' \in ahead \cup {NoPeer} /\ rehashed' \in BOOLEAN
         /\ Resume \in {"idle", "look"}
         /\ UNCHANGED <<peer_map_, deleted>> => MapOK' /\ Round'
<1>1. ahead \subseteq Peers
  BY DEF Typed, MapOK
<1>2. /\ todo' \subseteq ahead /\ pm_it' \notin todo'
      /\ pm_it' \in ahead \cup {NoPeer}
  BY <1>1 DEF Advance
<1>3. rehashed' \in BOOLEAN
  BY Zenon DEF Advance
<1> QED
  BY <1>1, <1>2, <1>3 DEF Typed, MapOK, Round, Resume

LEMMA EraseGood == ASSUME IInv, dead = "no", Erase PROVE Good
<1> USE DEF IInv, Inv, Erase, EraseFrom
<1>1. PICK p \in Peers : p = pm_it /\ p \in peer_map_
  BY DEF Typed, MapOK
<1>2. /\ todo' \subseteq todo /\ pm_it' \notin todo'
      /\ pm_it' \in todo \cup {NoPeer} /\ Resume \in {"idle", "look"}
      /\ rehashed' \in BOOLEAN
  BY Advancing DEF Round
<1>3. PICK to \in {"idle", "look", "stop"} :
        /\ Move("cleaner", "erase", to)
        /\ to = "stop" => /\ handled # p
                          /\ target' = [target EXCEPT !["cleaner"] = p]
        /\ to # "stop" => UNCHANGED target
  BY <1>1, <1>2
<1>4. /\ DOMAIN pc' = Threads /\ pc["cleaner"] = "erase"
      /\ pc'["cleaner"] = to /\ pc'["io"] = pc["io"]
      /\ \A u \in Threads : pc'[u] \in Labels[u]
  BY <1>3, Moves DEF Typed, Threads, Labels, TerminateLabels
<1>5. /\ target' \in [Threads -> Peers \cup {NoPeer}]
      /\ target'["io"] = target["io"]
      /\ to = "stop" => target'["cleaner"] = p
  BY <1>1, <1>3 DEF Typed, Control, Threads
<1>6. Typed'
  BY <1>2, <1>4, <1>5 DEF Typed, Control, MapOK, HttpOK, PeersOK
<1>7. Round'
  BY <1>1, <1>2 DEF Round
<1>8. Responses'
  BY <1>4, StayResponses
<1>9. /\ \A q \in Peers : Held(q)' => Held(q)
      /\ \A q \in Peers \ {p} : Held(q)' <=> Held(q)
      /\ Held(p) /\ (Held(p)' => handled = p)
  BY <1>1 DEF Held
<1>10. Staged'
  BY <1>9 DEF Life, Staged
<1>11. Handling'
  BY <1>4, <1>5 DEF Life, Handling
<1>12. Terminating'
  <2>1. stage[p] \in {"open", "closed"}
    BY <1>9 DEF Life, Staged
  <2>2. pc["io"] \in TerminateLabels /\ to = "stop" => target["io"] # p
    BY <1>3, <1>9 DEF Life, Terminating, Threads
  <2>3. \A q \in Peers : q # p => (Held(q)' => Held(q))
    BY <1>9
  <2>4. ASSUME NEW u \in Threads, pc'[u] \in TerminateLabels
        PROVE /\ target'[u] \in Peers
              /\ stage[target'[u]] \in {"open", "closed"}
              /\ pc'[u] # "stop" => over[target'[u]]
              /\ pc'[u] \in {"close", "free"} =>
                   on_local_sdp_fn_[target'[u]] = NoSession
              /\ pc'[u] = "free" => stage[target'[u]] = "closed"
              /\ target'[u] \in peer_map_' \/ handled = target'[u] =>
                   u = "io" /\ handled = target'[u]
    <3>1. CASE u = "io"
      <4>1. pc["io"] \in TerminateLabels /\ u \in Threads
        BY <1>4, <2>4, <3>1
      <4> QED
        BY <1>4, <1>5, <3>1, <4>1 DEF Life, Terminating, Held
    <3>2. CASE u # "io"
      <4>1. u = "cleaner" /\ to = "stop"
        BY <1>4, <2>4, <3>2 DEF Threads, TerminateLabels
      <4> QED
        BY <1>1, <1>3, <1>4, <1>5, <2>1, <4>1
    <3> QED
      BY <3>1, <3>2
  <2>5. pc'["cleaner"] \in TerminateLabels => to = "stop"
    BY <1>4 DEF TerminateLabels
  <2> QED
    BY <1>4, <1>5, <2>2, <2>4, <2>5 DEF Terminating, Held
<1>13. Implements
  BY <1>9, Release
<1> QED
  BY <1>6, <1>7, <1>8, <1>10, <1>11, <1>12, <1>13 DEF Life, Good

LEMMA CleanerGood == ASSUME IInv, dead = "no", Cleaner PROVE Good
<1> USE DEF IInv, Inv
<1>1. CASE BeginRound
  BY <1>1, Advancing, RoundGood DEF BeginRound
<1>2. CASE Look
  <2>1. CASE connected[pm_it]
    BY <1>2, <2>1, Advancing, RoundGood DEF Look, Round
  <2>2. CASE ~connected[pm_it]
    <3>1. MapOK' /\ Round'
      BY <1>2, <2>2 DEF Look, Typed, MapOK, Round
    <3> QED
      BY <1>2, <2>2, <3>1, RoundGood DEF Look
  <2> QED
    BY <2>1, <2>2
<1>3. CASE Erase
  BY <1>3, EraseGood
<1>4. CASE Stale
  <2>1. CASE Die("iterator")
    BY <2>1, Dies DEF Good
  <2>2. CASE ~Die("iterator")
    BY <1>4, <2>2, Advancing, RoundGood DEF Stale, Round
  <2> QED
    BY <2>1, <2>2
<1>5. CASE Terminate("cleaner")
  BY <1>5, TerminateGood DEF Threads
<1> QED
  BY <1>1, <1>2, <1>3, <1>4, <1>5 DEF Cleaner

-----------------------------------------------------------------------------
(* The peers.                                                              *)

LEMMA AnswerGood ==
  ASSUME IInv, dead = "no", NEW p \in Peers, Answer(p)
  PROVE  Good
<1> USE DEF IInv, Inv, Answer
<1>1. PICK s \in Sessions :
        /\ s = on_local_sdp_fn_[p]
        /\ \/ session[s] = "waiting"
           \/ session[s] = "handling" /\ request.session = s
              /\ handled = p /\ pc["io"] = "drop"
  BY DEF Typed, HttpOK, Responses, Awaits
<1>2. answers[p] = 0 /\ stage[p] \in {"open", "closed"}
  BY DEF Life, Staged
<1>3. /\ session' \in [Sessions -> {"none", "reading", "handling",
                                    "waiting", "writing"}]
      /\ \A u \in Sessions \ {s} : session'[u] = session[u]
      /\ DOMAIN res_' = Sessions
      /\ \A u \in Sessions : res_'[u] \in Seq(Statuses)
      /\ Unwritten'
  BY <1>1, Writing DEF Typed, Responses, Statuses
<1>4. /\ on_local_sdp_fn_' \in [Peers -> Sessions \cup {NoSession}]
      /\ on_local_sdp_fn_'[p] = NoSession
      /\ \A q \in Peers \ {p} : on_local_sdp_fn_'[q] = on_local_sdp_fn_[q]
  BY DEF Typed, HttpOK
<1>5. /\ answers' \in [Peers -> {0, 1}] /\ answers'[p] = 1
      /\ \A q \in Peers \ {p} : answers'[q] = answers[q]
  BY <1>2 DEF Typed, PeersOK
<1>6. Typed'
  BY <1>3, <1>4, <1>5 DEF Typed, Control, MapOK, HttpOK, PeersOK
<1>7. Round'
  BY StayRound
<1>8. Responses'
  <2>1. InHandler => request.session # s
    BY <1>1 DEF Responses, InHandler
  <2>2. InHandler' <=> InHandler
    BY DEF InHandler
  <2>3. ASSUME NEW q \in Peers, on_local_sdp_fn_'[q] # NoSession
        PROVE  Awaits(q)'
    <3>1. /\ q # p /\ on_local_sdp_fn_'[q] = on_local_sdp_fn_[q]
          /\ on_local_sdp_fn_[q] \in Sessions \ {s}
      BY <1>1, <1>4, <2>3 DEF Responses, Typed, HttpOK
    <3> QED
      BY <1>3, <2>3, <3>1 DEF Responses, Awaits
  <2>4. \A q \in Peers, r \in Peers :
          on_local_sdp_fn_'[q] # NoSession
            /\ on_local_sdp_fn_'[r] = on_local_sdp_fn_'[q] => r = q
    BY <1>4 DEF Responses
  <2> QED
    BY <1>3, <2>1, <2>2, <2>3, <2>4 DEF Responses
<1>9. Staged'
  BY <1>2, <1>4, <1>5 DEF Life, Staged, Held
<1>10. Handling'
  <2>1. pc["io"] = "hook" => handled # p
    BY DEF Life, Handling
  <2> QED
    BY <1>4, <1>5, <2>1 DEF Life, Handling
<1>11. Terminating'
  <2>1. \A q \in Peers :
          on_local_sdp_fn_[q] = NoSession => on_local_sdp_fn_'[q] = NoSession
    BY <1>4
  <2> QED
    BY <2>1 DEF Life, Terminating, Held
<1>12. Implements
  <2>1. ASSUME NEW q \in Peers \ {p} PROVE UNCHANGED Lifecycle(q)!vars
    <3>1. Held(q)' = Held(q)
      BY DEF Held
    <3> QED
      BY <1>5, <3>1 DEF Lifecycle!vars
  <2>2. Held(p)' = Held(p)
    BY DEF Held
  <2>3. Lifecycle(p)!Answer
    BY <1>2, <1>5, <2>2 DEF Lifecycle!Answer
  <2> QED
    BY <2>1, <2>3 DEF Implements, Lifecycle!Next
<1> QED
  BY <1>6, <1>7, <1>8, <1>9, <1>10, <1>11, <1>12 DEF Life, Good

\* What a peer does by itself: it connects, disconnects, or closes.
LEMMA PeerStep ==
  ASSUME IInv, NEW p \in Peers, stage[p] = "open",
         NEW to \in {"open", "closed"}, NEW value \in BOOLEAN,
         NEW ended \in BOOLEAN,
         stage' = [stage EXCEPT ![p] = to],
         connected' = [connected EXCEPT ![p] = value],
         over' = [over EXCEPT ![p] = ended],
         over[p] => ended, to = "closed" => ~value /\ ended,
         Lifecycle(p)!Next,
         UNCHANGED <<peer_map_, http, answers, on_local_sdp_fn_, pc, local,
                     round, deleted, dead>>
  PROVE  Good
<1> USE DEF IInv, Inv
<1>1. /\ stage' \in [Peers -> {"absent", "open", "closed", "gone"}]
      /\ connected' \in [Peers -> BOOLEAN] /\ over' \in [Peers -> BOOLEAN]
      /\ stage'[p] = to /\ connected'[p] = value /\ over'[p] = ended
      /\ \A q \in Peers \ {p} : /\ stage'[q] = stage[q] /\ over'[q] = over[q]
                                /\ connected'[q] = connected[q]
  BY DEF Typed, PeersOK
<1>2. Typed'
  BY <1>1 DEF Typed, Control, MapOK, HttpOK, PeersOK
<1>3. Round'
  BY StayRound
<1>4. Responses'
  BY DEF Responses, Unwritten, InHandler, Awaits
<1>5. Staged'
  BY <1>1 DEF Life, Staged, Held
<1>6. Handling'
  <2>1. pc["io"] = "unmap" => handled # p
    BY DEF Life, Handling
  <2> QED
    BY <1>1, <2>1 DEF Life, Handling
<1>7. Terminating'
  <2>1. \A q \in Peers : /\ stage[q] \in {"open", "closed"} =>
                              stage'[q] \in {"open", "closed"}
                         /\ stage[q] = "closed" => stage'[q] = "closed"
                         /\ over[q] => over'[q]
    BY <1>1
  <2> QED
    BY <2>1 DEF Life, Terminating, Held
<1>8. Implements
  <2>1. ASSUME NEW q \in Peers \ {p} PROVE UNCHANGED Lifecycle(q)!vars
    <3>1. Held(q)' = Held(q)
      BY DEF Held
    <3> QED
      BY <1>1, <3>1 DEF Lifecycle!vars
  <2> QED
    BY <2>1 DEF Implements
<1> QED
  BY <1>2, <1>3, <1>4, <1>5, <1>6, <1>7, <1>8 DEF Life, Good

LEMMA SetConnectedGood ==
  ASSUME IInv, dead = "no", NEW p \in Peers, NEW value \in BOOLEAN,
         SetConnected(p, value)
  PROVE  Good
<1>1. /\ connected'[p] = value /\ Held(p)' = Held(p) /\ answers[p] \in {0, 1}
      /\ stage' = [stage EXCEPT ![p] = "open"]
      /\ over' = [over EXCEPT ![p] = over[p]] /\ over[p] \in BOOLEAN
  BY DEF SetConnected, Held, IInv, Typed, PeersOK
<1>2. Lifecycle(p)!Connect \/ Lifecycle(p)!Disconnect
  BY <1>1 DEF SetConnected, Lifecycle!Connect, Lifecycle!Disconnect
<1>3. Lifecycle(p)!Next
  BY <1>2 DEF Lifecycle!Next
<1> QED
  BY <1>1, <1>3, PeerStep DEF SetConnected

LEMMA CloseByItselfGood ==
  ASSUME IInv, dead = "no", NEW p \in Peers, CloseByItself(p)
  PROVE  Good
<1>1. /\ stage'[p] = "closed" /\ connected'[p] = FALSE /\ over'[p] = TRUE
      /\ Held(p)' = Held(p)
  BY DEF CloseByItself, Held, IInv, Typed, PeersOK
<1>2. Lifecycle(p)!Close
  BY <1>1 DEF CloseByItself, Lifecycle!Close
<1>3. Lifecycle(p)!Next
  BY <1>2 DEF Lifecycle!Next
<1> QED
  BY <1>3, PeerStep DEF CloseByItself

-----------------------------------------------------------------------------
LEMMA NextGood == IInv /\ [Next]_vars => Good
<1> SUFFICES ASSUME IInv, [Next]_vars PROVE Good
  OBVIOUS
<1>1. CASE UNCHANGED vars
  <2>1. IInv'
    BY <1>1, StayIInv DEF IInv, Typed, Control
  <2>2. Implements
    BY <1>1, Unseen DEF Held
  <2> QED
    BY <2>1, <2>2 DEF Good
<1>2. CASE dead = "no" /\ \E s \in Sessions : Client(s)
  BY <1>2, ClientGood
<1>3. CASE dead = "no" /\ Io
  BY <1>3, InsertGood, OnLocalSdpGood, OfferGood, FindGood, ServeGood,
    UnmapGood, AcceptedGood, DropGood, TerminateGood DEF Io, Threads
<1>4. CASE dead = "no" /\ Cleaner
  BY <1>4, CleanerGood
<1>5. CASE dead = "no" /\ MapRace
  BY <1>5, Dies DEF MapRace, Good
<1>6. CASE dead = "no" /\ \E p \in Peers : Peer(p)
  BY <1>6, AnswerGood, SetConnectedGood, CloseByItselfGood DEF Peer
<1> QED
  BY <1>1, <1>2, <1>3, <1>4, <1>5, <1>6 DEF Next, Over

THEOREM Invariance == Spec => []IInv
<1>1. IInv /\ [Next]_vars => IInv'
  BY NextGood DEF Good
<1> QED
  BY <1>1, InitIInv, PTL DEF Spec

-----------------------------------------------------------------------------
\* For every set of peers and of sessions: types,
THEOREM TypeCorrect == Spec => []TypeOK
<1>1. IInv => TypeOK
  BY TypedIsTypeOK DEF IInv
<1> QED
  BY <1>1, Invariance, PTL

\* a request gets one response at most,
THEOREM ResponseCorrect == Spec => []OneResponse
<1>1. IInv => OneResponse
  BY DEF IInv, Inv, Responses, Unwritten, OneResponse
<1> QED
  BY <1>1, Invariance, PTL

\* what a DELETE removed stays removed and closed,
THEOREM DeleteCorrect == Spec => []DeletedIsFinal
<1>1. IInv => DeletedIsFinal
  BY DEF IInv, Inv, Life, Staged, Typed, MapOK, DeletedIsFinal
<1> QED
  BY <1>1, Invariance, PTL

\* A cleaner that uses the iterator is not at the end of the map.
AtPeer == pc["cleaner"] \in {"look", "erase"} => pm_it # NoPeer

\* Who has invalidated the iterator, if that has ended the process.
Cause == dead = "iterator" => pm_it \in deleted \/ rehashed

LEMMA ClientPlace ==
  ASSUME NEW s \in Sessions, Client(s), dead = "no"
  PROVE  /\ dead' # "iterator" /\ UNCHANGED pm_it
         /\ UNCHANGED pc \/ \E from, to : Move("io", from, to)
<1>1. ASSUME NEW req, NEW label, Handle(req, label)
      PROVE  UNCHANGED <<dead, pm_it>> /\ \E from, to : Move("io", from, to)
  BY <1>1 DEF Handle
<1>2. ASSUME NEW status, Respond(s, status) PROVE UNCHANGED <<dead, pm_it, pc>>
  BY <1>2 DEF Respond
<1>3. ASSUME NEW cause, cause # "iterator", Die(cause)
      PROVE  dead' # "iterator" /\ UNCHANGED <<pm_it, pc>>
  BY <1>3 DEF Die
<1>4. CASE Accept(s) \/ EndSession(s)
  BY <1>4 DEF Accept, EndSession
<1>5. CASE Plain(s) \/ Post(s)
  BY <1>1, <1>2, <1>5 DEF Plain, Post
<1>6. CASE Patch(s) \/ Delete(s)
  BY <1>1, <1>2, <1>3, <1>6 DEF Patch, Delete, Unmatched, Guarded, Served
<1> QED
  BY <1>4, <1>5, <1>6 DEF Client

\* A step of io or of a peer neither uses the iterator nor moves it.
LEMMA StayCause ==
  ASSUME IInv, AtPeer, Cause, dead = "no",
         Io \/ (\E s \in Sessions : Client(s)) \/ (\E p \in Peers : Peer(p))
  PROVE  AtPeer' /\ Cause'
<1>1. dead' # "iterator" /\ UNCHANGED pm_it
  <2>1. CASE Io
    BY <2>1 DEF Io, Insert, OnLocalSdp, Offer, Find, Serve, Unmap, Accepted,
      Drop, Terminate, Stop, ClearFn, Close, Free, Die
  <2>2. CASE \E s \in Sessions : Client(s)
    BY <2>2, ClientPlace
  <2>3. CASE \E p \in Peers : Peer(p)
    BY <2>3 DEF Peer, Answer, SetConnected, CloseByItself
  <2> QED
    BY <2>1, <2>2, <2>3
<1>2. pc'["cleaner"] = pc["cleaner"]
  <2>1. CASE UNCHANGED pc
    BY <2>1
  <2>2. CASE \E from, to : Move("io", from, to)
    BY <2>2, Moves DEF IInv, Typed, Threads
  <2>3. UNCHANGED pc \/ \E from, to : Move("io", from, to)
    <3>1. CASE Io
      BY <3>1 DEF Io, Insert, OnLocalSdp, Offer, Find, GetPeer, Serve, Unmap,
        Accepted, Drop, Terminate, Stop, ClearFn, Close, Free, Die
    <3>2. CASE \E s \in Sessions : Client(s)
      BY <3>2, ClientPlace
    <3>3. CASE \E p \in Peers : Peer(p)
      BY <3>3 DEF Peer, Answer, SetConnected, CloseByItself
    <3> QED
      BY <3>1, <3>2, <3>3
  <2> QED
    BY <2>1, <2>2, <2>3
<1> QED
  BY <1>1, <1>2 DEF AtPeer, Cause

LEMMA CleanerCause ==
  ASSUME IInv, AtPeer, Cause, dead = "no", Cleaner
  PROVE  AtPeer' /\ Cause'
<1>1. CASE Stale /\ Die("iterator")
  <2>1. \/ pm_it \notin peer_map_ /\ pc["cleaner"] \in {"look", "erase"}
        \/ rehashed
    BY <1>1 DEF Stale
  <2> QED
    BY <1>1, <2>1 DEF AtPeer, Cause, Die, IInv, Inv, Round
<1>2. CASE ~(Stale /\ Die("iterator"))
  <2>1. dead' = "no"
    BY <1>2 DEF Cleaner, BeginRound, Look, Erase, EraseFrom, Stale,
      Terminate, Stop, ClearFn, Close, Free
  <2>2. AtPeer'
    <3>1. \/ pm_it' = NoPeer => pc'["cleaner"] = "idle"
          \/ pc'["cleaner"] \notin {"look", "erase"}
          \/ UNCHANGED pm_it /\ pc["cleaner"] = "look"
      <4>1. CASE Terminate("cleaner")
        BY <4>1, Moves DEF Terminate, Stop, ClearFn, Close, Free,
          TerminateLabels, Threads, IInv, Typed
      <4>2. CASE ~Terminate("cleaner")
        BY <1>2, <4>2, Moves DEF Cleaner, BeginRound, Look, Erase, EraseFrom,
          Stale, Resume, TerminateLabels, Threads, IInv, Typed
      <4> QED
        BY <4>1, <4>2
    <3> QED
      BY <3>1 DEF AtPeer
  <2> QED
    BY <2>1, <2>2 DEF Cause
<1> QED
  BY <1>1, <1>2

LEMMA NextCause == IInv /\ AtPeer /\ Cause /\ [Next]_vars => AtPeer' /\ Cause'
<1> SUFFICES ASSUME IInv, AtPeer, Cause, [Next]_vars PROVE AtPeer' /\ Cause'
  OBVIOUS
<1>1. CASE UNCHANGED vars
  BY <1>1 DEF AtPeer, Cause
<1>2. CASE dead = "no" /\ MapRace
  BY <1>2 DEF MapRace, Die, AtPeer, Cause
<1> QED
  BY <1>1, <1>2, StayCause, CleanerCause DEF Next, Over

\* the cleaner's iterator is invalidated by a DELETE of the peer it is at or
\* by an insertion's rehash, and by nothing else,
THEOREM IteratorCorrect == Spec => []IteratorKept
<1>1. Init => AtPeer /\ Cause
  BY DEF Init, AtPeer, Cause, Threads
<1>2. IInv /\ Cause => IteratorKept
  BY DEF IInv, Inv, Round, Cause, IteratorKept
<1> QED
  BY <1>1, <1>2, NextCause, Invariance, PTL DEF Spec

\* and every peer has the lifecycle that an RtcPeer promises.
THEOREM PeersCorrect == Spec => PeersKeepLifecycle
<1>1. ASSUME Init, NEW p \in Peers PROVE Lifecycle(p)!Init
  BY <1>1, NullAssumption DEF Init, Lifecycle!Init, Held
<1>2. IInv /\ [Next]_vars =>
        [\A p \in Peers : [Lifecycle(p)!Next]_(Lifecycle(p)!vars)]_vars
  BY NextGood DEF Good, Implements
<1>3. Init => \A p \in Peers : Lifecycle(p)!Init
  BY <1>1
<1> QED
  BY <1>2, <1>3, Invariance, PTL DEF Spec, PeersKeepLifecycle
-----------------------------------------------------------------------------
(* Whom a waiting session waits for: an invariant on top of IInv.          *)

\* The cleaner finds the peer, or a thread is about to clear its lambda.
Reachable(p) ==
  \/ p \in peer_map_
  \/ \E t \in Threads : target[t] = p /\ pc[t] \in {"stop", "clear"}

Attended ==
  \A s \in Sessions : session[s] = "waiting" =>
    \E p \in Peers : on_local_sdp_fn_[p] = s /\ Reachable(p)

LEMMA AttendedIsWaitingHasPeer == Attended <=> WaitingHasPeer
BY DEF Attended, Reachable, WaitingHasPeer

\* The peer of a handler is one that was answered, or the one that a POST has
\* just created, whose lambda has that POST's session until it is answered.
Handler ==
  /\ pc["io"] = "find" /\ request.id # NoPeer =>
       request.id \in Peers /\ answers[request.id] > 0
  /\ handled # NoPeer /\ on_local_sdp_fn_[handled] # NoSession =>
       session[on_local_sdp_fn_[handled]] = "handling"
  /\ pc["io"] \in {"offer", "drop"}
       /\ session[request.session] = "handling" =>
         on_local_sdp_fn_[handled] = request.session

AInv == Attended /\ Handler

LEMMA InitAInv == Init => AInv
BY DEF Init, AInv, Attended, Handler, Threads

\* No session begins to wait, and the peers of those that do go on waiting
\* keep their lambdas and can be reached.
LEMMA KeepsAttended ==
  ASSUME Attended,
         \A s \in Sessions : session'[s] = "waiting" => session[s] = "waiting",
         \A p \in Peers :
           on_local_sdp_fn_[p] \in Sessions
             /\ session'[on_local_sdp_fn_[p]] = "waiting" /\ Reachable(p) =>
               on_local_sdp_fn_'[p] = on_local_sdp_fn_[p] /\ Reachable(p)'
  PROVE  Attended'
BY DEF Attended

\* A thread that is not at "stop" or "clear" makes nobody unreachable by
\* going on.
LEMMA StaysReachable ==
  ASSUME NEW t \in Threads, pc[t] \notin {"stop", "clear"},
         peer_map_ \subseteq peer_map_',
         \A u \in Threads \ {t} : pc'[u] = pc[u] /\ target'[u] = target[u],
         NEW p \in Peers, Reachable(p)
  PROVE  Reachable(p)'
BY DEF Reachable

LEMMA DieAInv == ASSUME AInv, UNCHANGED state PROVE AInv'
BY DEF AInv, Attended, Reachable, Handler

\* A peer in the hands of a handler is nobody's that waits.
LEMMA HandledUnawaited ==
  ASSUME IInv, AInv, handled # NoPeer,
         on_local_sdp_fn_[handled] \in Sessions
  PROVE  session[on_local_sdp_fn_[handled]] # "waiting"
BY NullAssumption DEF AInv, Handler

LEMMA ClientAInv ==
  ASSUME IInv, AInv, dead = "no", NEW s \in Sessions, Client(s)
  PROVE  AInv'
<1>1. pc["io"] = "idle" /\ handled = NoPeer /\ session[s] # "waiting"
  BY Idle DEF Client, Accept, EndSession, Plain, Post, Patch, Delete, Reading
<1>2. CASE UNCHANGED state
  BY <1>2, DieAInv
<1>3. ASSUME NEW to \in {"none", "reading", "writing"}, Becomes(s, to),
             UNCHANGED <<peer_map_, answers, on_local_sdp_fn_, pc, local>>
      PROVE  AInv'
  <2>1. \A u \in Sessions : session'[u] = "waiting" => session[u] = "waiting"
    BY <1>3, Becoming DEF IInv, Typed
  <2>2. Attended'
    BY <1>3, <2>1, KeepsAttended DEF AInv, Reachable
  <2>3. Handler'
    BY <1>1, <1>3 DEF Handler
  <2> QED
    BY <2>2, <2>3 DEF AInv
<1>4. ASSUME NEW kind, NEW id, NEW resource, NEW label \in {"insert", "find"},
             Handle(RequestOf(s, kind, id, resource), label),
             label = "find" => id \in Known
      PROVE  AInv'
  <2>1. /\ Becomes(s, "handling") /\ request'.id = id
        /\ Move("io", "idle", label)
        /\ UNCHANGED <<peer_map_, answers, on_local_sdp_fn_, handled, target>>
    BY <1>4 DEF Handle, RequestOf
  <2>2. \A u \in Sessions : session'[u] = "waiting" => session[u] = "waiting"
    BY <2>1, Becoming DEF IInv, Typed
  <2>3. /\ pc'["io"] = label /\ \A u \in Threads \ {"io"} : pc'[u] = pc[u]
    BY <2>1, Moves DEF IInv, Typed, Threads
  <2>4. \A p \in Peers : Reachable(p) => Reachable(p)'
    BY <1>1, <2>1, <2>3, StaysReachable DEF Threads
  <2>5. Attended'
    BY <2>1, <2>2, <2>4, KeepsAttended DEF AInv
  <2>6. Handler'
    BY <1>1, <1>4, <2>1, <2>3 DEF Handler, Known
  <2> QED
    BY <2>5, <2>6 DEF AInv
<1>5. CASE Accept(s) \/ EndSession(s)
  BY <1>3, <1>5 DEF Accept, EndSession
<1>6. ASSUME NEW status, Respond(s, status) PROVE AInv'
  BY <1>3, <1>6 DEF Respond, Write
<1>7. ASSUME NEW r, Guarded(s, r) PROVE AInv'
  BY <1>2, <1>6, <1>7 DEF Guarded, Die
<1>8. ASSUME NEW kind, NEW r, Served(s, kind, r) PROVE AInv'
  BY <1>2, <1>4, <1>8 DEF Served, Known, Die
<1>9. CASE Post(s)
  BY <1>4, <1>9 DEF Post
<1> QED
  BY <1>5, <1>6, <1>7, <1>8, <1>9 DEF Client, Plain, Patch, Unmatched, Delete

LEMMA InsertAInv == ASSUME IInv, AInv, Insert PROVE AInv'
<1>1. CASE UNCHANGED state
  BY <1>1, DieAInv
<1>2. CASE ~UNCHANGED state
  <2>1. PICK p \in Peers :
          /\ stage[p] = "absent" /\ handled' = p
          /\ peer_map_' = peer_map_ \cup {p}
          /\ Move("io", "insert", "hook")
          /\ UNCHANGED <<session, answers, on_local_sdp_fn_, request, target>>
    BY <1>2 DEF Insert, Die
  <2>2. /\ pc["io"] = "insert" /\ pc'["io"] = "hook"
        /\ \A u \in Threads \ {"io"} : pc'[u] = pc[u]
    BY <2>1, Moves DEF IInv, Typed, Threads
  <2>3. \A q \in Peers : Reachable(q) => Reachable(q)'
    BY <2>1, <2>2, StaysReachable DEF Threads
  <2>4. Attended'
    BY <2>1, <2>3, KeepsAttended DEF AInv
  <2>5. on_local_sdp_fn_[p] = NoSession
    BY <2>1 DEF IInv, Inv, Life, Staged
  <2>6. Handler'
    BY <2>1, <2>2, <2>5 DEF Handler
  <2> QED
    BY <2>4, <2>6 DEF AInv
<1> QED
  BY <1>1, <1>2

LEMMA OnLocalSdpAInv == ASSUME IInv, AInv, OnLocalSdp PROVE AInv'
<1> DEFINE s == request.session
<1>1. /\ pc["io"] = "hook" /\ pc'["io"] = "offer"
      /\ \A u \in Threads \ {"io"} : pc'[u] = pc[u]
  BY Moves DEF OnLocalSdp, IInv, Typed, Threads
<1>2. handled \in Peers /\ on_local_sdp_fn_[handled] = NoSession
      /\ s \in Sessions /\ session[s] = "handling"
  BY <1>1 DEF IInv, Inv, Life, Handling, Responses, InHandler
<1>3. /\ on_local_sdp_fn_'[handled] = s
      /\ \A p \in Peers \ {handled} : on_local_sdp_fn_'[p] = on_local_sdp_fn_[p]
      /\ UNCHANGED <<peer_map_, session, answers, request, handled, target>>
  BY <1>2 DEF OnLocalSdp, IInv, Typed, HttpOK
<1>4. \A p \in Peers : Reachable(p) => Reachable(p)'
  BY <1>1, <1>3, StaysReachable DEF Threads
<1>5. Attended'
  BY <1>2, <1>3, <1>4, KeepsAttended, NullAssumption DEF AInv
<1>6. Handler'
  BY <1>1, <1>2, <1>3 DEF Handler
<1> QED
  BY <1>5, <1>6 DEF AInv

LEMMA OfferAInv == ASSUME IInv, AInv, Offer PROVE AInv'
<1>1. CASE UNCHANGED state
  BY <1>1, DieAInv
<1>2. CASE ~UNCHANGED state
  <2>1. /\ Move("io", "offer", "drop")
        /\ UNCHANGED <<peer_map_, session, answers, on_local_sdp_fn_, request,
                       handled, target>>
    BY <1>2 DEF Offer, Die
  <2>2. /\ pc["io"] = "offer" /\ pc'["io"] = "drop"
        /\ \A u \in Threads \ {"io"} : pc'[u] = pc[u]
    BY <2>1, Moves DEF IInv, Typed, Threads
  <2>3. \A q \in Peers : Reachable(q) => Reachable(q)'
    BY <2>1, <2>2, StaysReachable DEF Threads
  <2>4. Attended'
    BY <2>1, <2>3, KeepsAttended DEF AInv
  <2>5. Handler'
    BY <2>1, <2>2 DEF AInv, Handler
  <2> QED
    BY <2>4, <2>5 DEF AInv
<1> QED
  BY <1>1, <1>2

\* Between its Find and its response, a handler's session is its own, and
\* its peer has no lambda.
LEMMA HandlerHooked ==
  ASSUME IInv, AInv, handled # NoPeer,
         pc["io"] \notin {"hook", "offer", "drop"}
  PROVE  handled \in Peers /\ on_local_sdp_fn_[handled] = NoSession
<1>1. handled \in Peers
  BY DEF IInv, Typed, Control
<1> QED
  BY <1>1 DEF IInv, Inv, Responses, Awaits, AInv, Handler

LEMMA WriteAInv ==
  ASSUME IInv, AInv, NEW status, NEW from, NEW to,
         from \in {"find", "serve", "accepted"}, to \in {"idle", "drop"},
         Write(request.session, status), Move("io", from, to),
         UNCHANGED <<peer_map_, answers, on_local_sdp_fn_, handled, target>>,
         to = "drop" => UNCHANGED request
  PROVE  AInv'
<1>1. /\ pc["io"] = from /\ pc'["io"] = to
      /\ \A u \in Threads \ {"io"} : pc'[u] = pc[u]
  BY Moves DEF IInv, Typed, Threads
<1>2. request.session \in Sessions
  BY <1>1 DEF IInv, Inv, Responses, InHandler
<1>3. /\ session'[request.session] = "writing"
      /\ \A u \in Sessions \ {request.session} : session'[u] = session[u]
  BY <1>2, Becoming DEF Write, IInv, Typed
<1>4. \A q \in Peers : Reachable(q) => Reachable(q)'
  BY <1>1, StaysReachable DEF Threads
<1>5. Attended'
  BY <1>3, <1>4, KeepsAttended DEF AInv
<1>6. handled # NoPeer => on_local_sdp_fn_[handled] = NoSession
  BY <1>1, HandlerHooked
<1>7. Handler'
  BY <1>1, <1>3, <1>6 DEF Handler
<1> QED
  BY <1>5, <1>7 DEF AInv

LEMMA FindAInv == ASSUME IInv, AInv, Find PROVE AInv'
<1>1. CASE GetPeer
  <2>1. PICK to \in {"stop", "serve"} : Move("io", "find", to)
    BY <1>1 DEF GetPeer
  <2>2. /\ pc["io"] = "find" /\ pc'["io"] = to
        /\ \A u \in Threads \ {"io"} : pc'[u] = pc[u]
    BY <2>1, Moves DEF IInv, Typed, Threads
  <2>3. /\ request.id \in Peers /\ request.id # NoPeer /\ handled' = request.id
        /\ UNCHANGED <<peer_map_, session, answers, on_local_sdp_fn_>>
        /\ target'["cleaner"] = target["cleaner"]
    BY <1>1, NullAssumption DEF GetPeer, Find, IInv, Typed, MapOK, Control,
      Threads
  <2>4. on_local_sdp_fn_[request.id] = NoSession
    BY <2>2, <2>3 DEF AInv, Handler, IInv, Inv, Life, Staged
  <2>5. \A q \in Peers : Reachable(q) => Reachable(q)'
    BY <2>2, <2>3, StaysReachable DEF Threads
  <2>6. Attended'
    BY <2>3, <2>5, KeepsAttended DEF AInv
  <2>7. Handler'
    BY <2>2, <2>3, <2>4 DEF Handler
  <2> QED
    BY <2>6, <2>7 DEF AInv
<1>2. CASE ~GetPeer
  BY <1>2, WriteAInv DEF Find
<1> QED
  BY <1>1, <1>2

LEMMA ServeAInv ==
  ASSUME IInv, AInv, Serve \/ Accepted
  PROVE  AInv'
BY WriteAInv, DieAInv DEF Serve, Accepted, Die

LEMMA UnmapAInv == ASSUME IInv, AInv, Unmap PROVE AInv'
<1>1. /\ pc["io"] = "unmap" /\ pc'["io"] = "accepted"
      /\ \A u \in Threads \ {"io"} : pc'[u] = pc[u]
  BY Moves DEF Unmap, IInv, Typed, Threads
<1>2. /\ peer_map_' = peer_map_ \ {handled}
      /\ UNCHANGED <<session, answers, on_local_sdp_fn_, request, handled,
                     target>>
  BY DEF Unmap
<1>3. handled \in Peers /\ on_local_sdp_fn_[handled] = NoSession
  BY <1>1, HandlerHooked, NullAssumption DEF IInv, Inv, Life, Handling
<1>4. \A q \in Peers \ {handled} : Reachable(q) => Reachable(q)'
  BY <1>1, <1>2 DEF Reachable, Threads
<1>5. Attended'
  BY <1>2, <1>3, <1>4, KeepsAttended, NullAssumption DEF AInv
<1>6. Handler'
  BY <1>1, <1>2, <1>3 DEF Handler
<1> QED
  BY <1>5, <1>6 DEF AInv

\* The handler of a POST returns: its session waits for the peer it created,
\* which is in the map, or destroyed now by the handler.
LEMMA DropAInv == ASSUME IInv, AInv, Drop PROVE AInv'
<1> DEFINE s == request.session
<1>0. PICK p \in Peers : p = handled
  BY DEF Drop, IInv, Inv, Life, Handling
<1>1. /\ pc["io"] = "drop" /\ handled' = NoPeer
      /\ s \in Sessions
      /\ UNCHANGED <<peer_map_, answers, on_local_sdp_fn_>>
  BY DEF Drop, IInv, Inv, Responses
<1>2. /\ pc'["io"] \in {"idle", "stop"}
      /\ \A u \in Threads \ {"io"} :
           pc'[u] = pc[u] /\ target'[u] = target[u]
      /\ handled \notin peer_map_ =>
           pc'["io"] = "stop" /\ target'["io"] = handled
  BY DEF Drop, IInv, Typed, Control, Threads
<1>3. \A q \in Peers : Reachable(q) => Reachable(q)'
  BY <1>1, <1>2, StaysReachable DEF Threads
<1>4. Reachable(p)'
  BY <1>0, <1>1, <1>2 DEF Reachable, Threads
<1>5. /\ \A u \in Sessions \ {s} : session'[u] = session[u]
      /\ session'[s] = "waiting" =>
           session[s] \in {"handling", "waiting"}
  BY <1>1 DEF Drop, Becomes, IInv, Typed, HttpOK
<1>6. session[s] = "handling" => on_local_sdp_fn_[handled] = s
  BY <1>1 DEF AInv, Handler
<1>7. ASSUME NEW u \in Sessions, session'[u] = "waiting"
      PROVE  \E q \in Peers : on_local_sdp_fn_'[q] = u /\ Reachable(q)'
  <2>1. CASE session[u] = "waiting"
    BY <1>1, <1>3, <2>1 DEF AInv, Attended
  <2>2. CASE session[u] # "waiting"
    BY <1>0, <1>1, <1>4, <1>5, <1>6, <1>7, <2>2
  <2> QED
    BY <2>1, <2>2
<1>8. Attended'
  BY <1>7 DEF Attended
<1>9. Handler'
  BY <1>1, <1>2 DEF Handler
<1> QED
  BY <1>8, <1>9 DEF AInv

-----------------------------------------------------------------------------
\* Terminate clears the lambda before it makes the peer unreachable.
LEMMA TerminateAInv ==
  ASSUME IInv, AInv, NEW t \in Threads, Terminate(t)
  PROVE  AInv'
<1> DEFINE p == target[t]
<1>1. p \in Peers
  BY Target DEF Terminate, Stop, ClearFn, Close, Free, TerminateLabels
<1>2. CASE ClearFn(t)
  <2>1. /\ pc[t] = "clear" /\ pc'[t] = "close"
        /\ \A u \in Threads \ {t} : pc'[u] = pc[u]
    BY <1>2, Moves DEF ClearFn, IInv, Typed
  <2>2. /\ on_local_sdp_fn_'[p] = NoSession
        /\ \A q \in Peers \ {p} : on_local_sdp_fn_'[q] = on_local_sdp_fn_[q]
        /\ UNCHANGED <<peer_map_, answers, request, handled, target>>
    BY <1>1, <1>2 DEF ClearFn, IInv, Typed, HttpOK
  <2>3. /\ \A u \in Sessions : session'[u] \in {session[u], "none"}
        /\ \A u \in Sessions :
             session[u] # "waiting" => session'[u] = session[u]
        /\ on_local_sdp_fn_[p] \in Sessions =>
             session'[on_local_sdp_fn_[p]] # "waiting"
    BY <1>2, NullAssumption DEF ClearFn, Becomes, IInv, Typed, HttpOK
  <2>4. ASSUME NEW q \in Peers \ {p}, Reachable(q) PROVE Reachable(q)'
    BY <2>1, <2>2, <2>4 DEF Reachable
  <2>5. Attended'
    BY <2>2, <2>3, <2>4, KeepsAttended DEF AInv
  <2>6. request.session \in Sessions \/ pc'["io"] \notin {"offer", "drop"}
    BY <2>1 DEF IInv, Inv, Responses, InHandler, Threads
  <2>7. ASSUME pc'["io"] \in {"offer", "drop"} PROVE handled # p
    BY <2>1, <2>7 DEF IInv, Inv, Life, Terminating, Handling, Held, Threads,
      TerminateLabels
  <2>8. handled \in Peers \cup {NoPeer}
    BY DEF IInv, Typed, Control
  <2>9. \A q \in Peers : on_local_sdp_fn_[q] \in Sessions \cup {NoSession}
    BY DEF IInv, Typed, HttpOK
  <2>10. Handler'
    <3>1. pc'["io"] = "find" => pc["io"] = "find"
      BY <2>1 DEF Threads
    <3>2. pc'["io"] \in {"offer", "drop"} => pc["io"] = pc'["io"]
      BY <2>1 DEF Threads
    <3>3. ASSUME handled # NoPeer, on_local_sdp_fn_'[handled] # NoSession
          PROVE  session'[on_local_sdp_fn_'[handled]] = "handling"
      BY <2>2, <2>3, <2>8, <2>9, <3>3 DEF AInv, Handler
    <3>4. ASSUME pc'["io"] \in {"offer", "drop"},
                 session'[request.session] = "handling"
          PROVE  on_local_sdp_fn_'[handled] = request.session
      <4>1. handled \in Peers
        BY <3>2, <3>4 DEF IInv, Inv, Life, Handling
      <4> QED
        BY <2>2, <2>3, <2>6, <2>7, <3>2, <3>4, <4>1 DEF AInv, Handler
    <3> QED
      BY <2>2, <3>1, <3>3, <3>4 DEF AInv, Handler
  <2> QED
    BY <2>5, <2>10 DEF AInv
<1>3. CASE Stop(t) \/ Close(t) \/ Free(t)
  <2>1. PICK from \in {"stop", "close", "free"},
             to \in {"clear", "unmap", "free", "look", "idle"} :
          /\ Move(t, from, to)
          /\ from = "stop" => to = "clear" /\ UNCHANGED target
    BY <1>3 DEF Stop, Close, Free
  <2>2. /\ pc[t] = from /\ pc'[t] = to
        /\ \A u \in Threads \ {t} : pc'[u] = pc[u]
    BY <2>1, Moves DEF IInv, Typed
  <2>3. /\ UNCHANGED <<peer_map_, session, answers, on_local_sdp_fn_, request,
                       handled>>
        /\ \A u \in Threads \ {t} : target'[u] = target[u]
    BY <1>3 DEF Stop, Close, Free, IInv, Typed, Control
  <2>4. ASSUME NEW q \in Peers, Reachable(q) PROVE Reachable(q)'
    BY <2>1, <2>2, <2>3, <2>4 DEF Reachable
  <2>5. Attended'
    BY <2>3, <2>4, KeepsAttended DEF AInv
  <2>6. pc'["io"] \in {"find", "offer", "drop"} => pc["io"] = pc'["io"]
    BY <2>2 DEF Threads
  <2>7. Handler'
    BY <2>3, <2>6 DEF AInv, Handler
  <2> QED
    BY <2>5, <2>7 DEF AInv
<1> QED
  BY <1>2, <1>3 DEF Terminate

-----------------------------------------------------------------------------
\* The cleaner takes a peer out of the map to terminate it, or leaves it to
\* the handler that has it, who does.
LEMMA CleanerAInv == ASSUME IInv, AInv, Cleaner PROVE AInv'
<1>1. CASE UNCHANGED state
  BY <1>1, DieAInv
<1>2. CASE Terminate("cleaner")
  BY <1>2, TerminateAInv DEF Threads
<1>3. CASE ~UNCHANGED state /\ ~Terminate("cleaner")
  <2>1. PICK from \in {"idle", "look", "erase"},
             to \in {"idle", "look", "erase", "stop"} :
          Move("cleaner", from, to)
    BY <1>3 DEF Cleaner, BeginRound, Look, Erase, EraseFrom, Stale, Die, Resume
  <2>2. /\ pc["cleaner"] = from /\ pc'["cleaner"] = to
        /\ pc'["io"] = pc["io"]
    BY <2>1, Moves DEF IInv, Typed, Threads
  <2>3. /\ UNCHANGED <<session, answers, on_local_sdp_fn_, request, handled>>
        /\ target'["io"] = target["io"]
    BY <1>3 DEF Cleaner, BeginRound, Look, Erase, EraseFrom, Stale, Die, IInv,
      Typed, Control, Threads
  <2>4. \/ UNCHANGED peer_map_
        \/ /\ peer_map_' = peer_map_ \ {pm_it}
           /\ \/ handled = pm_it
              \/ pc'["cleaner"] = "stop" /\ target'["cleaner"] = pm_it
    BY <1>3 DEF Cleaner, BeginRound, Look, Erase, EraseFrom, Stale, Die, IInv,
      Typed, Control, Threads
  <2>5. ASSUME NEW q \in Peers, Reachable(q), handled # q PROVE Reachable(q)'
    BY <2>2, <2>3, <2>4, <2>5 DEF Reachable, Threads
  <2>6. ASSUME NEW q \in Peers, on_local_sdp_fn_[q] \in Sessions, handled = q
        PROVE  session[on_local_sdp_fn_[q]] # "waiting"
    BY <2>6, HandledUnawaited, NullAssumption
  <2>7. Attended'
    BY <2>3, <2>5, <2>6, KeepsAttended DEF AInv
  <2>8. Handler'
    BY <2>2, <2>3 DEF AInv, Handler
  <2> QED
    BY <2>7, <2>8 DEF AInv
<1> QED
  BY <1>1, <1>2, <1>3

LEMMA PeerAInv == ASSUME IInv, AInv, NEW p \in Peers, Peer(p) PROVE AInv'
<1>1. CASE Answer(p)
  <2> DEFINE s == on_local_sdp_fn_[p]
  <2>1. /\ s \in Sessions /\ on_local_sdp_fn_'[p] = NoSession
        /\ \A q \in Peers \ {p} : on_local_sdp_fn_'[q] = on_local_sdp_fn_[q]
        /\ UNCHANGED <<peer_map_, pc, request, handled, target>>
        /\ \A q \in Peers : answers'[q] = answers[q] \/ answers'[q] > 0
    BY <1>1 DEF Answer, IInv, Typed, HttpOK, PeersOK
  <2>2. /\ session'[s] = "writing"
        /\ \A u \in Sessions \ {s} : session'[u] = session[u]
    BY <1>1, <2>1, Becoming DEF Answer, Write, IInv, Typed
  <2>3. Attended'
    BY <2>1, <2>2, KeepsAttended DEF AInv, Reachable
  <2>4. handled # p =>
          \/ handled = NoPeer
          \/ handled \in Peers /\ on_local_sdp_fn_[handled] # s
    BY <2>1, NullAssumption DEF IInv, Typed, Control, Inv, Responses
  <2>5. pc["io"] \in {"offer", "drop"} =>
          handled \in Peers /\ request.session \in Sessions
    BY DEF IInv, Inv, Life, Handling, Responses, InHandler
  <2>6. handled \in Peers =>
          on_local_sdp_fn_[handled] \in Sessions \cup {NoSession}
    BY DEF IInv, Typed, HttpOK
  <2>7. Handler'
    BY <2>1, <2>2, <2>4, <2>5, <2>6, NullAssumption DEF AInv, Handler
  <2> QED
    BY <2>3, <2>7 DEF AInv
<1>2. CASE ~Answer(p)
  <2>1. UNCHANGED <<peer_map_, session, answers, on_local_sdp_fn_, pc,
                    request, handled, target>>
    BY <1>2 DEF Peer, SetConnected, CloseByItself
  <2> QED
    BY <2>1 DEF AInv, Attended, Reachable, Handler
<1> QED
  BY <1>1, <1>2

LEMMA NextAInv == IInv /\ AInv /\ [Next]_vars => AInv'
<1> SUFFICES ASSUME IInv, AInv, [Next]_vars PROVE AInv'
  OBVIOUS
<1>1. CASE UNCHANGED vars \/ MapRace
  BY <1>1, DieAInv DEF MapRace, Die
<1>2. CASE dead = "no" /\ \E s \in Sessions : Client(s)
  BY <1>2, ClientAInv
<1>3. CASE Io
  BY <1>3, InsertAInv, OnLocalSdpAInv, OfferAInv, FindAInv, ServeAInv,
    UnmapAInv, DropAInv, TerminateAInv DEF Io, Threads
<1>4. CASE Cleaner
  BY <1>4, CleanerAInv
<1>5. CASE \E p \in Peers : Peer(p)
  BY <1>5, PeerAInv
<1> QED
  BY <1>1, <1>2, <1>3, <1>4, <1>5 DEF Next, Over

\* A client that waits for its answer waits for one peer's lambda, which a
\* thread will call or clear: it is not forgotten (http_service.cpp:160-180).
THEOREM WaitingCorrect == Spec => []WaitingHasPeer
<1>1. Spec => []AInv
  BY InitAInv, NextAInv, Invariance, PTL DEF Spec
<1>2. AInv => WaitingHasPeer
  BY AttendedIsWaitingHasPeer DEF AInv
<1> QED
  BY <1>1, <1>2, PTL
=============================================================================
