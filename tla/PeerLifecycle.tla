---------------------------- MODULE PeerLifecycle ----------------------------
(***************************************************************************)
(* What an RtcPeer promises the signaling service that owns it, whatever   *)
(* its five threads do: RtcPeer implements this module, and Signaling uses *)
(* its peers as no more than this.                                         *)
(*                                                                         *)
(* A peer is made once.  It answers its POST at most once, and reports a   *)
(* connection only after that and only while its connection is open.       *)
(* Closing is final.  It is destroyed when nobody holds it, not before,    *)
(* and only with a closed connection.                                      *)
(***************************************************************************)
EXTENDS Naturals

VARIABLES
  stage,        \* "absent", "open", "closed", "gone"
  held,         \* TRUE iff some shared_ptr to the peer is left
  answers,      \* how often the POST was answered
  connected,    \* isConnected()
  over,         \* the peer was terminated, or its connection closed
  running       \* FALSE once the process has ended

vars == <<stage, held, answers, connected, over, running>>

Init ==
  /\ stage = "absent"
  /\ held = FALSE
  /\ answers = 0
  /\ connected = FALSE
  /\ over = FALSE
  /\ running = TRUE

Create ==
  /\ stage = "absent"
  /\ stage' = "open"
  /\ held' = TRUE
  /\ UNCHANGED <<answers, connected, over, running>>

\* The answer may come when the connection is closed already.
Answer ==
  /\ stage \in {"open", "closed"}
  /\ answers = 0
  /\ answers' = 1
  /\ UNCHANGED <<stage, held, connected, over, running>>

Connect ==
  /\ stage = "open"
  /\ answers > 0
  /\ connected' = TRUE
  /\ UNCHANGED <<stage, held, answers, over, running>>

Disconnect ==
  /\ stage = "open"
  /\ connected' = FALSE
  /\ UNCHANGED <<stage, held, answers, over, running>>

\* Terminate: both flags, at once or one after the other.
End ==
  /\ stage = "open"
  /\ over' = TRUE
  /\ connected' \in {connected, FALSE}
  /\ UNCHANGED <<stage, held, answers, running>>

Close ==
  /\ stage = "open"
  /\ stage' = "closed"
  /\ connected' = FALSE
  /\ over' = TRUE
  /\ UNCHANGED <<held, answers, running>>

\* The last owner lets go.
Release ==
  /\ stage \in {"open", "closed"}
  /\ held
  /\ held' = FALSE
  /\ UNCHANGED <<stage, answers, connected, over, running>>

Destroy ==
  /\ stage = "closed"
  /\ ~held
  /\ stage' = "gone"
  /\ UNCHANGED <<held, answers, connected, over, running>>

Crash ==
  /\ running
  /\ running' = FALSE
  /\ UNCHANGED <<stage, held, answers, connected, over>>

Next ==
  \/ /\ running
     /\ \/ Create \/ Answer \/ Connect \/ Disconnect \/ End \/ Close
        \/ Release \/ Destroy
  \/ Crash

Spec == Init /\ [][Next]_vars

\* A peer that is terminated closes its connection, and one that nobody
\* holds any more goes.
Closes == over ~> (stage # "open" \/ ~running)
Goes == (stage # "absent" /\ ~held) ~> (stage = "gone" \/ ~running)

FairSpec == Spec /\ Closes /\ Goes
=============================================================================
