------------------------------ MODULE Broadcast ------------------------------
(***************************************************************************)
(* What a Subject (common/interface/subject.h) promises the one who calls  *)
(* Next and the observers it calls, whatever peers come and go meanwhile:  *)
(* Subject implements this module statement by statement, and LibAvEncoder *)
(* hands its packets to the peers as no less and no more than this.        *)
(*                                                                         *)
(* A message is given once to everyone who was a member when Next began,   *)
(* unless it leaves; to who joins in the meantime, or not; to who left     *)
(* before, never; and the next message comes after that.                   *)
(***************************************************************************)
EXTENDS Naturals

CONSTANT Observers

VARIABLES
  members,      \* those with a lambda that can be called
  left,         \* those that were members
  message,      \* the last message passed to Next, 0 for none
  due,          \* those Next has yet to call with it
  busy,         \* TRUE iff Next runs
  last,         \* the last message that observer o was given, 0 for none
  running       \* FALSE once the behaviour is undefined

vars == <<members, left, message, due, busy, last, running>>

Init ==
  /\ members = {}
  /\ left = {}
  /\ message = 0
  /\ due = {}
  /\ busy = FALSE
  /\ last = [o \in Observers |-> 0]
  /\ running = TRUE

\* Next may or may not come to the new observer with the message it passes.
Join(o) ==
  /\ o \notin members \cup left
  /\ members' = members \cup {o}
  /\ due' = due \/ (busy /\ due' = due \cup {o})
  /\ UNCHANGED <<left, message, busy, last, running>>

\* An observer that leaves is called no more, but for the call it is in.
Leave(o) ==
  /\ o \in members
  /\ members' = members \ {o}
  /\ left' = left \cup {o}
  /\ due' \in {due, due \ {o}}
  /\ UNCHANGED <<message, busy, last, running>>

Publish ==
  /\ ~busy
  /\ busy' = TRUE
  /\ message' \in Nat
  /\ message' > message
  /\ due' = members
  /\ UNCHANGED <<members, left, last, running>>

Deliver(o) ==
  /\ busy
  /\ o \in due
  /\ due' = due \ {o}
  /\ last' = [last EXCEPT ![o] = message]
  /\ UNCHANGED <<members, left, message, busy, running>>

Return ==
  /\ busy
  /\ due = {}
  /\ busy' = FALSE
  /\ UNCHANGED <<members, left, message, due, last, running>>

Crash ==
  /\ running
  /\ running' = FALSE
  /\ UNCHANGED <<members, left, message, due, busy, last>>

Next ==
  \/ /\ running
     /\ \/ Publish
        \/ Return
        \/ \E o \in Observers : Join(o) \/ Leave(o) \/ Deliver(o)
  \/ Crash

Spec == Init /\ [][Next]_vars
=============================================================================
