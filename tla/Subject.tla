------------------------------- MODULE Subject -------------------------------
(***************************************************************************)
(* Subject<T> and Observable<T> (common/interface/subject.h), as the       *)
(* encoder's frame_buffer_subject_ is used: Next runs on the capture       *)
(* thread, once per message, while the io thread creates peers that ask    *)
(* for an Observable and subscribe a lambda with a raw this, and the io or *)
(* cleaner thread destroys them.  Nothing is locked.                       *)
(*                                                                         *)
(* An observer stands for the Observable and for its owner, the RtcPeer.   *)
(* stage[o] is how far the owner is:                                       *)
(*   "none"        not created                                             *)
(*   "observed"    AsObservable has returned, the Observable has no lambda *)
(*   "subscribed"  it has one                                              *)
(*   "reset"       ~RtcPeer has reset encoder_observer_                    *)
(*   "freed"       the memory the lambda's this points to is gone          *)
(*                                                                         *)
(* A push_back that moves the vector under a running Next, and a call      *)
(* through a this that is freed, leave the behaviour undefined: dead names *)
(* the cause.  A race may also do no harm, and both outcomes are steps.    *)
(***************************************************************************)
EXTENDS Naturals, SequencesExt

CONSTANTS
  Observers,      \* the peers that come and go
  MaxMessages     \* bound: messages passed to Next

ASSUME SubjectAssumption == MaxMessages \in Nat

VARIABLES
  observers_,     \* the vector of weak_ptr, in the order of push_back
  stage,
  before,         \* history: stage when the last Next began
  message,        \* the number of the last message passed to Next
  it,             \* Next's iterator, an index into observers_
  pc,             \* the next statement of Next
  got,            \* history: the messages that observer o's lambda was given
  dead            \* "no", or what went wrong

state == <<observers_, stage, before, message, it, pc, got>>
vars == <<state, dead>>

Stages == {"none", "observed", "subscribed", "reset", "freed"}
Labels == {"idle", "lock", "call"}
Expired == {"reset", "freed"}

TypeOK ==
  /\ observers_ \in Seq(Observers)
  /\ stage \in [Observers -> Stages]
  /\ before \in [Observers -> Stages]
  /\ message \in 0..MaxMessages
  /\ it \in 1..(Len(observers_) + 1)
  /\ pc \in Labels
  /\ got \in [Observers -> Seq(1..MaxMessages)]
  /\ dead \in {"no", "vector_race", "function_race", "use_after_free"}

Init ==
  /\ observers_ = <<>>
  /\ stage = [o \in Observers |-> "none"]
  /\ before = stage
  /\ message = 0
  /\ it = 1
  /\ pc = "idle"
  /\ got = [o \in Observers |-> <<>>]
  /\ dead = "no"

Die(cause) == dead' = cause /\ UNCHANGED state

\* The Observable that Next has locked.
Locked(o) == pc = "call" /\ observers_[it] = o

-----------------------------------------------------------------------------
(* The owners.                                                             *)

Becomes(o, from, to) ==
  stage[o] = from /\ stage' = [stage EXCEPT ![o] = to]

\* push_back, while Next may be going through the vector.  Peers are created
\* on the io thread, one after the other.
AsObservable(o) ==
  /\ \A p \in Observers : stage[p] # "observed"
  /\ \/ /\ Becomes(o, "none", "observed")
        /\ observers_' = Append(observers_, o)
        /\ UNCHANGED <<before, message, it, pc, got, dead>>
     \/ /\ stage[o] = "none"
        /\ pc # "idle"
        /\ Die("vector_race")

\* subscribed_func_ is assigned, while Next may be testing or calling it.
Subscribe(o) ==
  \/ /\ Becomes(o, "observed", "subscribed")
     /\ UNCHANGED <<observers_, before, message, it, pc, got, dead>>
  \/ /\ stage[o] = "observed"
     /\ Locked(o)
     /\ Die("function_race")

\* The end of ~RtcPeer's body: the weak_ptr of the vector expires.
Reset(o) ==
  /\ Becomes(o, "subscribed", "reset")
  /\ UNCHANGED <<observers_, before, message, it, pc, got, dead>>

Free(o) ==
  /\ Becomes(o, "reset", "freed")
  /\ UNCHANGED <<observers_, before, message, it, pc, got, dead>>

-----------------------------------------------------------------------------
(* Next, on the capture thread.                                            *)

Begin ==
  /\ pc = "idle"
  /\ message < MaxMessages
  /\ message' = message + 1
  /\ before' = stage
  /\ it' = 1
  /\ pc' = "lock"
  /\ UNCHANGED <<observers_, stage, got, dead>>

\* Mutant of Erase: the iterator moves on past the element that took the
\* place of the erased one.
EraseAndAdvance ==
  /\ observers_' = RemoveAt(observers_, it)
  /\ it' = it + 1
  /\ pc' = "lock"

\* Mutant of Erase: the expired weak_ptr is left in its place.
EraseSkipped ==
  it' = it + 1 /\ pc' = "lock" /\ UNCHANGED observers_

\* Mutant of Erase: and the iterator with it.
EraseNothing == pc' = "lock" /\ UNCHANGED <<observers_, it>>

\* it = observers_.erase(it)
Erase ==
  /\ observers_' = RemoveAt(observers_, it)
  /\ pc' = "lock"
  /\ UNCHANGED it

\* Mutant of Lock: the weak_ptr is taken for alive.
LockUnchecked ==
  /\ pc = "lock"
  /\ IF it > Len(observers_) THEN pc' = "idle" ELSE pc' = "call"
  /\ UNCHANGED <<observers_, stage, before, message, it, got, dead>>

Lock ==
  /\ pc = "lock"
  /\ \/ /\ it > Len(observers_)
        /\ pc' = "idle"
        /\ UNCHANGED <<observers_, it>>
     \/ /\ it <= Len(observers_)
        /\ stage[observers_[it]] \notin Expired
        /\ pc' = "call"
        /\ UNCHANGED <<observers_, it>>
     \/ /\ it <= Len(observers_)
        /\ stage[observers_[it]] \in Expired
        /\ Erase
  /\ UNCHANGED <<stage, before, message, got, dead>>

\* Mutant of Call: the iterator is not moved.
CallAgain ==
  LET o == observers_[it] IN
  /\ pc = "call"
  /\ Len(got[o]) < MaxMessages
  /\ got' = [got EXCEPT ![o] = Append(@, message)]
  /\ pc' = "lock"
  /\ UNCHANGED <<observers_, stage, before, message, it, dead>>

\* The lambda runs, on an Observable that the locked shared_ptr keeps alive
\* and a peer that nothing does.
Call ==
  LET o == observers_[it] IN
  \/ /\ pc = "call"
     /\ stage[o] # "freed"
     /\ got' = IF stage[o] = "observed"
                 THEN got ELSE [got EXCEPT ![o] = Append(@, message)]
     /\ it' = it + 1
     /\ pc' = "lock"
     /\ UNCHANGED <<observers_, stage, before, message, dead>>
  \/ /\ pc = "call"
     /\ stage[o] = "freed"
     /\ Die("use_after_free")

-----------------------------------------------------------------------------
Owner(o) == AsObservable(o) \/ Subscribe(o) \/ Reset(o) \/ Free(o)
CaptureThread == Begin \/ Lock \/ Call

\* Every message has been passed, or the behaviour is undefined.
Over ==
  /\ dead # "no" \/ (pc = "idle" /\ message = MaxMessages)
  /\ UNCHANGED vars

Next ==
  \/ dead = "no" /\ (CaptureThread \/ \E o \in Observers : Owner(o))
  \/ Over

Spec == Init /\ [][Next]_vars

\* The capture thread keeps running; peers come and go as they like.
FairSpec == Spec /\ WF_vars(dead = "no" /\ CaptureThread)

-----------------------------------------------------------------------------
\* Between two messages, every observer that had subscribed before the last
\* one was passed, and is still there, was given it: the peers that leave in
\* the middle of Next and are erased from the vector take nobody's turn.
NoneSkipped ==
  pc = "idle" =>
    \A o \in Observers :
      before[o] = "subscribed" /\ stage[o] = "subscribed" =>
        got[o] # <<>> /\ Last(got[o]) = message

\* From the first message it is given on, an observer is given every one,
\* in order, and none twice.
Gapless ==
  \A o \in Observers : \A i \in 1..(Len(got[o]) - 1) :
    got[o][i + 1] = got[o][i] + 1

\* The vector does not grow with the peers that have gone: a weak_ptr that
\* had expired when the last Next began is no longer there when it is done.
Pruned ==
  pc = "idle" =>
    \A o \in Observers : before[o] \in Expired => ~Contains(observers_, o)

\* A call through a freed this needs a peer that is destroyed while Next is
\* in its lambda: a peer destroyed before Next began is never called.
OnlyLateCalls ==
  dead = "use_after_free" => before[observers_[it]] \notin Expired

\* Whom Next has yet to give the message: the entries from the iterator on
\* that have a lambda, and the one it has locked, though its owner has since
\* reset it.
Due ==
  {o \in Observers :
     /\ pc # "idle"
     /\ \E i \in it..Len(observers_) :
          /\ observers_[i] = o
          /\ \/ stage[o] = "subscribed"
             \/ pc = "call" /\ i = it /\ stage[o] \in Expired}

Members == {o \in Observers : stage[o] = "subscribed"}
Departed == {o \in Observers : stage[o] \in Expired}
Given == [o \in Observers |-> IF got[o] = <<>> THEN 0 ELSE Last(got[o])]

Broadcast ==
  INSTANCE Broadcast WITH
    members <- Members, left <- Departed, due <- Due, busy <- pc # "idle",
    last <- Given, running <- dead = "no"

\* Erasing under the iterator, appending behind it, and owners that leave
\* between any two statements of Next come to no more than a Broadcast: a
\* message goes once to each member, and the next one after that.
IsBroadcast == Broadcast!Spec

\* What lies ahead of Next: two statements for each entry.
Ahead ==
  IF pc = "idle"
    THEN 0
    ELSE 2 * (Len(observers_) + 1 - it) + (IF pc = "lock" THEN 1 ELSE 0)

\* No statement of Next repeats itself: each brings the end closer, the one
\* that erases the entry it is at too, and only a peer that is created while
\* it runs puts something in its way.
NextAdvances == [][Lock \/ Call => dead' # "no" \/ Ahead' < Ahead]_vars

\* Next comes to its end, whatever is added to the vector and erased from it.
NextReturns == pc # "idle" ~> (pc = "idle" \/ dead # "no")
=============================================================================
