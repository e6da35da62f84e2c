---------------------------- MODULE Subject_proofs ----------------------------
(***************************************************************************)
(* What the run subject checks on three observers and messages,            *)
(* proved for any set of observers and any number of messages.             *)
(***************************************************************************)
EXTENDS Subject, TLAPS

Typed ==
  /\ observers_ \in Seq(Observers)
  /\ stage \in [Observers -> Stages]
  /\ before \in [Observers -> Stages]
  /\ message \in Nat
  /\ it \in 1..(Len(observers_) + 1)
  /\ pc \in Labels
  /\ pc = "call" => it <= Len(observers_)
  /\ got \in [Observers -> Seq(Nat)]

\* An observer only moves on to later stages.
Monotone ==
  \A o \in Observers :
    /\ before[o] \in Expired => stage[o] \in Expired
    /\ before[o] = "subscribed" => stage[o] \notin {"none", "observed"}

\* The vector holds an observer once, from its creation on.
Entries ==
  /\ \A i, j \in DOMAIN observers_ : observers_[i] = observers_[j] => i = j
  /\ \A i \in DOMAIN observers_ : stage[observers_[i]] # "none"
  /\ \A o \in Observers : stage[o] \in {"observed", "subscribed"} =>
       \E i \in DOMAIN observers_ : observers_[i] = o
  /\ \A o \in Observers : stage[o] \in {"none", "observed"} => got[o] = <<>>

\* Next is done with entry i for this message.
Done(i) == pc = "idle" \/ i < it

\* What the entries before and behind the iterator have been given.
Served ==
  \A i \in DOMAIN observers_ :
    LET o == observers_[i] IN
    /\ got[o] # <<>> =>
         got[o][Len(got[o])] = IF Done(i) THEN message ELSE message - 1
    /\ Done(i) /\ before[o] = "subscribed" => got[o] # <<>>
    /\ Done(i) => before[o] \notin Expired
    /\ pc = "call" /\ i = it => before[o] \notin Expired

\* An undefined behaviour of the third kind happens in a call.
Blame == dead = "use_after_free" => pc = "call"

IInv == Typed /\ Monotone /\ Entries /\ Served /\ Gapless /\ Blame

-----------------------------------------------------------------------------
LEMMA AppendFacts ==
  ASSUME NEW S, NEW s \in Seq(S), NEW e \in S
  PROVE  /\ Append(s, e) \in Seq(S)
         /\ Len(Append(s, e)) = Len(s) + 1
         /\ \A i \in 1..Len(s) : Append(s, e)[i] = s[i]
         /\ Append(s, e)[Len(s) + 1] = e
OBVIOUS

LEMMA ConcatFacts ==
  ASSUME NEW S, NEW a \in Seq(S), NEW b \in Seq(S)
  PROVE  /\ a \o b \in Seq(S)
         /\ Len(a \o b) = Len(a) + Len(b)
         /\ \A i \in 1..(Len(a) + Len(b)) :
              (a \o b)[i] = IF i <= Len(a) THEN a[i] ELSE b[i - Len(a)]
OBVIOUS

LEMMA RemoveAtFacts ==
  ASSUME NEW s \in Seq(Observers), NEW k \in 1..Len(s)
  PROVE  /\ RemoveAt(s, k) \in Seq(Observers)
         /\ Len(RemoveAt(s, k)) = Len(s) - 1
         /\ \A i \in 1..(Len(s) - 1) :
              RemoveAt(s, k)[i] = IF i < k THEN s[i] ELSE s[i + 1]
<1>. DEFINE a == SubSeq(s, 1, k - 1)
            b == SubSeq(s, k + 1, Len(s))
<1>1. /\ a \in Seq(Observers) /\ Len(a) = k - 1
      /\ \A i \in 1..(k - 1) : a[i] = s[i]
  OBVIOUS
<1>2. /\ b \in Seq(Observers) /\ Len(b) = Len(s) - k
      /\ \A i \in 1..(Len(s) - k) : b[i] = s[k + i]
  OBVIOUS
<1>3. RemoveAt(s, k) = a \o b
  BY DEF RemoveAt
<1>4. /\ a \o b \in Seq(Observers) /\ Len(a \o b) = Len(s) - 1
      /\ \A i \in 1..(Len(s) - 1) :
           (a \o b)[i] = IF i <= k - 1 THEN a[i] ELSE b[i - (k - 1)]
  <2>. HIDE DEF a, b
  <2>1. Len(a) + Len(b) = Len(s) - 1
    BY <1>1, <1>2
  <2>2. a \o b \in Seq(Observers) /\ Len(a \o b) = Len(a) + Len(b)
    BY <1>1, <1>2, ConcatFacts
  <2>3. \A i \in 1..(Len(a) + Len(b)) :
          (a \o b)[i] = IF i <= Len(a) THEN a[i] ELSE b[i - Len(a)]
    BY <1>1, <1>2, ConcatFacts
  <2>. QED
    BY <1>1, <2>1, <2>2, <2>3
<1>5. ASSUME NEW i \in 1..(Len(s) - 1)
      PROVE  (a \o b)[i] = IF i < k THEN s[i] ELSE s[i + 1]
  <2>. HIDE DEF a, b
  <2>1. CASE i < k
    <3>1. (a \o b)[i] = a[i] /\ i \in 1..(k - 1)
      BY <1>4, <2>1
    <3>. QED
      BY <1>1, <2>1, <3>1
  <2>2. CASE ~(i < k)
    <3>1. (a \o b)[i] = b[i - (k - 1)] /\ i - (k - 1) \in 1..(Len(s) - k)
      <4>1. Len(s) \in Nat /\ ~(i <= k - 1)
        BY <2>2
      <4>2. i - (k - 1) \in 1..(Len(s) - k)
        BY <2>2, <4>1
      <4>. QED
        BY <1>4, <4>1, <4>2
    <3>2. b[i - (k - 1)] = s[k + (i - (k - 1))] /\ k + (i - (k - 1)) = i + 1
      BY <1>2, <3>1
    <3>. QED
      BY <2>2, <3>1, <3>2
  <2>. QED
    BY <2>1, <2>2
<1>. QED
  BY <1>3, <1>4, <1>5

-----------------------------------------------------------------------------
LEMMA InitInv == Init => IInv
BY DEF Init, IInv, Typed, Monotone, Entries, Served, Gapless, Blame, Stages,
  Labels, Expired

\* What ends in undefined behaviour changes nothing else.
LEMMA DieStep ==
  ASSUME IInv, NEW cause, Die(cause), cause = "use_after_free" => pc = "call"
  PROVE  IInv'
BY DEF IInv, Typed, Monotone, Entries, Served, Gapless, Blame, Done, Die, state

LEMMA ObservableStep ==
  ASSUME IInv, dead = "no", NEW o \in Observers, AsObservable(o)
  PROVE  IInv'
<1>1. CASE Die("vector_race")
  BY <1>1, DieStep
<1>2. CASE ~Die("vector_race")
  <2>. DEFINE n == Len(observers_) + 1
  <2>1. /\ stage[o] = "none" /\ stage' = [stage EXCEPT ![o] = "observed"]
        /\ observers_' = Append(observers_, o)
        /\ UNCHANGED <<before, message, it, pc, got, dead>>
    BY <1>2 DEF AsObservable, Becomes
  <2>2. /\ observers_' \in Seq(Observers) /\ Len(observers_') = n
        /\ \A i \in 1..(n - 1) : observers_'[i] = observers_[i]
        /\ observers_'[n] = o
        /\ DOMAIN observers_ = 1..(n - 1) /\ DOMAIN observers_' = 1..n
        /\ n \in Nat \ {0}
    BY <2>1, AppendFacts DEF IInv, Typed
  <2>3. Typed'
    BY <2>1, <2>2 DEF IInv, Typed, Stages
  <2>4. Monotone'
    BY <2>1 DEF IInv, Typed, Monotone, Expired
  <2>5. \A i \in 1..(n - 1) : observers_[i] # o /\ observers_[i] \in Observers
    <3>. SUFFICES ASSUME NEW i \in 1..(n - 1)
                  PROVE  observers_[i] # o /\ observers_[i] \in Observers
      OBVIOUS
    <3>1. i \in DOMAIN observers_
      BY <2>2
    <3>2. observers_[i] \in Observers
      BY <3>1 DEF IInv, Typed
    <3>3. stage[observers_[i]] # "none"
      BY <3>1 DEF IInv, Entries
    <3>. QED
      BY <2>1, <3>2, <3>3
  <2>6. Entries'
    <3>1. \A i \in DOMAIN observers_' :
            stage'[observers_'[i]] # "none"
      BY <2>1, <2>2, <2>5 DEF IInv, Typed, Entries
    <3>2. \A i, j \in DOMAIN observers_' :
            observers_'[i] = observers_'[j] => i = j
      BY <2>2, <2>5 DEF IInv, Entries
    <3>3. \A p \in Observers : stage'[p] \in {"observed", "subscribed"} =>
            \E i \in DOMAIN observers_' : observers_'[i] = p
      BY <2>1, <2>2 DEF IInv, Typed, Entries
    <3>4. \A p \in Observers :
            stage'[p] \in {"none", "observed"} => got'[p] = <<>>
      BY <2>1 DEF IInv, Typed, Entries
    <3>. QED
      BY <3>1, <3>2, <3>3, <3>4 DEF Entries
  <2>7. Served'
    <3>1. /\ got[o] = <<>> /\ before[o] # "subscribed"
          /\ before[o] \notin Expired
      BY <2>1 DEF IInv, Monotone, Entries, Expired
    <3>2. ASSUME NEW i \in DOMAIN observers_'
          PROVE  LET p == observers_'[i] IN
                 /\ got[p] # <<>> => got[p][Len(got[p])] =
                      IF pc = "idle" \/ i < it THEN message ELSE message - 1
                 /\ (pc = "idle" \/ i < it) /\ before[p] = "subscribed"
                      => got[p] # <<>>
                 /\ pc = "idle" \/ i < it => before[p] \notin Expired
                 /\ pc = "call" /\ i = it => before[p] \notin Expired
      <4>1. CASE i = n
        BY <2>2, <3>1, <4>1
      <4>2. CASE i # n
        <5>1. i \in DOMAIN observers_ /\ observers_'[i] = observers_[i]
          BY <2>2, <4>2
        <5>. QED
          BY <5>1 DEF IInv, Served, Done
      <4>. QED
        BY <4>1, <4>2
    <3>. QED
      BY <2>1, <3>2 DEF Served, Done
  <2>8. Gapless' /\ Blame'
    BY <2>1 DEF IInv, Gapless, Blame
  <2>. QED
    BY <2>3, <2>4, <2>6, <2>7, <2>8 DEF IInv
<1>. QED
  BY <1>1, <1>2

LEMMA OwnerStep ==
  ASSUME IInv, dead = "no", NEW o \in Observers, Owner(o)
  PROVE  IInv'
<1>1. CASE AsObservable(o)
  BY <1>1, ObservableStep
<1>2. CASE Die("function_race")
  BY <1>2, DieStep
<1>3. ASSUME NEW from \in Stages, NEW to \in Stages, Becomes(o, from, to),
             from \in {"observed", "subscribed", "reset"},
             to # "none", to # "observed",
             from \in {"subscribed", "reset"} => to \in Expired,
             from = "observed" => to = "subscribed",
             UNCHANGED <<observers_, before, message, it, pc, got, dead>>
      PROVE  IInv'
  BY <1>3 DEF Becomes, IInv, Typed, Monotone, Entries, Served, Gapless, Blame,
    Expired, Done
<1>4. CASE Subscribe(o) /\ ~Die("function_race")
  BY <1>3, <1>4 DEF Subscribe, Stages, Expired
<1>5. CASE Reset(o)
  BY <1>3, <1>5 DEF Reset, Stages, Expired
<1>6. CASE Free(o)
  BY <1>3, <1>6 DEF Free, Stages, Expired
<1>. QED
  BY <1>1, <1>2, <1>4, <1>5, <1>6 DEF Owner

LEMMA BeginStep == ASSUME IInv, Begin PROVE IInv'
BY DEF Begin, IInv, Typed, Monotone, Entries, Served, Gapless, Blame, Stages,
  Labels, Expired, Done

LEMMA LockStep == ASSUME IInv, dead = "no", Lock PROVE IInv'
<1>. USE DEF IInv
<1>1. CASE it > Len(observers_)
  BY <1>1 DEF Lock, Typed, Monotone, Entries, Served, Gapless, Blame, Labels,
    Done
<1>2. CASE it <= Len(observers_) /\ stage[observers_[it]] \notin Expired
  BY <1>2 DEF Lock, Typed, Monotone, Entries, Served, Gapless, Blame, Labels,
    Done
<1>3. CASE it <= Len(observers_) /\ stage[observers_[it]] \in Expired
  <2>. DEFINE n == Len(observers_)
  <2>1. /\ observers_' = RemoveAt(observers_, it)
        /\ pc = "lock" /\ pc' = "lock"
        /\ UNCHANGED <<it, stage, before, message, got, dead>>
    BY <1>3 DEF Lock, Erase, Typed
  <2>2. n \in Nat /\ it \in 1..n
    BY <1>3 DEF Typed
  <2>3. /\ observers_' \in Seq(Observers) /\ Len(observers_') = n - 1
        /\ \A i \in 1..(n - 1) : observers_'[i] =
             IF i < it THEN observers_[i] ELSE observers_[i + 1]
        /\ DOMAIN observers_ = 1..n /\ DOMAIN observers_' = 1..(n - 1)
    <3>. DEFINE s == observers_
                r == RemoveAt(s, it)
    <3>1. s \in Seq(Observers) /\ it \in 1..Len(s)
      BY <2>2 DEF Typed
    <3>2. /\ r \in Seq(Observers) /\ Len(r) = Len(s) - 1
          /\ \A i \in 1..(Len(s) - 1) :
               r[i] = IF i < it THEN s[i] ELSE s[i + 1]
      BY <3>1, RemoveAtFacts
    <3>3. DOMAIN s = 1..Len(s) /\ DOMAIN r = 1..Len(r)
      BY <3>1, <3>2
    <3>. QED
      BY <2>1, <3>2, <3>3
  <2>4. Typed' /\ Monotone' /\ Gapless' /\ Blame'
    BY <2>1, <2>2, <2>3 DEF Typed, Monotone, Gapless, Blame, Labels
  <2>5. Entries'
    <3>1. \A i \in DOMAIN observers_' : stage'[observers_'[i]] # "none"
      BY <2>1, <2>2, <2>3 DEF Entries
    <3>2. ASSUME NEW i \in DOMAIN observers_', NEW j \in DOMAIN observers_',
                 observers_'[i] = observers_'[j]
          PROVE  i = j
      <4>. DEFINE f(m) == IF m < it THEN m ELSE m + 1
      <4>1. f(i) \in 1..n /\ f(j) \in 1..n
        BY <2>2, <2>3
      <4>2. observers_[f(i)] = observers_[f(j)]
        BY <2>3, <3>2
      <4>3. f(i) = f(j)
        BY <2>3, <4>1, <4>2 DEF Entries
      <4>. QED
        BY <2>2, <2>3, <4>3
    <3>3. ASSUME NEW p \in Observers, stage'[p] \in {"observed", "subscribed"}
          PROVE  \E i \in DOMAIN observers_' : observers_'[i] = p
      <4>1. PICK i \in 1..n : observers_[i] = p
        BY <2>1, <2>3, <3>3 DEF Entries
      <4>2. i # it
        BY <1>3, <2>1, <3>3, <4>1 DEF Expired
      <4>3. CASE i < it
        BY <2>2, <2>3, <4>1, <4>3
      <4>4. CASE i > it
        <5>1. i - 1 \in 1..(n - 1) /\ ~(i - 1 < it) /\ (i - 1) + 1 = i
          BY <2>2, <4>1, <4>4
        <5>2. observers_'[i - 1] = p
          BY <2>3, <4>1, <5>1
        <5>. QED
          BY <2>3, <5>1, <5>2
      <4>. QED
        BY <2>2, <4>2, <4>3, <4>4
    <3>4. \A p \in Observers :
            stage'[p] \in {"none", "observed"} => got'[p] = <<>>
      BY <2>1 DEF Entries
    <3>. QED
      BY <3>1, <3>2, <3>3, <3>4 DEF Entries
  <2>6. Served'
    <3>1. ASSUME NEW i \in DOMAIN observers_'
          PROVE  LET p == observers_'[i] IN
                 /\ got[p] # <<>> => got[p][Len(got[p])] =
                      IF i < it THEN message ELSE message - 1
                 /\ i < it /\ before[p] = "subscribed" => got[p] # <<>>
                 /\ i < it => before[p] \notin Expired
      <4>1. i \in 1..(n - 1)
        BY <2>3
      <4>2. CASE i < it
        <5>1. i \in DOMAIN observers_ /\ observers_'[i] = observers_[i]
          BY <2>2, <2>3, <4>1, <4>2
        <5>. QED
          BY <2>1, <4>2, <5>1 DEF Served, Done
      <4>3. CASE ~(i < it)
        <5>1. /\ i + 1 \in DOMAIN observers_ /\ ~(i + 1 < it)
              /\ observers_'[i] = observers_[i + 1]
          BY <2>2, <2>3, <4>1, <4>3
        <5>. QED
          BY <2>1, <4>3, <5>1 DEF Served, Done
      <4>. QED
        BY <4>2, <4>3
    <3>. QED
      BY <2>1, <3>1 DEF Served, Done
  <2>. QED
    BY <2>4, <2>5, <2>6
<1>. QED
  BY <1>1, <1>2, <1>3 DEF Typed

LEMMA CallStep == ASSUME IInv, dead = "no", Call PROVE IInv'
<1>. DEFINE o == observers_[it]
<1>0. pc = "call" /\ it \in DOMAIN observers_ /\ o \in Observers
  BY DEF Call, IInv, Typed
<1>1. CASE Die("use_after_free")
  BY <1>0, <1>1, DieStep
<1>2. CASE stage[o] = "observed" /\ ~Die("use_after_free")
  <2>1. /\ it' = it + 1 /\ pc' = "lock"
        /\ UNCHANGED <<observers_, stage, before, message, got, dead>>
    BY <1>2 DEF Call
  <2>2. got[o] = <<>> /\ before[o] # "subscribed" /\ before[o] \notin Expired
    BY <1>0, <1>2 DEF IInv, Monotone, Entries, Expired
  <2>3. Typed'
    BY <1>0, <2>1 DEF IInv, Typed, Labels
  <2>4. Monotone' /\ Entries' /\ Gapless' /\ Blame'
    BY <2>1 DEF IInv, Monotone, Entries, Gapless, Blame
  <2>5. Served'
    <3>. SUFFICES ASSUME NEW i \in DOMAIN observers_
                  PROVE  LET p == observers_[i] IN
                    /\ got[p] # <<>> => got[p][Len(got[p])] =
                         IF i < it + 1 THEN message ELSE message - 1
                    /\ i < it + 1 /\ before[p] = "subscribed" => got[p] # <<>>
                    /\ i < it + 1 => before[p] \notin Expired
      BY <2>1 DEF Served, Done
    <3>1. CASE i = it
      BY <1>0, <2>2, <3>1
    <3>2. CASE i # it
      <4>1. i < it + 1 <=> i < it
        BY <3>2 DEF IInv, Typed
      <4>. QED
        BY <1>0, <4>1 DEF IInv, Served, Done
    <3>. QED
      BY <3>1, <3>2
  <2>. QED
    BY <2>3, <2>4, <2>5 DEF IInv
<1>3. CASE stage[o] # "observed" /\ ~Die("use_after_free")
  <2>1. /\ it' = it + 1 /\ pc' = "lock"
        /\ got' = [got EXCEPT ![o] = Append(@, message)]
        /\ UNCHANGED <<observers_, stage, before, message, dead>>
    BY <1>3 DEF Call
  <2>. DEFINE g == got[o]
  <2>2. g \in Seq(Nat) /\ message \in Nat /\ Len(g) \in Nat
    BY <1>0 DEF IInv, Typed
  <2>3. /\ got'[o] \in Seq(Nat) /\ Len(got'[o]) = Len(g) + 1
        /\ \A i \in 1..Len(g) : got'[o][i] = g[i]
        /\ got'[o][Len(g) + 1] = message
        /\ \A p \in Observers : p # o => got'[p] = got[p]
        /\ got' \in [Observers -> Seq(Nat)]
    <3>1. got'[o] = Append(g, message)
      BY <1>0, <2>1 DEF IInv, Typed
    <3>2. got'[o] \in Seq(Nat)
      BY <2>2, <3>1, AppendFacts
    <3>. QED
      BY <1>0, <2>1, <2>2, <3>1, <3>2, AppendFacts DEF IInv, Typed
  <2>4. got'[o] # <<>>
    BY <2>2, <2>3
  <2>5. g # <<>> => Len(g) > 0 /\ g[Len(g)] = message - 1
    BY <1>0, <2>2 DEF IInv, Typed, Served, Done
  <2>6. Typed'
    BY <1>0, <2>1, <2>3 DEF IInv, Typed, Labels
  <2>7. Monotone' /\ Blame'
    BY <2>1 DEF IInv, Monotone, Blame
  <2>8. Entries'
    BY <1>0, <1>3, <2>1, <2>3 DEF IInv, Typed, Entries
  <2>9. Served'
    <3>. SUFFICES ASSUME NEW i \in DOMAIN observers_
                  PROVE  LET p == observers_[i] IN
                    /\ got'[p] # <<>> => got'[p][Len(got'[p])] =
                         IF i < it + 1 THEN message ELSE message - 1
                    /\ i < it + 1 /\ before[p] = "subscribed" => got'[p] # <<>>
                    /\ i < it + 1 => before[p] \notin Expired
      BY <2>1 DEF Served, Done
    <3>1. CASE i = it
      BY <1>0, <2>2, <2>3, <2>4, <3>1 DEF IInv, Typed, Served
    <3>2. CASE i # it
      <4>1. observers_[i] # o /\ observers_[i] \in Observers
        BY <1>0, <3>2 DEF IInv, Typed, Entries
      <4>2. got'[observers_[i]] = got[observers_[i]]
        BY <2>3, <4>1
      <4>3. i < it + 1 <=> i < it
        BY <3>2 DEF IInv, Typed
      <4>. QED
        BY <1>0, <4>2, <4>3 DEF IInv, Typed, Served, Done
    <3>. QED
      BY <3>1, <3>2
  <2>10. Gapless'
    <3>. SUFFICES ASSUME NEW p \in Observers, NEW i \in 1..(Len(got'[p]) - 1)
                  PROVE  got'[p][i + 1] = got'[p][i] + 1
      BY DEF Gapless
    <3>1. CASE p # o
      BY <2>3, <3>1 DEF IInv, Gapless
    <3>2. CASE p = o /\ i < Len(g)
      <4>1. i \in 1..(Len(g) - 1) /\ i \in 1..Len(g) /\ i + 1 \in 1..Len(g)
        BY <2>2, <3>2, <2>3
      <4>. QED
        BY <1>0, <2>3, <3>2, <4>1 DEF IInv, Gapless
    <3>3. CASE p = o /\ i >= Len(g)
      <4>1. i = Len(g) /\ i \in 1..Len(g) /\ g # <<>>
        BY <2>2, <2>3, <3>3
      <4>. QED
        BY <2>2, <2>3, <2>5, <3>3, <4>1
    <3>. QED
      BY <2>2, <2>3, <3>1, <3>2, <3>3
  <2>. QED
    BY <2>6, <2>7, <2>8, <2>9, <2>10 DEF IInv
<1>. QED
  BY <1>1, <1>2, <1>3

LEMMA InvStep == IInv /\ [Next]_vars => IInv'
<1>. SUFFICES ASSUME IInv, [Next]_vars PROVE IInv'
  OBVIOUS
<1>1. CASE UNCHANGED vars
  BY <1>1 DEF vars, state, IInv, Typed, Monotone, Entries, Served, Gapless,
    Blame, Done
<1>2. CASE ~UNCHANGED vars
  BY <1>2, BeginStep, LockStep, CallStep, OwnerStep
    DEF Next, CaptureThread, Over
<1>. QED
  BY <1>1, <1>2

\* The conjuncts of IInv hold in every state.
THEOREM Invariance == Spec => []IInv
BY InitInv, InvStep, PTL DEF Spec

\* What TypeOK says beyond Typed: the bounds.
Bounded ==
  /\ message <= MaxMessages
  /\ pc # "idle" => message >= 1
  /\ got \in [Observers -> Seq(1..MaxMessages)]
  /\ dead \in {"no", "vector_race", "function_race", "use_after_free"}

LEMMA CallBounded ==
  ASSUME IInv, Bounded, Call
  PROVE  Bounded'
<1>. DEFINE o == observers_[it]
<1>1. o \in Observers /\ pc = "call"
  BY DEF IInv, Typed, Call
<1>2. message \in 1..MaxMessages
  BY <1>1, SubjectAssumption DEF IInv, Typed, Bounded
<1>3. Append(got[o], message) \in Seq(1..MaxMessages)
  BY <1>1, <1>2, AppendFacts DEF Bounded
<1>4. got' \in [Observers -> Seq(1..MaxMessages)]
  BY <1>1, <1>3 DEF Call, Die, state, Bounded
<1>. QED
  BY <1>1, <1>4 DEF Call, Die, state, Bounded

LEMMA BoundedStep == IInv /\ Bounded /\ [Next]_vars => Bounded'
<1>. SUFFICES ASSUME IInv, Bounded, [Next]_vars PROVE Bounded'
  OBVIOUS
<1>1. CASE Call
  BY <1>1, CallBounded
<1>2. CASE Begin
  BY <1>2, SubjectAssumption DEF Begin, IInv, Typed, Bounded
<1>3. CASE Lock
  BY <1>3 DEF Lock, Erase, Bounded
<1>4. CASE \E o \in Observers : Owner(o)
  BY <1>4 DEF Owner, AsObservable, Subscribe, Reset, Free, Die, state, Bounded
<1>5. CASE UNCHANGED vars
  BY <1>5 DEF vars, state, Bounded
<1>. QED
  BY <1>1, <1>2, <1>3, <1>4, <1>5 DEF Next, CaptureThread, Over

\* Every variable of the list keeps its type and its bound, the iterator of
\* Next (subject.h:27-34) above all: it never passes the end.
THEOREM TypeCorrect == Spec => []TypeOK
<1>1. Init => Bounded
  BY SubjectAssumption DEF Init, Bounded
<1>2. IInv /\ Bounded => TypeOK
  BY SubjectAssumption DEF IInv, Typed, Bounded, TypeOK
<1>. QED
  BY <1>1, <1>2, Invariance, BoundedStep, PTL DEF Spec

\* Next (subject.h:26-37) skips nobody who stays, whoever leaves meanwhile.
THEOREM NoneSkippedCorrect == Spec => []NoneSkipped
<1>1. IInv => NoneSkipped
  <2>. SUFFICES ASSUME IInv, pc = "idle", NEW o \in Observers,
                       before[o] = "subscribed", stage[o] = "subscribed"
                PROVE  got[o] # <<>> /\ Last(got[o]) = message
    BY DEF NoneSkipped
  <2>1. PICK i \in DOMAIN observers_ : observers_[i] = o
    BY DEF IInv, Entries
  <2>. QED
    BY <2>1 DEF IInv, Served, Done, Last
<1>. QED
  BY <1>1, Invariance, PTL

\* Every observer gets a run of consecutive messages, each once.
THEOREM GaplessCorrect == Spec => []Gapless
<1>1. IInv => Gapless
  BY DEF IInv
<1>. QED
  BY <1>1, Invariance, PTL

\* One Next clears the vector of all that had expired before it.
THEOREM PrunedCorrect == Spec => []Pruned
<1>1. IInv => Pruned
  BY DEF IInv, Typed, Served, Done, Pruned, Contains
<1>. QED
  BY <1>1, Invariance, PTL

\* Only a peer destroyed during a Next is called through a freed this.
THEOREM LateCallsCorrect == Spec => []OnlyLateCalls
<1>1. IInv => OnlyLateCalls
  BY DEF IInv, Typed, Served, Blame, OnlyLateCalls
<1>. QED
  BY <1>1, Invariance, PTL

-----------------------------------------------------------------------------
(* Subject implements Broadcast.                                           *)

\* What the steps of the owners and of Next leave alone of the mapping.
LEMMA Frame ==
  /\ UNCHANGED stage => UNCHANGED <<Members, Departed>>
  /\ UNCHANGED got => UNCHANGED Given
BY DEF Members, Departed, Given

LEMMA DieRefines ==
  ASSUME dead = "no", dead' # "no", UNCHANGED state
  PROVE  Broadcast!Crash
<1>1. UNCHANGED <<Members, Departed, Given, Due, message, pc>>
  BY DEF state, Members, Departed, Given, Due
<1>. QED
  BY <1>1 DEF Broadcast!Crash

LEMMA InitRefines == Init => Broadcast!Init
BY DEF Init, Broadcast!Init, Members, Departed, Given, Due, Expired

\* Outside of a call, those who are due are the subscribed entries ahead.
LEMMA DueAtLock ==
  ASSUME pc = "lock", NEW o \in Observers
  PROVE  o \in Due <=> /\ stage[o] = "subscribed"
                       /\ \E i \in it..Len(observers_) : observers_[i] = o
BY DEF Due

LEMMA BeginRefines == ASSUME IInv, Begin PROVE Broadcast!Publish
<1>1. /\ pc = "idle" /\ pc' = "lock" /\ message' = message + 1 /\ it' = 1
      /\ UNCHANGED <<observers_, stage, got, dead>>
  BY DEF Begin
<1>2. Due' = Members
  <2>1. ASSUME NEW o \in Observers PROVE o \in Due' <=> o \in Members
    BY <1>1 DEF Due, Members, IInv, Typed, Entries
  <2>. QED
    BY <2>1 DEF Due, Members
<1>3. message \in Nat
  BY DEF IInv, Typed
<1>. QED
  BY <1>1, <1>2, <1>3, Frame DEF Broadcast!Publish

\* The vector moves up under the iterator; nobody who is due was at it.
LEMMA EraseRefines ==
  ASSUME IInv, Lock, it <= Len(observers_), stage[observers_[it]] \in Expired
  PROVE  Due' = Due
<1>. DEFINE n == Len(observers_)
<1>1. /\ pc = "lock" /\ pc' = "lock" /\ UNCHANGED <<it, stage>>
      /\ observers_' = RemoveAt(observers_, it)
  BY DEF Lock, Erase, IInv, Typed
<1>2. n \in Nat /\ it \in 1..n /\ observers_ \in Seq(Observers)
  BY DEF IInv, Typed
<1>3. /\ Len(observers_') = n - 1
      /\ \A i \in 1..(n - 1) : observers_'[i] =
           IF i < it THEN observers_[i] ELSE observers_[i + 1]
  BY <1>1, <1>2, RemoveAtFacts
<1>4. ASSUME NEW o \in Observers, stage[o] = "subscribed"
      PROVE  (\E i \in it..(n - 1) : observers_'[i] = o)
               <=> \E i \in it..n : observers_[i] = o
  <2>1. ASSUME NEW i \in it..(n - 1), observers_'[i] = o
        PROVE  i + 1 \in it..n /\ observers_[i + 1] = o
    BY <1>2, <1>3, <2>1
  <2>2. ASSUME NEW i \in it..n, observers_[i] = o
        PROVE  i - 1 \in it..(n - 1) /\ observers_'[i - 1] = o
    <3>1. i # it
      BY <1>4, <2>2 DEF Expired
    <3>2. /\ i - 1 \in it..(n - 1) /\ i - 1 \in 1..(n - 1) /\ ~(i - 1 < it)
          /\ (i - 1) + 1 = i
      BY <1>2, <3>1
    <3>. QED
      BY <1>3, <2>2, <3>2
  <2>. QED
    BY <2>1, <2>2
<1>5. ASSUME NEW o \in Observers PROVE o \in Due' <=> o \in Due
  BY <1>1, <1>3, <1>4 DEF Due
<1>. QED
  BY <1>5 DEF Due

Mapped == <<Members, Departed, message, Due, pc # "idle", Given, dead = "no">>

LEMMA LockRefines ==
  ASSUME IInv, dead = "no", Lock
  PROVE  Broadcast!Return \/ UNCHANGED Mapped
<1>1. UNCHANGED <<stage, message, got, dead, Members, Departed, Given>>
  BY Frame DEF Lock
<1>2. CASE it > Len(observers_)
  <2>1. Due = {} /\ pc = "lock"
    BY <1>2 DEF Due, Lock, IInv, Typed
  <2>2. Due' = {} /\ pc' = "idle"
    BY <1>2 DEF Due, Lock, IInv, Typed
  <2>. QED
    BY <1>1, <2>1, <2>2 DEF Broadcast!Return
<1>3. CASE it <= Len(observers_) /\ stage[observers_[it]] \notin Expired
  <2>1. pc = "lock" /\ pc' = "call" /\ UNCHANGED <<observers_, it>>
    BY <1>3 DEF Lock, IInv, Typed
  <2>2. ASSUME NEW o \in Observers PROVE o \in Due' <=> o \in Due
    BY <1>1, <1>3, <2>1 DEF Due
  <2>3. Due' = Due
    BY <2>2 DEF Due
  <2>. QED
    BY <1>1, <2>1, <2>3 DEF Mapped
<1>4. CASE it <= Len(observers_) /\ stage[observers_[it]] \in Expired
  <2>1. pc = "lock" /\ pc' = "lock"
    BY <1>4 DEF Lock, Erase, IInv, Typed
  <2>. QED
    BY <1>1, <1>4, <2>1, EraseRefines DEF Mapped
<1>. QED
  BY <1>2, <1>3, <1>4 DEF IInv, Typed

\* The iterator leaves the locked entry behind; the others stay due.
LEMMA CallDue ==
  ASSUME IInv, Call, dead' = "no"
  PROVE  /\ pc = "call" /\ pc' = "lock" /\ it \in DOMAIN observers_
         /\ Due' = Due \ {observers_[it]}
         /\ observers_[it] \in Due <=> stage[observers_[it]] # "observed"
<1>. DEFINE o == observers_[it]
            n == Len(observers_)
<1>1. /\ pc = "call" /\ pc' = "lock" /\ it' = it + 1
      /\ UNCHANGED <<observers_, stage>>
  BY DEF Call, Die
<1>2. it \in 1..n /\ n \in Nat /\ DOMAIN observers_ = 1..n /\ o \in Observers
  BY <1>1 DEF IInv, Typed
<1>3. \A i \in 1..n : observers_[i] = o => i = it
  BY <1>2 DEF IInv, Entries
<1>4. o \in Due <=> stage[o] # "observed"
  <2>1. stage[o] \in Stages /\ stage[o] # "none"
    BY <1>2 DEF IInv, Typed, Entries
  <2>. QED
    BY <1>1, <1>2, <1>3, <2>1 DEF Due, Stages, Expired
<1>5. ASSUME NEW p \in Observers PROVE p \in Due' <=> p \in Due \ {o}
  <2>1. p \in Due' <=>
          stage[p] = "subscribed" /\ \E i \in (it + 1)..n : observers_[i] = p
    BY <1>1 DEF Due
  <2>2. CASE p = o
    BY <1>2, <1>3, <2>1, <2>2
  <2>3. CASE p # o
    <3>1. p \in Due <=>
            stage[p] = "subscribed" /\ \E i \in it..n : observers_[i] = p
      BY <1>1, <2>3 DEF Due
    <3>2. (\E i \in it..n : observers_[i] = p)
            <=> \E i \in (it + 1)..n : observers_[i] = p
      BY <1>2, <2>3
    <3>. QED
      BY <2>1, <2>3, <3>1, <3>2
  <2>. QED
    BY <2>2, <2>3
<1>6. Due' = Due \ {o}
  BY <1>5 DEF Due
<1>. QED
  BY <1>1, <1>2, <1>4, <1>6

LEMMA CallRefines ==
  ASSUME IInv, dead = "no", Call
  PROVE  \/ \E o \in Observers : Broadcast!Deliver(o)
         \/ Broadcast!Crash
         \/ UNCHANGED Mapped
<1>. DEFINE o == observers_[it]
<1>1. CASE dead' # "no"
  BY <1>1, DieRefines DEF Call, Die
<1>2. CASE dead' = "no" /\ stage[o] = "observed"
  <2>1. UNCHANGED <<stage, got, message, dead>>
    BY <1>2 DEF Call, Die
  <2>. QED
    BY <1>2, <2>1, CallDue, Frame DEF Mapped
<1>3. CASE dead' = "no" /\ stage[o] # "observed"
  <2>1. /\ got' = [got EXCEPT ![o] = Append(@, message)]
        /\ UNCHANGED <<stage, message, dead>>
    BY <1>3 DEF Call, Die
  <2>2. o \in Observers /\ it \in DOMAIN observers_
    BY <1>3, CallDue DEF IInv, Typed
  <2>3. Given' = [Given EXCEPT ![o] = message]
    <3>1. got'[o] = Append(got[o], message) /\ got[o] \in Seq(Nat)
          /\ message \in Nat
      BY <2>1, <2>2 DEF IInv, Typed
    <3>2. got'[o] # <<>> /\ Last(got'[o]) = message
      BY <3>1, AppendFacts DEF Last
    <3>3. \A p \in Observers : p # o => got'[p] = got[p]
      BY <2>1, <2>2 DEF IInv, Typed
    <3>. QED
      BY <2>2, <3>2, <3>3 DEF Given
  <2>4. Broadcast!Deliver(o)
    BY <1>3, <2>1, <2>3, CallDue, Frame DEF Broadcast!Deliver
  <2>. QED
    BY <2>2, <2>4
<1>. QED
  BY <1>1, <1>2, <1>3

\* An owner changes its own stage, and the vector behind its end.
LEMMA OwnerRefines ==
  ASSUME IInv, dead = "no", NEW o \in Observers, Owner(o)
  PROVE  \/ Broadcast!Join(o) \/ Broadcast!Leave(o)
         \/ Broadcast!Crash
         \/ UNCHANGED Mapped
<1>. USE DEF Expired
<1>1. stage \in [Observers -> Stages]
  BY DEF IInv, Typed
<1>2. CASE AsObservable(o)
  <2>1. CASE dead' # "no"
    BY <1>2, <2>1, DieRefines DEF AsObservable, Die
  <2>2. CASE dead' = "no"
    <3>. DEFINE n == Len(observers_)
    <3>1. /\ stage[o] = "none" /\ stage' = [stage EXCEPT ![o] = "observed"]
          /\ observers_' = Append(observers_, o)
          /\ UNCHANGED <<message, it, pc, got, dead>>
      BY <1>2, <2>2 DEF AsObservable, Becomes, Die
    <3>2. /\ n \in Nat /\ it \in 1..(n + 1) /\ Len(observers_') = n + 1
          /\ \A i \in 1..n : observers_'[i] = observers_[i]
          /\ observers_'[n + 1] = o
          /\ pc = "call" => it <= n
      BY <3>1, AppendFacts DEF IInv, Typed
    <3>3. UNCHANGED <<Members, Departed, Given>>
      BY <1>1, <3>1 DEF Members, Departed, Given
    <3>4. ASSUME NEW p \in Observers PROVE p \in Due' <=> p \in Due
      <4>1. CASE p = o
        <5>1. \A i \in 1..n : observers_[i] # o
          BY <3>1, <3>2 DEF IInv, Typed, Entries
        <5>. QED
          BY <1>1, <3>1, <3>2, <4>1, <5>1 DEF Due
      <4>2. CASE p # o
        <5>1. stage'[p] = stage[p]
          BY <1>1, <3>1, <4>2
        <5>2. \A i \in it..(n + 1) : observers_'[i] = p <=>
                                      i \in it..n /\ observers_[i] = p
          BY <3>2, <4>2
        <5>. QED
          BY <3>1, <3>2, <5>1, <5>2 DEF Due
      <4>. QED
        BY <4>1, <4>2
    <3>5. Due' = Due
      BY <3>4 DEF Due
    <3>. QED
      BY <3>1, <3>3, <3>5 DEF Mapped
  <2>. QED
    BY <2>1, <2>2
<1>3. CASE Subscribe(o)
  <2>1. CASE dead' # "no"
    BY <1>3, <2>1, DieRefines DEF Subscribe, Die
  <2>2. CASE dead' = "no"
    <3>1. /\ stage[o] = "observed"
          /\ stage' = [stage EXCEPT ![o] = "subscribed"]
          /\ UNCHANGED <<observers_, message, it, pc, got, dead>>
      BY <1>3, <2>2 DEF Subscribe, Becomes, Die
    <3>2. /\ Members' = Members \cup {o} /\ o \notin Members \cup Departed
          /\ UNCHANGED <<Departed, Given>>
      BY <1>1, <3>1 DEF Members, Departed, Given
    <3>3. \A p \in Observers \ {o} : p \in Due' <=> p \in Due
      BY <1>1, <3>1 DEF Due
    <3>4. o \notin Due
      BY <3>1 DEF Due
    <3>5. Due' = Due \/ (pc # "idle" /\ Due' = Due \cup {o})
      BY <3>1, <3>3, <3>4 DEF Due
    <3>. QED
      BY <3>1, <3>2, <3>5 DEF Broadcast!Join
  <2>. QED
    BY <2>1, <2>2
<1>4. CASE Reset(o)
  <2>1. /\ stage[o] = "subscribed" /\ stage' = [stage EXCEPT ![o] = "reset"]
        /\ UNCHANGED <<observers_, message, it, pc, got, dead>>
    BY <1>4 DEF Reset, Becomes
  <2>2. /\ Members' = Members \ {o} /\ o \in Members
        /\ Departed' = Departed \cup {o} /\ UNCHANGED Given
    BY <1>1, <2>1 DEF Members, Departed, Given
  <2>3. \A p \in Observers \ {o} : p \in Due' <=> p \in Due
    BY <1>1, <2>1 DEF Due
  <2>4. o \in Due' => o \in Due
    BY <1>1, <2>1 DEF Due
  <2>5. Due' \in {Due, Due \ {o}}
    BY <2>3, <2>4 DEF Due
  <2>. QED
    BY <2>1, <2>2, <2>5 DEF Broadcast!Leave
<1>5. CASE Free(o)
  <2>1. /\ stage[o] = "reset" /\ stage' = [stage EXCEPT ![o] = "freed"]
        /\ UNCHANGED <<observers_, message, it, pc, got, dead>>
    BY <1>5 DEF Free, Becomes
  <2>2. UNCHANGED <<Members, Departed, Given>>
    BY <1>1, <2>1 DEF Members, Departed, Given
  <2>3. \A p \in Observers : p \in Due' <=> p \in Due
    BY <1>1, <2>1 DEF Due
  <2>4. Due' = Due
    BY <2>3 DEF Due
  <2>. QED
    BY <2>1, <2>2, <2>4 DEF Mapped
<1>. QED
  BY <1>2, <1>3, <1>4, <1>5 DEF Owner

LEMMA StepRefines ==
  IInv /\ [Next]_vars => [Broadcast!Next]_Mapped
<1>. SUFFICES ASSUME IInv, [Next]_vars PROVE [Broadcast!Next]_Mapped
  OBVIOUS
<1>1. CASE UNCHANGED vars
  BY <1>1 DEF vars, state, Mapped, Members, Departed, Given, Due
<1>2. CASE dead = "no" /\ Begin
  BY <1>2, BeginRefines DEF Broadcast!Next
<1>3. CASE dead = "no" /\ Lock
  BY <1>3, LockRefines DEF Broadcast!Next
<1>4. CASE dead = "no" /\ Call
  BY <1>4, CallRefines DEF Broadcast!Next
<1>5. ASSUME dead = "no", NEW o \in Observers, Owner(o)
      PROVE  [Broadcast!Next]_Mapped
  BY <1>5, OwnerRefines DEF Broadcast!Next
<1>. QED
  BY <1>1, <1>2, <1>3, <1>4, <1>5 DEF Next, CaptureThread, Over

\* Subject (subject.h:23-48) implements Broadcast, for any observers and any
\* number of messages, whatever its owners do between its statements.
THEOREM BroadcastCorrect == Spec => IsBroadcast
<1>1. [Broadcast!Next]_Mapped => [Broadcast!Next]_(Broadcast!vars)
  BY DEF Mapped, Broadcast!vars
<1>. QED
  BY <1>1, InitRefines, StepRefines, Invariance, PTL
  DEF Spec, IsBroadcast, Broadcast!Spec

\* What lies ahead of Next is a number, and each of its statements takes from
\* it, for any vector.
THEOREM NextAdvancesCorrect == Spec => [](Ahead \in Nat) /\ NextAdvances
<1>1. ASSUME IInv PROVE Ahead \in Nat
  BY <1>1 DEF IInv, Typed, Ahead
<1>2. ASSUME IInv, Lock PROVE Ahead' < Ahead
  <2>1. /\ pc = "lock" /\ Len(observers_) \in Nat
        /\ it \in 1..(Len(observers_) + 1)
    BY <1>2 DEF Lock, IInv, Typed
  <2>2. CASE it > Len(observers_) \/ stage[observers_[it]] \notin Expired
    BY <1>2, <2>1, <2>2 DEF Lock, Ahead
  <2>3. CASE it <= Len(observers_) /\ stage[observers_[it]] \in Expired
    <3>1. pc' = "lock" /\ it' = it /\ observers_' = RemoveAt(observers_, it)
      BY <1>2, <2>1, <2>3 DEF Lock, Erase
    <3>2. observers_ \in Seq(Observers) /\ it \in 1..Len(observers_)
      BY <1>2, <2>1, <2>3 DEF IInv, Typed
    <3>3. Len(observers_') = Len(observers_) - 1
      BY <3>1, <3>2, RemoveAtFacts
    <3>. QED
      BY <2>1, <3>1, <3>3 DEF Ahead
  <2>. QED
    BY <2>1, <2>2, <2>3
<1>3. ASSUME IInv, Call PROVE dead' # "no" \/ Ahead' < Ahead
  <2>1. CASE dead' = "no"
    <3>1. /\ pc = "call" /\ pc' = "lock" /\ it' = it + 1 /\ UNCHANGED observers_
          /\ it \in 1..Len(observers_) /\ Len(observers_) \in Nat
      BY <1>3, <2>1 DEF Call, Die, IInv, Typed
    <3>. QED
      BY <3>1 DEF Ahead
  <2>. QED
    BY <2>1
<1>4. IInv /\ [Next]_vars =>
        [Lock \/ Call => dead' # "no" \/ Ahead' < Ahead]_vars
  BY <1>2, <1>3
<1>. QED
  BY <1>1, <1>4, Invariance, PTL DEF Spec, NextAdvances
=============================================================================
