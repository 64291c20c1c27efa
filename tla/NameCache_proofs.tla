---------------------------- MODULE NameCache_proofs ---------------------------
(***************************************************************************)
(* Theorems about NameCache, for all clients, names and bounds, when no     *)
(* rule of the user's is tried before the cache's (~UserRuleFirst; with one  *)
(* TLC refutes them).                                                        *)
(***************************************************************************)
EXTENDS NameCache, SequenceTheorems, WellFoundedInduction, TLAPS

(* The inductive invariant: the signals on their way lead from what the     *)
(* cache has to what the daemon has, name by name.                           *)

\* Before the subscription there is nothing.
Unsubscribed ==
  ~subscribed => signals = <<>> /\ \A c \in Conns : cache[c] = {}

\* The first signal about a name takes it from the owner in the cache, if any.
Front ==
  \A i \in DOMAIN signals :
    (\A j \in 1..i-1 : signals[j].name # signals[i].name) =>
      \A c \in Conns : signals[i].name \in cache[c] => c = signals[i].old

\* The next takes it from the one the signal before gave it to.
Linked ==
  \A i, j \in DOMAIN signals :
    /\ i < j
    /\ signals[i].name = signals[j].name
    /\ \A k \in i+1..j-1 : signals[k].name # signals[j].name
    => signals[j].old = signals[i].new

\* The last gives it to its owner.
Back ==
  \A i \in DOMAIN signals :
    (\A j \in i+1..Len(signals) : signals[j].name # signals[i].name) =>
      signals[i].new = owner[signals[i].name]

\* A name without a signal is with its owner, if anywhere.
Settled ==
  \A n \in BusNames :
    (\A i \in DOMAIN signals : signals[i].name # n) =>
      \A c \in Conns : n \in cache[c] => owner[n] = c

IInv == TypeOK /\ OneOwner /\ Unsubscribed /\ Front /\ Linked /\ Back /\ Settled
--------------------------------------------------------------------------------
LEMMA SignalsType == TypeOK => signals \in Seq(Signal)
  BY DEF TypeOK

LEMMA SignalsTypeNext == TypeOK' => signals' \in Seq(Signal)
  BY DEF TypeOK

\* How the signals and the cache change when one of them is learned.
Learn ==
  /\ signals # <<>>
  /\ Len(signals') = Len(signals) - 1
  /\ \A i \in DOMAIN signals' : signals'[i] = signals[i + 1]
  /\ cache' = Update(signals[1])
  /\ UNCHANGED <<owner, subscribed>>

\* Each signal moves one place forward.
LEMMA Shift ==
  ASSUME TypeOK, TypeOK', Learn
  PROVE  /\ \A i \in DOMAIN signals' :
              i + 1 \in DOMAIN signals /\ signals'[i] = signals[i + 1]
         /\ \A i \in 2..Len(signals) :
              i - 1 \in DOMAIN signals' /\ signals'[i - 1] = signals[i]
<1>1. signals \in Seq(Signal) /\ signals' \in Seq(Signal)
  BY SignalsType, SignalsTypeNext
<1>2. ASSUME NEW i \in 2..Len(signals)
      PROVE  i - 1 \in DOMAIN signals' /\ signals'[i - 1] = signals[i]
  <2>1. i - 1 \in DOMAIN signals' /\ (i - 1) + 1 = i
    BY <1>1 DEF Learn
  <2>2. signals'[i - 1] = signals[(i - 1) + 1]
    BY <2>1 DEF Learn
  <2> QED
    BY <2>1, <2>2
<1> QED
  BY <1>1, <1>2 DEF Learn

\* Removing a signal's name from its old owner removes it altogether.
LEMMA Moved ==
  ASSUME TypeOK, Front, Learn, NEW n \in BusNames, NEW c \in Conns
  PROVE  /\ n # signals[1].name => (n \in cache'[c] <=> n \in cache[c])
         /\ n = signals[1].name => (n \in cache'[c] <=> c = signals[1].new)
<1>1. signals \in Seq(Signal) /\ 1 \in DOMAIN signals
  BY SignalsType DEF Learn
<1>2. signals[1].name \in cache[c] => c = signals[1].old
  BY <1>1 DEF Front
<1> QED
  BY <1>1, <1>2 DEF Learn, Update, TypeOK

LEMMA LearnOneOwner ==
  ASSUME TypeOK, OneOwner, Front, Learn
  PROVE  OneOwner'
<1> SUFFICES ASSUME NEW c \in Conns, NEW d \in Conns, c # d,
                    NEW n \in cache'[c], n \in cache'[d]
             PROVE  FALSE
  BY DEF OneOwner
<1>1. signals \in Seq(Signal) /\ 1 \in DOMAIN signals
  BY SignalsType DEF Learn
<1>2. n \in BusNames
  BY <1>1 DEF Learn, Update, TypeOK, Signal
<1>3. CASE n = signals[1].name
  BY <1>2, <1>3, Moved
<1>4. CASE n # signals[1].name
  BY <1>2, <1>4, Moved DEF OneOwner
<1> QED
  BY <1>3, <1>4

LEMMA LearnFront ==
  ASSUME TypeOK, Front, Linked, Learn, TypeOK'
  PROVE  Front'
<1>1. /\ signals \in Seq(Signal) /\ signals' \in Seq(Signal)
      /\ 1 \in DOMAIN signals
  BY SignalsType, SignalsTypeNext DEF Learn
<1> SUFFICES ASSUME NEW i \in DOMAIN signals',
                    \A j \in 1..i-1 : signals'[j].name # signals'[i].name,
                    NEW c \in Conns, signals'[i].name \in cache'[c]
             PROVE  c = signals'[i].old
  BY DEF Front
<1>2. /\ i + 1 \in DOMAIN signals /\ signals'[i] = signals[i + 1]
      /\ signals[i + 1].name \in BusNames
      /\ \A j \in 2..i : signals[j].name # signals[i + 1].name
  <2>1. i + 1 \in DOMAIN signals /\ signals'[i] = signals[i + 1]
    BY <1>1 DEF Learn
  <2>2. ASSUME NEW j \in 2..i PROVE signals[j].name # signals[i + 1].name
    <3>1. /\ j \in 2..Len(signals) /\ j - 1 \in 1..i-1
      BY <1>1, <2>1
    <3>2. signals'[j - 1] = signals[j]
      BY <3>1, Shift
    <3> QED
      BY <2>1, <3>1, <3>2
  <2>3. signals[i + 1] \in Signal
    BY <1>1, <2>1
  <2> QED
    BY <2>1, <2>2, <2>3 DEF Signal
<1>3. CASE signals[i + 1].name = signals[1].name
  <2>1. c = signals[1].new
    BY <1>2, <1>3, Moved
  <2>2. signals[i + 1].old = signals[1].new
    BY <1>1, <1>2, <1>3 DEF Linked
  <2> QED
    BY <1>2, <2>1, <2>2
<1>4. CASE signals[i + 1].name # signals[1].name
  <2>1. signals[i + 1].name \in cache[c]
    BY <1>2, <1>4, Moved
  <2>2. \A j \in 1..i : signals[j].name # signals[i + 1].name
    BY <1>1, <1>2, <1>4
  <2> QED
    BY <1>1, <1>2, <2>1, <2>2 DEF Front
<1> QED
  BY <1>3, <1>4

LEMMA LearnLinked ==
  ASSUME TypeOK, Linked, Learn, TypeOK'
  PROVE  Linked'
<1>1. /\ signals \in Seq(Signal) /\ signals' \in Seq(Signal)
  BY SignalsType, SignalsTypeNext
<1> SUFFICES ASSUME NEW i \in DOMAIN signals', NEW j \in DOMAIN signals',
                    i < j, signals'[i].name = signals'[j].name,
                    \A k \in i+1..j-1 : signals'[k].name # signals'[j].name
             PROVE  signals'[j].old = signals'[i].new
  BY DEF Linked
<1>2. /\ i + 1 \in DOMAIN signals /\ signals'[i] = signals[i + 1]
      /\ j + 1 \in DOMAIN signals /\ signals'[j] = signals[j + 1]
  BY Shift
<1>3. ASSUME NEW k \in i+2..j PROVE signals[k].name # signals[j + 1].name
  <2>1. k \in 2..Len(signals) /\ k - 1 \in i+1..j-1
    BY <1>1, <1>2
  <2>2. signals'[k - 1] = signals[k]
    BY <2>1, Shift
  <2> QED
    BY <1>2, <2>1, <2>2
<1>4. /\ i + 1 < j + 1
      /\ \A k \in (i + 1)+1..(j + 1)-1 : signals[k].name # signals[j + 1].name
      /\ signals[i + 1].name = signals[j + 1].name
  BY <1>1, <1>2, <1>3
<1>5. signals[j + 1].old = signals[i + 1].new
  BY <1>2, <1>4 DEF Linked
<1> QED
  BY <1>2, <1>5

LEMMA LearnBack ==
  ASSUME TypeOK, Back, Learn, TypeOK'
  PROVE  Back'
<1>1. /\ signals \in Seq(Signal) /\ signals' \in Seq(Signal)
  BY SignalsType, SignalsTypeNext
<1> SUFFICES ASSUME NEW i \in DOMAIN signals',
                    \A j \in i+1..Len(signals') :
                      signals'[j].name # signals'[i].name
             PROVE  signals'[i].new = owner'[signals'[i].name]
  BY DEF Back
<1>2. i + 1 \in DOMAIN signals /\ signals'[i] = signals[i + 1]
  BY <1>1 DEF Learn
<1>3. ASSUME NEW j \in i+2..Len(signals)
      PROVE  signals[j].name # signals[i + 1].name
  <2>1. j - 1 \in i+1..Len(signals') /\ j - 1 \in DOMAIN signals'
    BY <1>1 DEF Learn
  <2> QED
    BY <1>1, <1>2, <2>1, SMTT(30) DEF Learn
<1> QED
  BY <1>1, <1>2, <1>3 DEF Back, Learn

LEMMA LearnSettled ==
  ASSUME TypeOK, Front, Back, Settled, Learn, TypeOK'
  PROVE  Settled'
<1>1. /\ signals \in Seq(Signal) /\ signals' \in Seq(Signal)
      /\ 1 \in DOMAIN signals
  BY SignalsType, SignalsTypeNext DEF Learn
<1> SUFFICES ASSUME NEW n \in BusNames,
                    \A i \in DOMAIN signals' : signals'[i].name # n,
                    NEW c \in Conns, n \in cache'[c]
             PROVE  owner[n] = c
  BY DEF Settled, Learn
<1>2. ASSUME NEW i \in DOMAIN signals, i # 1 PROVE signals[i].name # n
  <2>1. i - 1 \in DOMAIN signals'
    BY <1>1, <1>2 DEF Learn
  <2> QED
    BY <1>1, <1>2, <2>1 DEF Learn
<1>3. CASE n = signals[1].name
  <2>1. c = signals[1].new
    BY <1>3, Moved
  <2>2. \A j \in 2..Len(signals) : signals[j].name # signals[1].name
    BY <1>1, <1>2, <1>3
  <2> QED
    BY <1>1, <1>3, <2>1, <2>2 DEF Back
<1>4. CASE n # signals[1].name
  BY <1>1, <1>2, <1>4, Moved DEF Settled
<1> QED
  BY <1>3, <1>4
--------------------------------------------------------------------------------
\* How the signals change when the daemon sends one about n and c.
Sent(n, c) ==
  /\ Len(signals') = Len(signals) + 1
  /\ \A i \in DOMAIN signals : signals'[i] = signals[i]
  /\ signals'[Len(signals) + 1].name = n
  /\ signals'[Len(signals) + 1].old = owner[n]
  /\ signals'[Len(signals) + 1].new = c
  /\ owner' = [owner EXCEPT ![n] = c]
  /\ UNCHANGED cache

\* A new signal about a name fits the signals before it, and the cache.
LEMMA SentFits ==
  ASSUME TypeOK, TypeOK', Front, Linked, Back, Settled,
         NEW n \in BusNames, NEW c \in Conns \cup {None}, Sent(n, c)
  PROVE  Front' /\ Linked' /\ Back' /\ Settled'
<1> DEFINE last == Len(signals) + 1
<1>1. /\ signals \in Seq(Signal) /\ signals' \in Seq(Signal)
      /\ DOMAIN signals = 1..last-1 /\ DOMAIN signals' = 1..last
      /\ last \in Nat \ {0} /\ Len(signals') = last
  BY SignalsType, SignalsTypeNext DEF Sent
<1>2. \A i \in 1..last-1 : signals'[i] = signals[i]
  BY <1>1 DEF Sent
<1>3. /\ signals'[last].name = n /\ signals'[last].old = owner[n]
      /\ signals'[last].new = c
  BY DEF Sent
<1>4. cache' = cache /\ owner' = [owner EXCEPT ![n] = c]
  BY DEF Sent
<1> HIDE DEF last
<1>5. Front'
  <2> SUFFICES ASSUME NEW i \in 1..last,
                      \A j \in 1..i-1 : signals'[j].name # signals'[i].name,
                      NEW d \in Conns, signals'[i].name \in cache'[d]
               PROVE  d = signals'[i].old
    BY <1>1 DEF Front
  <2>1. CASE i < last
    <3>1. \A j \in 1..i-1 : signals[j].name # signals[i].name
      BY <1>1, <1>2, <2>1
    <3>2. i \in DOMAIN signals /\ signals'[i] = signals[i]
      BY <1>1, <1>2, <2>1
    <3> QED
      BY <1>4, <3>1, <3>2 DEF Front
  <2>2. CASE i = last
    <3>1. \A j \in DOMAIN signals : signals[j].name # n
      BY <1>1, <1>2, <1>3, <2>2
    <3> QED
      BY <1>3, <1>4, <2>2, <3>1 DEF Settled
  <2> QED
    BY <1>1, <2>1, <2>2
<1>6. Linked'
  <2> SUFFICES ASSUME NEW i \in 1..last, NEW j \in 1..last,
                      i < j, signals'[i].name = signals'[j].name,
                      \A k \in i+1..j-1 : signals'[k].name # signals'[j].name
               PROVE  signals'[j].old = signals'[i].new
    BY <1>1 DEF Linked
  <2>1. i \in DOMAIN signals /\ signals'[i] = signals[i]
    BY <1>1, <1>2
  <2>2. CASE j < last
    <3>1. j \in DOMAIN signals /\ signals'[j] = signals[j]
      BY <1>1, <1>2, <2>2
    <3>2. \A k \in i+1..j-1 : signals[k].name # signals[j].name
      BY <1>1, <1>2, <2>2, <3>1
    <3> QED
      BY <2>1, <3>1, <3>2 DEF Linked
  <2>3. CASE j = last
    <3>1. Len(signals) = last - 1
      BY <1>1
    <3>2. \A k \in i+1..Len(signals) : signals[k].name # signals[i].name
      BY <1>1, <1>2, <2>1, <2>3, <3>1
    <3>3. signals[i].new = owner[signals[i].name]
      BY <2>1, <3>2 DEF Back
    <3> QED
      BY <1>3, <2>1, <2>3, <3>3
  <2> QED
    BY <1>1, <2>2, <2>3
<1>7. Back'
  <2> SUFFICES ASSUME NEW i \in 1..last,
                      \A j \in i+1..last : signals'[j].name # signals'[i].name
               PROVE  signals'[i].new = owner'[signals'[i].name]
    BY <1>1 DEF Back
  <2>1. CASE i < last
    <3>1. i \in DOMAIN signals /\ signals'[i] = signals[i]
      BY <1>1, <1>2, <2>1
    <3>2. last \in i+1..last /\ Len(signals) = last - 1
      BY <1>1, <2>1
    <3>3. signals[i].name # n /\ signals[i].name \in BusNames
      <4>1. signals[i] \in Signal
        BY <1>1, <3>1
      <4> QED
        BY <1>3, <3>1, <3>2, <4>1 DEF Signal
    <3>4. \A j \in i+1..Len(signals) : signals[j].name # signals[i].name
      BY <1>1, <1>2, <3>1, <3>2
    <3>5. signals[i].new = owner[signals[i].name]
      BY <3>1, <3>4 DEF Back
    <3> QED
      BY <1>4, <3>1, <3>3, <3>5 DEF TypeOK
  <2>2. CASE i = last
    BY <1>3, <1>4, <2>2 DEF TypeOK
  <2> QED
    BY <1>1, <2>1, <2>2
<1>8. Settled'
  <2> SUFFICES ASSUME NEW m \in BusNames,
                      \A i \in 1..last : signals'[i].name # m,
                      NEW d \in Conns, m \in cache[d]
               PROVE  owner'[m] = d
    BY <1>1, <1>4 DEF Settled
  <2>1. m # n
    BY <1>1, <1>3
  <2>2. \A i \in DOMAIN signals : signals[i].name # m
    BY <1>1, <1>2
  <2> QED
    BY <1>4, <2>1, <2>2 DEF Settled, TypeOK
<1> QED
  BY <1>5, <1>6, <1>7, <1>8
--------------------------------------------------------------------------------
LEMMA UpdateType ==
  ASSUME TypeOK, NEW s \in Signal
  PROVE  Update(s) \in [Conns -> SUBSET BusNames]
  BY DEF TypeOK, Update, Signal

LEMMA TypeStep == TypeOK /\ [Next]_vars => TypeOK'
<1> SUFFICES ASSUME TypeOK, [Next]_vars PROVE TypeOK'
  OBVIOUS
<1>1. ASSUME NEW n \in BusNames, NEW c \in Conns \cup {None}, Change(n, c)
      PROVE  TypeOK'
  <2> DEFINE s == [name |-> n, old |-> owner[n], new |-> c]
  <2>1. s \in Signal
    BY DEF TypeOK, Signal
  <2>2. Append(signals, s) \in Seq(Signal)
    BY <2>1, AppendProperties DEF TypeOK
  <2> QED
    BY <1>1, <2>2 DEF Change, TypeOK
<1>2. CASE SubscribeToNameChanges
  BY <1>2 DEF SubscribeToNameChanges, TypeOK
<1>3. CASE Read \/ ReadSuspends
  <2>1. Head(signals) \in Signal /\ Tail(signals) \in Seq(Signal)
    BY <1>3, HeadTailProperties DEF Read, ReadSuspends, TypeOK
  <2>2. CASE Read
    BY <2>1, <2>2, UpdateType DEF Read, TypeOK
  <2>3. CASE ReadSuspends
    BY <2>1, <2>3, UpdateType DEF ReadSuspends, TypeOK
  <2> QED
    BY <1>3, <2>2, <2>3
<1>4. CASE Resume
  <2>1. frame \in Signal
    BY <1>4 DEF Resume, TypeOK
  <2> QED
    BY <1>4, <2>1, UpdateType DEF Resume, TypeOK
<1>5. CASE UNCHANGED vars
  BY <1>5 DEF vars, TypeOK
<1> QED
  BY <1>1, <1>2, <1>3, <1>4, <1>5 DEF Next

LEMMA TypeInit == Init => TypeOK
<1> SUFFICES ASSUME Init PROVE TypeOK
  OBVIOUS
<1>1. owner \in [BusNames -> Conns \cup {None}] /\ subscribed \in BOOLEAN
  BY DEF Init
<1>2. /\ signals \in Seq(Signal) /\ suspended = 0
      /\ frame \in Signal \cup {None}
  BY DEF Init
<1>3. cache \in [Conns -> SUBSET BusNames]
  BY ZenonT(20) DEF Init
<1> QED
  BY <1>1, <1>2, <1>3 DEF TypeOK

\* Type correctness (TypeOK), wherever the user's rule is.
THEOREM TypeCorrect == Spec => []TypeOK
  BY TypeInit, TypeStep, PTL DEF Spec
--------------------------------------------------------------------------------
(* What each action does to the signals *)

LEMMA ChangeSends ==
  ASSUME TypeOK, subscribed, NEW n \in BusNames, NEW c \in Conns \cup {None},
         Change(n, c)
  PROVE  Sent(n, c)
<1> DEFINE s == [name |-> n, old |-> owner[n], new |-> c]
<1>1. s \in Signal
  BY DEF TypeOK, Signal
<1>2. signals' = Append(signals, s)
  BY DEF Change
<1> HIDE DEF s
<1>3. /\ Len(signals') = Len(signals) + 1
      /\ \A i \in 1..Len(signals) : signals'[i] = signals[i]
      /\ signals'[Len(signals) + 1] = s
      /\ DOMAIN signals = 1..Len(signals)
  BY <1>1, <1>2, AppendProperties DEF TypeOK
<1> QED
  BY <1>3 DEF s, Sent, Change

LEMMA ReadLearns ==
  ASSUME TypeOK, ~UserRuleFirst, Read \/ ReadSuspends
  PROVE  Learn
<1>1. /\ signals \in Seq(Signal) /\ signals # <<>> /\ signals' = Tail(signals)
      /\ cache' = Update(Head(signals)) /\ UNCHANGED <<owner, subscribed>>
  BY DEF TypeOK, Read, ReadSuspends, UserRuleIsFirst
<1>2. /\ Len(Tail(signals)) = Len(signals) - 1
      /\ \A i \in 1..Len(Tail(signals)) : Tail(signals)[i] = signals[i + 1]
      /\ Tail(signals) \in Seq(Signal)
  BY <1>1, HeadTailProperties
<1>3. Head(signals) = signals[1]
  BY <1>1
<1> QED
  BY <1>1, <1>2, <1>3 DEF Learn

LEMMA ResumeKeeps ==
  ASSUME ~UserRuleFirst, Resume
  PROVE  UNCHANGED <<owner, subscribed, signals, cache>>
  BY DEF Resume, UserRuleIsFirst
--------------------------------------------------------------------------------
LEMMA InvInit == Init => IInv
<1> SUFFICES ASSUME Init PROVE IInv
  OBVIOUS
<1>1. signals = <<>>
  BY DEF Init
<1>2. \A c \in Conns : cache[c] = {}
  BY DEF Init
<1> QED
  BY <1>1, <1>2, TypeInit DEF IInv, OneOwner, Unsubscribed, Front, Linked,
                              Back, Settled

LEMMA InvStep ==
  ASSUME ~UserRuleFirst, IInv, [Next]_vars
  PROVE  IInv'
<1>1. TypeOK /\ TypeOK' /\ OneOwner /\ Unsubscribed
      /\ Front /\ Linked /\ Back /\ Settled
  BY TypeStep DEF IInv
<1>2. CASE Learn
  <2>1. subscribed'
    BY <1>1, <1>2 DEF Learn, Unsubscribed
  <2> QED
    BY <1>1, <1>2, <2>1, LearnOneOwner, LearnFront, LearnLinked, LearnBack,
       LearnSettled DEF IInv, Unsubscribed
<1>3. ASSUME signals' = signals, UNCHANGED <<owner, cache>>,
             subscribed' \/ UNCHANGED subscribed
      PROVE  IInv'
  <2>1. OneOwner' /\ Unsubscribed'
    BY <1>1, <1>3 DEF OneOwner, Unsubscribed
  <2>2. Front' /\ Linked' /\ Back' /\ Settled'
    BY <1>1, <1>3 DEF Front, Linked, Back, Settled
  <2> QED
    BY <1>1, <2>1, <2>2 DEF IInv
<1>4. ASSUME NEW n \in BusNames, NEW c \in Conns \cup {None}, Change(n, c)
      PROVE  IInv'
  <2>1. CASE subscribed
    <3>1. Sent(n, c)
      BY <1>1, <1>4, <2>1, ChangeSends
    <3>2. Front' /\ Linked' /\ Back' /\ Settled'
      BY <1>1, <3>1, SentFits
    <3> QED
      BY <1>1, <1>4, <2>1, <3>2 DEF Change, IInv, OneOwner, Unsubscribed
  <2>2. CASE ~subscribed
    <3>1. signals = <<>> /\ \A d \in Conns : cache[d] = {}
      BY <1>1, <2>2 DEF Unsubscribed
    <3>2. signals' = signals /\ cache' = cache
      BY <1>4, <2>2 DEF Change
    <3> QED
      BY <1>1, <3>1, <3>2 DEF IInv, OneOwner, Unsubscribed, Front, Linked, Back,
                              Settled
  <2> QED
    BY <2>1, <2>2
<1>5. CASE SubscribeToNameChanges
  BY <1>3, <1>5 DEF SubscribeToNameChanges
<1>6. CASE Read \/ ReadSuspends
  BY <1>1, <1>2, <1>6, ReadLearns
<1>7. CASE Resume
  BY <1>3, <1>7, ResumeKeeps
<1>8. CASE UNCHANGED vars
  BY <1>3, <1>8 DEF vars
<1> QED
  BY <1>4, <1>5, <1>6, <1>7, <1>8 DEF Next

\* The signals on their way always lead from the cache to the daemon's table
\* (IInv).
THEOREM Invariance == ASSUME ~UserRuleFirst PROVE Spec => []IInv
<1>1. IInv /\ [Next]_vars => IInv'
  BY InvStep
<1> QED
  BY <1>1, InvInit, PTL DEF Spec

\* No two clients ever have the same name in the cache (OneOwner), although
\* OnNameOwnerChanged() looks at the old owner of the signal only.
THEOREM NoNameTwice == ASSUME ~UserRuleFirst PROVE Spec => []OneOwner
<1>1. IInv => OneOwner
  BY DEF IInv
<1> QED
  BY <1>1, Invariance, PTL

\* When no signal is left to learn from, every name in the cache is with its owner
\* (ListsTheOwner).
THEOREM CacheIsRight == ASSUME ~UserRuleFirst PROVE Spec => []ListsTheOwner
<1>1. IInv => ListsTheOwner
  <2> SUFFICES ASSUME IInv, signals = <<>>,
                      NEW c \in Conns, NEW n \in cache[c]
               PROVE  owner[n] = c
    BY DEF ListsTheOwner
  <2>1. n \in BusNames
    BY DEF IInv, TypeOK
  <2> QED
    BY <2>1 DEF IInv, Settled
<1> QED
  BY <1>1, Invariance, PTL
--------------------------------------------------------------------------------
(* NameCache implements NameDirectory *)

\* A non-empty set of positions has a last one.
LEMMA LastPosition ==
  ASSUME NEW k \in Nat, NEW T \in SUBSET (1..k), T # {}
  PROVE  Max(T) \in T /\ \A i \in T : i <= Max(T)
<1> DEFINE D == {d \in Nat : \E i \in T : d = k - i}
<1>1. D \subseteq Nat /\ D # {}
  <2>1. PICK i \in T : i \in 1..k
    OBVIOUS
  <2>2. k - i \in D
    BY <2>1
  <2> QED
    BY <2>2
<1>2. PICK d \in D : \A e \in D : ~ (<<e, d>> \in OpToRel(<, Nat))
  BY <1>1, NatLessThanWellFounded, WFMin
<1>3. \A e \in D : ~ (e < d)
  BY <1>1, <1>2 DEF OpToRel
<1>4. PICK m \in T : d = k - m
  OBVIOUS
<1>5. ASSUME NEW i \in T PROVE m >= i
  <2>1. k - i \in D /\ ~ (k - i < d)
    BY <1>3
  <2> QED
    BY <1>4, <2>1
<1>6. \E x \in T : \A y \in T : x >= y
  BY <1>5
<1>7. Max(T) \in T /\ \A y \in T : Max(T) >= y
  BY <1>6 DEF Max
<1> QED
  BY <1>7

\* The table after the first k signals of p, from table b.
TableAfter(p, b, k) ==
  [n \in BusNames |->
    LET changes == {i \in 1..k : p[i].name = n}
    IN  IF changes = {} THEN b[n] ELSE p[Max(changes)].new]

\* It has the owner of the last signal about a name, or the one from b.
LEMMA LastCounts ==
  ASSUME NEW p \in Seq(Signal), NEW b, NEW k \in 0..Len(p), NEW n \in BusNames
  PROVE  \/ /\ \A i \in 1..k : p[i].name # n
            /\ TableAfter(p, b, k)[n] = b[n]
         \/ \E i \in 1..k :
              /\ p[i].name = n
              /\ \A j \in i+1..k : p[j].name # n
              /\ TableAfter(p, b, k)[n] = p[i].new
<1> DEFINE changes == {i \in 1..k : p[i].name = n}
<1>1. CASE changes = {}
  BY <1>1 DEF TableAfter
<1>2. CASE changes # {}
  <2> DEFINE m == Max(changes)
  <2>1. m \in changes /\ \A i \in changes : i <= m
    <3>1. k \in Nat /\ changes \in SUBSET (1..k)
      OBVIOUS
    <3> HIDE DEF changes
    <3> QED
      BY <1>2, <3>1, LastPosition
  <2>2. TableAfter(p, b, k)[n] = p[m].new
    BY <1>2 DEF TableAfter
  <2> HIDE DEF m
  <2> QED
    BY <2>1, <2>2
<1> QED
  BY <1>1, <1>2

\* The owner in a cache.
OwnerIn(t, n) ==
  IF \E c \in Conns : n \in t[c] THEN CHOOSE c \in Conns : n \in t[c] ELSE None

Table(t) == [n \in BusNames |-> OwnerIn(t, n)]

LEMMA TableIsBelieved ==
  /\ \A k : After(k) = TableAfter(signals, Table(cache), k)
  /\ \A k : After(k)' = TableAfter(signals', Table(cache'), k)
  BY DEF After, TableAfter, Table, OwnerIn, Believed

TableType == [BusNames -> Conns \cup {None}]

LEMMA AfterType ==
  ASSUME NEW p \in Seq(Signal), NEW b \in TableType, NEW k \in 0..Len(p)
  PROVE  TableAfter(p, b, k) \in TableType
<1> SUFFICES ASSUME NEW n \in BusNames
             PROVE  TableAfter(p, b, k)[n] \in Conns \cup {None}
  BY DEF TableAfter, TableType
<1>1. ASSUME NEW i \in 1..k PROVE p[i].new \in Conns \cup {None}
  <2>1. p[i] \in Signal
    OBVIOUS
  <2> QED
    BY <2>1 DEF Signal
<1> QED
  BY <1>1, LastCounts DEF TableType

LEMMA BelievedType == \A t : Table(t) \in TableType
  BY DEF Table, OwnerIn, TableType

\* Learning the first signal makes the table after it the first table.
LEMMA LearnShiftsTables ==
  ASSUME TypeOK, TypeOK', Front, Learn, NEW k \in 0..Len(signals')
  PROVE  TableAfter(signals', Table(cache'), k)
           = TableAfter(signals, Table(cache), k + 1)
<1>1. /\ signals \in Seq(Signal) /\ signals' \in Seq(Signal)
      /\ Len(signals') = Len(signals) - 1
      /\ k + 1 \in 0..Len(signals) /\ 1 \in DOMAIN signals
      /\ k \in Nat
  BY SignalsType, SignalsTypeNext DEF Learn
<1>2. \A i \in 2..k+1 : i - 1 \in 1..k /\ signals'[i - 1] = signals[i]
  BY <1>1, Shift
<1>3. \A i \in 1..k : i + 1 \in 2..k+1 /\ signals'[i] = signals[i + 1]
  BY <1>1, Shift
<1> SUFFICES ASSUME NEW n \in BusNames
             PROVE  TableAfter(signals', Table(cache'), k)[n]
                      = TableAfter(signals, Table(cache), k + 1)[n]
  BY DEF TableAfter
<1> DEFINE old == TableAfter(signals, Table(cache), k + 1)[n]
           new == TableAfter(signals', Table(cache'), k)[n]
<1>4. \/ /\ \A i \in 1..k+1 : signals[i].name # n
         /\ old = Table(cache)[n]
      \/ \E i \in 1..k+1 :
           /\ signals[i].name = n
           /\ \A j \in i+1..k+1 : signals[j].name # n
           /\ old = signals[i].new
  BY <1>1, LastCounts, SMTT(30)
<1>5. \/ /\ \A i \in 1..k : signals'[i].name # n
         /\ new = Table(cache')[n]
      \/ \E i \in 1..k :
           /\ signals'[i].name = n
           /\ \A j \in i+1..k : signals'[j].name # n
           /\ new = signals'[i].new
  BY <1>1, LastCounts, SMTT(30)
<1>6. /\ Table(cache)[n] = OwnerIn(cache, n)
      /\ Table(cache')[n] = OwnerIn(cache', n)
  BY DEF Table
<1> HIDE DEF old, new
<1>7. ASSUME \A i \in 1..k : signals'[i].name # n PROVE new = old
  <2>1. new = OwnerIn(cache', n)
    BY <1>5, <1>6, <1>7
  <2>2. \A i \in 2..k+1 : signals[i].name # n
    BY <1>2, <1>7
  <2>3. CASE signals[1].name = n
    <3>1. old = signals[1].new
      BY <1>1, <1>4, <2>2, <2>3
    <3>2. \A c \in Conns : n \in cache'[c] <=> c = signals[1].new
      BY <2>3, Moved
    <3>3. signals[1].new \in Conns \cup {None}
      <4>1. signals[1] \in Signal
        BY <1>1
      <4> QED
        BY <4>1 DEF Signal
    <3>4. OwnerIn(cache', n) = signals[1].new
      BY <3>2, <3>3, NamesAssumption DEF OwnerIn
    <3> QED
      BY <2>1, <3>1, <3>4
  <2>4. CASE signals[1].name # n
    <3>1. \A i \in 1..k+1 : signals[i].name # n
      BY <1>1, <2>2, <2>4
    <3>2. \A c \in Conns : n \in cache'[c] <=> n \in cache[c]
      BY <2>4, Moved
    <3>3. OwnerIn(cache', n) = OwnerIn(cache, n)
      BY <3>2 DEF OwnerIn
    <3> QED
      BY <1>4, <1>6, <2>1, <3>1, <3>3
  <2> QED
    BY <2>3, <2>4
<1>8. ASSUME NEW i \in 1..k, signals'[i].name = n,
             \A j \in i+1..k : signals'[j].name # n, new = signals'[i].new
      PROVE  new = old
  <2>1. /\ i + 1 \in 1..k+1 /\ signals[i + 1].name = n
        /\ new = signals[i + 1].new
    <3>1. i + 1 \in 1..k+1
      BY <1>1
    <3>2. signals'[i] = signals[i + 1]
      BY <1>3
    <3> QED
      BY <1>8, <3>1, <3>2
  <2>2. \A j \in i+2..k+1 : signals[j].name # n
    <3> SUFFICES ASSUME NEW j \in i+2..k+1 PROVE signals[j].name # n
      OBVIOUS
    <3>1. j \in 2..k+1 /\ j - 1 \in i+1..k
      BY <1>1
    <3> QED
      BY <1>2, <1>8, <3>1
  <2>3. PICK l \in 1..k+1 : /\ signals[l].name = n
                            /\ \A j \in l+1..k+1 : signals[j].name # n
                            /\ old = signals[l].new
    BY <1>4, <2>1
  <2>4. l = i + 1
    <3>1. ~(l < i + 1)
      BY <1>1, <2>1, <2>3
    <3>2. ~(l > i + 1)
      BY <1>1, <2>2, <2>3
    <3> QED
      BY <1>1, <3>1, <3>2
  <2> QED
    BY <2>1, <2>3, <2>4
<1> QED
  BY <1>5, <1>7, <1>8 DEF old, new

\* A signal sent adds a table after the last one, and changes no other.
LEMMA SentAddsTable ==
  ASSUME TypeOK, TypeOK', NEW n \in BusNames, NEW c \in Conns \cup {None},
         Sent(n, c)
  PROVE  /\ \A k \in 0..Len(signals) :
              TableAfter(signals', Table(cache'), k)
                = TableAfter(signals, Table(cache), k)
         /\ TableAfter(signals', Table(cache'), Len(signals) + 1)
              = [TableAfter(signals, Table(cache), Len(signals)) EXCEPT ![n] = c]
<1> DEFINE last == Len(signals)
           b == Table(cache)
<1>1. /\ signals \in Seq(Signal) /\ signals' \in Seq(Signal)
      /\ last \in Nat /\ Len(signals') = last + 1
      /\ \A i \in 1..last : signals'[i] = signals[i]
      /\ signals'[last + 1].name = n /\ signals'[last + 1].new = c
      /\ Table(cache') = b
  BY SignalsType, SignalsTypeNext DEF Sent
<1>2. b \in TableType
  BY BelievedType
<1> HIDE DEF last, b
<1>3. ASSUME NEW k \in 0..last
      PROVE  TableAfter(signals', b, k) = TableAfter(signals, b, k)
  <2> SUFFICES ASSUME NEW m \in BusNames
               PROVE  TableAfter(signals', b, k)[m] = TableAfter(signals, b, k)[m]
    BY DEF TableAfter
  <2>1. {i \in 1..k : signals'[i].name = m} = {i \in 1..k : signals[i].name = m}
    BY <1>1
  <2>2. CASE {i \in 1..k : signals[i].name = m} = {}
    BY <2>1, <2>2 DEF TableAfter
  <2>3. CASE {i \in 1..k : signals[i].name = m} # {}
    <3> DEFINE T == {i \in 1..k : signals[i].name = m}
    <3>1. k \in Nat /\ T \in SUBSET (1..k) /\ T # {}
      BY <2>3
    <3>2. Max(T) \in 1..last
      <4> HIDE DEF T
      <4>1. Max(T) \in T
        BY <3>1, LastPosition
      <4> DEFINE m1 == Max(T)
      <4>2. m1 \in 1..k
        BY <3>1, <4>1
      <4> HIDE DEF m1
      <4>3. m1 \in 1..last
        BY <1>1, <4>2
      <4> QED
        BY <4>3 DEF m1
    <3>3. signals'[Max(T)] = signals[Max(T)]
      BY <1>1, <3>2
    <3> QED
      BY <2>1, <3>1, <3>3 DEF TableAfter
  <2> QED
    BY <2>2, <2>3
<1>4. TableAfter(signals', b, last + 1)
        = [TableAfter(signals, b, last) EXCEPT ![n] = c]
  <2>1. last \in 0..last /\ last + 1 \in 0..Len(signals')
        /\ last \in 0..Len(signals')
    BY <1>1
  <2>2. TableAfter(signals', b, last) = TableAfter(signals, b, last)
    BY <1>3, <2>1
  <2>3. ASSUME NEW m \in BusNames
        PROVE  TableAfter(signals', b, last + 1)[m]
                 = IF m = n THEN c ELSE TableAfter(signals, b, last)[m]
    <3>1. CASE m = n
      <4>1. \/ \A i \in 1..last+1 : signals'[i].name # n
            \/ \E i \in 1..last+1 :
                 /\ \A j \in i+1..last+1 : signals'[j].name # n
                 /\ TableAfter(signals', b, last + 1)[n] = signals'[i].new
        BY <1>1, <2>1, LastCounts, SMTT(30)
      <4>2. last + 1 \in 1..last+1
        BY <1>1
      <4>3. PICK i \in 1..last+1 :
                 /\ \A j \in i+1..last+1 : signals'[j].name # n
                 /\ TableAfter(signals', b, last + 1)[n] = signals'[i].new
        BY <1>1, <4>1, <4>2
      <4>4. i = last + 1
        BY <1>1, <4>3
      <4> QED
        BY <1>1, <3>1, <4>3, <4>4
    <3>2. CASE m # n
      <4>1. {i \in 1..last+1 : signals'[i].name = m}
              = {i \in 1..last : signals'[i].name = m}
        BY <1>1, <3>2
      <4>2. TableAfter(signals', b, last + 1)[m] = TableAfter(signals', b, last)[m]
        BY <4>1 DEF TableAfter
      <4> QED
        BY <2>2, <3>2, <4>2
    <3> QED
      BY <3>1, <3>2
  <2> QED
    BY <2>3 DEF TableAfter
<1> QED
  BY <1>1, <1>3, <1>4 DEF last, b

\* The tables that the refinement mapping gives NameDirectory.
Views == [k \in 1..Len(signals) + 1 |-> After(k - 1)]

LEMMA ViewsType ==
  /\ TypeOK => /\ Views \in Seq(TableType)
               /\ Len(Views) = Len(signals) + 1
  /\ TypeOK' => /\ Views' \in Seq(TableType)
                /\ Len(Views') = Len(signals') + 1
<1>1. ASSUME NEW p \in Seq(Signal), NEW t
      PROVE  /\ [k \in 1..Len(p) + 1 |-> TableAfter(p, Table(t), k - 1)]
                  \in Seq(TableType)
             /\ Len([k \in 1..Len(p) + 1 |-> TableAfter(p, Table(t), k - 1)])
                  = Len(p) + 1
  <2>1. Len(p) + 1 \in Nat
    OBVIOUS
  <2>2. ASSUME NEW k \in 1..Len(p) + 1
        PROVE  TableAfter(p, Table(t), k - 1) \in TableType
    BY BelievedType, AfterType
  <2> QED
    BY <2>1, <2>2
<1>2. /\ Views = [k \in 1..Len(signals) + 1
                    |-> TableAfter(signals, Table(cache), k - 1)]
      /\ Views' = [k \in 1..Len(signals') + 1
                     |-> TableAfter(signals', Table(cache'), k - 1)]
  BY TableIsBelieved DEF Views
<1> QED
  BY <1>1, <1>2, SignalsType, SignalsTypeNext

LEMMA ViewsAre ==
  /\ \A k \in 1..Len(signals) + 1 :
       Views[k] = TableAfter(signals, Table(cache), k - 1)
  /\ \A k \in 1..Len(signals') + 1 :
       Views'[k] = TableAfter(signals', Table(cache'), k - 1)
  BY TableIsBelieved DEF Views

LEMMA RefineInit == Init => Directory!Init
<1> SUFFICES ASSUME Init PROVE Directory!Init
  OBVIOUS
<1>1. signals = <<>> /\ TypeOK
  BY TypeInit DEF Init
<1>2. Views \in Seq(TableType) /\ Len(Views) = 1
  BY <1>1, ViewsType
<1>3. Views[1] = [n \in BusNames |-> None]
  <2>1. Views[1] = TableAfter(signals, Table(cache), 0)
    BY <1>1, ViewsAre
  <2>2. \A n \in BusNames : OwnerIn(cache, n) = None
    BY DEF Init, OwnerIn
  <2>3. \A n \in BusNames : {i \in 1..0 : signals[i].name = n} = {}
    OBVIOUS
  <2> QED
    BY <2>1, <2>2, <2>3 DEF TableAfter, Table
<1>4. Views = << [n \in BusNames |-> None] >>
  BY <1>2, <1>3
<1> QED
  BY <1>4 DEF Init, Directory!Init, Views

LEMMA RefineStep ==
  ASSUME ~UserRuleFirst, IInv, [Next]_vars
  PROVE  [Directory!Next]_(Directory!vars)
<1>1. TypeOK /\ TypeOK' /\ Unsubscribed /\ Front /\ signals \in Seq(Signal)
  BY TypeStep, SignalsType DEF IInv
<1>2. /\ Views \in Seq(TableType) /\ Len(Views) = Len(signals) + 1
      /\ Views' \in Seq(TableType) /\ Len(Views') = Len(signals') + 1
      /\ Len(signals) \in Nat /\ Len(signals') \in Nat
  BY <1>1, ViewsType, SignalsTypeNext
<1>3. ASSUME signals' = signals, cache' = cache PROVE Views' = Views
  <2>1. \A k \in 1..Len(signals) + 1 : Views'[k] = Views[k]
    BY <1>3, ViewsAre
  <2> QED
    BY <1>2, <1>3, <2>1
<1>4. CASE Learn
  <2>1. Len(Views) > 1 /\ Len(Views') = Len(Views) - 1
    BY <1>1, <1>2, <1>4 DEF Learn
  <2>2. ASSUME NEW k \in 1..Len(Views') PROVE Views'[k] = Views[k + 1]
    <3>1. k - 1 \in 0..Len(signals') /\ k + 1 \in 1..Len(signals) + 1
      BY <1>2, <2>1
    <3>2. TableAfter(signals', Table(cache'), k - 1)
            = TableAfter(signals, Table(cache), (k - 1) + 1)
      BY <1>1, <1>4, <3>1, LearnShiftsTables
    <3> QED
      BY <1>2, <3>1, <3>2, ViewsAre
  <2>3. Views' = Tail(Views)
    BY <1>2, <2>1, <2>2
  <2>4. Directory!Learn
    BY <1>4, <2>1, <2>3 DEF Learn, Directory!Learn, Views
  <2> QED
    BY <2>4 DEF Directory!Next
<1>5. ASSUME NEW n \in BusNames, NEW c \in Conns \cup {None}, Change(n, c)
      PROVE  Directory!Next
  <2>1. CASE subscribed
    <3>1. Sent(n, c) /\ Len(Views') = Len(Views) + 1
      BY <1>1, <1>2, <1>5, <2>1, ChangeSends DEF Sent
    <3> DEFINE t == [Views[Len(Views)] EXCEPT ![n] = c]
    <3>2. ASSUME NEW k \in 1..Len(Views) PROVE Views'[k] = Views[k]
      <4>1. k - 1 \in 0..Len(signals) /\ k \in 1..Len(signals') + 1
        BY <1>2, <3>1
      <4> QED
        BY <1>1, <1>2, <3>1, <4>1, SentAddsTable, ViewsAre
    <3>3. Views'[Len(Views) + 1] = t
      <4>1. /\ Len(Views) + 1 \in 1..Len(signals') + 1
            /\ Len(Views) \in 1..Len(signals) + 1
            /\ (Len(Views) + 1) - 1 = Len(signals) + 1
            /\ Len(Views) - 1 = Len(signals)
        BY <1>2, <3>1
      <4>2. Views'[Len(Views) + 1]
              = TableAfter(signals', Table(cache'), Len(signals) + 1)
        BY <4>1, ViewsAre
      <4>3. Views[Len(Views)] = TableAfter(signals, Table(cache), Len(signals))
        BY <4>1, ViewsAre
      <4> QED
        BY <1>1, <3>1, <4>2, <4>3, SentAddsTable
    <3>4. t \in TableType
      <4>1. Views[Len(Views)] \in TableType
        BY <1>2
      <4> QED
        BY <4>1 DEF TableType
    <3> HIDE DEF t
    <3>5. Views' = Append(Views, t)
      BY <1>2, <3>1, <3>2, <3>3, <3>4
    <3>6. Directory!Change(n, c)
      BY <1>5, <2>1, <3>5 DEF Change, Directory!Change, Views, t
    <3> QED
      BY <3>6 DEF Directory!Next
  <2>2. CASE ~subscribed
    <3>1. Views' = Views
      BY <1>3, <1>5, <2>2 DEF Change
    <3>2. Directory!Change(n, c)
      BY <1>5, <2>2, <3>1 DEF Change, Directory!Change, Views
    <3> QED
      BY <3>2 DEF Directory!Next
  <2> QED
    BY <2>1, <2>2
<1>6. CASE SubscribeToNameChanges
  <2>1. Views' = Views
    BY <1>3, <1>6 DEF SubscribeToNameChanges
  <2>2. Directory!Subscribe
    BY <1>6, <2>1 DEF SubscribeToNameChanges, Directory!Subscribe, Views
  <2> QED
    BY <2>2 DEF Directory!Next
<1>7. CASE Read \/ ReadSuspends
  BY <1>1, <1>4, <1>7, ReadLearns
<1>8. CASE Resume
  <2>1. UNCHANGED <<owner, subscribed, signals, cache>>
    BY <1>8, ResumeKeeps
  <2>2. Views' = Views
    BY <1>3, <2>1
  <2> QED
    BY <2>1, <2>2 DEF Directory!vars, Views
<1>9. CASE UNCHANGED vars
  <2>1. Views' = Views
    BY <1>3, <1>9 DEF vars
  <2> QED
    BY <1>9, <2>1 DEF vars, Directory!vars, Views
<1> QED
  BY <1>5, <1>6, <1>7, <1>8, <1>9 DEF Next

\* The cache always shows the daemon's table as it was at some moment since the
\* subscription, and later moments later: NameCache implements NameDirectory.
THEOREM Refinement == ASSUME ~UserRuleFirst PROVE Spec => ImplementsNameDirectory
<1>1. IInv /\ [Next]_vars => [Directory!Next]_(Directory!vars)
  BY RefineStep
<1> QED
  BY <1>1, RefineInit, Invariance, PTL
     DEF Spec, ImplementsNameDirectory, Directory!Spec
================================================================================
