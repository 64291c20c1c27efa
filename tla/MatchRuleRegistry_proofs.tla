------------------------ MODULE MatchRuleRegistry_proofs ------------------------
(***************************************************************************)
(* For any number of calls, rules and signals: matchRules has a rule at     *)
(* most once, and has only rules the daemon has, but for removals the       *)
(* connection is about to hear of; and a signal calls the callbacks that    *)
(* the daemon counted on when it sent the signal.                           *)
(*                                                                         *)
(* The first is decided by the last reply about a rule on its way (InForce),*)
(* the second by all of them (InStep).                                      *)
(***************************************************************************)
EXTENDS MatchRuleRegistry, SequenceLemmas, SequenceTheorems, TLAPS

Items == Replies \cup Signals
Infos == [rule : Rules, callback : Seq(Calls)]

\* The types of the variables, but for the callbacks that are called.
Typed ==
  /\ request \in [Calls -> Requests]
  /\ pc \in [Calls -> {"idle", "awaiting", "returned", "threw"}]
  /\ requests \in Seq(Calls)
  /\ incoming \in Seq(Items)
  /\ matchRules \in Seq(Infos)
  /\ daemonRules \in [Rules -> Nat]
  /\ watchers \in [Rules -> Seq(Calls)]

\* AddMatchRule() adds to the rule that is there, so that find_if() in
\* RemoveMatchRule() finds the only one.
OnceListed ==
  \A i, j \in DOMAIN matchRules : matchRules[i].rule = matchRules[j].rule => i = j

Listed(r) == \E i \in DOMAIN matchRules : matchRules[i].rule = r

\* The i-th of what is on its way says that such a call succeeded.
Returned(i, member, r) ==
  /\ incoming[i].kind = "return"
  /\ request[incoming[i].to].member = member
  /\ request[incoming[i].to].rule = r

\* The daemon has the rule unless a later reply takes it off the list.
InForce(r) ==
  /\ Listed(r) => \/ daemonRules[r] > 0
                  \/ \E i \in DOMAIN incoming : Returned(i, "RemoveMatch", r)
  /\ \A i \in DOMAIN incoming :
       Returned(i, "AddMatch", r) =>
         \/ daemonRules[r] > 0
         \/ \E j \in DOMAIN incoming : j > i /\ Returned(j, "RemoveMatch", r)

IInv == Typed /\ OnceListed /\ \A r \in Rules : InForce(r)

-----------------------------------------------------------------------------
(* What is on its way to the read loop                                     *)

\* What the daemon sends comes behind the rest.
LEMMA SentLast ==
  ASSUME Typed, NEW item \in Items, request' = request,
         incoming' = Append(incoming, item)
  PROVE  /\ incoming' \in Seq(Items)
         /\ \A i \in DOMAIN incoming : \A m, r : Returned(i, m, r)' <=> Returned(i, m, r)
         /\ \E last \in DOMAIN incoming' :
              /\ DOMAIN incoming' = DOMAIN incoming \cup {last}
              /\ \A i \in DOMAIN incoming : last > i
              /\ \A m, r : Returned(last, m, r)' <=>
                   /\ item.kind = "return"
                   /\ request[item.to].member = m /\ request[item.to].rule = r
<1>1. /\ DOMAIN incoming = 1 .. Len(incoming) /\ Len(incoming) \in Nat
      /\ incoming' \in Seq(Items)
      /\ DOMAIN incoming' = 1 .. Len(incoming) + 1
      /\ \A i \in DOMAIN incoming : incoming'[i] = incoming[i]
      /\ incoming'[Len(incoming) + 1] = item
  BY AppendProperties, LenProperties DEF Typed
<1>2. \A i \in DOMAIN incoming : \A m, r : Returned(i, m, r)' <=> Returned(i, m, r)
  BY <1>1 DEF Returned
<1>3. PICK last : last = Len(incoming) + 1
  OBVIOUS
<1>4. /\ last \in DOMAIN incoming'
      /\ DOMAIN incoming' = DOMAIN incoming \cup {last}
      /\ \A i \in DOMAIN incoming : last > i
  BY <1>1, <1>3
<1>5. incoming'[last] = item
  BY <1>1, <1>3
<1>6. \A m, r : Returned(last, m, r)' <=>
        /\ item.kind = "return"
        /\ request[item.to].member = m /\ request[item.to].rule = r
  BY <1>5 DEF Returned
<1> QED
  BY <1>1, <1>2, <1>4, <1>6

\* The read loop takes the first.
LEMMA FirstTaken ==
  ASSUME Typed, incoming # <<>>, request' = request, incoming' = Tail(incoming)
  PROVE  /\ 1 \in DOMAIN incoming /\ Head(incoming) = incoming[1]
         /\ incoming[1] \in Items /\ incoming' \in Seq(Items)
         /\ DOMAIN incoming \subseteq Nat \ {0} /\ DOMAIN incoming' \subseteq Nat \ {0}
         /\ \A i \in DOMAIN incoming' :
              i + 1 \in DOMAIN incoming
              /\ \A m, r : Returned(i, m, r)' <=> Returned(i + 1, m, r)
         /\ \A i \in DOMAIN incoming : i # 1 =>
              i - 1 \in DOMAIN incoming'
              /\ \A m, r : Returned(i - 1, m, r)' <=> Returned(i, m, r)
<1>1. incoming \in Seq(Items)
  BY DEF Typed
<1>2. /\ Head(incoming) \in Items /\ Tail(incoming) \in Seq(Items)
      /\ Len(Tail(incoming)) = Len(incoming) - 1
      /\ \A i \in 1 .. Len(Tail(incoming)) : Tail(incoming)[i] = incoming[i + 1]
  BY <1>1, HeadTailProperties, Zenon
<1>3. DOMAIN incoming = 1 .. Len(incoming) /\ Len(incoming) \in Nat \ {0}
  BY <1>1, LenProperties, EmptySeq
<1>4. /\ Head(incoming) = incoming[1] /\ incoming[1] \in Items
      /\ DOMAIN incoming' = 1 .. Len(incoming) - 1
      /\ \A i \in 1 .. Len(incoming) - 1 : incoming'[i] = incoming[i + 1]
  BY <1>1, <1>2, <1>3, LenProperties
<1>5. /\ \A i \in DOMAIN incoming' : i + 1 \in DOMAIN incoming
      /\ \A i \in DOMAIN incoming : i # 1 =>
           i - 1 \in DOMAIN incoming' /\ incoming'[i - 1] = incoming[i]
  BY <1>3, <1>4
<1>6. \A i \in DOMAIN incoming' : \A m, r : Returned(i, m, r)' <=> Returned(i + 1, m, r)
  BY <1>4 DEF Returned
<1>7. \A i \in DOMAIN incoming : i # 1 =>
        \A m, r : Returned(i - 1, m, r)' <=> Returned(i, m, r)
  BY <1>5 DEF Returned
<1> QED
  BY <1>2, <1>3, <1>4, <1>5, <1>6, <1>7

-----------------------------------------------------------------------------
(* matchRules                                                              *)

\* find_if() finds the rule where it is.
LEMMA PositionOf ==
  ASSUME Typed, OnceListed, NEW r
  PROVE  /\ Listed(r) => Position(r) \in DOMAIN matchRules
                         /\ matchRules[Position(r)].rule = r
         /\ ~Listed(r) => Position(r) = 0
         /\ 0 \notin DOMAIN matchRules
<1>1. DOMAIN matchRules = 1 .. Len(matchRules) /\ Len(matchRules) \in Nat
  BY LenProperties DEF Typed
<1>2. CASE Listed(r)
  <2>1. PICK p \in DOMAIN matchRules : matchRules[p].rule = r
    BY <1>2 DEF Listed
  <2>2. {i \in 1 .. Len(matchRules) : matchRules[i].rule = r} = {p}
    BY <1>1, <2>1 DEF OnceListed
  <2>3. Min({p}) = p
    <3>1. \A x \in {p} : (\A y \in {p} : x =< y) <=> x = p
      BY <1>1, <2>1
    <3>2. Min({p}) = CHOOSE x \in {p} : \A y \in {p} : x =< y
      BY DEF Min
    <3> QED
      BY <3>1, <3>2
  <2>4. Position(r) = p
    BY <2>2, <2>3 DEF Position, SelectInSeq
  <2> QED
    BY <1>1, <1>2, <2>1, <2>4
<1>3. CASE ~Listed(r)
  <2>1. {i \in 1 .. Len(matchRules) : matchRules[i].rule = r} = {}
    BY <1>1, <1>3 DEF Listed
  <2>2. Position(r) = 0
    BY <2>1 DEF Position, SelectInSeq
  <2> QED
    BY <1>1, <1>3, <2>2
<1> QED
  BY <1>2, <1>3

\* A call that adds a rule lists it with one callback more, and no other.
LEMMA AddedProperties ==
  ASSUME Typed, OnceListed, NEW c \in Calls, NEW r \in Rules, matchRules' = Added(c, r)
  PROVE  /\ matchRules' \in Seq(Infos) /\ OnceListed'
         /\ \A x : Listed(x)' <=> Listed(x) \/ x = r
         /\ \A i \in DOMAIN matchRules' :
              \/ matchRules'[i].rule # r
                 /\ \E j \in DOMAIN matchRules : matchRules[j] = matchRules'[i]
              \/ /\ matchRules'[i].rule = r
                 /\ \/ ~Listed(r) /\ matchRules'[i].callback = <<c>>
                    \/ \E j \in DOMAIN matchRules :
                         /\ matchRules[j].rule = r
                         /\ matchRules'[i].callback = Append(matchRules[j].callback, c)
<1>1. /\ DOMAIN matchRules = 1 .. Len(matchRules) /\ Len(matchRules) \in Nat
      /\ \A i \in DOMAIN matchRules : matchRules[i] \in Infos
  BY LenProperties, ElementOfSeq DEF Typed
<1>2. CASE Listed(r)
  <2>1. PICK p : p = Position(r)
    OBVIOUS
  <2>2. p \in DOMAIN matchRules /\ matchRules[p].rule = r /\ p # 0
    BY <1>2, <2>1, PositionOf
  <2>3. PICK info : info = [matchRules[p] EXCEPT !.callback = Append(@, c)]
    OBVIOUS
  <2>4. /\ info \in Infos /\ info.rule = r
        /\ info.callback = Append(matchRules[p].callback, c)
    <3>1. matchRules[p] \in Infos /\ matchRules[p].callback \in Seq(Calls)
      BY <1>1, <2>2 DEF Infos
    <3>2. Append(matchRules[p].callback, c) \in Seq(Calls)
      BY <3>1, AppendProperties
    <3> QED
      BY <2>2, <2>3, <3>1, <3>2 DEF Infos
  <2>5. matchRules' = [matchRules EXCEPT ![p] = info]
    BY <2>1, <2>2, <2>3 DEF Added
  <2>6. /\ matchRules' \in Seq(Infos) /\ DOMAIN matchRules' = DOMAIN matchRules
        /\ \A i \in DOMAIN matchRules : matchRules'[i] = IF i = p THEN info ELSE matchRules[i]
    BY <1>1, <2>2, <2>4, <2>5, ExceptSeq DEF Typed
  <2>7. \A i \in DOMAIN matchRules : matchRules'[i].rule = matchRules[i].rule
    BY <2>2, <2>4, <2>6
  <2>8. OnceListed' /\ \A x : Listed(x)' <=> Listed(x) \/ x = r
    BY <2>2, <2>6, <2>7 DEF OnceListed, Listed
  <2>9. ASSUME NEW i \in DOMAIN matchRules'
        PROVE  \/ matchRules'[i].rule # r
                  /\ \E j \in DOMAIN matchRules : matchRules[j] = matchRules'[i]
               \/ /\ matchRules'[i].rule = r
                  /\ \E j \in DOMAIN matchRules :
                       /\ matchRules[j].rule = r
                       /\ matchRules'[i].callback = Append(matchRules[j].callback, c)
    <3>1. CASE i = p
      BY <2>2, <2>4, <2>6, <3>1
    <3>2. CASE i # p
      BY <2>2, <2>6, <3>2 DEF OnceListed
    <3> QED
      BY <3>1, <3>2
  <2> QED
    BY <2>6, <2>8, <2>9
<1>3. CASE ~Listed(r)
  <2>1. PICK info : info = [rule |-> r, callback |-> <<c>>]
    OBVIOUS
  <2>2. matchRules' = Append(matchRules, info)
    BY <1>3, <2>1, PositionOf DEF Added
  <2>3. info \in Infos /\ info.rule = r /\ info.callback = <<c>>
    BY <2>1 DEF Infos
  <2>4. /\ matchRules' \in Seq(Infos)
        /\ DOMAIN matchRules' = 1 .. Len(matchRules) + 1
        /\ \A i \in DOMAIN matchRules : matchRules'[i] = matchRules[i]
        /\ matchRules'[Len(matchRules) + 1] = info
    BY <1>1, <2>2, <2>3, AppendProperties, LenProperties DEF Typed
  <2>5. \A i \in DOMAIN matchRules' :
          \/ i \in DOMAIN matchRules /\ matchRules'[i].rule = matchRules[i].rule
          \/ i = Len(matchRules) + 1 /\ matchRules'[i].rule = r
    BY <1>1, <2>3, <2>4
  <2>6. OnceListed'
    BY <1>3, <2>4, <2>5 DEF OnceListed, Listed
  <2>7. Len(matchRules) + 1 \in DOMAIN matchRules' /\ DOMAIN matchRules \subseteq DOMAIN matchRules'
    BY <1>1, <2>4
  <2>8. \A x : Listed(x)' <=> Listed(x) \/ x = r
    BY <2>3, <2>4, <2>5, <2>7 DEF Listed
  <2>9. ASSUME NEW i \in DOMAIN matchRules'
        PROVE  \/ matchRules'[i].rule # r
                  /\ \E j \in DOMAIN matchRules : matchRules[j] = matchRules'[i]
               \/ matchRules'[i].rule = r /\ matchRules'[i].callback = <<c>>
    <3>1. CASE i \in DOMAIN matchRules
      BY <1>3, <2>4, <3>1 DEF Listed
    <3>2. CASE i = Len(matchRules) + 1
      BY <2>3, <2>4, <3>2
    <3> QED
      BY <2>5, <3>1, <3>2
  <2> QED
    BY <1>3, <2>4, <2>6, <2>8, <2>9
<1> QED
  BY <1>2, <1>3

\* A call that removes a rule takes it off the list for good, and no other.
LEMMA ErasedProperties ==
  ASSUME Typed, OnceListed, NEW r, matchRules' = Erased(r)
  PROVE  /\ matchRules' \in Seq(Infos) /\ OnceListed'
         /\ \A x : Listed(x)' <=> Listed(x) /\ x # r
         /\ \A i \in DOMAIN matchRules' :
              \E j \in DOMAIN matchRules : matchRules[j] = matchRules'[i]
<1>1. CASE Listed(r)
  <2>1. PICK p : p = Position(r)
    OBVIOUS
  <2>2. p \in DOMAIN matchRules /\ matchRules[p].rule = r /\ p # 0
    BY <1>1, <2>1, PositionOf
  <2>3. matchRules' = RemoveAt(matchRules, p)
    BY <2>1, <2>2 DEF Erased
  <2>4. /\ DOMAIN matchRules = 1 .. Len(matchRules) /\ Len(matchRules) \in Nat
        /\ matchRules' \in Seq(Infos)
        /\ DOMAIN matchRules' = 1 .. Len(matchRules) - 1
        /\ \A i \in 1 .. p - 1 : matchRules'[i] = matchRules[i]
        /\ \A i \in p .. Len(matchRules) - 1 : matchRules'[i] = matchRules[i + 1]
    <3>1. matchRules \in Seq(Infos)
      BY DEF Typed
    <3>2. /\ matchRules' \in Seq(Infos) /\ Len(matchRules') = Len(matchRules) - 1
          /\ \A i \in 1 .. p - 1 : matchRules'[i] = matchRules[i]
          /\ \A i \in p .. Len(matchRules) - 1 : matchRules'[i] = matchRules[i + 1]
      BY <2>2, <2>3, <3>1, RemoveAtProperties
    <3> QED
      BY <3>1, <3>2, LenProperties
  <2> DEFINE from(i) == IF i < p THEN i ELSE i + 1
  <2>5. \A i \in DOMAIN matchRules' :
          from(i) \in DOMAIN matchRules /\ from(i) # p /\ matchRules'[i] = matchRules[from(i)]
    BY <2>2, <2>4
  <2>6. \A i, j \in DOMAIN matchRules' : from(i) = from(j) => i = j
    BY <2>2, <2>4
  <2> HIDE DEF from
  <2>7. OnceListed'
    BY <2>5, <2>6 DEF OnceListed
  <2>8. \A x : Listed(x)' => Listed(x) /\ x # r
    BY <2>2, <2>5 DEF OnceListed, Listed
  <2>9. ASSUME NEW j \in DOMAIN matchRules, j # p
        PROVE  \E i \in DOMAIN matchRules' : matchRules'[i] = matchRules[j]
    <3>1. CASE j < p
      BY <2>2, <2>4, <3>1
    <3>2. CASE j > p
      <4>1. j - 1 \in p .. Len(matchRules) - 1 /\ (j - 1) + 1 = j
        BY <2>2, <2>4, <3>2
      <4>2. j - 1 \in DOMAIN matchRules'
        BY <2>2, <2>4, <4>1
      <4> QED
        BY <2>4, <4>1, <4>2
    <3> QED
      BY <2>2, <2>4, <2>9, <3>1, <3>2
  <2>10. \A x : Listed(x) /\ x # r => Listed(x)'
    BY <2>2, <2>9 DEF Listed
  <2> QED
    BY <2>4, <2>5, <2>7, <2>8, <2>10
<1>2. CASE ~Listed(r)
  <2>1. matchRules' = matchRules
    BY <1>2, PositionOf DEF Erased
  <2>2. matchRules' \in Seq(Infos) /\ OnceListed'
    BY <2>1 DEF Typed, OnceListed
  <2>3. \A x : Listed(x)' <=> Listed(x) /\ x # r
    BY <1>2, <2>1 DEF Listed
  <2> QED
    BY <2>1, <2>2, <2>3
<1> QED
  BY <1>1, <1>2

-----------------------------------------------------------------------------
(* The steps                                                               *)

LEMMA InitKeeps == Init => IInv
<1> SUFFICES ASSUME Init PROVE IInv
  OBVIOUS
<1>1. <<>> \in Seq(Calls) /\ <<>> \in Seq(Items) /\ <<>> \in Seq(Infos)
  BY EmptySeq
<1>2. Typed
  BY <1>1 DEF Init, Typed
<1>3. OnceListed
  BY DEF Init, OnceListed
<1>4. \A r \in Rules : InForce(r)
  BY DEF Init, InForce, Listed
<1> QED
  BY <1>2, <1>3, <1>4 DEF IInv

\* Nothing happens to what the invariant is about.
LEMMA NothingAboutRules ==
  ASSUME IInv, UNCHANGED <<request, incoming, matchRules, daemonRules>>
  PROVE  OnceListed' /\ \A r \in Rules : InForce(r)'
<1>1. OnceListed'
  BY DEF IInv, OnceListed
<1>2. \A i, m, r : Returned(i, m, r)' <=> Returned(i, m, r)
  BY DEF Returned
<1>3. \A r : Listed(r)' <=> Listed(r)
  BY DEF Listed
<1>4. ASSUME NEW r \in Rules PROVE InForce(r)'
  <2>1. InForce(r)
    BY DEF IInv
  <2> QED
    BY <1>2, <1>3, <2>1 DEF InForce
<1> QED
  BY <1>1, <1>4

LEMMA SendKeeps == ASSUME IInv, NEW c \in Calls, Send(c) PROVE IInv'
<1>1. OnceListed' /\ \A r \in Rules : InForce(r)'
  BY NothingAboutRules DEF Send, daemon
<1>2. requests' \in Seq(Calls)
  BY AppendProperties DEF Send, IInv, Typed
<1>3. Typed'
  BY <1>2 DEF Send, IInv, Typed, daemon
<1> QED
  BY <1>1, <1>3 DEF IInv

\* What the daemon sends leaves the other rules in force, and this one unless it
\* is dropped.
LEMMA SendingKeeps ==
  ASSUME IInv, NEW item \in Items, request' = request, matchRules' = matchRules,
         incoming' = Append(incoming, item),
         NEW r \in Rules,
         \/ daemonRules'[r] > 0
         \/ /\ daemonRules'[r] = daemonRules[r]
            /\ item.kind = "return" => request[item.to].rule # r
         \/ /\ item.kind = "return"
            /\ request[item.to].member = "RemoveMatch" /\ request[item.to].rule = r
  PROVE  InForce(r)'
<1>1. Typed /\ InForce(r)
  BY DEF IInv
<1>2. Listed(r)' <=> Listed(r)
  BY DEF Listed
<1>3. /\ \A i \in DOMAIN incoming : \A m, x : Returned(i, m, x)' <=> Returned(i, m, x)
      /\ \E last \in DOMAIN incoming' :
           /\ DOMAIN incoming' = DOMAIN incoming \cup {last}
           /\ \A i \in DOMAIN incoming : last > i
           /\ \A m, x : Returned(last, m, x)' <=>
                /\ item.kind = "return"
                /\ request[item.to].member = m /\ request[item.to].rule = x
  BY <1>1, SentLast
<1>4. PICK last \in DOMAIN incoming' :
        /\ DOMAIN incoming' = DOMAIN incoming \cup {last}
        /\ \A i \in DOMAIN incoming : last > i
        /\ \A m, x : Returned(last, m, x)' <=>
             /\ item.kind = "return"
             /\ request[item.to].member = m /\ request[item.to].rule = x
  BY <1>3
<1>5. CASE daemonRules'[r] > 0
  BY <1>5 DEF InForce
<1>6. CASE /\ daemonRules'[r] = daemonRules[r]
           /\ item.kind = "return" => request[item.to].rule # r
  <2>1. \A m : ~Returned(last, m, r)'
    BY <1>4, <1>6
  <2>2. Listed(r)' => \/ daemonRules'[r] > 0
                      \/ \E i \in DOMAIN incoming' : Returned(i, "RemoveMatch", r)'
    BY <1>1, <1>2, <1>3, <1>4, <1>6 DEF InForce
  <2>3. ASSUME NEW i \in DOMAIN incoming', Returned(i, "AddMatch", r)'
        PROVE  \/ daemonRules'[r] > 0
               \/ \E j \in DOMAIN incoming' : j > i /\ Returned(j, "RemoveMatch", r)'
    <3>1. i \in DOMAIN incoming /\ Returned(i, "AddMatch", r)
      BY <1>3, <1>4, <2>1, <2>3
    <3> QED
      BY <1>1, <1>3, <1>4, <1>6, <3>1 DEF InForce
  <2> QED
    BY <2>2, <2>3 DEF InForce
<1>7. CASE /\ item.kind = "return"
           /\ request[item.to].member = "RemoveMatch" /\ request[item.to].rule = r
  <2>1. Returned(last, "RemoveMatch", r)' /\ ~Returned(last, "AddMatch", r)'
    BY <1>4, <1>7
  <2>2. \A i \in DOMAIN incoming' : Returned(i, "AddMatch", r)' => last > i
    BY <1>4, <2>1
  <2> QED
    BY <2>1, <2>2 DEF InForce
<1> QED
  BY <1>5, <1>6, <1>7

LEMMA EmitKeeps ==
  ASSUME IInv, NEW matches \in SUBSET Rules, Emit(matches) PROVE IInv'
<1> PICK item : item = [kind |-> "signal", matches |-> matches, watchers |-> watchers]
  OBVIOUS
<1>1. item \in Items /\ item.kind = "signal"
  BY DEF IInv, Typed, Items, Signals
<1>2. /\ incoming' = Append(incoming, item)
      /\ UNCHANGED <<request, pc, requests, matchRules, daemonRules, watchers>>
  BY DEF Emit
<1>3. incoming' \in Seq(Items)
  BY <1>1, <1>2, AppendProperties DEF IInv, Typed
<1>4. Typed'
  BY <1>2, <1>3 DEF IInv, Typed
<1>5. OnceListed'
  BY <1>2 DEF IInv, OnceListed
<1>6. ASSUME NEW r \in Rules PROVE InForce(r)'
  BY <1>1, <1>2, SendingKeeps
<1> QED
  BY <1>4, <1>5, <1>6 DEF IInv

LEMMA AnswerKeeps == ASSUME IInv, Answer PROVE IInv'
<1> PICK c, r : c = Head(requests) /\ r = request[c].rule
  OBVIOUS
<1>1. /\ requests # <<>> /\ requests' = Tail(requests)
      /\ Accept(c, r) \/ Drop(c, r) \/ Refuse(c, r)
      /\ UNCHANGED <<request, pc, matchRules>>
  BY DEF Answer
<1>2. /\ c \in Calls /\ requests' \in Seq(Calls)
      /\ r \in Rules /\ request[c].member \in {"AddMatch", "RemoveMatch"}
  <2>1. c \in Calls /\ requests' \in Seq(Calls)
    BY <1>1, HeadTailProperties DEF IInv, Typed
  <2> QED
    BY <2>1 DEF IInv, Typed, Requests
<1>3. /\ daemonRules \in [Rules -> Nat] /\ daemonRules[r] \in Nat
      /\ watchers \in [Rules -> Seq(Calls)] /\ watchers[r] \in Seq(Calls)
  BY <1>2, SMTT(30) DEF IInv, Typed
<1>4. PICK kind \in {"return", "error"} :
        /\ incoming' = Append(incoming, [kind |-> kind, to |-> c])
        /\ \/ /\ kind = "return" /\ request[c].member = "AddMatch"
              /\ daemonRules' = [daemonRules EXCEPT ![r] = daemonRules[r] + 1]
              /\ watchers' = [watchers EXCEPT ![r] = Append(watchers[r], c)]
           \/ /\ kind = "return" /\ request[c].member = "RemoveMatch"
              /\ daemonRules[r] > 0
              /\ daemonRules' = [daemonRules EXCEPT ![r] = daemonRules[r] - 1]
              /\ watchers' = [watchers EXCEPT ![r] = <<>>]
           \/ /\ kind = "error" /\ UNCHANGED <<daemonRules, watchers>>
  BY <1>1 DEF Accept, Drop, Refuse, Reply
<1> PICK item : item = [kind |-> kind, to |-> c]
  OBVIOUS
<1>5. item \in Items /\ item.kind = kind /\ item.to = c
  BY <1>2 DEF Items, Replies
<1>6. Typed'
  <2>1. incoming' \in Seq(Items)
    BY <1>4, <1>5, AppendProperties, SMTT(30) DEF IInv, Typed
  <2>2. daemonRules' \in [Rules -> Nat]
    BY <1>3, <1>4, SMTT(30)
  <2>3. watchers' \in [Rules -> Seq(Calls)]
    <3>1. Append(watchers[r], c) \in Seq(Calls) /\ <<>> \in Seq(Calls)
      BY <1>2, <1>3, AppendProperties, EmptySeq
    <3> QED
      BY <1>3, <1>4, <3>1
  <2> QED
    BY <1>1, <1>2, <2>1, <2>2, <2>3, SMTT(30) DEF IInv, Typed
<1>7. OnceListed'
  BY <1>1, SMTT(30) DEF IInv, OnceListed
<1>8. ASSUME NEW x \in Rules PROVE InForce(x)'
  <2>1. \/ daemonRules'[x] > 0
        \/ /\ daemonRules'[x] = daemonRules[x]
           /\ item.kind = "return" => request[item.to].rule # x
        \/ /\ item.kind = "return"
           /\ request[item.to].member = "RemoveMatch" /\ request[item.to].rule = x
    BY <1>2, <1>3, <1>4, <1>5, SMTT(30)
  <2> QED
    BY <1>1, <1>4, <1>5, <2>1, SendingKeeps
<1> QED
  BY <1>6, <1>7, <1>8 DEF IInv

\* A call learns from its reply, and the later replies still say what they said.
LEMMA ReadKeeps == ASSUME IInv, Read PROVE IInv'
<1> PICK m, c, k : m = Head(incoming) /\ c = m.to /\ k = m.kind
  OBVIOUS
<1> Typed /\ OnceListed
  BY DEF IInv
<1>1. /\ incoming # <<>> /\ incoming' = Tail(incoming)
      /\ UNCHANGED <<request, requests, daemonRules, watchers>>
      /\ \/ k = "signal" /\ UNCHANGED <<pc, matchRules>>
         \/ k # "signal" /\ ReadReply(c, k)
  BY DEF Read, ReadSignal, daemon
<1>2. /\ 1 \in DOMAIN incoming /\ Head(incoming) = incoming[1]
      /\ incoming[1] \in Items /\ incoming' \in Seq(Items)
      /\ DOMAIN incoming \subseteq Nat \ {0} /\ DOMAIN incoming' \subseteq Nat \ {0}
      /\ \A i \in DOMAIN incoming' :
           i + 1 \in DOMAIN incoming
           /\ \A x, r : Returned(i, x, r)' <=> Returned(i + 1, x, r)
      /\ \A i \in DOMAIN incoming : i # 1 =>
           i - 1 \in DOMAIN incoming'
           /\ \A x, r : Returned(i - 1, x, r)' <=> Returned(i, x, r)
  BY <1>1, FirstTaken
<1>3. \A x, r : Returned(1, x, r) <=>
        k = "return" /\ request[c].member = x /\ request[c].rule = r
  BY <1>2 DEF Returned
<1>4. k # "signal" =>
        /\ c \in Calls /\ k \in {"return", "error"}
        /\ request[c].rule \in Rules
        /\ request[c].member \in {"AddMatch", "RemoveMatch"}
  <2> HAVE k # "signal"
  <2>1. m \in Replies
    BY <1>2 DEF Items, Signals
  <2>2. c \in Calls /\ k \in {"return", "error"}
    BY <2>1 DEF Replies
  <2> QED
    BY <2>2 DEF Typed, Requests
\* The rest of the replies, as long as the first is not the one in question.
<1>5. ASSUME NEW r \in Rules
      PROVE  /\ \A i \in DOMAIN incoming' :
                  Returned(i, "AddMatch", r)' =>
                    \/ daemonRules'[r] > 0
                    \/ \E j \in DOMAIN incoming' : j > i /\ Returned(j, "RemoveMatch", r)'
             /\ \/ Listed(r) /\ ~Returned(1, "RemoveMatch", r)
                \/ Returned(1, "AddMatch", r)
                =>
                  \/ daemonRules'[r] > 0
                  \/ \E j \in DOMAIN incoming' : Returned(j, "RemoveMatch", r)'
  <2>1. InForce(r) /\ daemonRules'[r] = daemonRules[r]
    BY <1>1 DEF IInv
  <2>2. ASSUME NEW i \in DOMAIN incoming, NEW j \in DOMAIN incoming, j > i,
               Returned(j, "RemoveMatch", r)
        PROVE  j - 1 \in DOMAIN incoming' /\ Returned(j - 1, "RemoveMatch", r)'
    <3>1. j # 1
      BY <1>2, <2>2
    <3> QED
      BY <1>2, <2>2, <3>1
  <2>3. ASSUME NEW i \in DOMAIN incoming', Returned(i, "AddMatch", r)', ~(daemonRules'[r] > 0)
        PROVE  \E j \in DOMAIN incoming' : j > i /\ Returned(j, "RemoveMatch", r)'
    <3>1. i + 1 \in DOMAIN incoming /\ Returned(i + 1, "AddMatch", r) /\ i \in Nat
      BY <1>2, <2>3
    <3>2. PICK j \in DOMAIN incoming : j > i + 1 /\ Returned(j, "RemoveMatch", r)
      BY <2>1, <2>3, <3>1 DEF InForce
    <3> PICK n : n = j - 1
      OBVIOUS
    <3>3. n \in DOMAIN incoming' /\ Returned(n, "RemoveMatch", r)'
      BY <2>2, <3>1, <3>2
    <3>4. n > i
      BY <1>2, <3>1, <3>2
    <3> QED
      BY <3>3, <3>4
  <2>4. ASSUME Returned(1, "AddMatch", r), ~(daemonRules'[r] > 0)
        PROVE  \E j \in DOMAIN incoming' : Returned(j, "RemoveMatch", r)'
    <3>1. PICK j \in DOMAIN incoming : j > 1 /\ Returned(j, "RemoveMatch", r)
      BY <1>2, <2>1, <2>4 DEF InForce
    <3> QED
      BY <1>2, <2>2, <3>1
  <2>5. ASSUME Listed(r), ~Returned(1, "RemoveMatch", r), ~(daemonRules'[r] > 0)
        PROVE  \E j \in DOMAIN incoming' : Returned(j, "RemoveMatch", r)'
    <3>1. PICK j \in DOMAIN incoming : Returned(j, "RemoveMatch", r)
      BY <2>1, <2>5 DEF InForce
    <3>2. j # 1
      BY <2>5, <3>1
    <3> QED
      BY <1>2, <3>1, <3>2
  <2> QED
    BY <2>3, <2>4, <2>5
<1>6. /\ matchRules' \in Seq(Infos) /\ OnceListed'
      /\ \A r : Listed(r)' => \/ Listed(r) /\ ~Returned(1, "RemoveMatch", r)
                              \/ Returned(1, "AddMatch", r)
  <2>1. CASE k # "return"
    <3>1. matchRules' = matchRules
      BY <1>1, <1>4, <2>1 DEF ReadReply, Throws
    <3> QED
      BY <1>3, <2>1, <3>1 DEF Typed, OnceListed, Listed
  <2>2. CASE k = "return" /\ request[c].member = "AddMatch"
    <3>1. matchRules' = Added(c, request[c].rule)
      BY <1>1, <2>2 DEF ReadReply, Throws
    <3>2. PICK r \in Rules : r = request[c].rule
      BY <1>4, <2>2, SMTT(30)
    <3>3. /\ matchRules' \in Seq(Infos) /\ OnceListed'
          /\ \A x : Listed(x)' => Listed(x) \/ x = r
      BY <1>4, <2>2, <3>1, <3>2, AddedProperties
    <3> QED
      BY <1>3, <2>2, <3>2, <3>3
  <2>3. CASE k = "return" /\ request[c].member = "RemoveMatch"
    <3>1. matchRules' = Erased(request[c].rule)
      BY <1>1, <2>3 DEF ReadReply, Throws
    <3>2. PICK r : r = request[c].rule
      OBVIOUS
    <3>3. /\ matchRules' \in Seq(Infos) /\ OnceListed'
          /\ \A x : Listed(x)' => Listed(x) /\ x # r
      BY <3>1, <3>2, ErasedProperties
    <3> QED
      BY <1>3, <2>3, <3>2, <3>3
  <2> QED
    BY <1>4, <2>1, <2>2, <2>3
<1>7. Typed'
  <2>1. pc' \in [Calls -> {"idle", "awaiting", "returned", "threw"}]
    BY <1>1 DEF ReadReply, Typed
  <2> QED
    BY <1>1, <1>2, <1>6, <2>1 DEF Typed
<1>8. ASSUME NEW r \in Rules PROVE InForce(r)'
  BY <1>5, <1>6 DEF InForce
<1> QED
  BY <1>6, <1>7, <1>8 DEF IInv

-----------------------------------------------------------------------------
(* The theorems                                                            *)

\* The inductive invariant: AddMatchRule() and RemoveMatchRule() keep a rule in
\* matchRules at most once, and what the replies under way say of a rule agrees
\* with what the daemon has.
THEOREM Invariance == Spec => []IInv
<1>1. IInv /\ [Next]_vars => IInv'
  <2> SUFFICES ASSUME IInv, [Next]_vars PROVE IInv'
    OBVIOUS
  <2>1. CASE \E c \in Calls : Send(c)
    BY <2>1, SendKeeps
  <2>2. CASE Answer
    BY <2>2, AnswerKeeps
  <2>3. CASE \E matches \in SUBSET Rules : Emit(matches)
    BY <2>3, EmitKeeps
  <2>4. CASE Read
    BY <2>4, ReadKeeps
  <2>5. CASE UNCHANGED vars
    <3>1. OnceListed' /\ \A r \in Rules : InForce(r)'
      BY <2>5, NothingAboutRules DEF vars, daemon
    <3>2. Typed'
      BY <2>5 DEF IInv, Typed, vars, daemon
    <3> QED
      BY <3>1, <3>2 DEF IInv
  <2> QED
    BY <2>1, <2>2, <2>3, <2>4, <2>5 DEF Next
<1> QED
  BY <1>1, InitKeeps, PTL DEF Spec

\* The connection lists only rules the daemon has, or of whose removal it is about
\* to hear: however additions, removals and refusals overlap.
THEOREM RulesAreKnown == Spec => []ListedRulesAreKnown
<1>1. IInv => ListedRulesAreKnown
  <2> SUFFICES ASSUME IInv, NEW i \in DOMAIN matchRules
               PROVE  LET r == matchRules[i].rule
                      IN daemonRules[r] > 0 \/ RemovalUnderWay(r)
    BY DEF ListedRulesAreKnown
  <2>1. PICK r : r = matchRules[i].rule
    OBVIOUS
  <2>2. r \in Rules
    <3>1. matchRules \in Seq(Infos)
      BY DEF IInv, Typed
    <3>2. i \in 1 .. Len(matchRules)
      BY <3>1, LenProperties
    <3>3. matchRules[i] \in Infos
      BY <3>1, <3>2, ElementOfSeq
    <3> QED
      BY <2>1, <3>3 DEF Infos
  <2>3. daemonRules[r] > 0 \/ \E j \in DOMAIN incoming : Returned(j, "RemoveMatch", r)
    BY <2>1, <2>2 DEF IInv, InForce, Listed
  <2>4. ASSUME NEW j \in DOMAIN incoming, Returned(j, "RemoveMatch", r)
        PROVE  RemovalUnderWay(r)
    <3>1. incoming[j] \in Items /\ incoming[j].kind = "return"
      BY <2>4, LenProperties, ElementOfSeq DEF IInv, Typed, Returned
    <3>2. incoming[j].to \in Calls
      BY <3>1 DEF Items, Replies, Signals
    <3>3. request[incoming[j].to] = [member |-> "RemoveMatch", rule |-> r]
      BY <2>4, <3>2 DEF IInv, Typed, Requests, Returned
    <3> QED
      BY <3>1, <3>3 DEF RemovalUnderWay
  <2> QED
    BY <2>1, <2>3, <2>4
<1> QED
  BY <1>1, Invariance, PTL

-----------------------------------------------------------------------------
(* Who listens                                                             *)

\* What the reply to call c makes of the callbacks of each rule.
After(heard, c) ==
  [heard EXCEPT ![request[c].rule] =
     IF request[c].member = "AddMatch" THEN Append(@, c) ELSE <<>>]

\* heard[i] is the callbacks of each rule once the connection has read i of what is
\* on its way: from those in matchRules to those the daemon counts on.
Leads(heard) ==
  /\ \A i \in DOMAIN matchRules :
       heard[0][matchRules[i].rule] = matchRules[i].callback
  /\ \A r \in Rules : ~Listed(r) => heard[0][r] = <<>>
  /\ \A i \in DOMAIN incoming :
       LET m == incoming[i]
       IN /\ heard[i] = IF m.kind = "return" THEN After(heard[i - 1], m.to)
                                             ELSE heard[i - 1]
          /\ m.kind = "signal" => m.watchers = heard[i - 1]
  /\ heard[Len(incoming)] = watchers

InStep == \E heard \in [0 .. Len(incoming) -> [Rules -> Seq(Calls)]] : Leads(heard)

\* The callbacks up to one that throws are the first of them; all of them if none
\* does, else with one that does.
LEMMA UpToThrowProperties ==
  ASSUME NEW s \in Seq(Calls)
  PROVE  /\ UpToThrow(s) \in Seq(Calls) /\ IsPrefix(UpToThrow(s), s)
         /\ Range(s) \cap Throwing = {} => UpToThrow(s) = s
         /\ Range(s) \cap Throwing # {} => Range(UpToThrow(s)) \cap Throwing # {}
<1> DEFINE throwers == {i \in 1 .. Len(s) : s[i] \in Throwing}
<1> PICK first : first = IF throwers # {} THEN Min(throwers) ELSE 0
  OBVIOUS
<1>1. UpToThrow(s) = IF first = 0 THEN s ELSE SubSeq(s, 1, first)
  BY DEF UpToThrow, SelectInSeq
<1>2. first = IF throwers # {} THEN Min(throwers) ELSE 0
  OBVIOUS
<1>3. DOMAIN s = 1 .. Len(s) /\ Len(s) \in Nat /\ throwers \subseteq Nat \ {0}
  BY LenProperties
<1>4. IsPrefix(s, s)
  BY DEF IsPrefix
<1>5. CASE throwers = {}
  <2>1. UpToThrow(s) = s
    BY <1>1, <1>2, <1>5
  <2>2. Range(s) \cap Throwing = {}
    BY <1>3, <1>5 DEF Range
  <2> QED
    BY <1>4, <2>1, <2>2
<1>6. CASE throwers # {}
  <2>1. first \in throwers
    BY <1>2, <1>3, <1>6, MinIsLeast
  <2>2. first \in 1 .. Len(s) /\ s[first] \in Throwing
    BY <2>1
  <2>3. UpToThrow(s) = SubSeq(s, 1, first)
    BY <1>1, <1>3, <2>1
  <2>4. /\ SubSeq(s, 1, first) \in Seq(Calls) /\ Len(SubSeq(s, 1, first)) = first
        /\ \A i \in 1 .. first : SubSeq(s, 1, first)[i] = s[i]
        /\ IsPrefix(SubSeq(s, 1, first), s)
    BY <2>2, PrefixOfSeq
  <2>5. /\ UpToThrow(s) \in Seq(Calls) /\ Len(UpToThrow(s)) = first
        /\ UpToThrow(s)[first] \in Throwing
    <3>1. first \in 1 .. first
      BY <1>3, <2>2
    <3> QED
      BY <2>2, <2>3, <2>4, <3>1
  <2>6. IsPrefix(UpToThrow(s), s)
    BY <2>3, <2>4
  <2>7. first \in DOMAIN UpToThrow(s)
    BY <1>3, <2>2, <2>5, LenProperties
  <2>8. Range(UpToThrow(s)) \cap Throwing # {}
    BY <2>5, <2>7 DEF Range
  <2>9. Range(s) \cap Throwing # {}
    BY <1>3, <2>2 DEF Range
  <2> QED
    BY <2>5, <2>6, <2>8, <2>9
<1> QED
  BY <1>5, <1>6

LEMMA AfterType ==
  ASSUME Typed, NEW heard \in [Rules -> Seq(Calls)], NEW c \in Calls
  PROVE  /\ After(heard, c) \in [Rules -> Seq(Calls)]
         /\ \A r \in Rules :
              After(heard, c)[r] =
                IF r # request[c].rule THEN heard[r]
                ELSE IF request[c].member = "AddMatch" THEN Append(heard[r], c)
                ELSE <<>>
<1>1. request[c].rule \in Rules
  BY DEF Typed, Requests
<1>2. heard[request[c].rule] \in Seq(Calls) /\ <<>> \in Seq(Calls)
  BY <1>1, EmptySeq
<1>3. Append(heard[request[c].rule], c) \in Seq(Calls)
  BY <1>2, AppendProperties
<1> QED
  BY <1>1, <1>2, <1>3 DEF After

\* Nothing happens to what is on its way, to matchRules and to the daemon's rules.
LEMMA NothingHeard ==
  ASSUME InStep, UNCHANGED <<request, incoming, matchRules, watchers>>
  PROVE  InStep'
<1> PICK heard \in [0 .. Len(incoming) -> [Rules -> Seq(Calls)]] : Leads(heard)
  BY DEF InStep
<1>1. Leads(heard)'
  BY DEF Leads, Listed, After
<1> QED
  BY <1>1 DEF InStep

\* What the daemon sends leads to what it counts on from now on.
LEMMA SendingLeads ==
  ASSUME Typed, InStep, NEW item \in Items,
         request' = request, matchRules' = matchRules,
         incoming' = Append(incoming, item),
         watchers' = IF item.kind = "return" THEN After(watchers, item.to) ELSE watchers,
         item.kind = "signal" => item.watchers = watchers
  PROVE  InStep'
<1> PICK heard \in [0 .. Len(incoming) -> [Rules -> Seq(Calls)]] : Leads(heard)
  BY DEF InStep
<1> PICK n : n = Len(incoming)
  OBVIOUS
<1>1. /\ n \in Nat /\ DOMAIN incoming = 1 .. n
      /\ DOMAIN incoming' = 1 .. n + 1 /\ Len(incoming') = n + 1
      /\ \A i \in DOMAIN incoming : incoming'[i] = incoming[i]
      /\ incoming'[n + 1] = item
  BY AppendProperties, LenProperties DEF Typed
<1>2. watchers' \in [Rules -> Seq(Calls)]
  <2>1. CASE item.kind = "return"
    <3>1. item.to \in Calls
      BY <2>1 DEF Items, Replies, Signals
    <3> QED
      BY <2>1, <3>1, AfterType DEF Typed
  <2>2. CASE item.kind # "return"
    BY <2>2 DEF Typed
  <2> QED
    BY <2>1, <2>2
<1> PICK longer : longer = [i \in 0 .. n + 1 |-> IF i = n + 1 THEN watchers' ELSE heard[i]]
  OBVIOUS
<1>3. longer \in [0 .. Len(incoming') -> [Rules -> Seq(Calls)]]
  BY <1>1, <1>2
<1>4. /\ \A i \in 0 .. n : longer[i] = heard[i]
      /\ longer[n + 1] = watchers' /\ heard[n] = watchers
  BY <1>1 DEF Leads
<1>5. Leads(longer)'
  <2>1. longer[0] = heard[0]
    BY <1>1, <1>4
  <2>2. /\ \A i \in DOMAIN matchRules' :
             longer[0][matchRules'[i].rule] = matchRules'[i].callback
        /\ \A r \in Rules : ~Listed(r)' => longer[0][r] = <<>>
    BY <2>1 DEF Leads, Listed
  <2>3. ASSUME NEW i \in DOMAIN incoming', NEW m, m = incoming'[i]
        PROVE  /\ longer[i] = IF m.kind = "return" THEN After(longer[i - 1], m.to)'
                                                  ELSE longer[i - 1]
               /\ m.kind = "signal" => m.watchers = longer[i - 1]
    <3>1. \A h, c : After(h, c)' = After(h, c)
      BY DEF After
    <3>2. CASE i \in DOMAIN incoming
      <4>1. i - 1 \in 0 .. n /\ i \in 0 .. n
        BY <1>1, <3>2
      <4>2. longer[i - 1] = heard[i - 1] /\ longer[i] = heard[i]
        BY <1>4, <4>1
      <4>3. m = incoming[i]
        BY <1>1, <2>3, <3>2
      <4>4. /\ heard[i] = IF m.kind = "return" THEN After(heard[i - 1], m.to)
                                               ELSE heard[i - 1]
            /\ m.kind = "signal" => m.watchers = heard[i - 1]
        BY <3>2, <4>3 DEF Leads
      <4> QED
        BY <3>1, <4>2, <4>4
    <3>3. CASE i = n + 1
      <4>1. i - 1 = n /\ m = item /\ n \in 0 .. n
        BY <1>1, <2>3, <3>3
      <4>2. longer[i - 1] = watchers
        BY <1>4, <4>1
      <4> QED
        BY <1>4, <3>1, <3>3, <4>1, <4>2
    <3> QED
      BY <1>1, <3>2, <3>3
  <2>4. longer[Len(incoming')] = watchers'
    BY <1>1, <1>4
  <2> QED
    BY <2>2, <2>3, <2>4, ZenonT(40) DEF Leads
<1> QED
  BY <1>3, <1>5 DEF InStep

\* The first on its way, which the connection reads next, leads from what is in
\* matchRules.
LEMMA ReadLeads ==
  ASSUME Typed, OnceListed, InStep, incoming # <<>>,
         request' = request, watchers' = watchers, incoming' = Tail(incoming),
         NEW m, m = Head(incoming),
         m.kind = "return" =>
           matchRules' = IF request[m.to].member = "AddMatch"
                           THEN Added(m.to, request[m.to].rule)
                           ELSE Erased(request[m.to].rule),
         m.kind # "return" => matchRules' = matchRules
  PROVE  InStep'
<1> PICK heard \in [0 .. Len(incoming) -> [Rules -> Seq(Calls)]] : Leads(heard)
  BY DEF InStep
<1> PICK n : n = Len(incoming)
  OBVIOUS
<1>1. /\ n \in Nat \ {0} /\ DOMAIN incoming = 1 .. n /\ incoming[1] = m /\ m \in Items
      /\ Len(incoming') = n - 1 /\ DOMAIN incoming' = 1 .. n - 1
      /\ \A i \in 1 .. n - 1 : incoming'[i] = incoming[i + 1]
  <2>1. incoming \in Seq(Items)
    BY DEF Typed
  <2>2. /\ Tail(incoming) \in Seq(Items) /\ Len(Tail(incoming)) = n - 1
        /\ \A i \in 1 .. Len(Tail(incoming)) : Tail(incoming)[i] = incoming[i + 1]
    BY <2>1, HeadTailProperties, Zenon
  <2>3. /\ DOMAIN incoming = 1 .. n /\ n \in Nat \ {0}
        /\ m = incoming[1] /\ m \in Items
    BY <2>1, LenProperties, EmptySeq, HeadTailProperties
  <2>4. DOMAIN Tail(incoming) = 1 .. n - 1
    BY <2>2, LenProperties
  <2> QED
    BY <2>2, <2>3, <2>4
<1> PICK rest : rest = [i \in 0 .. n - 1 |-> heard[i + 1]]
  OBVIOUS
<1>2. rest \in [0 .. Len(incoming') -> [Rules -> Seq(Calls)]]
  BY <1>1
<1>3. \A i \in 0 .. n - 1 : rest[i] = heard[i + 1]
  BY <1>1
<1>4. /\ rest[0] = IF m.kind = "return" THEN After(heard[0], m.to) ELSE heard[0]
      /\ heard[0] \in [Rules -> Seq(Calls)]
  <2>1. 1 \in DOMAIN incoming /\ 0 \in 0 .. n - 1 /\ 1 - 1 = 0 /\ 0 + 1 = 1 /\ 0 \in 0 .. n
    BY <1>1
  <2>2. heard[1] = IF m.kind = "return" THEN After(heard[0], m.to) ELSE heard[0]
    BY <1>1, <2>1 DEF Leads
  <2> QED
    BY <1>3, <2>1, <2>2
<1>5. /\ \A i \in DOMAIN matchRules :
           /\ heard[0][matchRules[i].rule] = matchRules[i].callback
           /\ matchRules[i].rule \in Rules
      /\ \A r \in Rules : ~Listed(r) => heard[0][r] = <<>>
  <2>1. \A i \in DOMAIN matchRules : matchRules[i] \in Infos
    BY LenProperties, ElementOfSeq DEF Typed
  <2> QED
    BY <2>1 DEF Leads, Infos
<1>6. /\ \A i \in DOMAIN matchRules' :
           rest[0][matchRules'[i].rule] = matchRules'[i].callback
      /\ \A r \in Rules : ~Listed(r)' => rest[0][r] = <<>>
  <2>1. CASE m.kind # "return"
    <3>1. matchRules' = matchRules /\ rest[0] = heard[0]
      BY <1>4, <2>1
    <3> QED
      BY <1>5, <3>1 DEF Listed
  <2>2. CASE m.kind = "return"
    <3> PICK c, r : c = m.to /\ r = request[m.to].rule
      OBVIOUS
    <3>1. c \in Calls
      BY <1>1, <2>2 DEF Items, Replies, Signals
    <3>2. r \in Rules
      BY <3>1 DEF Typed, Requests
    <3>3. \A x \in Rules :
            rest[0][x] = IF x # r THEN heard[0][x]
                         ELSE IF request[c].member = "AddMatch" THEN Append(heard[0][x], c)
                         ELSE <<>>
      <4>1. rest[0] = After(heard[0], c)
        BY <1>4, <2>2
      <4>2. \A x \in Rules :
              After(heard[0], c)[x] =
                IF x # request[c].rule THEN heard[0][x]
                ELSE IF request[c].member = "AddMatch" THEN Append(heard[0][x], c)
                ELSE <<>>
        BY <1>4, <3>1, AfterType
      <4> QED
        BY <4>1, <4>2
    <3>4. CASE request[c].member = "AddMatch"
      <4>1. matchRules' = Added(c, r)
        BY <2>2, <3>4
      <4>2. /\ \A x : Listed(x)' <=> Listed(x) \/ x = r
            /\ \A i \in DOMAIN matchRules' :
                 \/ matchRules'[i].rule # r
                    /\ \E j \in DOMAIN matchRules : matchRules[j] = matchRules'[i]
                 \/ /\ matchRules'[i].rule = r
                    /\ \/ ~Listed(r) /\ matchRules'[i].callback = <<c>>
                       \/ \E j \in DOMAIN matchRules :
                            /\ matchRules[j].rule = r
                            /\ matchRules'[i].callback = Append(matchRules[j].callback, c)
        BY <3>1, <3>2, <4>1, AddedProperties, ZenonT(40)
      <4>3. Append(<<>>, c) = <<c>>
        OBVIOUS
      <4>4. ASSUME NEW i \in DOMAIN matchRules'
            PROVE  rest[0][matchRules'[i].rule] = matchRules'[i].callback
        <5>1. CASE matchRules'[i].rule # r
          <6>1. PICK j \in DOMAIN matchRules : matchRules[j] = matchRules'[i]
            BY <4>2, <5>1
          <6>2. /\ heard[0][matchRules'[i].rule] = matchRules'[i].callback
                /\ matchRules'[i].rule \in Rules
            BY <1>5, <6>1
          <6> QED
            BY <3>3, <5>1, <6>2
        <5>2. CASE matchRules'[i].rule = r
          <6>1. rest[0][r] = Append(heard[0][r], c)
            BY <3>2, <3>3, <3>4, ZenonT(40)
          <6>2. CASE ~Listed(r) /\ matchRules'[i].callback = <<c>>
            BY <1>5, <3>2, <4>3, <5>2, <6>1, <6>2, ZenonT(40)
          <6>3. CASE \E j \in DOMAIN matchRules :
                       /\ matchRules[j].rule = r
                       /\ matchRules'[i].callback = Append(matchRules[j].callback, c)
            BY <1>5, <5>2, <6>1, <6>3
          <6> QED
            BY <4>2, <5>2, <6>2, <6>3
        <5> QED
          BY <5>1, <5>2
      <4>5. \A x \in Rules : ~Listed(x)' => rest[0][x] = <<>>
        BY <1>5, <3>3, <4>2
      <4> QED
        BY <4>4, <4>5
    <3>5. CASE request[c].member # "AddMatch"
      <4>1. matchRules' = Erased(r)
        BY <2>2, <3>5
      <4>2. /\ \A x : Listed(x)' <=> Listed(x) /\ x # r
            /\ \A i \in DOMAIN matchRules' :
                 \E j \in DOMAIN matchRules : matchRules[j] = matchRules'[i]
        BY <4>1, ErasedProperties
      <4>3. ASSUME NEW i \in DOMAIN matchRules'
            PROVE  rest[0][matchRules'[i].rule] = matchRules'[i].callback
        <5>1. matchRules'[i].rule # r
          BY <4>2 DEF Listed
        <5>2. PICK j \in DOMAIN matchRules : matchRules[j] = matchRules'[i]
          BY <4>2
        <5>3. /\ heard[0][matchRules'[i].rule] = matchRules'[i].callback
              /\ matchRules'[i].rule \in Rules
          BY <1>5, <5>2
        <5> QED
          BY <3>3, <5>1, <5>3
      <4>4. \A x \in Rules : ~Listed(x)' => rest[0][x] = <<>>
        BY <1>5, <3>3, <3>5, <4>2, ZenonT(40)
      <4> QED
        BY <4>3, <4>4
    <3> QED
      BY <3>4, <3>5
  <2> QED
    BY <2>1, <2>2
<1>7. ASSUME NEW i \in DOMAIN incoming', NEW x, x = incoming'[i]
      PROVE  /\ rest[i] = IF x.kind = "return" THEN After(rest[i - 1], x.to)'
                                              ELSE rest[i - 1]
             /\ x.kind = "signal" => x.watchers = rest[i - 1]
  <2>1. /\ i \in 0 .. n - 1 /\ i - 1 \in 0 .. n - 1 /\ i \in 1 .. n - 1
        /\ i + 1 \in DOMAIN incoming /\ (i - 1) + 1 = i /\ (i + 1) - 1 = i
    BY <1>1
  <2>2. rest[i] = heard[i + 1] /\ rest[i - 1] = heard[i] /\ x = incoming[i + 1]
    BY <1>1, <1>3, <1>7, <2>1
  <2>3. /\ heard[i + 1] = IF x.kind = "return" THEN After(heard[i], x.to) ELSE heard[i]
        /\ x.kind = "signal" => x.watchers = heard[i]
    BY <2>1, <2>2 DEF Leads
  <2>4. \A h, c : After(h, c)' = After(h, c)
    BY DEF After
  <2> QED
    BY <2>2, <2>3, <2>4
<1>8. rest[Len(incoming')] = watchers'
  <2>1. n - 1 \in 0 .. n - 1 /\ (n - 1) + 1 = n
    BY <1>1
  <2> QED
    BY <1>1, <1>3, <2>1 DEF Leads
<1>9. Leads(rest)'
  BY <1>6, <1>7, <1>8 DEF Leads
<1> QED
  BY <1>2, <1>9 DEF InStep

LEMMA InitInStep == Init => InStep
<1> SUFFICES ASSUME Init PROVE InStep
  OBVIOUS
<1> PICK heard : heard = [i \in 0 .. 0 |-> [r \in Rules |-> <<>>]]
  OBVIOUS
<1>1. /\ incoming = <<>> /\ matchRules = <<>> /\ watchers = [r \in Rules |-> <<>>]
      /\ Len(incoming) = 0 /\ DOMAIN incoming = {} /\ DOMAIN matchRules = {}
  BY DEF Init
<1>2. <<>> \in Seq(Calls)
  BY EmptySeq
<1>3. heard \in [0 .. Len(incoming) -> [Rules -> Seq(Calls)]]
  BY <1>1, <1>2
<1>4. heard[0] = [r \in Rules |-> <<>>]
  OBVIOUS
<1>5. Leads(heard)
  BY <1>1, <1>4 DEF Leads
<1> QED
  BY <1>3, <1>5 DEF InStep

\* The replies and signals under way lead, addition by addition and removal by
\* removal, from the callbacks in matchRules to those the daemon counts on; and a
\* signal mentions those of the moment it was sent.
THEOREM ListsFollow == Spec => []InStep
<1>1. IInv /\ InStep /\ [Next]_vars => InStep'
  <2> SUFFICES ASSUME IInv, InStep, [Next]_vars PROVE InStep'
    OBVIOUS
  <2> Typed /\ OnceListed
    BY DEF IInv
  <2>1. CASE \E c \in Calls : Send(c)
    BY <2>1, NothingHeard DEF Send, daemon
  <2>2. CASE Answer
    <3> PICK c, r : c = Head(requests) /\ r = request[c].rule
      OBVIOUS
    <3>1. /\ c \in Calls /\ request[c].member \in {"AddMatch", "RemoveMatch"}
          /\ r \in Rules /\ watchers \in [Rules -> Seq(Calls)]
      <4>1. c \in Calls
        BY <2>2, HeadTailProperties DEF Answer, Typed
      <4> QED
        BY <4>1 DEF Typed, Requests
    <3>2. PICK kind \in {"return", "error"} :
            /\ incoming' = Append(incoming, [kind |-> kind, to |-> c])
            /\ watchers' = IF kind = "return" THEN After(watchers, c) ELSE watchers
      <4>1. CASE Accept(c, r)
        <5>1. After(watchers, c) = [watchers EXCEPT ![r] = Append(@, c)]
          BY <4>1 DEF Accept, After
        <5> QED
          BY <4>1, <5>1 DEF Accept, Reply
      <4>2. CASE Drop(c, r)
        <5>1. After(watchers, c) = [watchers EXCEPT ![r] = <<>>]
          BY <4>2 DEF Drop, After
        <5> QED
          BY <4>2, <5>1 DEF Drop, Reply
      <4>3. CASE Refuse(c, r)
        BY <4>3 DEF Refuse, Reply
      <4> QED
        BY <2>2, <4>1, <4>2, <4>3, SMTT(30) DEF Answer
    <3> PICK item : item = [kind |-> kind, to |-> c]
      OBVIOUS
    <3>3. item \in Items /\ item.kind = kind /\ item.to = c /\ item.kind # "signal"
      BY <3>1 DEF Items, Replies
    <3>4. request' = request /\ matchRules' = matchRules
      BY <2>2 DEF Answer
    <3> QED
      BY <3>2, <3>3, <3>4, SendingLeads
  <2>3. CASE \E matches \in SUBSET Rules : Emit(matches)
    <3> PICK matches \in SUBSET Rules : Emit(matches)
      BY <2>3
    <3> PICK item : item = [kind |-> "signal", matches |-> matches, watchers |-> watchers]
      OBVIOUS
    <3>1. item \in Items /\ item.kind = "signal" /\ item.watchers = watchers
      BY DEF Typed, Items, Signals
    <3>2. /\ incoming' = Append(incoming, item)
          /\ UNCHANGED <<request, matchRules, watchers>>
      BY DEF Emit
    <3> QED
      BY <3>1, <3>2, SendingLeads
  <2>4. CASE Read
    <3> PICK m : m = Head(incoming)
      OBVIOUS
    <3>1. /\ incoming # <<>> /\ incoming' = Tail(incoming)
          /\ request' = request /\ watchers' = watchers
          /\ IF m.kind = "signal" THEN ReadSignal(m.matches) ELSE ReadReply(m.to, m.kind)
      BY <2>4 DEF Read, daemon
    <3>2. m.kind \in {"return", "error", "signal"}
      <4>1. m \in Items
        BY <3>1, HeadTailProperties DEF Typed
      <4> QED
        BY <4>1 DEF Items, Replies, Signals
    <3>3. m.kind = "return" =>
            matchRules' = IF request[m.to].member = "AddMatch"
                            THEN Added(m.to, request[m.to].rule)
                            ELSE Erased(request[m.to].rule)
      BY <3>1 DEF ReadReply, Throws
    <3>4. m.kind # "return" => matchRules' = matchRules
      BY <3>1, <3>2 DEF ReadReply, ReadSignal, Throws
    <3> QED
      BY <3>1, <3>3, <3>4, ReadLeads
  <2>5. CASE UNCHANGED vars
    BY <2>5, NothingHeard DEF vars, daemon
  <2> QED
    BY <2>1, <2>2, <2>3, <2>4, <2>5 DEF Next
<1> QED
  BY <1>1, InitInStep, Invariance, PTL DEF Spec

\* What a signal calls, once the connection reads it.
LEMMA SignalCalls ==
  ASSUME IInv, InStep, Read, NEW m, m = Head(incoming), m.kind = "signal",
         NEW r \in Rules
  PROVE  /\ r \notin m.matches => called'[r] = <<>>
         /\ r \in m.matches =>
              /\ IsPrefix(called'[r], m.watchers[r])
              /\ called'[r] # m.watchers[r] =>
                   \E x \in Rules :
                     /\ Range(called'[x]) \cap Throwing # {}
                     /\ singleThreaded \/ x = r
<1> Typed /\ OnceListed
  BY DEF IInv
<1> PICK heard \in [0 .. Len(incoming) -> [Rules -> Seq(Calls)]] : Leads(heard)
  BY DEF InStep
<1> DEFINE position(x) == Position(x)
           reached(i) == Reached(i, m.matches)
<1>1. m.watchers = heard[0]
  <2>1. incoming # <<>>
    BY DEF Read
  <2>2. 1 \in DOMAIN incoming /\ incoming[1] = m
    BY <2>1, LenProperties, EmptySeq, HeadTailProperties DEF Typed
  <2>3. m.watchers = heard[1 - 1]
    BY <2>2 DEF Leads
  <2> QED
    BY <2>3
<1>2. \A x \in Rules :
        called'[x] = IF x \in m.matches /\ position(x) # 0 /\ reached(position(x))
                       THEN UpToThrow(matchRules[position(x)].callback) ELSE <<>>
  <2>1. called' = Invoked(m.matches)
    BY DEF Read, ReadSignal
  <2> QED
    BY <2>1 DEF Invoked
<1>3. ASSUME NEW i \in DOMAIN matchRules
      PROVE  /\ i \in Nat \ {0}
             /\ matchRules[i].rule \in Rules /\ matchRules[i].callback \in Seq(Calls)
             /\ position(matchRules[i].rule) = i
             /\ m.watchers[matchRules[i].rule] = matchRules[i].callback
  <2>1. i \in Nat \ {0} /\ matchRules[i] \in Infos
    BY LenProperties, ElementOfSeq DEF Typed
  <2>2. Listed(matchRules[i].rule)
    BY DEF Listed
  <2>3. /\ position(matchRules[i].rule) \in DOMAIN matchRules
        /\ matchRules[position(matchRules[i].rule)].rule = matchRules[i].rule
    BY <2>2, PositionOf
  <2>4. position(matchRules[i].rule) = i
    BY <2>3 DEF OnceListed
  <2>5. m.watchers[matchRules[i].rule] = matchRules[i].callback
    BY <1>1 DEF Leads
  <2> QED
    BY <2>1, <2>4, <2>5 DEF Infos
<1>4. /\ position(r) # 0 => position(r) \in DOMAIN matchRules
                            /\ matchRules[position(r)].rule = r
      /\ position(r) = 0 => m.watchers[r] = <<>>
  BY <1>1, PositionOf DEF Leads
<1> HIDE DEF position
<1>5. CASE r \notin m.matches
  BY <1>2, <1>5
<1>6. CASE r \in m.matches /\ position(r) = 0
  <2>1. called'[r] = <<>> /\ m.watchers[r] = <<>>
    BY <1>2, <1>4, <1>6
  <2>2. IsPrefix(<<>>, <<>>)
    BY EmptyPrefix, EmptySeq
  <2> QED
    BY <1>6, <2>1, <2>2
<1>7. CASE r \in m.matches /\ position(r) # 0
  <2> PICK p, callback : p = position(r) /\ callback = matchRules[p].callback
    OBVIOUS
  <2>1. /\ p \in DOMAIN matchRules /\ matchRules[p].rule = r /\ p \in Nat \ {0}
        /\ callback \in Seq(Calls) /\ m.watchers[r] = callback
    BY <1>3, <1>4, <1>7
  <2>2. CASE reached(p)
    <3>1. called'[r] = UpToThrow(callback)
      BY <1>2, <1>7, <2>2
    <3>2. /\ IsPrefix(UpToThrow(callback), callback)
          /\ UpToThrow(callback) # callback =>
               Range(UpToThrow(callback)) \cap Throwing # {}
      BY <2>1, UpToThrowProperties
    <3> QED
      BY <1>7, <2>1, <3>1, <3>2
  <2>3. CASE ~reached(p)
    <3>1. called'[r] = <<>>
      BY <1>2, <2>3
    <3>2. IsPrefix(called'[r], m.watchers[r])
      BY <2>1, <3>1, EmptyPrefix
    <3> DEFINE throwing(j) == /\ matchRules[j].rule \in m.matches
                              /\ Range(matchRules[j].callback) \cap Throwing # {}
               earlier == {j \in 1 .. p - 1 : throwing(j)}
    <3>3. singleThreaded /\ earlier \subseteq Nat /\ earlier # {}
      <4>1. singleThreaded /\ \E j \in 1 .. p - 1 : throwing(j)
        BY <2>3 DEF Reached
      <4>2. 1 .. p - 1 \subseteq Nat
        BY <2>1
      <4> QED
        BY <4>1, <4>2
    <3>4. PICK j \in earlier : \A k \in earlier : j <= k
      BY <3>3, LeastNumber
    <3>5. j \in DOMAIN matchRules
      BY <2>1, LenProperties DEF Typed
    <3>6. reached(j)
      <4>1. \A k \in 1 .. j - 1 : k \in 1 .. p - 1 /\ ~(j <= k)
        BY <2>1
      <4>2. \A k \in 1 .. j - 1 : ~throwing(k)
        BY <3>4, <4>1
      <4> QED
        BY <4>2 DEF Reached
    <3> PICK x : x = matchRules[j].rule
      OBVIOUS
    <3>7. x \in Rules /\ x \in m.matches /\ position(x) = j /\ j # 0
      BY <1>3, <3>5
    <3>8. called'[x] = UpToThrow(matchRules[j].callback)
      BY <1>2, <3>6, <3>7
    <3>9. Range(called'[x]) \cap Throwing # {}
      BY <1>3, <3>5, <3>8, UpToThrowProperties
    <3> QED
      BY <1>7, <3>2, <3>3, <3>7, <3>9
  <2> QED
    BY <2>2, <2>3
<1> QED
  BY <1>5, <1>6, <1>7

\* Whatever is added, removed and refused while signals are under way: a signal
\* calls, once each and in their order, the callbacks that the daemon counted on
\* when it sent the signal, unless one of them throws.
THEOREM SignalsReachTheirWatchers == Spec => WatchersAreCalled
<1> DEFINE Called ==
      LET m == Head(incoming)
      IN Read /\ m.kind = "signal" =>
          \A r \in Rules :
            /\ r \notin m.matches => called'[r] = <<>>
            /\ r \in m.matches =>
                 /\ IsPrefix(called'[r], m.watchers[r])
                 /\ called'[r] # m.watchers[r] =>
                      \E x \in Rules :
                        /\ Range(called'[x]) \cap Throwing # {}
                        /\ singleThreaded \/ x = r
<1>1. IInv /\ InStep => Called
  <2> SUFFICES ASSUME IInv, InStep, Read, NEW m, m = Head(incoming), m.kind = "signal"
               PROVE  \A r \in Rules :
                        /\ r \notin m.matches => called'[r] = <<>>
                        /\ r \in m.matches =>
                             /\ IsPrefix(called'[r], m.watchers[r])
                             /\ called'[r] # m.watchers[r] =>
                                  \E x \in Rules :
                                    /\ Range(called'[x]) \cap Throwing # {}
                                    /\ singleThreaded \/ x = r
    OBVIOUS
  <2> QED
    BY SignalCalls
<1>2. Spec => [][Called]_vars
  <2>1. IInv /\ InStep /\ [Next]_vars => [Called]_vars
    BY <1>1
  <2> QED
    BY <2>1, Invariance, ListsFollow, PTL DEF Spec
<1> QED
  BY <1>2 DEF WatchersAreCalled

-----------------------------------------------------------------------------
(* The types                                                               *)

\* RemoveMatchRule() takes a rule off with its last callback.
SomebodyListens == \A i \in DOMAIN matchRules : matchRules[i].callback # <<>>

\* What matchRules holds.
LEMMA InfosTyped ==
  ASSUME Typed
  PROVE  /\ DOMAIN matchRules = 1 .. Len(matchRules) /\ Len(matchRules) \in Nat
         /\ \A i \in DOMAIN matchRules :
              /\ matchRules[i] \in [rule : Rules, callback : Seq(Calls)]
              /\ matchRules[i].callback \in Seq(Calls)
<1>1. matchRules \in Seq(Infos)
  BY DEF Typed
<1>2. DOMAIN matchRules = 1 .. Len(matchRules) /\ Len(matchRules) \in Nat
  BY <1>1, LenProperties
<1>3. \A i \in DOMAIN matchRules : matchRules[i] \in Infos
  BY <1>1, <1>2, ElementOfSeq
<1> QED
  BY <1>2, <1>3 DEF Infos

LEMMA ReadListens == ASSUME IInv, SomebodyListens, Read PROVE SomebodyListens'
<1> Typed /\ OnceListed
  BY DEF IInv
<1> PICK m : m = Head(incoming)
  OBVIOUS
<1>1. m \in Items
  BY HeadTailProperties DEF Read, Typed
<1>2. CASE matchRules' = matchRules
  BY <1>2 DEF SomebodyListens
<1>3. CASE m.kind = "return"
  <2> PICK c, r : c = m.to /\ r = request[c].rule
    OBVIOUS
  <2>1. c \in Calls /\ r \in Rules
    <3>1. c \in Calls
      BY <1>1, <1>3 DEF Items, Replies, Signals
    <3> QED
      BY <3>1 DEF Typed, Requests
  <2>2. matchRules' = IF request[c].member = "AddMatch" THEN Added(c, r) ELSE Erased(r)
    BY <1>3 DEF Read, ReadReply, Throws
  <2>3. CASE matchRules' = Added(c, r)
    <3>1. \A s \in Seq(Calls) : Append(s, c) # <<>>
      BY <2>1, AppendProperties
    <3>2. <<c>> # <<>>
      OBVIOUS
    <3>3. \A j \in DOMAIN matchRules : matchRules[j].callback \in Seq(Calls)
      BY InfosTyped
    <3>4. \A i \in DOMAIN matchRules' :
            \/ \E j \in DOMAIN matchRules : matchRules[j] = matchRules'[i]
            \/ matchRules'[i].callback = <<c>>
            \/ \E j \in DOMAIN matchRules :
                 matchRules'[i].callback = Append(matchRules[j].callback, c)
      BY <2>1, <2>3, AddedProperties, SMTT(30)
    <3> QED
      BY <3>1, <3>2, <3>3, <3>4 DEF SomebodyListens
  <2>4. CASE matchRules' = Erased(r)
    <3>1. \A i \in DOMAIN matchRules' :
            \E j \in DOMAIN matchRules : matchRules[j] = matchRules'[i]
      BY <2>4, ErasedProperties
    <3> QED
      BY <3>1 DEF SomebodyListens
  <2> QED
    BY <2>2, <2>3, <2>4
<1>4. m.kind # "return" => matchRules' = matchRules
  BY <1>1 DEF Read, ReadReply, ReadSignal, Throws, Items, Replies, Signals
<1> QED
  BY <1>2, <1>3, <1>4

LEMMA ReadCalls ==
  ASSUME IInv, called \in [Rules -> Seq(Calls)], Read
  PROVE  called' \in [Rules -> Seq(Calls)]
<1> Typed /\ OnceListed
  BY DEF IInv
<1> PICK matches : matches = Head(incoming).matches
  OBVIOUS
<1>1. called' = called \/ called' = Invoked(matches)
  BY DEF Read, ReadReply, ReadSignal
<1>2. ASSUME NEW r \in Rules, Position(r) # 0
      PROVE  UpToThrow(matchRules[Position(r)].callback) \in Seq(Calls)
  <2>1. Position(r) \in DOMAIN matchRules
    BY <1>2, PositionOf
  <2>2. matchRules[Position(r)].callback \in Seq(Calls)
    BY <2>1, InfosTyped
  <2> QED
    BY <2>2, UpToThrowProperties
<1>3. <<>> \in Seq(Calls)
  BY EmptySeq
<1>4. Invoked(matches) \in [Rules -> Seq(Calls)]
  BY <1>2, <1>3 DEF Invoked
<1> QED
  BY <1>1, <1>4

\* Whatever the calls, matchRules never keeps a rule nobody listens to, and what a
\* signal calls is callbacks of the calls that were made.
THEOREM TypeCorrect == Spec => []TypeOK
<1> DEFINE Rest == /\ singleThreaded \in BOOLEAN /\ SomebodyListens
                   /\ called \in [Rules -> Seq(Calls)]
                   /\ emitted \in 0 .. MaxSignals
<1>1. Init => Rest
  <2> SUFFICES ASSUME Init PROVE Rest
    OBVIOUS
  <2>1. <<>> \in Seq(Calls) /\ 0 \in 0 .. MaxSignals
    BY EmptySeq, RegistryAssumption
  <2> QED
    BY <2>1 DEF Init, SomebodyListens
<1>2. IInv /\ Rest /\ [Next]_vars => Rest'
  <2> SUFFICES ASSUME IInv, Rest, [Next]_vars PROVE Rest'
    OBVIOUS
  <2>1. CASE \E c \in Calls : Send(c)
    BY <2>1 DEF Send, daemon, SomebodyListens
  <2>2. CASE Answer
    BY <2>2 DEF Answer, SomebodyListens
  <2>3. CASE \E matches \in SUBSET Rules : Emit(matches)
    <3>1. emitted' \in 0 .. MaxSignals
      BY <2>3, RegistryAssumption DEF Emit
    <3> QED
      BY <2>3, <3>1 DEF Emit, SomebodyListens
  <2>4. CASE Read
    <3>1. UNCHANGED <<singleThreaded, emitted>>
      BY <2>4 DEF Read, daemon
    <3>2. SomebodyListens' /\ called' \in [Rules -> Seq(Calls)]
      BY <2>4, ReadListens, ReadCalls
    <3> QED
      BY <3>1, <3>2
  <2>5. CASE UNCHANGED vars
    BY <2>5 DEF vars, daemon, SomebodyListens
  <2> QED
    BY <2>1, <2>2, <2>3, <2>4, <2>5 DEF Next
<1>3. IInv /\ Rest => TypeOK
  <2> SUFFICES ASSUME IInv, Rest PROVE TypeOK
    OBVIOUS
  <2>1. matchRules \in Seq([rule : Rules, callback : Seq(Calls) \ {<<>>}])
    <3>1. /\ DOMAIN matchRules = 1 .. Len(matchRules) /\ Len(matchRules) \in Nat
          /\ \A i \in DOMAIN matchRules :
               matchRules[i] \in [rule : Rules, callback : Seq(Calls)]
      BY InfosTyped DEF IInv
    <3>2. \A i \in 1 .. Len(matchRules) :
            matchRules[i] \in [rule : Rules, callback : Seq(Calls) \ {<<>>}]
      BY <3>1 DEF SomebodyListens
    <3>3. matchRules \in Seq(Infos)
      BY DEF IInv, Typed
    <3>4. matchRules = [i \in 1 .. Len(matchRules) |-> matchRules[i]]
      BY <3>3, SeqDef
    <3>5. matchRules \in [1 .. Len(matchRules) -> [rule : Rules, callback : Seq(Calls) \ {<<>>}]]
      BY <3>2, <3>4
    <3>6. PICK n, S : /\ n \in Nat /\ n = Len(matchRules)
                      /\ S = [rule : Rules, callback : Seq(Calls) \ {<<>>}]
      BY <3>1
    <3>7. matchRules \in [1 .. n -> S]
      BY <3>5, <3>6, Zenon
    <3>8. matchRules \in Seq(S)
      BY ONLY <3>6, <3>7, SeqDef, ZenonT(40)
    <3> QED
      BY <3>6, <3>8, Zenon
  <2> QED
    BY <2>1 DEF IInv, Typed, TypeOK, Items
<1> QED
  BY <1>1, <1>2, <1>3, Invariance, PTL DEF Spec
================================================================================
