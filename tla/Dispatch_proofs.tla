---------------------------- MODULE Dispatch_proofs ----------------------------
(***************************************************************************)
(* Theorems about Dispatch, for all paths and bounds.                       *)
(***************************************************************************)
EXTENDS Dispatch, SequenceTheorems, FiniteSetTheorems, TLAPS

Queued == {"pathQueued", "incomingQueued"}

Increasing(s) == \A i, j \in DOMAIN s : i < j => s[i] < s[j]

\* The messages whose callbacks began, and behind them those that wait for the
\* user's io_context, in the order in which they were read.
InOrder ==
  /\ Increasing(begun) /\ Increasing(userContext)
  /\ \A i \in DOMAIN begun, j \in DOMAIN userContext : begun[i] < userContext[j]
  /\ userContext # <<>> => ~singleThreaded

\* Who waits for the io_context is in its queue.
QueueAgrees ==
  \A m \in DOMAIN messages :
    stage[m] \in Queued <=> \E i \in DOMAIN userContext : userContext[i] = m

\* No filter has an ID that is still to be given.
FiltersDiffer ==
  /\ \A i \in DOMAIN messageFilters : messageFilters[i] < messageFilterID
  /\ \A i, j \in DOMAIN messageFilters : i # j => messageFilters[i] # messageFilters[j]

Differ(callbacks) ==
  \A i, j \in DOMAIN callbacks : i # j => callbacks[i] # callbacks[j]

DifferCalled(called) ==
  \A i, j \in DOMAIN called : i # j => called[i].callback # called[j].callback

\* A callback that stops the others was the last.
StopIsLast(called) == \A i \in DOMAIN called : Stops(called[i].answer) => i = Len(called)

\* What is to be called was not called.
Apart(callbacks, called) ==
  \A i \in DOMAIN callbacks, j \in DOMAIN called : callbacks[i] # called[j].callback

\* How far a message at stage s has come.
Progress(s, callbacks, called) ==
  /\ Differ(callbacks) /\ DifferCalled(called) /\ Apart(callbacks, called)
  /\ StopIsLast(called)
  /\ s # "finished" => \A i \in DOMAIN called : ~Stops(called[i].answer)
  /\ s \in {"path", "incoming"} <=> callbacks # <<>>
  /\ s \in Queued => \A i \in DOMAIN called : called[i].callback.kind = "filter"
  /\ s \in Queued \cup {"incoming"} => AllRefuse(called)

Progresses == \A m \in DOMAIN messages : Progress(stage[m], todo[m], calls[m])

\* The errors are those of messages that everybody refused.
ErrorsAreLast ==
  /\ \A i \in DOMAIN unknownMethod :
       stage[unknownMethod[i]] = "finished" /\ AllRefuse(calls[unknownMethod[i]])
  /\ \A i, j \in DOMAIN unknownMethod : i # j => unknownMethod[i] # unknownMethod[j]

\* A message that everybody refused has its error; of one whose handlers are gone
\* the coroutine on the user's thread began.
RefusedIsAnswered ==
  \A m \in DOMAIN messages :
    /\ stage[m] = "finished" /\ AllRefuse(calls[m]) =>
         \E i \in DOMAIN unknownMethod : unknownMethod[i] = m
    /\ stage[m] = "handlersGone" =>
         ~singleThreaded /\ \E i \in DOMAIN begun : begun[i] = m

IInv == /\ TypeOK /\ InOrder /\ QueueAgrees /\ FiltersDiffer /\ Progresses
        /\ ErrorsAreLast /\ RefusedIsAnswered
--------------------------------------------------------------------------------
(* What the callbacks of a container are.                                    *)

\* A function on 1..n is a sequence.
LEMMA FunctionIsSeq ==
  ASSUME NEW S, NEW n \in Nat, NEW f \in [1 .. n -> S]
  PROVE  f \in Seq(S) /\ Len(f) = n /\ DOMAIN f = 1 .. n
  OBVIOUS

\* Each filter is asked at most once.
LEMMA FiltersFacts ==
  ASSUME TypeOK, FiltersDiffer
  PROVE  /\ Filters \in Seq(Callback)
         /\ Differ(Filters)
         /\ \A i \in DOMAIN Filters : Filters[i].kind = "filter"
<1>1. /\ Len(messageFilters) \in Nat
      /\ DOMAIN messageFilters = 1 .. Len(messageFilters)
      /\ \A i \in DOMAIN messageFilters : messageFilters[i] \in 0 .. MaxFilters - 1
  BY LenProperties, ElementOfSeq DEF TypeOK
<1>2. Filters \in [1 .. Len(messageFilters) -> Callback]
  BY <1>1 DEF Filters, Callback
<1>3. Filters \in Seq(Callback) /\ DOMAIN Filters = DOMAIN messageFilters
  BY <1>1, <1>2, FunctionIsSeq
<1>4. ASSUME NEW i \in DOMAIN Filters, NEW j \in DOMAIN Filters, i # j
      PROVE  Filters[i] # Filters[j]
  <2>1. Filters[i].id = messageFilters[i] /\ Filters[j].id = messageFilters[j]
    BY <1>3 DEF Filters, Filter
  <2> QED
    BY <2>1, <1>3, <1>4 DEF FiltersDiffer
<1>5. \A i \in DOMAIN Filters : Filters[i].kind = "filter"
  BY <1>3 DEF Filters, Filter
<1> QED
  BY <1>3, <1>4, <1>5 DEF Differ

\* Each callback for incoming messages is asked at most once.
LEMMA IncomingsFacts ==
  ASSUME TypeOK
  PROVE  /\ Incomings \in Seq(Callback)
         /\ Differ(Incomings)
         /\ \A i \in DOMAIN Incomings : Incomings[i].kind = "incoming"
<1>1. onIncomingSignal \in Nat /\ 1 .. onIncomingSignal \subseteq 1 .. MaxIncoming
  BY DispatchAssumption DEF TypeOK
<1>2. Incomings \in [1 .. onIncomingSignal -> Callback]
  BY <1>1 DEF Incomings, Callback
<1>3. Incomings \in Seq(Callback) /\ DOMAIN Incomings = 1 .. onIncomingSignal
  BY <1>1, <1>2, FunctionIsSeq
<1>4. ASSUME NEW i \in DOMAIN Incomings, NEW j \in DOMAIN Incomings, i # j
      PROVE  Incomings[i] # Incomings[j]
  <2>1. Incomings[i].id = i /\ Incomings[j].id = j
    BY <1>3 DEF Incomings, Incoming
  <2> QED
    BY <2>1, <1>4
<1>5. \A i \in DOMAIN Incomings : Incomings[i].kind = "incoming"
  BY <1>3 DEF Incomings, Incoming
<1> QED
  BY <1>3, <1>4, <1>5 DEF Differ

\* There are finitely many handlers.
LEMMA PathHandlersFinite == TypeOK => IsFiniteSet(PathHandlers)
<1> SUFFICES ASSUME TypeOK
             PROVE  IsFiniteSet(PathHandlers)
  OBVIOUS
<1> DEFINE Places == Paths \X (1 .. MaxHandlers)
           All == {PathHandler(p, n) : p \in Paths, n \in 1 .. MaxHandlers}
           f == [x \in Places |-> PathHandler(x[1], x[2])]
<1>1. IsFiniteSet(Places)
  <2>1. IsFiniteSet(1 .. MaxHandlers)
    BY FS_Interval, DispatchAssumption
  <2> QED
    BY <2>1, FS_Product, DispatchAssumption
<1>2. f \in Surjection(Places, All)
  <2>1. ASSUME NEW h \in All
        PROVE  \E x \in Places : f[x] = h
    <3>1. PICK p \in Paths, n \in 1 .. MaxHandlers : h = PathHandler(p, n)
      OBVIOUS
    <3>2. <<p, n>> \in Places /\ f[<<p, n>>] = h
      BY <3>1
    <3> QED
      BY <3>2
  <2>2. f \in [Places -> All]
    OBVIOUS
  <2> QED
    BY <2>1, <2>2 DEF Surjection
<1>3. IsFiniteSet(All)
  <2> HIDE DEF Places, All, f
  <2> QED
    BY <1>1, <1>2, FS_Surjection
<1>4. PathHandlers \in SUBSET All
  BY DEF PathHandlers
<1> QED
  BY <1>3, <1>4, FS_Subset

\* Each handler is called at most once, and there is one if some path has one.
LEMMA HandlerOrdersFacts ==
  ASSUME TypeOK, NEW order \in HandlerOrders
  PROVE  /\ order \in Seq(Callback)
         /\ Differ(order)
         /\ \A i \in DOMAIN order : order[i].kind = "path"
         /\ (\E p \in Paths : objectPathHandlers[p] > 0) => order # <<>>
<1> DEFINE n == Cardinality(PathHandlers)
<1>1. n \in Nat
  BY PathHandlersFinite, FS_CardinalityType
<1>2. order \in [1 .. n -> PathHandlers] /\ \A i, j \in 1 .. n : i # j => order[i] # order[j]
  BY DEF HandlerOrders, SetToSeqs
<1>3. PathHandlers \subseteq Callback /\ \A h \in PathHandlers : h.kind = "path"
  BY DEF PathHandlers, PathHandler, Callback
<1>4. order \in Seq(Callback) /\ Len(order) = n /\ DOMAIN order = 1 .. n
  <2>1. order \in [1 .. n -> Callback]
    BY <1>2, <1>3
  <2> HIDE DEF n
  <2> QED
    BY <1>1, <2>1, FunctionIsSeq
<1>5. ASSUME NEW p \in Paths, objectPathHandlers[p] > 0
      PROVE  order # <<>>
  <2>1. 1 \in 1 .. MaxHandlers /\ 1 <= objectPathHandlers[p]
    BY <1>5, DispatchAssumption DEF TypeOK
  <2>2. PathHandler(p, 1).id = 1 /\ PathHandler(p, 1).path = p
    BY DEF PathHandler
  <2>3. PathHandler(p, 1) \in PathHandlers
    BY <2>1, <2>2 DEF PathHandlers
  <2>4. n # 0
    BY <2>3, PathHandlersFinite, FS_EmptySet
  <2> QED
    BY <2>4, <1>4
<1> QED
  BY <1>2, <1>3, <1>4, <1>5 DEF Differ

--------------------------------------------------------------------------------
(* What asking callbacks in turn comes to.                                   *)

LEMMA CalledFacts ==
  ASSUME NEW c \in Callback, NEW a \in Answers
  PROVE  /\ Called(c, a) \in Call
         /\ Called(c, a).callback = c /\ Called(c, a).answer = a
  BY DEF Called, Call

\* Some first callbacks were asked, each once, and only the last may have stopped.
LEMMA AskingsFacts ==
  ASSUME NEW cs \in Seq(Callback), NEW asked \in Askings(cs)
  PROVE  /\ asked \in Seq(Call)
         /\ Len(asked) <= Len(cs)
         /\ \A i \in DOMAIN asked : asked[i].callback = cs[i]
         /\ StopIsLast(asked)
         /\ \A i \in DOMAIN asked : asked[i].answer # "NO" => Stops(asked[i].answer)
<1>1. Len(cs) \in Nat /\ DOMAIN cs = 1 .. Len(cs) /\ \A i \in DOMAIN cs : cs[i] \in Callback
  BY LenProperties, ElementOfSeq
<1>2. \A i \in DOMAIN cs : /\ Called(cs[i], "NO") \in Call
                           /\ Called(cs[i], "NO").callback = cs[i]
                           /\ Called(cs[i], "NO").answer = "NO"
  BY <1>1, CalledFacts DEF Answers
<1>3. CASE asked = [i \in DOMAIN cs |-> Called(cs[i], "NO")]
  <2>1. asked \in [1 .. Len(cs) -> Call]
    BY <1>1, <1>2, <1>3
  <2>2. asked \in Seq(Call) /\ Len(asked) = Len(cs) /\ DOMAIN asked = DOMAIN cs
    BY <1>1, <2>1, FunctionIsSeq
  <2>3. \A i \in DOMAIN asked : asked[i].callback = cs[i] /\ asked[i].answer = "NO"
    BY <1>2, <1>3, <2>2
  <2> QED
    BY <1>1, <2>2, <2>3 DEF StopIsLast, Stops
<1>4. ASSUME NEW n \in DOMAIN cs, NEW answer \in {"YES", "throws"},
             asked = Append([i \in 1 .. n - 1 |-> Called(cs[i], "NO")], Called(cs[n], answer))
      PROVE  /\ asked \in Seq(Call) /\ Len(asked) = n /\ DOMAIN asked = 1 .. n
             /\ \A i \in 1 .. n : asked[i].callback = cs[i]
             /\ \A i \in 1 .. n - 1 : asked[i].answer = "NO"
             /\ asked[n].answer = answer
  <2> DEFINE before == [i \in 1 .. n - 1 |-> Called(cs[i], "NO")]
             last == Called(cs[n], answer)
  <2>1. n \in Nat \ {0} /\ n - 1 \in Nat /\ n <= Len(cs) /\ 1 .. n - 1 \subseteq DOMAIN cs
    BY <1>1
  <2>2. before \in [1 .. n - 1 -> Call]
    BY <1>2, <2>1
  <2>3. before \in Seq(Call) /\ Len(before) = n - 1
    BY <2>1, <2>2, FunctionIsSeq
  <2>4. last \in Call /\ last.callback = cs[n] /\ last.answer = answer
    BY <1>1, CalledFacts DEF Answers
  <2>5. \A i \in 1 .. n - 1 : before[i].callback = cs[i] /\ before[i].answer = "NO"
    BY <1>2, <2>1
  <2> HIDE DEF before, last
  <2>6. /\ asked \in Seq(Call) /\ Len(asked) = n
        /\ \A i \in 1 .. n - 1 : asked[i] = before[i]
        /\ asked[n] = last
    BY <1>4, <2>1, <2>3, <2>4, AppendProperties DEF before, last
  <2>7. DOMAIN asked = 1 .. n
    BY <2>6, LenProperties
  <2> QED
    BY <2>1, <2>4, <2>5, <2>6, <2>7
<1>5. CASE \E n \in DOMAIN cs, answer \in {"YES", "throws"} :
             asked = Append([i \in 1 .. n - 1 |-> Called(cs[i], "NO")], Called(cs[n], answer))
  <2>1. PICK n \in DOMAIN cs, answer \in {"YES", "throws"} :
               asked = Append([i \in 1 .. n - 1 |-> Called(cs[i], "NO")], Called(cs[n], answer))
    BY <1>5
  <2>2. /\ asked \in Seq(Call) /\ Len(asked) = n /\ DOMAIN asked = 1 .. n
        /\ \A i \in 1 .. n : asked[i].callback = cs[i]
        /\ \A i \in 1 .. n - 1 : asked[i].answer = "NO"
        /\ asked[n].answer = answer
    BY <1>4, <2>1
  <2>3. \A i \in 1 .. n : i = n \/ i \in 1 .. n - 1
    BY <1>1
  <2> QED
    BY <1>1, <2>2, <2>3 DEF StopIsLast, Stops
<1>6. \/ asked = [i \in DOMAIN cs |-> Called(cs[i], "NO")]
      \/ \E n \in DOMAIN cs, answer \in {"YES", "throws"} :
           asked = Append([i \in 1 .. n - 1 |-> Called(cs[i], "NO")], Called(cs[n], answer))
  <2> DEFINE none == [i \in DOMAIN cs |-> Called(cs[i], "NO")]
             upTo(n, answer) ==
               Append([i \in 1 .. n - 1 |-> Called(cs[i], "NO")], Called(cs[n], answer))
  <2>1. Askings(cs) = {none} \union {upTo(n, answer) : n \in DOMAIN cs, answer \in {"YES", "throws"}}
    BY DEF Askings
  <2> HIDE DEF none, upTo
  <2>2. asked = none \/ \E n \in DOMAIN cs, answer \in {"YES", "throws"} : asked = upTo(n, answer)
    BY <2>1
  <2> QED
    BY <2>2 DEF none, upTo
<1> QED
  BY <1>3, <1>5, <1>6

\* Some more callbacks are called, when none of the first has stopped them.
LEMMA CalledOn ==
  ASSUME NEW a \in Seq(Call), NEW b \in Seq(Call),
         DifferCalled(a), DifferCalled(b), StopIsLast(b),
         \A i \in DOMAIN a : ~Stops(a[i].answer),
         \A i \in DOMAIN a, j \in DOMAIN b : a[i].callback # b[j].callback
  PROVE  /\ a \o b \in Seq(Call)
         /\ DifferCalled(a \o b) /\ StopIsLast(a \o b)
         /\ AllRefuse(a \o b) <=> AllRefuse(a) /\ AllRefuse(b)
         /\ Len(a \o b) = Len(a) + Len(b) /\ DOMAIN (a \o b) = 1 .. Len(a) + Len(b)
         /\ \A i \in DOMAIN a : (a \o b)[i] = a[i]
         /\ \A j \in DOMAIN b : (a \o b)[Len(a) + j] = b[j]
<1> DEFINE c == a \o b
           k == Len(a)
           n == Len(b)
<1>1. k \in Nat /\ n \in Nat /\ DOMAIN a = 1 .. k /\ DOMAIN b = 1 .. n
  BY LenProperties
<1>2. /\ c \in Seq(Call) /\ Len(c) = k + n
      /\ \A i \in 1 .. k + n : c[i] = IF i <= k THEN a[i] ELSE b[i - k]
  BY ConcatProperties
<1>3. DOMAIN c = 1 .. k + n
  BY <1>2, LenProperties
<1> HIDE DEF c, k, n
<1>4. \A i \in 1 .. k : i \in 1 .. k + n /\ c[i] = a[i]
  BY <1>1, <1>2
<1>5. \A j \in 1 .. n : k + j \in 1 .. k + n /\ c[k + j] = b[j]
  BY <1>1, <1>2
<1>6. \A i \in 1 .. k + n : i \in 1 .. k \/ \E j \in 1 .. n : i = k + j
  <2> SUFFICES ASSUME NEW i \in 1 .. k + n, i \notin 1 .. k
               PROVE  \E j \in 1 .. n : i = k + j
    OBVIOUS
  <2>1. i - k \in 1 .. n /\ i = k + (i - k)
    BY <1>1
  <2> QED
    BY <2>1
<1>7. DifferCalled(c)
  <2> SUFFICES ASSUME NEW i \in 1 .. k + n, NEW j \in 1 .. k + n, i # j
               PROVE  c[i].callback # c[j].callback
    BY <1>3 DEF DifferCalled
  <2>1. CASE i \in 1 .. k /\ j \in 1 .. k
    BY <1>1, <1>4, <2>1 DEF DifferCalled
  <2>2. ASSUME NEW x \in 1 .. n, i = k + x, j \in 1 .. k
        PROVE  c[i].callback # c[j].callback
    BY <1>1, <1>4, <1>5, <2>2, ZenonT(40)
  <2>3. ASSUME NEW x \in 1 .. n, j = k + x, i \in 1 .. k
        PROVE  c[i].callback # c[j].callback
    <3>1. c[j] = b[x] /\ c[i] = a[i]
      BY <1>4, <1>5, <2>3
    <3>2. a[i].callback # b[x].callback
      BY <1>1, <2>3
    <3> QED
      BY <3>1, <3>2
  <2>4. ASSUME NEW x \in 1 .. n, NEW y \in 1 .. n, i = k + x, j = k + y
        PROVE  c[i].callback # c[j].callback
    <3>1. x # y
      BY <2>4
    <3>2. b[x].callback # b[y].callback
      BY <1>1, <3>1 DEF DifferCalled
    <3>3. c[i] = b[x] /\ c[j] = b[y]
      BY <1>5, <2>4
    <3> QED
      BY <3>2, <3>3
  <2> QED
    BY <1>6, <2>1, <2>2, <2>3, <2>4
<1>8. StopIsLast(c)
  <2> SUFFICES ASSUME NEW i \in 1 .. k + n, Stops(c[i].answer)
               PROVE  i = k + n
    BY <1>2, <1>3 DEF StopIsLast
  <2>1. i \notin 1 .. k
    BY <1>1, <1>4
  <2>2. PICK j \in 1 .. n : i = k + j
    BY <1>6, <2>1
  <2>3. j = n
    BY <1>1, <1>5, <2>2 DEF StopIsLast, n
  <2> QED
    BY <2>2, <2>3
<1>9. AllRefuse(c) <=> AllRefuse(a) /\ AllRefuse(b)
  <2>1. AllRefuse(c) => AllRefuse(a) /\ AllRefuse(b)
    BY <1>1, <1>3, <1>4, <1>5, ZenonT(40) DEF AllRefuse
  <2>2. ASSUME AllRefuse(a), AllRefuse(b), NEW i \in 1 .. k + n
        PROVE  c[i].answer = "NO"
    <3>1. CASE i \in 1 .. k
      BY <1>1, <1>4, <2>2, <3>1 DEF AllRefuse
    <3>2. ASSUME NEW j \in 1 .. n, i = k + j
          PROVE  c[i].answer = "NO"
      BY <1>1, <1>5, <2>2, <3>2, ZenonT(40) DEF AllRefuse
    <3> QED
      BY <1>6, <3>1, <3>2
  <2>3. AllRefuse(a) /\ AllRefuse(b) => AllRefuse(c)
    BY <1>3, <2>2 DEF AllRefuse
  <2> QED
    BY <2>1, <2>3
<1> QED
  BY <1>1, <1>2, <1>3, <1>4, <1>5, <1>7, <1>8, <1>9 DEF c, k, n

\* The filters that were asked.
LEMMA FiltersAsked ==
  ASSUME TypeOK, FiltersDiffer, NEW asked \in Askings(Filters)
  PROVE  /\ asked \in Seq(Call)
         /\ DifferCalled(asked) /\ StopIsLast(asked)
         /\ \A i \in DOMAIN asked : asked[i].callback.kind = "filter"
         /\ \A i \in DOMAIN asked : asked[i].answer # "NO" => Stops(asked[i].answer)
<1> DEFINE cs == Filters
<1>1. /\ cs \in Seq(Callback) /\ Differ(cs)
      /\ \A i \in DOMAIN cs : cs[i].kind = "filter"
  BY FiltersFacts
<1> HIDE DEF cs
<1>2. asked \in Askings(cs)
  BY DEF cs
<1>3. /\ asked \in Seq(Call) /\ Len(asked) <= Len(cs)
      /\ \A i \in DOMAIN asked : asked[i].callback = cs[i]
      /\ StopIsLast(asked)
      /\ \A i \in DOMAIN asked : asked[i].answer # "NO" => Stops(asked[i].answer)
  BY <1>1, <1>2, AskingsFacts
<1>4. DOMAIN asked \subseteq DOMAIN cs
  BY <1>1, <1>3, LenProperties
<1> QED
  BY <1>1, <1>3, <1>4 DEF Differ, DifferCalled

\* The callbacks for incoming messages that were asked.
LEMMA IncomingsAsked ==
  ASSUME TypeOK, NEW asked \in Askings(Incomings)
  PROVE  /\ asked \in Seq(Call)
         /\ DifferCalled(asked) /\ StopIsLast(asked)
         /\ \A i \in DOMAIN asked : asked[i].callback.kind = "incoming"
<1> DEFINE cs == Incomings
<1>1. /\ cs \in Seq(Callback) /\ Differ(cs)
      /\ \A i \in DOMAIN cs : cs[i].kind = "incoming"
  BY IncomingsFacts
<1> HIDE DEF cs
<1>2. asked \in Askings(cs)
  BY DEF cs
<1>3. /\ asked \in Seq(Call) /\ Len(asked) <= Len(cs)
      /\ \A i \in DOMAIN asked : asked[i].callback = cs[i]
      /\ StopIsLast(asked)
  BY <1>1, <1>2, AskingsFacts
<1>4. DOMAIN asked \subseteq DOMAIN cs
  BY <1>1, <1>3, LenProperties
<1> QED
  BY <1>1, <1>3, <1>4 DEF Differ, DifferCalled

--------------------------------------------------------------------------------
(* A message is read.                                                        *)

\* The elements of a sequence, and of one to which an element was appended.
LEMMA SeqFacts ==
  ASSUME NEW S, NEW s \in Seq(S)
  PROVE  /\ Len(s) \in Nat /\ DOMAIN s = 1 .. Len(s)
         /\ \A i \in DOMAIN s : s[i] \in S
  BY LenProperties, ElementOfSeq

LEMMA AppendFacts ==
  ASSUME NEW S, NEW s \in Seq(S), NEW e \in S, NEW t, t = Append(s, e)
  PROVE  /\ t \in Seq(S) /\ Len(t) = Len(s) + 1
         /\ DOMAIN t = 1 .. Len(s) + 1 /\ DOMAIN s \subseteq DOMAIN t
         /\ \A i \in DOMAIN s : t[i] = s[i]
         /\ t[Len(s) + 1] = e
         /\ \A i \in DOMAIN t : i \in DOMAIN s \/ i = Len(s) + 1
<1>1. /\ t \in Seq(S) /\ Len(t) = Len(s) + 1
      /\ \A i \in 1 .. Len(s) : t[i] = s[i]
      /\ t[Len(s) + 1] = e
  BY AppendProperties
<1>2. DOMAIN t = 1 .. Len(s) + 1 /\ DOMAIN s = 1 .. Len(s) /\ Len(s) \in Nat
  BY <1>1, LenProperties
<1> QED
  BY <1>1, <1>2

\* A list of messages grows by the newest, or not at all.
LEMMA Grown ==
  ASSUME NEW n \in Nat, NEW x \in Seq(1 .. n), NEW y, y = x \/ y = Append(x, n + 1)
  PROVE  /\ y \in Seq(1 .. n + 1)
         /\ DOMAIN x \subseteq DOMAIN y
         /\ \A i \in DOMAIN x : y[i] = x[i] /\ x[i] \in 1 .. n
         /\ \A i \in DOMAIN y : i \in DOMAIN x \/ (y = Append(x, n + 1) /\ y[i] = n + 1)
         /\ y = Append(x, n + 1) => \E i \in DOMAIN y : y[i] = n + 1
         /\ \A i, j \in DOMAIN y : i # j => i \in DOMAIN x \/ j \in DOMAIN x
         /\ Increasing(x) => Increasing(y)
<1>1. x \in Seq(1 .. n + 1) /\ n + 1 \in 1 .. n + 1
  <2>1. 1 .. n \subseteq 1 .. n + 1
    OBVIOUS
  <2> QED
    BY <2>1, SeqMonotonic
<1>2. /\ Len(x) \in Nat /\ DOMAIN x = 1 .. Len(x)
      /\ \A i \in DOMAIN x : x[i] \in 1 .. n
  BY SeqFacts
<1>3. CASE y # Append(x, n + 1)
  <2>1. y = x
    BY <1>3
  <2> QED
    BY <1>1, <1>2, <1>3, <2>1
<1>4. CASE y = Append(x, n + 1)
  <2>1. /\ y \in Seq(1 .. n + 1) /\ DOMAIN x \subseteq DOMAIN y
        /\ DOMAIN y = 1 .. Len(x) + 1
        /\ \A i \in DOMAIN x : y[i] = x[i]
        /\ y[Len(x) + 1] = n + 1
        /\ \A i \in DOMAIN y : i \in DOMAIN x \/ i = Len(x) + 1
    BY <1>1, <1>4, AppendFacts
  <2>2. ASSUME Increasing(x), NEW i \in DOMAIN y, NEW j \in DOMAIN y, i < j
        PROVE  y[i] < y[j]
    <3>1. i \in DOMAIN x
      BY <1>2, <2>1, <2>2
    <3>2. CASE j \in DOMAIN x
      <4>1. x[i] < x[j]
        BY <2>2, <3>1, <3>2 DEF Increasing
      <4> QED
        BY <2>1, <3>1, <3>2, <4>1
    <3>3. CASE j = Len(x) + 1
      <4>1. y[i] \in 1 .. n /\ y[j] = n + 1
        BY <1>2, <2>1, <3>1, <3>3
      <4> QED
        BY <4>1
    <3> QED
      BY <2>1, <3>2, <3>3
  <2>3. Increasing(x) => Increasing(y)
    BY <2>2 DEF Increasing
  <2>4. Len(x) + 1 \in DOMAIN y
    BY <1>2, <2>1
  <2> QED
    BY <1>2, <1>4, <2>1, <2>3, <2>4
<1> QED
  BY <1>3, <1>4

\* What TypeOK says of the messages.
LEMMA MessagesFacts ==
  ASSUME TypeOK
  PROVE  /\ Len(messages) \in Nat /\ DOMAIN messages = 1 .. Len(messages)
         /\ DOMAIN stage = DOMAIN messages /\ DOMAIN todo = DOMAIN messages
         /\ DOMAIN calls = DOMAIN messages
         /\ \A m \in DOMAIN messages : /\ stage[m] \in Stages
                                       /\ todo[m] \in Seq(Callback)
                                       /\ calls[m] \in Seq(Call)
<1>1. Len(messages) \in Nat /\ DOMAIN messages = 1 .. Len(messages)
  BY SeqFacts DEF TypeOK
<1>2. DOMAIN stage = 1 .. Len(messages) /\ \A m \in DOMAIN stage : stage[m] \in Stages
  BY SeqFacts DEF TypeOK
<1>3. DOMAIN todo = 1 .. Len(messages) /\ \A m \in DOMAIN todo : todo[m] \in Seq(Callback)
  BY SeqFacts DEF TypeOK
<1>4. DOMAIN calls = 1 .. Len(messages) /\ \A m \in DOMAIN calls : calls[m] \in Seq(Call)
  BY SeqFacts DEF TypeOK
<1> QED
  BY <1>1, <1>2, <1>3, <1>4

\* However HandleReadMessage() begins with a message, the invariant holds of all.
LEMMA Arrives ==
  ASSUME IInv, Len(messages) < MaxMessages, NEW p \in Paths, messages' = Append(messages, p),
         NEW s \in Stages, NEW callbacks \in Seq(Callback), NEW called \in Seq(Call),
         Enter(s, callbacks, called), Progress(s, callbacks, called),
         UNCHANGED <<singleThreaded, registered>>,
         s \in Queued => ~singleThreaded, s # "handlersGone",
         userContext' = IF s \in Queued THEN Append(userContext, Newest) ELSE userContext,
         begun' = begun \/ (singleThreaded /\ begun' = Append(begun, Newest)),
         unknownMethod' = IF s = "finished" /\ AllRefuse(called)
                          THEN Append(unknownMethod, Newest) ELSE unknownMethod
  PROVE  IInv'
<1> DEFINE n == Len(messages)
<1>1. TypeOK /\ MaxMessages \in Nat
  BY DispatchAssumption DEF IInv
<1>2. /\ n \in Nat /\ DOMAIN messages = 1 .. n /\ Newest = n + 1
      /\ DOMAIN stage = 1 .. n /\ DOMAIN todo = 1 .. n /\ DOMAIN calls = 1 .. n
  BY <1>1, MessagesFacts DEF Newest
<1>3. messages' \in Seq(Paths) /\ Len(messages') = n + 1 /\ DOMAIN messages' = 1 .. n + 1
  <2>1. messages \in Seq(Paths)
    BY <1>1 DEF TypeOK
  <2> QED
    BY <2>1, AppendFacts
<1>4. /\ stage' \in Seq(Stages) /\ Len(stage') = n + 1
      /\ \A m \in 1 .. n : stage'[m] = stage[m]
      /\ stage'[n + 1] = s
  <2>1. stage \in Seq(Stages) /\ Len(stage) = n
    BY <1>1 DEF TypeOK
  <2> QED
    BY <1>2, <2>1, AppendFacts DEF Enter
<1>5. /\ todo' \in Seq(Seq(Callback)) /\ Len(todo') = n + 1
      /\ \A m \in 1 .. n : todo'[m] = todo[m]
      /\ todo'[n + 1] = callbacks
  <2>1. todo \in Seq(Seq(Callback)) /\ Len(todo) = n
    BY <1>1 DEF TypeOK
  <2> QED
    BY <1>2, <2>1, AppendFacts DEF Enter
<1>6. /\ calls' \in Seq(Seq(Call)) /\ Len(calls') = n + 1
      /\ \A m \in 1 .. n : calls'[m] = calls[m]
      /\ calls'[n + 1] = called
  <2>1. calls \in Seq(Seq(Call)) /\ Len(calls) = n
    BY <1>1 DEF TypeOK
  <2> QED
    BY <1>2, <2>1, AppendFacts, SMTT(30) DEF Enter
<1> HIDE DEF n
<1>7. /\ userContext \in Seq(1 .. n) /\ begun \in Seq(1 .. n) /\ unknownMethod \in Seq(1 .. n)
      /\ userContext' = userContext \/ userContext' = Append(userContext, n + 1)
      /\ begun' = begun \/ begun' = Append(begun, n + 1)
      /\ unknownMethod' = unknownMethod \/ unknownMethod' = Append(unknownMethod, n + 1)
  BY <1>1, <1>2 DEF TypeOK
<1>8. \A m \in 1 .. n + 1 : m \in 1 .. n \/ m = n + 1
  BY <1>2
<1>8a. /\ DOMAIN userContext \subseteq DOMAIN userContext'
       /\ \A i \in DOMAIN userContext : userContext'[i] = userContext[i]
       /\ \A i \in DOMAIN userContext' : i \in DOMAIN userContext \/ userContext'[i] = n + 1
       /\ userContext' = Append(userContext, n + 1) =>
            \E i \in DOMAIN userContext' : userContext'[i] = n + 1
  <2>1. /\ n \in Nat /\ userContext \in Seq(1 .. n)
        /\ userContext' = userContext \/ userContext' = Append(userContext, n + 1)
    BY <1>2, <1>7
  <2> QED
    BY ONLY <2>1, Grown, SMTT(30)
<1>8b. /\ DOMAIN unknownMethod \subseteq DOMAIN unknownMethod'
       /\ \A i \in DOMAIN unknownMethod : unknownMethod'[i] = unknownMethod[i]
       /\ \A i \in DOMAIN unknownMethod' :
            i \in DOMAIN unknownMethod \/ unknownMethod'[i] = n + 1
       /\ unknownMethod' = Append(unknownMethod, n + 1) =>
            \E i \in DOMAIN unknownMethod' : unknownMethod'[i] = n + 1
  <2>1. /\ n \in Nat /\ unknownMethod \in Seq(1 .. n)
        /\ unknownMethod' = unknownMethod \/ unknownMethod' = Append(unknownMethod, n + 1)
    BY <1>2, <1>7
  <2> QED
    BY ONLY <2>1, Grown, SMTT(30)
<1>9. TypeOK'
  <2>1. {userContext', begun', unknownMethod'} \subseteq Seq(DOMAIN messages')
    BY <1>2, <1>3, <1>7, Grown, ZenonT(40)
  <2>2. n + 1 <= MaxMessages
    BY <1>1, <1>2 DEF n
  <2> QED
    BY <1>1, <1>3, <1>4, <1>5, <1>6, <2>1, <2>2 DEF TypeOK, registered
<1>10. InOrder'
  <2>1. Increasing(userContext') /\ Increasing(begun')
    <3>1. Increasing(userContext) /\ Increasing(begun)
      BY DEF IInv, InOrder
    <3> QED
      BY <1>2, <1>7, <3>1, Grown
  <2>2. ASSUME NEW i \in DOMAIN begun', NEW j \in DOMAIN userContext'
        PROVE  begun'[i] < userContext'[j]
    <3>1. CASE begun' = begun
      <4>1. begun[i] \in 1 .. n
        BY <1>2, <1>7, <3>1, Grown
      <4>2. CASE j \in DOMAIN userContext
        <5>1. begun[i] < userContext[j]
          BY <3>1, <4>2 DEF IInv, InOrder
        <5> QED
          BY <1>2, <1>7, <3>1, <4>2, <5>1, Grown
      <4>3. CASE userContext'[j] = n + 1
        BY <1>2, <3>1, <4>1, <4>3
      <4> QED
        BY <1>2, <1>7, <4>2, <4>3, Grown, SMTT(30)
    <3>2. CASE singleThreaded
      <4>1. userContext = <<>> /\ s \notin Queued
        BY <3>2 DEF IInv, InOrder
      <4>2. userContext' = <<>>
        BY <4>1
      <4> QED
        BY <4>2
    <3> QED
      BY <3>1, <3>2
  <2>3. userContext' # <<>> => ~singleThreaded'
    BY DEF IInv, InOrder, registered
  <2> QED
    BY <2>1, <2>2, <2>3 DEF InOrder, Increasing
<1>11. QueueAgrees'
  <2>1. ASSUME NEW m \in 1 .. n
        PROVE  stage'[m] \in Queued <=> \E i \in DOMAIN userContext' : userContext'[i] = m
    <3>1. stage[m] \in Queued <=> \E i \in DOMAIN userContext : userContext[i] = m
      BY <1>2 DEF IInv, QueueAgrees
    <3>2. m # n + 1
      BY <1>2
    <3>3. (\E i \in DOMAIN userContext : userContext[i] = m)
            <=> \E i \in DOMAIN userContext' : userContext'[i] = m
      BY <1>8a, <3>2
    <3> QED
      BY <1>4, <3>1, <3>3
  <2>2. stage'[n + 1] \in Queued <=> \E i \in DOMAIN userContext' : userContext'[i] = n + 1
    <3>1. CASE s \in Queued
      <4>1. userContext' = Append(userContext, n + 1)
        BY <1>2, <3>1
      <4> QED
        BY <1>4, <1>8a, <3>1, <4>1
    <3>2. CASE s \notin Queued
      <4>1. userContext' = userContext
        BY <3>2
      <4>2. \A i \in DOMAIN userContext : userContext[i] \in 1 .. n
        BY <1>2, <1>7, Grown
      <4>3. \A i \in DOMAIN userContext : userContext[i] # n + 1
        BY <1>2, <4>2
      <4> QED
        BY <1>4, <3>2, <4>1, <4>3
    <3> QED
      BY <3>1, <3>2
  <2> QED
    BY <1>3, <1>8, <2>1, <2>2, ZenonT(40) DEF QueueAgrees
<1>12. FiltersDiffer'
  BY DEF IInv, FiltersDiffer, registered
<1>13. Progresses'
  <2>1. \A m \in 1 .. n : Progress(stage'[m], todo'[m], calls'[m])
    BY <1>2, <1>4, <1>5, <1>6 DEF IInv, Progresses
  <2>2. Progress(stage'[n + 1], todo'[n + 1], calls'[n + 1])
    BY <1>4, <1>5, <1>6
  <2> QED
    BY <1>3, <1>8, <2>1, <2>2 DEF Progresses
<1>14. ErrorsAreLast'
  <2>1. ASSUME NEW i \in DOMAIN unknownMethod'
        PROVE  stage'[unknownMethod'[i]] = "finished" /\ AllRefuse(calls'[unknownMethod'[i]])
    <3>1. CASE i \in DOMAIN unknownMethod
      <4>1. unknownMethod'[i] = unknownMethod[i] /\ unknownMethod[i] \in 1 .. n
        BY <1>2, <1>7, <3>1, Grown
      <4>2. stage[unknownMethod[i]] = "finished" /\ AllRefuse(calls[unknownMethod[i]])
        BY <3>1 DEF IInv, ErrorsAreLast
      <4> QED
        BY <1>4, <1>6, <4>1, <4>2
    <3>2. CASE unknownMethod' = Append(unknownMethod, n + 1) /\ unknownMethod'[i] = n + 1
                 /\ i \notin DOMAIN unknownMethod
      <4>1. s = "finished" /\ AllRefuse(called)
        BY <3>2
      <4> QED
        BY <1>4, <1>6, <3>2, <4>1
    <3> QED
      BY <1>2, <1>7, <1>8b, <3>1, <3>2
  <2>2. ASSUME NEW i \in DOMAIN unknownMethod', NEW j \in DOMAIN unknownMethod', i # j
        PROVE  unknownMethod'[i] # unknownMethod'[j]
    <3>1. CASE i \in DOMAIN unknownMethod /\ j \in DOMAIN unknownMethod
      <4>1. unknownMethod[i] # unknownMethod[j]
        BY <2>2, <3>1 DEF IInv, ErrorsAreLast
      <4> QED
        BY <1>8b, <3>1, <4>1
    <3>2. CASE i \in DOMAIN unknownMethod /\ unknownMethod'[j] = n + 1
      <4>1. unknownMethod'[i] \in 1 .. n
        BY <1>2, <1>7, <3>2, Grown
      <4> QED
        BY <1>2, <3>2, <4>1
    <3>3. CASE j \in DOMAIN unknownMethod /\ unknownMethod'[i] = n + 1
      <4>1. unknownMethod'[j] \in 1 .. n
        BY <1>2, <1>7, <3>3, Grown
      <4> QED
        BY <1>2, <3>3, <4>1
    <3> QED
      BY <1>2, <1>7, <2>2, <3>1, <3>2, <3>3, Grown, SMTT(30)
  <2> QED
    BY <2>1, <2>2 DEF ErrorsAreLast
<1>15. RefusedIsAnswered'
  <2>1. ASSUME NEW m \in 1 .. n, stage'[m] = "finished", AllRefuse(calls'[m])
        PROVE  \E i \in DOMAIN unknownMethod' : unknownMethod'[i] = m
    <3>1. \E i \in DOMAIN unknownMethod : unknownMethod[i] = m
      BY <1>2, <1>4, <1>6, <2>1 DEF IInv, RefusedIsAnswered
    <3> QED
      BY <1>8b, <3>1
  <2>3. ASSUME NEW m \in 1 .. n, stage'[m] = "handlersGone"
        PROVE  ~singleThreaded' /\ \E i \in DOMAIN begun' : begun'[i] = m
    <3>1. ~singleThreaded /\ \E i \in DOMAIN begun : begun[i] = m
      BY <1>2, <1>4, <2>3 DEF IInv, RefusedIsAnswered
    <3> QED
      BY <3>1
  <2>4. stage'[n + 1] # "handlersGone"
    BY <1>2, <1>4
  <2>2. ASSUME stage'[n + 1] = "finished", AllRefuse(calls'[n + 1])
        PROVE  \E i \in DOMAIN unknownMethod' : unknownMethod'[i] = n + 1
    <3>1. unknownMethod' = Append(unknownMethod, n + 1)
      BY <1>2, <1>4, <1>6, <2>2
    <3> QED
      BY <1>2, <1>7, <3>1, Grown, ZenonT(40)
  <2> QED
    BY <1>3, <1>8, <2>1, <2>2, <2>3, <2>4 DEF RefusedIsAnswered
<1> QED
  BY <1>9, <1>10, <1>11, <1>12, <1>13, <1>14, <1>15 DEF IInv

LEMMA EmptyFacts ==
  /\ <<>> \in Seq(Callback) /\ Differ(<<>>)
  /\ \A called : Apart(<<>>, called)
  BY EmptySeq DEF Differ, Apart

\* HandleReadMessage() keeps the invariant.
LEMMA ReadStep ==
  ASSUME IInv, NEW p \in Paths, HandleReadMessage(p)
  PROVE  IInv'
<1>1. /\ TypeOK /\ FiltersDiffer
      /\ Len(messages) < MaxMessages /\ messages' = Append(messages, p)
      /\ UNCHANGED <<singleThreaded, registered>>
  BY DEF IInv, HandleReadMessage
<1>2. PICK asked \in Askings(Filters) :
        FilterTakes(asked) \/ ToPathHandlers(p, asked) \/ ToIncoming(p, asked) \/ ToNobody(p, asked)
  BY DEF HandleReadMessage
<1>3. /\ asked \in Seq(Call)
      /\ DifferCalled(asked) /\ StopIsLast(asked)
      /\ \A i \in DOMAIN asked : asked[i].callback.kind = "filter"
  BY <1>1, <1>2, FiltersAsked
<1>4. AllRefuse(asked) => \A i \in DOMAIN asked : ~Stops(asked[i].answer)
  BY DEF AllRefuse, Stops
<1>5. Progress("finished", <<>>, asked)
  BY <1>3, EmptyFacts DEF Progress, Queued
<1>6. CASE FilterTakes(asked)
  <2>1. /\ ~AllRefuse(asked) /\ Enter("finished", <<>>, asked)
        /\ UNCHANGED <<userContext, begun, unknownMethod>>
    BY <1>6 DEF FilterTakes
  <2> QED
    BY <1>1, <1>3, <1>5, <2>1, EmptyFacts, Arrives DEF Queued, Stages
<1>7. ASSUME NEW s \in Queued, HandOver(s, asked), AllRefuse(asked)
      PROVE  IInv'
  <2>1. /\ ~singleThreaded /\ Enter(s, <<>>, asked)
        /\ userContext' = Append(userContext, Newest)
        /\ UNCHANGED <<begun, unknownMethod>>
    BY <1>7 DEF HandOver
  <2>2. Progress(s, <<>>, asked)
    BY <1>3, <1>4, <1>7, EmptyFacts DEF Progress, Queued
  <2>3. s \in Stages /\ s # "finished" /\ s # "handlersGone"
    BY DEF Queued, Stages
  <2> QED
    BY <1>1, <1>3, <2>1, <2>2, <2>3, EmptyFacts, Arrives
<1>8. CASE ToPathHandlers(p, asked)
  <2>1. AllRefuse(asked) /\ \E q \in Paths : objectPathHandlers[q] > 0
    BY <1>8 DEF ToPathHandlers
  <2>2. CASE HandOver("pathQueued", asked)
    BY <1>7, <2>1, <2>2 DEF Queued
  <2>3. ASSUME NEW order \in HandlerOrders, singleThreaded, Enter("path", order, asked),
               begun' = Append(begun, Newest), UNCHANGED <<userContext, unknownMethod>>
        PROVE  IInv'
    <3>1. /\ order \in Seq(Callback) /\ Differ(order) /\ order # <<>>
          /\ \A i \in DOMAIN order : order[i].kind = "path"
      BY <1>1, <2>1, HandlerOrdersFacts
    <3>2. Apart(order, asked)
      BY <1>3, <3>1 DEF Apart
    <3>3. Progress("path", order, asked)
      BY <1>3, <1>4, <2>1, <3>1, <3>2 DEF Progress, Queued
    <3>4. "path" \in Stages /\ "path" \notin Queued
      BY DEF Stages, Queued
    <3> QED
      BY <1>1, <1>3, <2>3, <3>1, <3>3, <3>4, Arrives
  <2> QED
    BY <1>8, <2>2, <2>3 DEF ToPathHandlers
<1>9. CASE ToIncoming(p, asked)
  <2>1. AllRefuse(asked)
    BY <1>9 DEF ToIncoming
  <2>2. CASE HandOver("incomingQueued", asked)
    BY <1>7, <2>1, <2>2 DEF Queued
  <2>3. ASSUME NEW rest \in Askings(Incomings), singleThreaded,
               Enter("finished", <<>>, asked \o rest),
               unknownMethod' = IF AllRefuse(rest) THEN Append(unknownMethod, Newest)
                                                   ELSE unknownMethod,
               begun' = Append(begun, Newest), UNCHANGED userContext
        PROVE  IInv'
    <3>1. /\ rest \in Seq(Call)
          /\ DifferCalled(rest) /\ StopIsLast(rest)
          /\ \A i \in DOMAIN rest : rest[i].callback.kind = "incoming"
      BY <1>1, IncomingsAsked
    <3>2. \A i \in DOMAIN asked, j \in DOMAIN rest : asked[i].callback # rest[j].callback
      BY <1>3, <3>1
    <3>3. /\ asked \o rest \in Seq(Call)
          /\ DifferCalled(asked \o rest) /\ StopIsLast(asked \o rest)
          /\ AllRefuse(asked \o rest) <=> AllRefuse(rest)
      BY <1>3, <1>4, <2>1, <3>1, <3>2, CalledOn
    <3>4. Progress("finished", <<>>, asked \o rest)
      BY <3>3, EmptyFacts DEF Progress, Queued
    <3>5. "finished" \in Stages /\ "finished" \notin Queued
      BY DEF Stages, Queued
    <3> QED
      BY <1>1, <2>3, <3>3, <3>4, <3>5, EmptyFacts, Arrives
  <2> QED
    BY <1>9, <2>2, <2>3 DEF ToIncoming, AnswerIf
<1>10. CASE ToNobody(p, asked)
  <2>1. /\ AllRefuse(asked) /\ Enter("finished", <<>>, asked)
        /\ unknownMethod' = Append(unknownMethod, Newest)
        /\ UNCHANGED <<userContext, begun>>
    BY <1>10 DEF ToNobody
  <2> QED
    BY <1>1, <1>3, <1>5, <2>1, EmptyFacts, Arrives DEF Queued, Stages
<1> QED
  BY <1>2, <1>6, <1>8, <1>9, <1>10

--------------------------------------------------------------------------------
(* Callbacks are registered and unregistered.                                *)

\* What InsertAt() and RemoveAt() of the community modules do.
LEMMA InsertFacts ==
  ASSUME NEW S, NEW s \in Seq(S), NEW i \in 1 .. Len(s) + 1, NEW e \in S,
         NEW t, t = InsertAt(s, i, e)
  PROVE  /\ t \in Seq(S) /\ DOMAIN t = 1 .. Len(s) + 1
         /\ t[i] = e
         /\ \A k \in DOMAIN t : k < i => t[k] = s[k]
         /\ \A k \in DOMAIN t : k > i => t[k] = s[k - 1]
<1> DEFINE n == Len(s)
           a == SubSeq(s, 1, i - 1)
           b == <<e>>
           c == SubSeq(s, i, n)
           d == a \o b
<1>1. n \in Nat /\ i \in 1 .. n + 1 /\ \A k \in 1 .. n : s[k] \in S
  BY SeqFacts
<1>2. a \in Seq(S) /\ Len(a) = i - 1 /\ \A k \in 1 .. i - 1 : a[k] = s[k]
  <2>1. \A k \in 1 .. i - 1 : s[k] \in S
    BY <1>1
  <2>2. /\ a \in Seq(S) /\ Len(a) = IF 1 <= i - 1 THEN i - 1 - 1 + 1 ELSE 0
        /\ \A k \in 1 .. i - 1 - 1 + 1 : a[k] = s[1 + k - 1]
    BY <1>1, <2>1, SubSeqProperties
  <2> HIDE DEF a
  <2> QED
    BY <1>1, <2>2
<1>3. c \in Seq(S) /\ Len(c) = n - i + 1 /\ \A k \in 1 .. n - i + 1 : c[k] = s[i + k - 1]
  <2>1. \A k \in i .. n : s[k] \in S
    BY <1>1
  <2>2. /\ c \in Seq(S) /\ Len(c) = IF i <= n THEN n - i + 1 ELSE 0
        /\ \A k \in 1 .. n - i + 1 : c[k] = s[i + k - 1]
    BY <1>1, <2>1, SubSeqProperties
  <2> HIDE DEF c
  <2> QED
    BY <1>1, <2>2
<1>4. b \in Seq(S) /\ Len(b) = 1 /\ b[1] = e
  OBVIOUS
<1>5. t = d \o c
  BY DEF InsertAt
<1> HIDE DEF n, a, b, c
<1>6. /\ d \in Seq(S) /\ Len(d) = i
      /\ \A k \in 1 .. i : d[k] = IF k < i THEN s[k] ELSE e
  <2>1. /\ d \in Seq(S) /\ Len(d) = Len(a) + Len(b)
        /\ \A k \in 1 .. Len(a) + Len(b) :
             d[k] = IF k <= Len(a) THEN a[k] ELSE b[k - Len(a)]
    BY <1>2, <1>4, ConcatProperties
  <2> HIDE DEF d
  <2> QED
    BY <1>1, <1>2, <1>4, <2>1
<1>7. /\ t \in Seq(S) /\ Len(t) = n + 1
      /\ \A k \in 1 .. n + 1 : t[k] = IF k < i THEN s[k] ELSE IF k = i THEN e ELSE s[k - 1]
  <2> HIDE DEF d
  <2>1. /\ t \in Seq(S) /\ Len(t) = Len(d) + Len(c)
        /\ \A k \in 1 .. Len(d) + Len(c) :
             t[k] = IF k <= Len(d) THEN d[k] ELSE c[k - Len(d)]
    <3>1. /\ d \o c \in Seq(S) /\ Len(d \o c) = Len(d) + Len(c)
          /\ \A k \in 1 .. Len(d) + Len(c) :
               (d \o c)[k] = IF k <= Len(d) THEN d[k] ELSE c[k - Len(d)]
      BY <1>3, <1>6, ConcatProperties
    <3> QED
      BY ONLY <1>5, <3>1
  <2>2. ASSUME NEW k \in 1 .. n + 1
        PROVE  t[k] = IF k < i THEN s[k] ELSE IF k = i THEN e ELSE s[k - 1]
    <3>1. CASE k <= i
      <4>1. t[k] = d[k] /\ k \in 1 .. i
        BY <1>1, <1>3, <1>6, <2>1, <3>1
      <4> QED
        BY <1>1, <1>6, <4>1
    <3>2. CASE k > i
      <4>1. k - i \in 1 .. n - i + 1 /\ i + (k - i) - 1 = k - 1
        BY <1>1, <3>2
      <4>2. t[k] = c[k - i]
        BY <1>1, <1>3, <1>6, <2>1, <3>2
      <4>3. c[k - i] = s[k - 1]
        BY <1>3, <4>1
      <4> QED
        BY <1>1, <3>2, <4>2, <4>3
    <3> QED
      BY <1>1, <3>1, <3>2
  <2> QED
    BY <1>1, <1>3, <1>6, <2>1, <2>2
<1>8. DOMAIN t = 1 .. n + 1
  BY <1>7, LenProperties
<1>9. /\ t[i] = e
      /\ \A k \in 1 .. n + 1 : k < i => t[k] = s[k]
      /\ \A k \in 1 .. n + 1 : k > i => t[k] = s[k - 1]
  BY <1>1, <1>7
<1> QED
  BY <1>7, <1>8, <1>9 DEF n

LEMMA RemoveFacts ==
  ASSUME NEW S, NEW s \in Seq(S), NEW i \in 1 .. Len(s), NEW t, t = RemoveAt(s, i)
  PROVE  /\ t \in Seq(S) /\ DOMAIN t = 1 .. Len(s) - 1
         /\ \A k \in 1 .. Len(s) - 1 : t[k] = IF k < i THEN s[k] ELSE s[k + 1]
<1> DEFINE n == Len(s)
           a == SubSeq(s, 1, i - 1)
           c == SubSeq(s, i + 1, n)
<1>1. n \in Nat /\ i \in 1 .. n /\ \A k \in 1 .. n : s[k] \in S
  BY SeqFacts
<1>2. a \in Seq(S) /\ Len(a) = i - 1 /\ \A k \in 1 .. i - 1 : a[k] = s[k]
  <2>1. \A k \in 1 .. i - 1 : s[k] \in S
    BY <1>1
  <2>2. /\ a \in Seq(S) /\ Len(a) = IF 1 <= i - 1 THEN i - 1 - 1 + 1 ELSE 0
        /\ \A k \in 1 .. i - 1 - 1 + 1 : a[k] = s[1 + k - 1]
    BY <1>1, <2>1, SubSeqProperties
  <2> HIDE DEF a
  <2> QED
    BY <1>1, <2>2
<1>3. c \in Seq(S) /\ Len(c) = n - i /\ \A k \in 1 .. n - i : c[k] = s[i + k]
  <2>1. \A k \in i + 1 .. n : s[k] \in S
    BY <1>1
  <2>2. /\ c \in Seq(S) /\ Len(c) = IF i + 1 <= n THEN n - (i + 1) + 1 ELSE 0
        /\ \A k \in 1 .. n - (i + 1) + 1 : c[k] = s[i + 1 + k - 1]
    BY <1>1, <2>1, SubSeqProperties
  <2> HIDE DEF c
  <2> QED
    BY <1>1, <2>2
<1>4. t = a \o c
  BY DEF RemoveAt
<1> HIDE DEF n, a, c
<1>5. /\ t \in Seq(S) /\ Len(t) = n - 1
      /\ \A k \in 1 .. n - 1 : t[k] = IF k < i THEN s[k] ELSE s[k + 1]
  <2>1. /\ t \in Seq(S) /\ Len(t) = Len(a) + Len(c)
        /\ \A k \in 1 .. Len(a) + Len(c) :
             t[k] = IF k <= Len(a) THEN a[k] ELSE c[k - Len(a)]
    <3>1. /\ a \o c \in Seq(S) /\ Len(a \o c) = Len(a) + Len(c)
          /\ \A k \in 1 .. Len(a) + Len(c) :
               (a \o c)[k] = IF k <= Len(a) THEN a[k] ELSE c[k - Len(a)]
      BY <1>2, <1>3, ConcatProperties
    <3> QED
      BY ONLY <1>4, <3>1
  <2>2. ASSUME NEW k \in 1 .. n - 1
        PROVE  t[k] = IF k < i THEN s[k] ELSE s[k + 1]
    <3>1. CASE k < i
      BY <1>1, <1>2, <1>3, <2>1, <3>1
    <3>2. CASE k >= i
      <4>1. k - (i - 1) \in 1 .. n - i /\ i + (k - (i - 1)) = k + 1
        BY <1>1, <3>2
      <4> QED
        BY <1>1, <1>2, <1>3, <2>1, <3>2, <4>1
    <3> QED
      BY <1>1, <3>1, <3>2
  <2> QED
    BY <1>1, <1>2, <1>3, <2>1, <2>2
<1>6. DOMAIN t = 1 .. n - 1
  BY <1>5, LenProperties
<1> QED
  BY <1>5, <1>6 DEF n

\* Registering touches no message.
LEMMA MessagesKept ==
  ASSUME IInv, UnchangedMessages, TypeOK', FiltersDiffer'
  PROVE  IInv'
<1>1. UNCHANGED <<singleThreaded, messages, stage, todo, calls, userContext, begun, unknownMethod>>
  BY DEF UnchangedMessages
<1>2. InOrder' /\ QueueAgrees'
  BY <1>1 DEF IInv, InOrder, Increasing, QueueAgrees
<1>3. Progresses'
  BY <1>1 DEF IInv, Progresses
<1>4. ErrorsAreLast' /\ RefusedIsAnswered'
  BY <1>1 DEF IInv, ErrorsAreLast, RefusedIsAnswered
<1> QED
  BY <1>2, <1>3, <1>4 DEF IInv

\* RegisterMessageFilter() never gives an ID twice.
LEMMA RegisterFilterStep ==
  ASSUME IInv, RegisterMessageFilter
  PROVE  IInv'
<1> DEFINE n == Len(messageFilters)
           S == 0 .. MaxFilters - 1
<1>1. TypeOK /\ FiltersDiffer /\ MaxFilters \in Nat
  BY DispatchAssumption DEF IInv
<1>2. /\ messageFilters \in Seq(S) /\ n \in Nat /\ DOMAIN messageFilters = 1 .. n
      /\ \A k \in 1 .. n : messageFilters[k] \in S
      /\ messageFilterID \in S /\ messageFilterID' = messageFilterID + 1
  <2>1. messageFilters \in Seq(S) /\ messageFilterID \in S
    BY <1>1 DEF TypeOK, RegisterMessageFilter
  <2> QED
    BY <2>1, SeqFacts DEF RegisterMessageFilter
<1>3. PICK i \in 1 .. n + 1 : messageFilters' = InsertAt(messageFilters, i, messageFilterID)
  BY DEF RegisterMessageFilter
<1> HIDE DEF n, S
<1>4. /\ messageFilters' \in Seq(S) /\ DOMAIN messageFilters' = 1 .. n + 1
      /\ messageFilters'[i] = messageFilterID
      /\ \A k \in 1 .. n + 1 : k < i => messageFilters'[k] = messageFilters[k]
      /\ \A k \in 1 .. n + 1 : k > i => messageFilters'[k] = messageFilters[k - 1]
  <2>1. /\ messageFilters \in Seq(S) /\ messageFilterID \in S
        /\ i \in 1 .. Len(messageFilters) + 1
        /\ messageFilters' = InsertAt(messageFilters, i, messageFilterID)
    BY <1>2, <1>3 DEF n
  <2>2. PICK old, new, id :
          old = messageFilters /\ new = messageFilters' /\ id = messageFilterID
    OBVIOUS
  <2>3. old \in Seq(S) /\ id \in S /\ i \in 1 .. Len(old) + 1 /\ new = InsertAt(old, i, id)
    BY <2>1, <2>2
  <2>4. /\ new \in Seq(S) /\ DOMAIN new = 1 .. Len(old) + 1
        /\ new[i] = id
        /\ \A k \in DOMAIN new : k < i => new[k] = old[k]
        /\ \A k \in DOMAIN new : k > i => new[k] = old[k - 1]
    BY ONLY <2>3, InsertFacts, SMTT(30)
  <2> QED
    BY <2>2, <2>4 DEF n
<1>5. \A k \in 1 .. n + 1 : /\ k < i => k \in 1 .. n
                            /\ k > i => k - 1 \in 1 .. n
  BY <1>2
<1>6. \A k \in 1 .. n : messageFilters[k] < messageFilterID /\ messageFilters[k] \in Int
  BY <1>1, <1>2 DEF FiltersDiffer, S
<1>7. \A k \in 1 .. n + 1 : messageFilters'[k] < messageFilterID'
  BY <1>2, <1>4, <1>5, <1>6, SMTT(30) DEF S
<1>8. ASSUME NEW k \in 1 .. n + 1, NEW l \in 1 .. n + 1, k < l
      PROVE  messageFilters'[k] # messageFilters'[l]
  <2>1. \A x, y \in 1 .. n : x # y => messageFilters[x] # messageFilters[y]
    BY <1>1, <1>2 DEF FiltersDiffer
  <2>2. CASE l < i
    BY <1>2, <1>4, <1>5, <1>8, <2>1, <2>2
  <2>3. CASE l = i
    <3>1. messageFilters'[k] = messageFilters[k] /\ messageFilters'[l] = messageFilterID
      BY <1>2, <1>4, <1>8, <2>3
    <3>2. messageFilters[k] < messageFilterID
      BY <1>5, <1>6, <1>8, <2>3
    <3> QED
      BY <1>2, <3>1, <3>2 DEF S
  <2>4. CASE k = i
    <3>1. messageFilters'[l] = messageFilters[l - 1] /\ messageFilters'[k] = messageFilterID
      BY <1>2, <1>4, <1>8, <2>4
    <3>2. messageFilters[l - 1] < messageFilterID
      BY <1>5, <1>6, <1>8, <2>4
    <3> QED
      BY <1>2, <3>1, <3>2 DEF S
  <2>5. CASE k < i /\ l > i
    <3>1. messageFilters'[l] = messageFilters[l - 1] /\ messageFilters'[k] = messageFilters[k]
      BY <1>2, <1>4, <2>5
    <3>2. k \in 1 .. n /\ l - 1 \in 1 .. n /\ k # l - 1
      BY <1>2, <1>5, <2>5
    <3> QED
      BY <2>1, <3>1, <3>2
  <2>6. CASE k > i
    <3>1. messageFilters'[l] = messageFilters[l - 1] /\ messageFilters'[k] = messageFilters[k - 1]
      BY <1>2, <1>4, <1>8, <2>6
    <3>2. k - 1 \in 1 .. n /\ l - 1 \in 1 .. n /\ k - 1 # l - 1
      BY <1>2, <1>5, <1>8, <2>6
    <3> QED
      BY <2>1, <3>1, <3>2
  <2> QED
    BY <1>2, <1>8, <2>2, <2>3, <2>4, <2>5, <2>6
<1>9. FiltersDiffer'
  <2>1. \A k, l \in 1 .. n + 1 : k # l => messageFilters'[k] # messageFilters'[l]
    BY <1>2, <1>8
  <2> QED
    BY <1>4, <1>7, <2>1 DEF FiltersDiffer
<1>10. UnchangedMessages /\ UNCHANGED <<objectPathHandlers, onIncomingSignal>>
  BY DEF RegisterMessageFilter
<1>11. TypeOK'
  BY <1>1, <1>2, <1>4, <1>10 DEF TypeOK, UnchangedMessages, S
<1> QED
  BY <1>9, <1>10, <1>11, MessagesKept

LEMMA UnregisterFilterStep ==
  ASSUME IInv, NEW i \in DOMAIN messageFilters, UnregisterMessageFilter(i)
  PROVE  IInv'
<1> DEFINE n == Len(messageFilters)
           S == 0 .. MaxFilters - 1
<1>1. TypeOK /\ FiltersDiffer
  BY DEF IInv
<1>2. /\ messageFilters \in Seq(S) /\ n \in Nat /\ DOMAIN messageFilters = 1 .. n
      /\ messageFilterID' = messageFilterID
  <2>1. messageFilters \in Seq(S)
    BY <1>1 DEF TypeOK
  <2> QED
    BY <2>1, SeqFacts DEF UnregisterMessageFilter
<1>3. messageFilters' = RemoveAt(messageFilters, i)
  BY DEF UnregisterMessageFilter
<1> HIDE DEF n, S
<1>4. /\ messageFilters' \in Seq(S) /\ DOMAIN messageFilters' = 1 .. n - 1
      /\ \A k \in 1 .. n - 1 :
           messageFilters'[k] = IF k < i THEN messageFilters[k] ELSE messageFilters[k + 1]
  <2>1. /\ messageFilters \in Seq(S) /\ i \in 1 .. Len(messageFilters)
        /\ messageFilters' = RemoveAt(messageFilters, i)
    BY <1>2, <1>3 DEF n
  <2> QED
    BY ONLY <2>1, RemoveFacts DEF n
<1>5. \A k \in 1 .. n - 1 : k \in 1 .. n /\ k + 1 \in 1 .. n
  BY <1>2
<1>6. \A k \in 1 .. n - 1 : messageFilters'[k] < messageFilterID'
  BY <1>1, <1>2, <1>4, <1>5 DEF FiltersDiffer
<1>7. ASSUME NEW k \in 1 .. n - 1, NEW l \in 1 .. n - 1, k # l
      PROVE  messageFilters'[k] # messageFilters'[l]
  <2> DEFINE at(x) == IF x < i THEN x ELSE x + 1
  <2>1. at(k) \in 1 .. n /\ at(l) \in 1 .. n /\ at(k) # at(l)
    BY <1>2, <1>7
  <2>2. messageFilters'[k] = messageFilters[at(k)] /\ messageFilters'[l] = messageFilters[at(l)]
    BY <1>2, <1>4
  <2> HIDE DEF at
  <2>3. messageFilters[at(k)] # messageFilters[at(l)]
    BY <1>1, <1>2, <2>1 DEF FiltersDiffer
  <2> QED
    BY <2>2, <2>3
<1>8. FiltersDiffer'
  BY <1>4, <1>6, <1>7 DEF FiltersDiffer
<1>9. /\ UnchangedMessages
      /\ UNCHANGED <<messageFilterID, objectPathHandlers, onIncomingSignal>>
  BY DEF UnregisterMessageFilter
<1>10. TypeOK'
  BY <1>1, <1>4, <1>9 DEF TypeOK, UnchangedMessages, S
<1> QED
  BY <1>8, <1>9, <1>10, MessagesKept

\* The other callbacks are counted.
LEMMA RegisterStep ==
  ASSUME IInv,
         \/ \E p \in Paths : RegisterObjectPathHandler(p) \/ UnregisterObjectPathHandler(p)
         \/ ReceiveIncomingMessages
  PROVE  IInv'
<1>1. /\ TypeOK /\ FiltersDiffer /\ UnchangedMessages
      /\ UNCHANGED <<messageFilters, messageFilterID>>
  BY DEF IInv, RegisterObjectPathHandler, UnregisterObjectPathHandler, ReceiveIncomingMessages
<1>2. MaxHandlers \in Nat /\ MaxIncoming \in Nat
  BY DispatchAssumption
<1>3. objectPathHandlers' \in [Paths -> 0 .. MaxHandlers] /\ onIncomingSignal' \in 0 .. MaxIncoming
  <2>1. objectPathHandlers \in [Paths -> 0 .. MaxHandlers] /\ onIncomingSignal \in 0 .. MaxIncoming
    BY <1>1 DEF TypeOK
  <2>2. ASSUME NEW p \in Paths, RegisterObjectPathHandler(p)
        PROVE  objectPathHandlers' \in [Paths -> 0 .. MaxHandlers] /\ UNCHANGED onIncomingSignal
    <3>1. objectPathHandlers[p] + 1 \in 0 .. MaxHandlers
      BY <1>2, <2>1, <2>2 DEF RegisterObjectPathHandler
    <3> QED
      BY <2>1, <2>2, <3>1 DEF RegisterObjectPathHandler
  <2>3. ASSUME NEW p \in Paths, UnregisterObjectPathHandler(p)
        PROVE  objectPathHandlers' \in [Paths -> 0 .. MaxHandlers] /\ UNCHANGED onIncomingSignal
    BY <1>2, <2>1, <2>3 DEF UnregisterObjectPathHandler
  <2>4. CASE ReceiveIncomingMessages
    BY <1>2, <2>1, <2>4 DEF ReceiveIncomingMessages
  <2> QED
    BY <2>1, <2>2, <2>3, <2>4
<1>4. TypeOK'
  BY <1>1, <1>3 DEF TypeOK, UnchangedMessages
<1>5. FiltersDiffer'
  BY <1>1 DEF FiltersDiffer
<1> QED
  BY <1>1, <1>4, <1>5, MessagesKept

--------------------------------------------------------------------------------
(* The callbacks of a message begin and return.                              *)

\* A message goes from a stage to a later one, and those whose callbacks began
\* are still among them.
LEMMA Advances ==
  ASSUME IInv, NEW m \in DOMAIN messages, stage[m] # "finished",
         NEW s \in Stages, NEW callbacks \in Seq(Callback), NEW called \in Seq(Call),
         stage' = [stage EXCEPT ![m] = s], todo' = [todo EXCEPT ![m] = callbacks],
         calls' = [calls EXCEPT ![m] = called],
         Progress(s, callbacks, called),
         UNCHANGED <<singleThreaded, registered, messages>>,
         userContext' \in Seq(DOMAIN messages), begun' \in Seq(DOMAIN messages),
         \A i \in DOMAIN begun : \E j \in DOMAIN begun' : begun'[j] = begun[i],
         \/ unknownMethod' = unknownMethod
         \/ s = "finished" /\ AllRefuse(called) /\ unknownMethod' = Append(unknownMethod, m),
         s = "finished" /\ AllRefuse(called) => unknownMethod' = Append(unknownMethod, m),
         s = "handlersGone" => ~singleThreaded /\ \E j \in DOMAIN begun' : begun'[j] = m,
         InOrder', QueueAgrees'
  PROVE  IInv'
<1> DEFINE n == Len(messages)
<1>1. TypeOK
  BY DEF IInv
<1>2. n \in Nat /\ DOMAIN messages = 1 .. n /\ m \in 1 .. n
  BY <1>1, MessagesFacts
<1>3. /\ stage' \in Seq(Stages) /\ Len(stage') = n /\ stage'[m] = s
      /\ \A x \in 1 .. n : x # m => stage'[x] = stage[x]
  <2>1. stage \in Seq(Stages) /\ Len(stage) = n
    BY <1>1 DEF TypeOK
  <2> QED
    BY <1>2, <2>1, ExceptSeq
<1>4. /\ todo' \in Seq(Seq(Callback)) /\ Len(todo') = n /\ todo'[m] = callbacks
      /\ \A x \in 1 .. n : x # m => todo'[x] = todo[x]
  <2>1. todo \in Seq(Seq(Callback)) /\ Len(todo) = n
    BY <1>1 DEF TypeOK
  <2> QED
    BY <1>2, <2>1, ExceptSeq
<1>5. /\ calls' \in Seq(Seq(Call)) /\ Len(calls') = n /\ calls'[m] = called
      /\ \A x \in 1 .. n : x # m => calls'[x] = calls[x]
  <2>1. calls \in Seq(Seq(Call)) /\ Len(calls) = n
    BY <1>1 DEF TypeOK
  <2> QED
    BY <1>2, <2>1, ExceptSeq
<1> HIDE DEF n
<1>6. /\ unknownMethod \in Seq(1 .. n) /\ unknownMethod' \in Seq(1 .. n)
      /\ DOMAIN unknownMethod \subseteq DOMAIN unknownMethod'
      /\ \A i \in DOMAIN unknownMethod : unknownMethod'[i] = unknownMethod[i]
      /\ unknownMethod' = Append(unknownMethod, m) =>
           \E i \in DOMAIN unknownMethod' : unknownMethod'[i] = m
      /\ \A i \in DOMAIN unknownMethod' :
           \/ i \in DOMAIN unknownMethod
           \/ /\ s = "finished" /\ AllRefuse(called) /\ unknownMethod'[i] = m
              /\ i = Len(unknownMethod) + 1
  <2>1. unknownMethod \in Seq(1 .. n)
    BY <1>1, <1>2 DEF TypeOK
  <2> DEFINE longer == Append(unknownMethod, m)
  <2>2. /\ longer \in Seq(1 .. n) /\ DOMAIN longer = 1 .. Len(unknownMethod) + 1
        /\ DOMAIN unknownMethod \subseteq DOMAIN longer
        /\ \A i \in DOMAIN unknownMethod : longer[i] = unknownMethod[i]
        /\ longer[Len(unknownMethod) + 1] = m
        /\ \A i \in DOMAIN longer : i \in DOMAIN unknownMethod \/ i = Len(unknownMethod) + 1
    BY <1>2, <2>1, AppendFacts, SMTT(30)
  <2>3. Len(unknownMethod) + 1 \in DOMAIN longer
    <3>1. Len(unknownMethod) \in Nat
      BY <2>1, SeqFacts
    <3> QED
      BY <2>2, <3>1
  <2> HIDE DEF longer
  <2>4. CASE unknownMethod' = longer
    <3>1. unknownMethod' = unknownMethod \/ (s = "finished" /\ AllRefuse(called))
      BY <2>4 DEF longer
    <3> QED
      BY <2>1, <2>2, <2>3, <2>4, <3>1 DEF longer
  <2>5. CASE unknownMethod' # longer
    <3>1. unknownMethod' = unknownMethod
      BY <2>5 DEF longer
    <3> QED
      BY <2>1, <2>5, <3>1 DEF longer
  <2> QED
    BY <2>4, <2>5
<1>7. TypeOK'
  BY <1>1, <1>2, <1>3, <1>4, <1>5, <1>6 DEF TypeOK, registered, n
<1>8. FiltersDiffer'
  BY DEF IInv, FiltersDiffer, registered
<1>9. Progresses'
  <2> SUFFICES ASSUME NEW x \in 1 .. n
               PROVE  Progress(stage'[x], todo'[x], calls'[x])
    BY <1>2 DEF Progresses
  <2>1. CASE x = m
    BY <1>3, <1>4, <1>5, <2>1
  <2>2. CASE x # m
    <3>1. Progress(stage[x], todo[x], calls[x])
      BY <1>2 DEF IInv, Progresses
    <3> QED
      BY <1>3, <1>4, <1>5, <2>2, <3>1
  <2> QED
    BY <2>1, <2>2
<1>10. \A i \in DOMAIN unknownMethod :
         /\ unknownMethod[i] \in 1 .. n /\ unknownMethod[i] # m
         /\ stage[unknownMethod[i]] = "finished" /\ AllRefuse(calls[unknownMethod[i]])
  <2>1. \A i \in DOMAIN unknownMethod : unknownMethod[i] \in 1 .. n
    BY <1>6, SeqFacts
  <2> QED
    BY <2>1 DEF IInv, ErrorsAreLast
<1>11. ErrorsAreLast'
  <2>1. ASSUME NEW i \in DOMAIN unknownMethod'
        PROVE  stage'[unknownMethod'[i]] = "finished" /\ AllRefuse(calls'[unknownMethod'[i]])
    <3>1. CASE i \in DOMAIN unknownMethod
      BY <1>3, <1>5, <1>6, <1>10, <3>1
    <3>2. CASE s = "finished" /\ AllRefuse(called) /\ unknownMethod'[i] = m
      BY <1>3, <1>5, <3>2
    <3> QED
      BY <1>6, <3>1, <3>2
  <2>2. ASSUME NEW i \in DOMAIN unknownMethod', NEW j \in DOMAIN unknownMethod', i # j
        PROVE  unknownMethod'[i] # unknownMethod'[j]
    <3>1. CASE i \in DOMAIN unknownMethod /\ j \in DOMAIN unknownMethod
      BY <1>6, <2>2, <3>1 DEF IInv, ErrorsAreLast
    <3>2. CASE i \in DOMAIN unknownMethod /\ unknownMethod'[j] = m
      BY <1>6, <1>10, <3>2
    <3>3. CASE j \in DOMAIN unknownMethod /\ unknownMethod'[i] = m
      BY <1>6, <1>10, <3>3
    <3> QED
      BY <1>6, <2>2, <3>1, <3>2, <3>3
  <2> QED
    BY <2>1, <2>2 DEF ErrorsAreLast
<1>12. RefusedIsAnswered'
  <2>1. ASSUME NEW x \in 1 .. n, stage'[x] = "finished", AllRefuse(calls'[x])
        PROVE  \E i \in DOMAIN unknownMethod' : unknownMethod'[i] = x
    <3>1. CASE x = m
      BY <1>3, <1>5, <1>6, <2>1, <3>1
    <3>2. CASE x # m
      <4>1. stage[x] = "finished" /\ AllRefuse(calls[x])
        BY <1>3, <1>5, <2>1, <3>2
      <4>2. \E i \in DOMAIN unknownMethod : unknownMethod[i] = x
        BY <1>2, <4>1 DEF IInv, RefusedIsAnswered
      <4> QED
        BY <1>6, <4>2
    <3> QED
      BY <3>1, <3>2
  <2>2. ASSUME NEW x \in 1 .. n, stage'[x] = "handlersGone"
        PROVE  ~singleThreaded' /\ \E i \in DOMAIN begun' : begun'[i] = x
    <3>1. CASE x = m
      BY <1>3, <2>2, <3>1
    <3>2. CASE x # m
      <4>1. ~singleThreaded /\ \E i \in DOMAIN begun : begun[i] = x
        BY <1>2, <1>3, <2>2, <3>2 DEF IInv, RefusedIsAnswered
      <4> QED
        BY <4>1
    <3> QED
      BY <3>1, <3>2
  <2> QED
    BY <1>2, <2>1, <2>2 DEF RefusedIsAnswered
<1> QED
  BY <1>7, <1>8, <1>9, <1>11, <1>12 DEF IInv

\* The io_context of the user takes up the message that has waited longest.
LEMMA BeginStep ==
  ASSUME IInv, Begin
  PROVE  IInv'
<1> DEFINE m == Head(userContext)
           n == Len(messages)
<1>1. /\ TypeOK /\ userContext # <<>> /\ ~singleThreaded
      /\ begun' = Append(begun, m) /\ userContext' = Tail(userContext)
      /\ UNCHANGED <<singleThreaded, registered, messages, calls>>
  BY DEF IInv, InOrder, Begin
<1>2. n \in Nat /\ DOMAIN messages = 1 .. n
  BY <1>1, MessagesFacts
<1>3. userContext \in Seq(1 .. n) /\ begun \in Seq(1 .. n)
  BY <1>1, <1>2 DEF TypeOK
<1>4. /\ Len(userContext) \in Nat /\ DOMAIN userContext = 1 .. Len(userContext)
      /\ 1 \in DOMAIN userContext /\ m = userContext[1] /\ m \in 1 .. n
  <2>1. Len(userContext) \in Nat \ {0} /\ DOMAIN userContext = 1 .. Len(userContext)
    BY <1>1, <1>3, EmptySeq, SeqFacts
  <2> QED
    BY <1>1, <1>3, <2>1, SeqFacts
<1>5. PICK callbacks, s :
        /\ todo' = [todo EXCEPT ![m] = callbacks] /\ stage' = [stage EXCEPT ![m] = s]
        /\ \/ /\ callbacks \in HandlerOrders /\ unknownMethod' = unknownMethod
              /\ s = IF callbacks = <<>> THEN "handlersGone" ELSE "path"
           \/ /\ callbacks = Incomings
              /\ s = IF callbacks = <<>> THEN "finished" ELSE "incoming"
              /\ unknownMethod' = IF callbacks = <<>> THEN Append(unknownMethod, m)
                                  ELSE unknownMethod
  <2>1. CASE LoopOverPathHandlers(m)
    BY <2>1 DEF LoopOverPathHandlers
  <2>2. CASE LoopOverIncoming(m)
    BY <2>2 DEF LoopOverIncoming, AnswerIf
  <2> QED
    BY <2>1, <2>2 DEF Begin
<1> HIDE DEF m, n
<1>6. stage[m] \in Queued /\ stage[m] # "finished"
  BY <1>2, <1>4 DEF IInv, QueueAgrees, Queued
<1>7. /\ callbacks \in Seq(Callback) /\ Differ(callbacks)
      /\ \A i \in DOMAIN callbacks : callbacks[i].kind \in {"path", "incoming"}
  <2>1. CASE callbacks \in HandlerOrders
    BY <1>1, <2>1, HandlerOrdersFacts
  <2>2. CASE callbacks = Incomings
    BY <1>1, <2>2, IncomingsFacts
  <2> QED
    BY <1>5, <2>1, <2>2
<1>8. Progress(stage[m], todo[m], calls[m]) /\ calls[m] \in Seq(Call)
  BY <1>1, <1>2, <1>4, MessagesFacts DEF IInv, Progresses
<1>9. Progress(s, callbacks, calls[m])
  <2>1. /\ DifferCalled(calls[m]) /\ StopIsLast(calls[m]) /\ AllRefuse(calls[m])
        /\ \A i \in DOMAIN calls[m] : /\ ~Stops(calls[m][i].answer)
                                      /\ calls[m][i].callback.kind = "filter"
    BY <1>6, <1>8 DEF Progress
  <2>2. Apart(callbacks, calls[m])
    BY <1>7, <2>1 DEF Apart
  <2>3. s \in {"path", "incoming"} <=> callbacks # <<>>
    BY <1>5
  <2>4. s \notin Queued
    BY <1>5 DEF Queued
  <2> QED
    BY <1>7, <2>1, <2>2, <2>3, <2>4 DEF Progress
<1>10. s \in Stages /\ s \notin Queued
  BY <1>5 DEF Stages, Queued
<1>11. calls' = [calls EXCEPT ![m] = calls[m]] /\ stage' = [stage EXCEPT ![m] = s]
  <2>1. calls \in [1 .. n -> Seq(Call)]
    BY <1>1, <1>2, LenProperties DEF TypeOK, n
  <2> QED
    BY <1>1, <1>5, <2>1
<1>12. /\ userContext' \in Seq(1 .. n)
       /\ DOMAIN userContext' = 1 .. Len(userContext) - 1
       /\ \A i \in DOMAIN userContext' : userContext'[i] = userContext[i + 1]
                                         /\ i + 1 \in DOMAIN userContext
  <2> DEFINE t == Tail(userContext)
  <2>1. t \in Seq(1 .. n) /\ Len(t) = Len(userContext) - 1
        /\ \A i \in 1 .. Len(t) : t[i] = userContext[i + 1]
    BY <1>1, <1>3, HeadTailProperties
  <2>2. DOMAIN t = 1 .. Len(userContext) - 1
    BY <2>1, SeqFacts
  <2> HIDE DEF t
  <2>3. \A i \in DOMAIN t : i + 1 \in DOMAIN userContext /\ t[i] = userContext[i + 1]
    BY <1>4, <2>1, <2>2
  <2>4. userContext' = t
    BY <1>1 DEF t
  <2> QED
    BY <2>1, <2>2, <2>3, <2>4
<1>13. /\ begun' \in Seq(1 .. n) /\ DOMAIN begun' = 1 .. Len(begun) + 1
       /\ DOMAIN begun = 1 .. Len(begun) /\ Len(begun) \in Nat
       /\ \A i \in DOMAIN begun : i \in DOMAIN begun' /\ begun'[i] = begun[i]
       /\ Len(begun) + 1 \in DOMAIN begun' /\ begun'[Len(begun) + 1] = m
       /\ \A i \in DOMAIN begun' : i \in DOMAIN begun \/ i = Len(begun) + 1
  <2> DEFINE t == Append(begun, m)
  <2>1. /\ t \in Seq(1 .. n) /\ DOMAIN t = 1 .. Len(begun) + 1
        /\ DOMAIN begun \subseteq DOMAIN t
        /\ \A i \in DOMAIN begun : t[i] = begun[i]
        /\ t[Len(begun) + 1] = m
        /\ \A i \in DOMAIN t : i \in DOMAIN begun \/ i = Len(begun) + 1
    BY <1>3, <1>4, AppendFacts
  <2>2. DOMAIN begun = 1 .. Len(begun) /\ Len(begun) \in Nat
    BY <1>3, SeqFacts
  <2> HIDE DEF t
  <2>3. begun' = t
    BY <1>1 DEF t
  <2> QED
    BY <2>1, <2>2, <2>3
<1>14. /\ \A i \in DOMAIN userContext : userContext[i] \in 1 .. n
       /\ \A i \in DOMAIN begun : begun[i] \in 1 .. n
  BY <1>3, SeqFacts
<1>15. \A i \in DOMAIN userContext' : m < userContext'[i]
  BY <1>4, <1>12 DEF IInv, InOrder, Increasing
<1>16. \A i \in DOMAIN begun : begun[i] < m
  BY <1>4 DEF IInv, InOrder
<1>17. InOrder'
  <2>1. Increasing(userContext')
    <3> SUFFICES ASSUME NEW i \in DOMAIN userContext', NEW j \in DOMAIN userContext', i < j
                 PROVE  userContext'[i] < userContext'[j]
      BY DEF Increasing
    <3>1. i + 1 < j + 1
      BY <1>12
    <3> QED
      BY <1>12, <3>1 DEF IInv, InOrder, Increasing
  <2>2. Increasing(begun')
    <3> SUFFICES ASSUME NEW i \in DOMAIN begun', NEW j \in DOMAIN begun', i < j
                 PROVE  begun'[i] < begun'[j]
      BY DEF Increasing
    <3>1. i \in DOMAIN begun
      BY <1>13
    <3>2. CASE j \in DOMAIN begun
      <4>1. begun[i] < begun[j]
        BY <3>1, <3>2 DEF IInv, InOrder, Increasing
      <4> QED
        BY <1>13, <3>1, <3>2, <4>1
    <3>3. CASE j = Len(begun) + 1
      BY <1>13, <1>16, <3>1, <3>3
    <3> QED
      BY <1>13, <3>2, <3>3
  <2>3. ASSUME NEW i \in DOMAIN begun', NEW j \in DOMAIN userContext'
        PROVE  begun'[i] < userContext'[j]
    <3>1. userContext'[j] \in 1 .. n /\ m < userContext'[j]
      BY <1>12, <1>14, <1>15
    <3>2. begun'[i] \in 1 .. n /\ begun'[i] <= m
      BY <1>4, <1>13, <1>14, <1>16
    <3> QED
      BY <1>4, <3>1, <3>2
  <2> QED
    BY <1>1, <2>1, <2>2, <2>3 DEF InOrder, Increasing
<1>18. QueueAgrees'
  <2> SUFFICES ASSUME NEW x \in 1 .. n
               PROVE  stage'[x] \in Queued <=> \E i \in DOMAIN userContext' : userContext'[i] = x
    BY <1>1, <1>2 DEF QueueAgrees
  <2>1. DOMAIN stage = 1 .. n
    BY <1>1, <1>2, MessagesFacts
  <2>2. CASE x = m
    <3>1. stage'[x] \notin Queued
      BY <1>10, <1>11, <2>1, <2>2
    <3>2. \A i \in DOMAIN userContext' : userContext'[i] # m
      BY <1>4, <1>15
    <3> QED
      BY <2>2, <3>1, <3>2
  <2>3. CASE x # m
    <3>1. stage'[x] = stage[x]
      BY <1>11, <2>1, <2>3
    <3>2. stage[x] \in Queued <=> \E i \in DOMAIN userContext : userContext[i] = x
      BY <1>2 DEF IInv, QueueAgrees
    <3>3. ASSUME NEW i \in DOMAIN userContext, userContext[i] = x
          PROVE  \E j \in DOMAIN userContext' : userContext'[j] = x
      <4>1. i # 1
        BY <1>4, <2>3, <3>3
      <4>2. i - 1 \in DOMAIN userContext' /\ i - 1 + 1 = i
        BY <1>4, <1>12, <4>1
      <4>3. userContext'[i - 1] = x
        BY <1>12, <3>3, <4>2
      <4> QED
        BY <4>2, <4>3
    <3> QED
      BY <1>12, <3>1, <3>2, <3>3
  <2> QED
    BY <2>2, <2>3
<1>19. \A i \in DOMAIN begun : \E j \in DOMAIN begun' : begun'[j] = begun[i]
  BY <1>13
<1>20. \E j \in DOMAIN begun' : begun'[j] = m
  BY <1>13
<1>21. /\ m \in DOMAIN messages
       /\ userContext' \in Seq(DOMAIN messages) /\ begun' \in Seq(DOMAIN messages)
  BY <1>2, <1>4, <1>12, <1>13
<1>22. /\ UNCHANGED <<singleThreaded, registered, messages>>
       /\ todo' = [todo EXCEPT ![m] = callbacks] /\ ~singleThreaded
  BY <1>1, <1>5
<1>23. /\ s \in Stages /\ callbacks \in Seq(Callback) /\ calls[m] \in Seq(Call)
       /\ stage[m] # "finished"
  BY <1>6, <1>7, <1>8, <1>10
<1>24. AllRefuse(calls[m])
  BY <1>6, <1>8 DEF Progress
<1>25. /\ \/ unknownMethod' = unknownMethod
          \/ s = "finished" /\ AllRefuse(calls[m]) /\ unknownMethod' = Append(unknownMethod, m)
       /\ s = "finished" /\ AllRefuse(calls[m]) => unknownMethod' = Append(unknownMethod, m)
  BY <1>5, <1>24
<1> QED
  BY <1>9, <1>11, <1>17, <1>18, <1>19, <1>20, <1>21, <1>22, <1>23, <1>25, Advances

\* A callback of a message returns or throws.
LEMMA CallStep ==
  ASSUME IInv, NEW m \in DOMAIN stage, CallNext(m)
  PROVE  IInv'
<1> DEFINE head == Head(todo[m])
<1>1. /\ TypeOK /\ stage[m] \in {"path", "incoming"}
      /\ UNCHANGED <<singleThreaded, registered, messages, userContext, begun>>
  BY DEF IInv, CallNext
<1>2. /\ m \in DOMAIN messages /\ DOMAIN stage = DOMAIN messages
      /\ todo[m] \in Seq(Callback) /\ calls[m] \in Seq(Call)
  BY <1>1, MessagesFacts
<1>3. Progress(stage[m], todo[m], calls[m])
  BY <1>2 DEF IInv, Progresses
<1>4. todo[m] # <<>>
  BY <1>1, <1>3 DEF Progress
<1>5. PICK answer \in IF stage[m] = "path" THEN {"returns", "throws"}
                                           ELSE {"YES", "NO", "throws"} :
        LET rest == IF Stops(answer) THEN <<>> ELSE Tail(todo[m]) IN
        /\ calls' = [calls EXCEPT ![m] = Append(@, Called(Head(todo[m]), answer))]
        /\ todo'  = [todo EXCEPT ![m] = rest]
        /\ stage' = [stage EXCEPT ![m] = IF rest = <<>> THEN "finished" ELSE @]
        /\ unknownMethod' = IF stage[m] = "incoming" /\ rest = <<>> /\ ~Stops(answer)
                            THEN Append(unknownMethod, m) ELSE unknownMethod
  BY DEF CallNext, AnswerIf
<1> DEFINE rest == IF Stops(answer) THEN <<>> ELSE Tail(todo[m])
           call == Called(head, answer)
           called == Append(calls[m], call)
           s == IF rest = <<>> THEN "finished" ELSE stage[m]
<1>6. /\ calls' = [calls EXCEPT ![m] = called] /\ todo' = [todo EXCEPT ![m] = rest]
      /\ stage' = [stage EXCEPT ![m] = s]
      /\ unknownMethod' = IF stage[m] = "incoming" /\ rest = <<>> /\ ~Stops(answer)
                          THEN Append(unknownMethod, m) ELSE unknownMethod
  BY <1>5
<1>7. answer \in Answers /\ (answer = "NO" => stage[m] = "incoming" /\ ~Stops(answer))
      /\ (stage[m] = "incoming" /\ ~Stops(answer) => answer = "NO")
  BY <1>1, <1>5 DEF Answers, Stops
<1>8. /\ Len(todo[m]) \in Nat \ {0} /\ DOMAIN todo[m] = 1 .. Len(todo[m])
      /\ head = todo[m][1] /\ head \in Callback
  BY <1>2, <1>4, EmptySeq, SeqFacts, HeadTailProperties
<1>9. call \in Call /\ call.callback = head /\ call.answer = answer
  BY <1>7, <1>8, CalledFacts
<1>10. /\ rest \in Seq(Callback)
       /\ \A i \in DOMAIN rest : i + 1 \in DOMAIN todo[m] /\ rest[i] = todo[m][i + 1]
  <2>1. CASE Stops(answer)
    BY <2>1, EmptyFacts
  <2>2. CASE ~Stops(answer)
    <3> DEFINE t == Tail(todo[m])
    <3>1. t \in Seq(Callback) /\ Len(t) = Len(todo[m]) - 1
          /\ \A i \in 1 .. Len(t) : t[i] = todo[m][i + 1]
      BY <1>2, <1>4, HeadTailProperties
    <3>2. DOMAIN t = 1 .. Len(todo[m]) - 1
      BY <3>1, SeqFacts
    <3> HIDE DEF t
    <3>3. \A i \in DOMAIN t : i + 1 \in DOMAIN todo[m] /\ t[i] = todo[m][i + 1]
      BY <1>8, <3>1, <3>2
    <3>4. rest = t
      BY <2>2 DEF t
    <3> HIDE DEF rest
    <3> QED
      BY <3>1, <3>3, <3>4
  <2> QED
    BY <2>1, <2>2
<1>11. Stops(answer) => rest = <<>>
  OBVIOUS
<1> HIDE DEF head, rest, call
<1>12. /\ called = calls[m] \o <<call>> /\ <<call>> \in Seq(Call)
       /\ DOMAIN <<call>> = {1} /\ Len(<<call>>) = 1 /\ <<call>>[1] = call
  BY <1>2, <1>9, AppendIsConcat
<1>13. /\ DifferCalled(calls[m]) /\ Differ(todo[m]) /\ Apart(todo[m], calls[m])
       /\ \A i \in DOMAIN calls[m] : ~Stops(calls[m][i].answer)
       /\ stage[m] = "incoming" => AllRefuse(calls[m])
  BY <1>1, <1>3 DEF Progress
<1>14. /\ called \in Seq(Call) /\ DifferCalled(called) /\ StopIsLast(called)
       /\ AllRefuse(called) <=> AllRefuse(calls[m]) /\ answer = "NO"
       /\ Len(called) = Len(calls[m]) + 1 /\ DOMAIN called = 1 .. Len(calls[m]) + 1
       /\ \A i \in DOMAIN calls[m] : called[i] = calls[m][i]
       /\ called[Len(calls[m]) + 1] = call
  <2> DEFINE new == <<call>>
  <2>1. DifferCalled(new) /\ StopIsLast(new)
    BY <1>12 DEF DifferCalled, StopIsLast
  <2>2. \A i \in DOMAIN calls[m], j \in DOMAIN new : calls[m][i].callback # new[j].callback
    BY <1>8, <1>9, <1>12, <1>13, SMTT(30) DEF Apart
  <2>3. AllRefuse(new) <=> answer = "NO"
    BY <1>9, <1>12 DEF AllRefuse
  <2>4. new \in Seq(Call) /\ called = calls[m] \o new /\ DOMAIN new = {1} /\ Len(new) = 1
        /\ new[1] = call
    BY <1>12
  <2> HIDE DEF new, called
  <2>5. /\ called \in Seq(Call) /\ DifferCalled(called) /\ StopIsLast(called)
        /\ AllRefuse(called) <=> AllRefuse(calls[m]) /\ AllRefuse(new)
        /\ Len(called) = Len(calls[m]) + Len(new)
        /\ DOMAIN called = 1 .. Len(calls[m]) + Len(new)
        /\ \A i \in DOMAIN calls[m] : called[i] = calls[m][i]
        /\ \A j \in DOMAIN new : called[Len(calls[m]) + j] = new[j]
    BY <1>2, <1>13, <2>1, <2>2, <2>4, CalledOn, ZenonT(40)
  <2> QED
    BY <2>3, <2>4, <2>5
<1>15. /\ Len(calls[m]) \in Nat
       /\ \A i \in DOMAIN called : i \in DOMAIN calls[m] \/ called[i] = call
  <2>1. Len(calls[m]) \in Nat /\ DOMAIN calls[m] = 1 .. Len(calls[m])
    BY <1>2, SeqFacts
  <2>2. \A i \in 1 .. Len(calls[m]) + 1 : i \in 1 .. Len(calls[m]) \/ i = Len(calls[m]) + 1
    BY <2>1
  <2> QED
    BY <1>14, <2>1, <2>2
<1> HIDE DEF called
<1>16. Differ(rest)
  <2> SUFFICES ASSUME NEW i \in DOMAIN rest, NEW j \in DOMAIN rest, i # j
               PROVE  rest[i] # rest[j]
    BY DEF Differ
  <2>1. i \in Nat /\ j \in Nat
    BY <1>10, SeqFacts
  <2>2. i + 1 # j + 1
    BY <2>1
  <2> QED
    BY <1>10, <1>13, <2>2 DEF Differ
<1>17. Apart(rest, called)
  <2> SUFFICES ASSUME NEW i \in DOMAIN rest, NEW j \in DOMAIN called
               PROVE  rest[i] # called[j].callback
    BY DEF Apart
  <2>1. CASE j \in DOMAIN calls[m]
    BY <1>10, <1>13, <1>14, <2>1 DEF Apart
  <2>2. CASE called[j] = call
    <3>1. 1 \in DOMAIN todo[m] /\ i + 1 # 1
      <4>1. i \in 1 .. Len(rest) /\ Len(rest) \in Nat
        BY <1>10, SeqFacts
      <4> QED
        BY <1>8, <4>1
    <3> QED
      BY <1>8, <1>9, <1>10, <1>13, <2>2, <3>1, ZenonT(40) DEF Differ
  <2> QED
    BY <1>15, <2>1, <2>2
<1>18. /\ s \in Stages /\ s \notin Queued /\ s # "handlersGone"
       /\ stage[m] \notin Queued /\ stage[m] # "finished"
  BY <1>1 DEF Stages, Queued
<1>19. Progress(s, rest, called)
  <2>1. s # "finished" => \A i \in DOMAIN called : ~Stops(called[i].answer)
    BY <1>9, <1>11, <1>13, <1>14, <1>15
  <2>2. s \in {"path", "incoming"} <=> rest # <<>>
    BY <1>1
  <2>3. s = "incoming" => AllRefuse(called)
    BY <1>7, <1>11, <1>13, <1>14
  <2> QED
    BY <1>14, <1>16, <1>17, <1>18, <2>1, <2>2, <2>3 DEF Progress
<1>20. /\ \/ unknownMethod' = unknownMethod
          \/ s = "finished" /\ AllRefuse(called) /\ unknownMethod' = Append(unknownMethod, m)
       /\ s = "finished" /\ AllRefuse(called) => unknownMethod' = Append(unknownMethod, m)
  BY <1>6, <1>7, <1>13, <1>14, <1>18
<1>21. InOrder'
  BY <1>1 DEF IInv, InOrder, Increasing
<1>22. QueueAgrees'
  <2> SUFFICES ASSUME NEW x \in DOMAIN messages
               PROVE  stage'[x] \in Queued <=> stage[x] \in Queued
    BY <1>1 DEF IInv, QueueAgrees
  <2>1. CASE x = m
    BY <1>2, <1>6, <1>18, <2>1
  <2>2. CASE x # m
    BY <1>2, <1>6, <2>2
  <2> QED
    BY <2>1, <2>2
<1>23. userContext' \in Seq(DOMAIN messages) /\ begun' \in Seq(DOMAIN messages)
  BY <1>1 DEF TypeOK
<1>24. \A i \in DOMAIN begun : \E j \in DOMAIN begun' : begun'[j] = begun[i]
  BY <1>1
<1> HIDE DEF s
<1> QED
  BY <1>1, <1>2, <1>6, <1>10, <1>14, <1>18, <1>19, <1>20, <1>21, <1>22, <1>23, <1>24, Advances

--------------------------------------------------------------------------------
(* The theorems                                                              *)

LEMMA InitIInv == Init => IInv
<1> SUFFICES ASSUME Init
             PROVE  IInv
  OBVIOUS
<1>1. /\ messages = <<>> /\ stage = <<>> /\ todo = <<>> /\ calls = <<>>
      /\ messageFilters = <<>> /\ userContext = <<>> /\ begun = <<>> /\ unknownMethod = <<>>
  BY DEF Init
<1>2. TypeOK
  <2>1. /\ 0 \in 0 .. MaxFilters /\ 0 \in 0 .. MaxHandlers /\ 0 \in 0 .. MaxIncoming
        /\ 0 <= MaxMessages
    BY DispatchAssumption
  <2>2. \A S : <<>> \in Seq(S) /\ Len(<<>>) = 0
    BY EmptySeq
  <2>3. objectPathHandlers \in [Paths -> 0 .. MaxHandlers]
    BY <2>1 DEF Init
  <2>4. messages \in Seq(Paths) /\ stage \in Seq(Stages) /\ todo \in Seq(Seq(Callback))
        /\ calls \in Seq(Seq(Call)) /\ messageFilters \in Seq(0 .. MaxFilters - 1)
    BY <1>1, <2>2
  <2>5. {userContext, begun, unknownMethod} \subseteq Seq(DOMAIN messages)
    BY <1>1, <2>2
  <2>6. Len(messages) = 0 /\ Len(stage) = 0 /\ Len(todo) = 0 /\ Len(calls) = 0
    BY <1>1, <2>2
  <2> QED
    BY <2>1, <2>3, <2>4, <2>5, <2>6 DEF Init, TypeOK
<1>3. InOrder /\ QueueAgrees
  BY <1>1 DEF InOrder, Increasing, QueueAgrees
<1>4. FiltersDiffer /\ Progresses /\ ErrorsAreLast /\ RefusedIsAnswered
  BY <1>1 DEF FiltersDiffer, Progresses, ErrorsAreLast, RefusedIsAnswered
<1> QED
  BY <1>2, <1>3, <1>4 DEF IInv

\* The inductive invariant holds of every behaviour: what is queued, begun and
\* answered agrees with the stages of the messages.
THEOREM Invariance == Spec => []IInv
<1>1. ASSUME IInv, [Next]_vars
      PROVE  IInv'
  <2>1. CASE RegisterMessageFilter
    BY <1>1, <2>1, RegisterFilterStep
  <2>2. CASE \E i \in DOMAIN messageFilters : UnregisterMessageFilter(i)
    BY <1>1, <2>2, UnregisterFilterStep
  <2>3. CASE \E p \in Paths : RegisterObjectPathHandler(p)
    BY <1>1, <2>3, RegisterStep
  <2>4. CASE \E p \in Paths : objectPathHandlers[p] > 0 /\ UnregisterObjectPathHandler(p)
    BY <1>1, <2>4, RegisterStep
  <2>5. CASE ReceiveIncomingMessages
    BY <1>1, <2>5, RegisterStep
  <2>6. CASE \E p \in Paths : HandleReadMessage(p)
    BY <1>1, <2>6, ReadStep
  <2>7. CASE Begin
    BY <1>1, <2>7, BeginStep
  <2>8. CASE \E m \in DOMAIN stage : CallNext(m)
    BY <1>1, <2>8, CallStep
  <2>9. CASE UNCHANGED vars
    <3>1. UnchangedMessages /\ UNCHANGED registered
      BY <2>9 DEF vars, UnchangedMessages
    <3>2. TypeOK' /\ FiltersDiffer'
      BY <1>1, <3>1 DEF IInv, TypeOK, FiltersDiffer, UnchangedMessages, registered
    <3> QED
      BY <1>1, <3>1, <3>2, MessagesKept
  <2> QED
    BY <1>1, <2>1, <2>2, <2>3, <2>4, <2>5, <2>6, <2>7, <2>8, <2>9 DEF Next
<1> QED
  BY <1>1, InitIInv, PTL DEF Spec

\* Every variable keeps its type (TypeOK), whatever is registered meanwhile.
THEOREM TypeCorrect == Spec => []TypeOK
<1>1. IInv => TypeOK
  BY DEF IInv
<1> QED
  BY <1>1, Invariance, PTL

\* The callbacks of two messages begin in the order in which the messages were
\* read (HandlersStartInOrder), on either thread.
THEOREM MessagesStartInOrder == Spec => []HandlersStartInOrder
<1>1. IInv => HandlersStartInOrder
  BY DEF IInv, InOrder, Increasing, HandlersStartInOrder
<1> QED
  BY <1>1, Invariance, PTL

\* Each callback is asked about a message at most once, until one takes it, and the
\* UnknownMethod error is sent once for the messages that everybody refused and for
\* no other (HandledOrAnswered): only those handed over to path handlers of which none
\* was left have no answer.
THEOREM AnsweredOnce == Spec => []HandledOrAnswered
<1>1. ASSUME IInv, NEW m \in DOMAIN messages
      PROVE  LET errors == {i \in DOMAIN unknownMethod : unknownMethod[i] = m}
             IN /\ \A i \in DOMAIN calls[m] :
                     /\ Stops(calls[m][i].answer) => i = Len(calls[m]) /\ stage[m] = "finished"
                     /\ \A j \in 1 .. i - 1 : calls[m][i].callback # calls[m][j].callback
                /\ errors # {} => Cardinality(errors) = 1 /\ AllRefuse(calls[m])
                /\ stage[m] = "finished" /\ AllRefuse(calls[m]) => errors # {}
                /\ stage[m] = "handlersGone" => ~singleThreaded /\ m \in Range(begun)
  <2> DEFINE errors == {i \in DOMAIN unknownMethod : unknownMethod[i] = m}
  <2>1. Progress(stage[m], todo[m], calls[m])
    BY <1>1 DEF IInv, Progresses
  <2>2. Len(calls[m]) \in Nat /\ DOMAIN calls[m] = 1 .. Len(calls[m])
    <3>1. calls[m] \in Seq(Call)
      BY <1>1, MessagesFacts DEF IInv
    <3> QED
      BY <3>1, SeqFacts
  <2>3. ASSUME NEW i \in DOMAIN calls[m]
        PROVE  /\ Stops(calls[m][i].answer) => i = Len(calls[m]) /\ stage[m] = "finished"
               /\ \A j \in 1 .. i - 1 : calls[m][i].callback # calls[m][j].callback
    <3>1. Stops(calls[m][i].answer) => i = Len(calls[m]) /\ stage[m] = "finished"
      BY <2>1 DEF Progress, StopIsLast
    <3>2. ASSUME NEW j \in 1 .. i - 1
          PROVE  calls[m][i].callback # calls[m][j].callback
      <4>1. j \in DOMAIN calls[m] /\ i # j
        BY <2>2
      <4> QED
        BY <2>1, <4>1 DEF Progress, DifferCalled
    <3> QED
      BY <3>1, <3>2
  <2>4. ASSUME errors # {}
        PROVE  Cardinality(errors) = 1 /\ AllRefuse(calls[m])
    <3>1. PICK i \in DOMAIN unknownMethod : unknownMethod[i] = m
      BY <2>4
    <3>2. errors = {i}
      BY <1>1, <3>1 DEF IInv, ErrorsAreLast
    <3>3. AllRefuse(calls[m])
      BY <1>1, <3>1 DEF IInv, ErrorsAreLast
    <3> HIDE DEF errors
    <3> QED
      BY <3>2, <3>3, FS_Singleton
  <2>5. ASSUME stage[m] = "finished", AllRefuse(calls[m])
        PROVE  errors # {}
    <3>1. \E i \in DOMAIN unknownMethod : unknownMethod[i] = m
      BY <1>1, <2>5 DEF IInv, RefusedIsAnswered
    <3> QED
      BY <3>1
  <2>6. ASSUME stage[m] = "handlersGone"
        PROVE  ~singleThreaded /\ m \in Range(begun)
    <3>1. ~singleThreaded /\ \E i \in DOMAIN begun : begun[i] = m
      BY <1>1, <2>6 DEF IInv, RefusedIsAnswered
    <3> QED
      BY <3>1 DEF Range
  <2> QED
    BY <2>3, <2>4, <2>5, <2>6
<1>2. IInv => HandledOrAnswered
  BY <1>1 DEF HandledOrAnswered
<1> QED
  BY <1>2, Invariance, PTL
================================================================================
