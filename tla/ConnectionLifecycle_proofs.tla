----------------------- MODULE ConnectionLifecycle_proofs -----------------------
(***************************************************************************)
(* For any number of coroutines and names, and whatever the environment     *)
(* does: a lost connection stays lost and is only ever the daemon's doing,  *)
(* a connection that says it is ready is read, the registry and the daemon  *)
(* agree about the rule, and nobody gets past CloseData() before the read   *)
(* loop has ended.                                                          *)
(*                                                                         *)
(* The lists of names play no part in this: their types come last.          *)
(***************************************************************************)
EXTENDS ConnectionLifecycle, SequenceLemmas, SequenceTheorems, TLAPS

\* The types of the variables, but for the names.
Typed ==
  /\ pc \in [Procs -> PCs]
  /\ request \in [Procs -> Requests]
  /\ link \in BOOLEAN /\ socketOpen \in BOOLEAN
  /\ connectionReady \in BOOLEAN /\ shouldQuit \in BOOLEAN
  /\ waiters \in Seq(Users \cup {Connector})
  /\ finishers \in Seq(Closers \cup {LossHandler})
  /\ readLoop \in {"off", "reading", "ended"} /\ finished \in BOOLEAN
  /\ delivered \in [to : Procs, ok : BOOLEAN] \cup {None}
  /\ hasRule \in BOOLEAN /\ daemonRule \in BOOLEAN

\* Whoever is in the queue of a channel is suspended there, once.
Queued ==
  /\ Distinct(waiters) /\ \A p \in Range(waiters) : pc[p] = "waiting"
  /\ Distinct(finishers) /\ \A p \in Range(finishers) : pc[p] = "finishing"

\* The coroutine that was handed a reply still awaits it, and of the rule the
\* daemon has what the reply says: what it refused changed nothing.
Replied ==
  delivered # None =>
    /\ pc[delivered.to] = "awaiting"
    /\ delivered.ok /\ request[delivered.to] = "AddMatch" => daemonRule
    /\ delivered.ok /\ request[delivered.to] = "RemoveMatch" => ~daemonRule
    /\ ~delivered.ok => hasRule = daemonRule

\* The read loop is started once, and ends after the last reply or when it is
\* told to.
LoopRuns ==
  /\ pc[Connector] \in {"connecting", "authenticating"} => readLoop = "off"
  /\ delivered # None /\ ~shouldQuit => readLoop = "reading"
  /\ finished => readLoop = "ended"
  /\ shouldQuit <=> ~socketOpen

\* A loss is handled after the last reply.
LossHandled ==
  /\ pc[LossHandler] \in {"idle", "finishing", "posted", "done"}
  /\ pc[LossHandler] # "idle" => readLoop = "ended" /\ delivered = None

IInv ==
  /\ Typed /\ Queued /\ Replied /\ LoopRuns /\ LossHandled
  /\ LostStaysLost /\ OwnCloseIsNoLoss /\ ReadyMeansReading /\ RulesAgree
  /\ LoopEndsBeforeClose

\* What is said of the socket, the read loop and the loss.
Connection ==
  /\ LoopRuns /\ LossHandled
  /\ LostStaysLost /\ OwnCloseIsNoLoss /\ ReadyMeansReading /\ LoopEndsBeforeClose

\* What is said of coroutines and queues.
Queues == waiters \in Seq(Users \cup {Connector})
          /\ finishers \in Seq(Closers \cup {LossHandler})
          /\ pc \in [Procs -> PCs] /\ Queued

\* What is said of replies and rules.
Rules == Replied /\ RulesAgree

-----------------------------------------------------------------------------
(* The steps the actions are made of                                       *)

\* A coroutine goes on to another suspension, in the queue of the channel if it
\* waits for one.
Goes(p, to) ==
  /\ to \in PCs
  /\ pc' = [pc EXCEPT ![p] = to]
  /\ waiters' = IF to = "waiting" THEN Append(waiters, p) ELSE waiters
  /\ finishers' = IF to = "finishing" THEN Append(finishers, p) ELSE finishers
  /\ to = "waiting" => p # LossHandler
  /\ to = "finishing" => p \in Closers \cup {LossHandler}

\* A coroutine that is in no queue goes on.
LEMMA QueuesAfterGoing ==
  ASSUME Typed, Queued, NEW p \in Procs, NEW to, Goes(p, to),
         pc[p] \notin {"waiting", "finishing"}
  PROVE  Queues'
<1>1. p \notin Range(waiters) /\ p \notin Range(finishers)
  BY DEF Queued
<1>2. /\ pc' \in [Procs -> PCs]
      /\ \A q \in Procs : pc'[q] = IF q = p THEN to ELSE pc[q]
  BY DEF Goes, Typed
<1>3. /\ waiters \in Seq(Users \cup {Connector}) /\ Distinct(waiters)
      /\ finishers \in Seq(Closers \cup {LossHandler}) /\ Distinct(finishers)
  BY DEF Typed, Queued
<1>4. Range(waiters) \subseteq Procs /\ Range(finishers) \subseteq Procs
  <2>1. /\ \A i \in DOMAIN waiters : waiters[i] \in Users \cup {Connector}
        /\ \A i \in DOMAIN finishers : finishers[i] \in Closers \cup {LossHandler}
    BY <1>3, ElementOfSeq, LenProperties
  <2> QED
    BY <2>1 DEF Range, Procs, Users
<1>5. /\ waiters' \in Seq(Users \cup {Connector}) /\ Distinct(waiters')
      /\ \A q \in Range(waiters') : pc'[q] = "waiting"
  <2>1. CASE to = "waiting"
    <3>1. p \in Users \cup {Connector} /\ waiters' = Append(waiters, p)
      BY <2>1 DEF Goes, Procs
    <3>2. /\ waiters' \in Seq(Users \cup {Connector}) /\ Distinct(waiters')
          /\ Range(waiters') = Range(waiters) \cup {p}
      BY <1>1, <1>3, <3>1, AppendDistinct
    <3> QED
      BY <1>2, <1>4, <2>1, <3>2 DEF Queued
  <2>2. CASE to # "waiting"
    <3>1. waiters' = waiters
      BY <2>2 DEF Goes
    <3> QED
      BY <1>1, <1>2, <1>3, <1>4, <3>1 DEF Queued
  <2> QED
    BY <2>1, <2>2
<1>6. /\ finishers' \in Seq(Closers \cup {LossHandler}) /\ Distinct(finishers')
      /\ \A q \in Range(finishers') : pc'[q] = "finishing"
  <2>1. CASE to = "finishing"
    <3>1. p \in Closers \cup {LossHandler} /\ finishers' = Append(finishers, p)
      BY <2>1 DEF Goes
    <3>2. /\ finishers' \in Seq(Closers \cup {LossHandler}) /\ Distinct(finishers')
          /\ Range(finishers') = Range(finishers) \cup {p}
      BY <1>1, <1>3, <3>1, AppendDistinct
    <3> QED
      BY <1>2, <1>4, <2>1, <3>2 DEF Queued
  <2>2. CASE to # "finishing"
    <3>1. finishers' = finishers
      BY <2>2 DEF Goes
    <3> QED
      BY <1>1, <1>2, <1>3, <1>4, <3>1 DEF Queued
  <2> QED
    BY <2>1, <2>2
<1> QED
  BY <1>2, <1>5, <1>6 DEF Queues, Queued

\* The coroutines that count for the connection stay where they are.
Elsewhere ==
  /\ pc'[LossHandler] = pc[LossHandler]
  /\ pc'[Connector] \in {"connecting", "authenticating"} =>
       pc[Connector] \in {"connecting", "authenticating"}
  /\ \A k \in Closers : pc'[k] = "closed" => pc[k] = "closed"

\* Nothing happens to the connection.
LEMMA ConnectionStays ==
  ASSUME Typed, Connection, Elsewhere, UNCHANGED <<socket, flags, readLoop, finished>>,
         delivered' \in {delivered, None}
  PROVE  Connection'
<1> USE DEF socket, flags, Elsewhere
<1>1. LoopRuns' /\ LossHandled'
  BY DEF Connection, LoopRuns, LossHandled
<1>2. LostStaysLost' /\ OwnCloseIsNoLoss' /\ ReadyMeansReading'
  BY DEF Connection, LostStaysLost, OwnCloseIsNoLoss, ReadyMeansReading
<1>3. LoopEndsBeforeClose'
  BY DEF Connection, LoopEndsBeforeClose
<1> QED
  BY <1>1, <1>2, <1>3 DEF Connection

\* The connection is closed; the read loop has yet to notice.
LEMMA ConnectionCloses ==
  ASSUME Typed, Connection, Elsewhere, CloseSocket, UNCHANGED <<readLoop, finished>>,
         delivered' \in {delivered, None}
  PROVE  Connection'
<1> USE DEF CloseSocket, Elsewhere
<1>1. LoopRuns' /\ LossHandled'
  BY DEF Connection, LoopRuns, LossHandled
<1>2. LostStaysLost' /\ OwnCloseIsNoLoss' /\ ReadyMeansReading'
  BY DEF Connection, LostStaysLost, OwnCloseIsNoLoss, ReadyMeansReading
<1>3. LoopEndsBeforeClose'
  BY DEF Connection, LoopEndsBeforeClose
<1> QED
  BY <1>1, <1>2, <1>3 DEF Connection

\* The handshake is complete, as a reply says.
LEMMA ConnectionIsReady ==
  ASSUME Typed, Connection, Elsewhere, delivered # None, delivered' = None,
         connectionReady' = TRUE, UNCHANGED <<socket, shouldQuit, readLoop, finished>>
  PROVE  Connection'
<1> USE DEF socket, Elsewhere
<1>1. LoopRuns' /\ LossHandled'
  BY DEF Connection, LoopRuns, LossHandled
<1>2. LostStaysLost' /\ OwnCloseIsNoLoss' /\ ReadyMeansReading'
  BY DEF Connection, LostStaysLost, OwnCloseIsNoLoss, ReadyMeansReading, LoopRuns,
         LossHandled, Typed
<1>3. LoopEndsBeforeClose'
  BY DEF Connection, LoopEndsBeforeClose
<1> QED
  BY <1>1, <1>2, <1>3 DEF Connection

\* Somebody runs who was not handed a reply.
LEMMA RulesStay ==
  ASSUME Typed, Rules, NEW p \in Procs, pc[p] # "awaiting",
         \A q \in Procs : q # p => pc'[q] = pc[q] /\ request'[q] = request[q],
         UNCHANGED <<delivered, hasRule, daemonRule>>
  PROVE  Rules'
  BY DEF Typed, Rules, Replied, RulesAgree

\* The reply that was handed over is used up, and the sides agree.
LEMMA RulesSettled ==
  ASSUME delivered' = None, hasRule' = daemonRule'
  PROVE  Rules'
  BY DEF Rules, Replied, RulesAgree

-----------------------------------------------------------------------------
(* A coroutine that is in no queue runs                                    *)

\* p goes on to "to", with another request perhaps.
Steps(p, to) ==
  /\ p \in Procs \ {LossHandler}
  /\ Goes(p, to)
  /\ \E r \in Requests : request' = [request EXCEPT ![p] = r]
  /\ to \notin {"connecting", "closed"}
  /\ to = "authenticating" => pc[p] = "connecting"

\* It was called, or comes from a suspension without a queue.
Called(p) ==
  /\ pc[p] \notin {"waiting", "finishing", "awaiting"}
  /\ UNCHANGED <<delivered, hasRule, daemonRule>>

\* It was handed its reply, and knows now about the rule.
Returned(p) ==
  /\ delivered # None /\ delivered.to = p /\ delivered' = None
  /\ UNCHANGED daemonRule /\ hasRule' = daemonRule

\* What it may do to the connection.
Touches(p) ==
  /\ UNCHANGED <<readLoop, finished>>
  /\ \/ UNCHANGED <<socket, flags>>
     \/ CloseSocket
     \/ Returned(p) /\ connectionReady' = TRUE /\ UNCHANGED <<socket, shouldQuit>>

LEMMA InvariantParts == IInv <=> Typed /\ Queues /\ Connection /\ Rules
  BY DEF IInv, Typed, Queues, Connection, Rules

LEMMA CoroutineRuns ==
  ASSUME IInv, NEW p, NEW to, Steps(p, to), Called(p) \/ Returned(p), Touches(p)
  PROVE  IInv'
<1>1. Typed /\ Queued /\ Connection /\ Rules
  BY InvariantParts DEF Queues
<1>2. /\ p \in Procs /\ p # LossHandler /\ Goes(p, to)
      /\ pc[p] \notin {"waiting", "finishing"}
  BY <1>1 DEF Steps, Called, Returned, Rules, Replied
<1>3. Queues'
  BY <1>1, <1>2, QueuesAfterGoing
<1>4. /\ pc' = [pc EXCEPT ![p] = to]
      /\ \A q \in Procs : pc'[q] = IF q = p THEN to ELSE pc[q]
  BY <1>1, <1>2 DEF Goes, Typed
<1>5. Elsewhere
  BY <1>2, <1>4 DEF Steps, Elsewhere, Procs, Users
<1>6. Typed'
  <2>1. request' \in [Procs -> Requests]
    BY <1>1 DEF Typed, Steps
  <2>2. /\ link' \in BOOLEAN /\ socketOpen' \in BOOLEAN
        /\ connectionReady' \in BOOLEAN /\ shouldQuit' \in BOOLEAN
    BY <1>1 DEF Typed, Touches, CloseSocket, socket, flags
  <2>3. readLoop' \in {"off", "reading", "ended"} /\ finished' \in BOOLEAN
    BY <1>1 DEF Typed, Touches
  <2>4. /\ delivered' \in [to : Procs, ok : BOOLEAN] \cup {None}
        /\ hasRule' \in BOOLEAN /\ daemonRule' \in BOOLEAN
    BY <1>1 DEF Typed, Called, Returned
  <2> QED
    BY <1>3, <2>1, <2>2, <2>3, <2>4 DEF Typed, Queues
<1>7. Connection'
  <2>1. delivered' \in {delivered, None} /\ UNCHANGED <<readLoop, finished>>
    BY DEF Called, Returned, Touches
  <2>2. CASE UNCHANGED <<socket, flags>>
    BY <1>1, <1>5, <2>1, <2>2, ConnectionStays
  <2>3. CASE CloseSocket
    BY <1>1, <1>5, <2>1, <2>3, ConnectionCloses
  <2>4. CASE Returned(p) /\ connectionReady' = TRUE /\ UNCHANGED <<socket, shouldQuit>>
    BY <1>1, <1>5, <2>1, <2>4, ConnectionIsReady DEF Returned
  <2> QED
    BY <2>2, <2>3, <2>4 DEF Touches
<1>8. Rules'
  <2>1. CASE Called(p)
    <3>1. \A q \in Procs : q # p => pc'[q] = pc[q] /\ request'[q] = request[q]
      BY <1>1, <1>4 DEF Typed, Steps
    <3> QED
      BY <1>1, <1>2, <2>1, <3>1, RulesStay DEF Called
  <2>2. CASE Returned(p)
    BY <2>2, RulesSettled DEF Returned
  <2> QED
    BY <2>1, <2>2
<1> QED
  BY <1>3, <1>6, <1>7, <1>8 DEF IInv, Queues, Connection, Rules

\* SendMessage() and the ends of a coroutine are such steps.
LEMMA SendMessageSteps ==
  ASSUME Typed, NEW p \in Users \cup {Connector}, NEW req \in Requests, NEW n,
         NEW ready, SendMessage(p, req, n, ready), UNCHANGED finishers
  PROVE  \E to \in {"waiting", "awaiting", "threw"} : Steps(p, to)
<1>1. p \in Procs \ {LossHandler}
  BY ProcsAssumption DEF Procs
<1>2. CASE ready
  BY <1>1, <1>2 DEF SendMessage, waiting, Written, Steps, Goes, PCs
<1>3. CASE ~ready
  BY <1>1, <1>3 DEF SendMessage, Steps, Goes, PCs
<1> QED
  BY <1>2, <1>3

LEMMA LeaveSteps ==
  ASSUME Typed, NEW p \in Users \cup {Connector},
         NEW to \in PCs \ {"connecting", "closed", "waiting", "finishing"},
         to = "authenticating" => pc[p] = "connecting",
         Leave(p, to), UNCHANGED finishers
  PROVE  Steps(p, to)
<1>1. p \in Procs \ {LossHandler}
  BY ProcsAssumption DEF Procs
<1>2. request' = [request EXCEPT ![p] = request[p]] /\ request[p] \in Requests
  BY <1>1 DEF Typed, Leave
<1> QED
  BY <1>1, <1>2 DEF Leave, waiting, Steps, Goes

LEMMA CloseDataSteps ==
  ASSUME Typed, NEW k \in Closers, CloseData(k)
  PROVE  Steps(k, "finishing")
<1>1. k \in Procs \ {LossHandler}
  BY ProcsAssumption DEF Procs, Users
<1>2. request' = [request EXCEPT ![k] = request[k]] /\ request[k] \in Requests
  BY <1>1 DEF Typed, CloseData, Leave
<1> QED
  BY <1>1, <1>2 DEF CloseData, Leave, waiting, Steps, Goes, PCs

-----------------------------------------------------------------------------
(* Connect()                                                               *)

LEMMA ConnectedKeeps ==
  ASSUME IInv, Connected  PROVE  IInv'
<1>1. Steps(Connector, "authenticating")
  BY LeaveSteps DEF IInv, Connected, loop, PCs
<1>2. Called(Connector) /\ Touches(Connector)
  BY DEF Connected, Called, Touches, loop, registry
<1> QED
  BY <1>1, <1>2, CoroutineRuns

LEMMA AuthenticationFailsKeeps ==
  ASSUME IInv, AuthenticationFails  PROVE  IInv'
<1>1. Steps(Connector, "threw")
  BY LeaveSteps DEF IInv, AuthenticationFails, loop, PCs
<1>2. Called(Connector) /\ Touches(Connector)
  BY DEF AuthenticationFails, Called, Touches, loop, registry
<1> QED
  BY <1>1, <1>2, CoroutineRuns

\* A reply that is not about the rule leaves the sides agreed.
LEMMA OtherReply ==
  ASSUME IInv, NEW p, NEW req \in Requests \ {"AddMatch", "RemoveMatch"},
         Resumed(p, req), UNCHANGED <<hasRule, daemonRule>>
  PROVE  Returned(p)
  BY DEF IInv, RulesAgree, Resumed, Returned

LEMMA ReadyKeeps ==
  ASSUME IInv, NEW req \in Requests \ {"AddMatch", "RemoveMatch"},
         Resumed(Connector, req), Ready
  PROVE  IInv'
<1>1. \E to \in PCs : Steps(Connector, to)
  <2>1. CASE nrOfWaiters > 0
    <3>1. Leave(Connector, "notifying") /\ UNCHANGED finishers
      BY <2>1 DEF Ready, loop
    <3> QED
      BY <3>1, LeaveSteps DEF IInv, PCs
  <2>2. CASE ~(nrOfWaiters > 0)
    <3>1. SendMessage(Connector, "AddMatch", None, TRUE) /\ UNCHANGED finishers
      BY <2>2 DEF Ready, loop
    <3> QED
      BY <3>1, SendMessageSteps DEF IInv, PCs, Requests
  <2> QED
    BY <2>1, <2>2
<1>2. Returned(Connector)
  BY OtherReply DEF Ready, registry
<1>3. Touches(Connector)
  BY <1>2 DEF Touches, Ready, loop
<1> QED
  BY <1>1, <1>2, <1>3, CoroutineRuns

LEMMA HelloReturnsKeeps ==
  ASSUME IInv, HelloReturns  PROVE  IInv'
<1>1. "Hello" \in Requests \ {"AddMatch", "RemoveMatch"} /\ Resumed(Connector, "Hello")
  BY DEF Requests, HelloReturns
<1>2. CASE names = <<>>
  BY <1>1, <1>2, ReadyKeeps DEF HelloReturns
<1>3. CASE names # <<>>
  <2>1. /\ SendMessage(Connector, "RequestName", Head(names), TRUE)
        /\ UNCHANGED <<socket, flags, loop, registry>>
    BY <1>3 DEF HelloReturns
  <2>2. PICK to : Steps(Connector, to)
    BY <2>1, SendMessageSteps DEF IInv, loop, Requests
  <2>3. Returned(Connector) /\ Touches(Connector)
    BY <1>1, <2>1, OtherReply DEF Touches, loop, registry
  <2> QED
    BY <2>2, <2>3, CoroutineRuns
<1> QED
  BY <1>2, <1>3

LEMMA ConnectNameReturnsKeeps ==
  ASSUME IInv, ConnectNameReturns  PROVE  IInv'
  BY ReadyKeeps DEF ConnectNameReturns, Requests

\* An ERROR reply changed nothing, neither here nor there.
LEMMA RefusedKeeps ==
  ASSUME IInv, NEW p \in Procs, Refused(p)  PROVE  IInv'
<1>1. p \in Users \cup {Connector}
  BY DEF IInv, Replied, LossHandled, Refused, Procs
<1>2. Steps(p, "threw")
  BY <1>1, LeaveSteps DEF IInv, Refused, loop, PCs
<1>3. Returned(p)
  BY DEF IInv, Replied, Refused, Returned, registry
<1>4. Touches(p)
  BY DEF Refused, Touches, loop
<1> QED
  BY <1>2, <1>3, <1>4, CoroutineRuns

LEMMA SubscribeReturnsKeeps ==
  ASSUME IInv, SubscribeReturns  PROVE  IInv'
<1>1. Steps(Connector, "done")
  BY LeaveSteps DEF IInv, SubscribeReturns, loop, PCs
<1>2. Returned(Connector)
  BY DEF IInv, Replied, SubscribeReturns, Resumed, Returned
<1>3. Touches(Connector)
  BY DEF SubscribeReturns, Touches, loop
<1> QED
  BY <1>1, <1>2, <1>3, CoroutineRuns

\* The read loop starts; the handshake goes on with the first request.
LEMMA AuthenticatedKeeps ==
  ASSUME IInv, Authenticated  PROVE  IInv'
<1>1. Typed /\ Queued /\ Connection /\ Rules
  BY InvariantParts DEF Queues
<1>2. Connector \in Procs /\ Connector # LossHandler /\ Connector \notin Closers
  BY ProcsAssumption DEF Procs, Users
<1>3. /\ pc[Connector] = "authenticating" /\ readLoop = "off" /\ delivered = None
      /\ ~finished /\ pc[LossHandler] = "idle"
  BY <1>1 DEF Authenticated, Connection, LoopRuns, LossHandled
<1>4. PICK to \in {"awaiting", "threw"} :
        /\ pc' = [pc EXCEPT ![Connector] = to]
        /\ \A q \in Procs : pc'[q] = IF q = Connector THEN to ELSE pc[q]
  BY <1>1 DEF Authenticated, Written, Typed
<1>5. Queues'
  <2>1. Goes(Connector, to)
    BY <1>2, <1>4 DEF Authenticated, Goes, waiting, PCs
  <2> QED
    BY <1>1, <1>2, <1>3, <2>1, QueuesAfterGoing
<1>6. Typed'
  BY <1>1, <1>2, <1>5 DEF Authenticated, Typed, Queues, Requests, socket, flags, registry
<1>7. Connection'
  <2>1. LoopRuns' /\ LossHandled'
    BY <1>1, <1>2, <1>3, <1>4 DEF Authenticated, Connection, LoopRuns, LossHandled,
         Procs, socket, flags
  <2>2. LostStaysLost' /\ OwnCloseIsNoLoss' /\ ReadyMeansReading'
    BY <1>1, <1>2, <1>3, <1>4 DEF Authenticated, Connection, LostStaysLost,
         OwnCloseIsNoLoss, ReadyMeansReading, Procs, socket, flags
  <2>3. LoopEndsBeforeClose'
    BY <1>1, <1>2, <1>3, <1>4 DEF Authenticated, Connection, LoopEndsBeforeClose,
         Procs, Users
  <2> QED
    BY <2>1, <2>2, <2>3 DEF Connection
<1>8. Rules'
  BY <1>1, <1>3 DEF Authenticated, Rules, Replied, RulesAgree, registry
<1> QED
  BY <1>5, <1>6, <1>7, <1>8 DEF IInv, Queues, Connection, Rules

\* The first who waits for the connection goes on, and Connect() too.
LEMMA NotifyKeeps ==
  ASSUME IInv, Notify  PROVE  IInv'
<1> DEFINE h == Head(waiters)
           rest == Tail(waiters)
<1>1. Typed /\ Queued /\ Connection /\ Rules
  BY InvariantParts DEF Queues
<1>2. /\ waiters # <<>> /\ waiters \in Seq(Users \cup {Connector}) /\ Distinct(waiters)
      /\ pc[Connector] = "notifying"
  BY <1>1 DEF Notify, Typed, Queued
<1>3. /\ h \in Users \cup {Connector} /\ h \in Range(waiters)
      /\ rest \in Seq(Users \cup {Connector}) /\ Distinct(rest)
      /\ Range(rest) = Range(waiters) \ {h}
  BY <1>2, TailDistinct
<1>4. /\ pc[h] = "waiting" /\ h # Connector /\ h \in Procs \ {LossHandler}
      /\ Connector \notin Range(waiters) /\ Connector \in Procs \ {LossHandler}
      /\ Connector \notin Closers
  BY <1>1, <1>2, <1>3, ProcsAssumption DEF Queued, Procs, Users
<1> HIDE DEF h, rest
<1>5. PICK there \in {"awaiting", "threw"}, here \in {"awaiting", "threw", "waiting"} :
        /\ pc' = [pc EXCEPT ![h] = there, ![Connector] = here]
        /\ waiters' = IF here = "waiting" THEN Append(rest, Connector)
                                          ELSE rest
  <2>1. Written \in {"awaiting", "threw"} /\ Written # "waiting"
    BY DEF Written
  <2>2. CASE connectionReady
    BY <2>1, <2>2 DEF Notify, h, rest
  <2>3. CASE ~connectionReady
    BY <2>1, <2>3 DEF Notify, h, rest
  <2> QED
    BY <2>2, <2>3
<1>6. /\ pc' \in [Procs -> PCs]
      /\ \A q \in Procs : pc'[q] = IF q = Connector THEN here
                                   ELSE IF q = h THEN there ELSE pc[q]
  BY <1>1, <1>4, <1>5 DEF Typed, PCs
<1>7. Range(waiters) \subseteq Procs /\ Range(finishers) \subseteq Procs
  <2>1. /\ \A i \in DOMAIN waiters : waiters[i] \in Users \cup {Connector}
        /\ \A i \in DOMAIN finishers : finishers[i] \in Closers \cup {LossHandler}
    BY <1>1, ElementOfSeq, LenProperties DEF Typed
  <2> QED
    BY <2>1 DEF Range, Procs, Users
<1>8. Queues'
  <2>1. /\ waiters' \in Seq(Users \cup {Connector}) /\ Distinct(waiters')
        /\ \A q \in Range(waiters') : pc'[q] = "waiting"
    <3>1. CASE here = "waiting"
      <4>1. /\ Connector \in Users \cup {Connector}
            /\ Connector \notin Range(rest)
            /\ waiters' = Append(rest, Connector)
        BY <1>3, <1>4, <1>5, <3>1
      <4>2. /\ waiters' \in Seq(Users \cup {Connector}) /\ Distinct(waiters')
            /\ Range(waiters') = Range(rest) \cup {Connector}
        BY <1>3, <4>1, AppendDistinct
      <4> QED
        BY <1>1, <1>3, <1>4, <1>6, <1>7, <3>1, <4>2 DEF Queued
    <3>2. CASE here # "waiting"
      <4>1. waiters' = rest
        BY <1>5, <3>2
      <4> QED
        BY <1>1, <1>3, <1>4, <1>6, <1>7, <4>1 DEF Queued
    <3> QED
      BY <3>1, <3>2
  <2>2. finishers' = finishers /\ \A q \in Range(finishers) : pc'[q] = pc[q]
    BY <1>1, <1>2, <1>4, <1>6, <1>7 DEF Notify, loop, Queued
  <2> QED
    BY <1>1, <1>6, <2>1, <2>2 DEF Queues, Queued, Typed
<1>9. Typed'
  BY <1>1, <1>4, <1>8 DEF Notify, Typed, Queues, Requests, socket, flags, loop, registry
<1>10. Connection'
  <2>1. Elsewhere
    BY <1>2, <1>4, <1>5, <1>6 DEF Elsewhere, Procs, Users
  <2> QED
    BY <1>1, <2>1, ConnectionStays DEF Notify, loop
<1>11. Rules'
  <2>1. delivered # None => delivered.to # h /\ delivered.to # Connector
                            /\ delivered.to \in Procs
    BY <1>1, <1>2, <1>4 DEF Rules, Replied, Typed
  <2>2. /\ delivered # None => /\ pc'[delivered.to] = pc[delivered.to]
                               /\ request'[delivered.to] = request[delivered.to]
        /\ UNCHANGED <<delivered, hasRule, daemonRule>>
    BY <1>1, <1>6, <2>1 DEF Notify, Typed, registry
  <2> QED
    BY <1>1, <2>2 DEF Rules, Replied, RulesAgree
<1> QED
  BY <1>8, <1>9, <1>10, <1>11 DEF IInv, Queues, Connection, Rules

-----------------------------------------------------------------------------
(* The user's calls                                                        *)

LEMMA SendKeeps ==
  ASSUME IInv, NEW p \in Senders, Send(p)  PROVE  IInv'
<1>1. PICK to : Steps(p, to)
  BY SendMessageSteps DEF IInv, Send, loop, Users, Requests
<1>2. Called(p) /\ Touches(p)
  BY DEF Send, Called, Touches, loop, registry
<1> QED
  BY <1>1, <1>2, CoroutineRuns

LEMMA SendReturnsKeeps ==
  ASSUME IInv, NEW p \in Senders, SendReturns(p)  PROVE  IInv'
<1>1. Steps(p, "done")
  BY LeaveSteps DEF IInv, SendReturns, loop, Users, PCs
<1>2. Returned(p) /\ Touches(p)
  BY OtherReply DEF SendReturns, Touches, loop, registry, Requests
<1> QED
  BY <1>1, <1>2, CoroutineRuns

\* A request for a name, or the refusal to make it.
LEMMA NameCallKeeps ==
  ASSUME IInv, NEW p \in Owners, NEW n \in Names, RequestName(p, n) \/ ReleaseName(p, n)
  PROVE  IInv'
<1>1. /\ UNCHANGED finishers /\ p \in Users /\ Typed
      /\ pc[p] = "idle"
  BY DEF RequestName, ReleaseName, loop, Users, IInv
<1>2. \/ Leave(p, "threw")
      \/ SendMessage(p, "RequestName", n, connectionReady)
      \/ SendMessage(p, "ReleaseName", n, connectionReady)
  BY DEF RequestName, ReleaseName
<1>3. PICK to : Steps(p, to)
  BY <1>1, <1>2, SendMessageSteps, LeaveSteps DEF Requests, PCs
<1>4. Called(p) /\ Touches(p)
  BY DEF RequestName, ReleaseName, Called, Touches, loop, registry
<1> QED
  BY <1>3, <1>4, CoroutineRuns

LEMMA NameReturnsKeeps ==
  ASSUME IInv, NEW p \in Owners, RequestNameReturns(p) \/ ReleaseNameReturns(p)
  PROVE  IInv'
<1>1. Steps(p, "done")
  BY LeaveSteps DEF IInv, RequestNameReturns, ReleaseNameReturns, loop, Users, PCs
<1>2. Returned(p) /\ Touches(p)
  BY OtherReply DEF RequestNameReturns, ReleaseNameReturns, Touches, loop, Requests
<1> QED
  BY <1>1, <1>2, CoroutineRuns

\* CloseImpl() sends the next release, throws, or closes the socket.
LEMMA ReleaseNextSteps ==
  ASSUME Typed, NEW k \in Closers, NEW copy, NEW held, ReleaseNext(k, copy, held)
  PROVE  /\ \E to : Steps(k, to)
         /\ UNCHANGED <<readLoop, finished>>
         /\ UNCHANGED <<socket, flags>> \/ CloseSocket
<1>1. k \in Users \cup {Connector}
  BY DEF Users
<1>2. CASE copy = <<>>
  BY <1>2, CloseDataSteps DEF ReleaseNext, CloseData
<1>3. CASE copy # <<>>
  <2>1. /\ UNCHANGED <<socket, flags, readLoop, finished, finishers>>
        /\ \/ SendMessage(k, "ReleaseName", Head(copy), connectionReady)
           \/ Leave(k, "threw")
    BY <1>3 DEF ReleaseNext, loop
  <2> QED
    BY <1>1, <2>1, SendMessageSteps, LeaveSteps DEF Requests, PCs
<1> QED
  BY <1>2, <1>3

LEMMA CloseKeeps ==
  ASSUME IInv, NEW k \in Closers, Close(k)  PROVE  IInv'
<1>1. Called(k)
  BY DEF Close, Called, registry
<1>2. (\E to : Steps(k, to)) /\ Touches(k)
  <2>1. Typed /\ k \in Users \cup {Connector}
    BY DEF IInv, Users
  <2>2. CASE Leave(k, "done") /\ UNCHANGED <<socket, flags, loop>>
    BY <2>1, <2>2, LeaveSteps DEF Touches, loop, PCs
  <2>3. CASE CloseData(k)
    BY <2>1, <2>3, CloseDataSteps DEF Touches, CloseData
  <2>4. CASE SendMessage(k, "RemoveMatch", None, TRUE) /\ UNCHANGED <<socket, flags, loop>>
    BY <2>1, <2>4, SendMessageSteps DEF Touches, loop, Requests
  <2>5. CASE ReleaseNext(k, names, names)
    BY <2>1, <2>5, ReleaseNextSteps DEF Touches
  <2> QED
    BY <2>2, <2>3, <2>4, <2>5 DEF Close
<1> QED
  BY <1>1, <1>2, CoroutineRuns

\* The daemon says that it has the rule no longer.
LEMMA RemoveMatchReturnsKeeps ==
  ASSUME IInv, NEW k \in Closers, RemoveMatchReturns(k)  PROVE  IInv'
<1>1. /\ delivered # None /\ delivered.to = k /\ request[k] = "RemoveMatch"
      /\ delivered' = None
      /\ ~daemonRule
      /\ UNCHANGED daemonRule
  BY DEF RemoveMatchReturns, Resumed, IInv, Replied
<1>2. Returned(k)
  BY <1>1 DEF RemoveMatchReturns, Returned, IInv, Typed
<1>3. (\E to : Steps(k, to)) /\ Touches(k)
  <2>1. Typed /\ k \in Users \cup {Connector}
    BY DEF IInv, Users
  <2> QED
    BY <2>1, ReleaseNextSteps DEF RemoveMatchReturns, Touches
<1> QED
  BY <1>2, <1>3, CoroutineRuns

LEMMA CloseReleaseReturnsKeeps ==
  ASSUME IInv, NEW k \in Closers, CloseReleaseReturns(k)  PROVE  IInv'
<1>1. Returned(k)
  BY OtherReply DEF CloseReleaseReturns, Requests
<1>2. (\E to : Steps(k, to)) /\ Touches(k)
  BY ReleaseNextSteps DEF CloseReleaseReturns, Touches, IInv
<1> QED
  BY <1>1, <1>2, CoroutineRuns

\* Whoever is cancelled leaves the queue.
LEMMA CancelWaitKeeps ==
  ASSUME IInv, NEW p \in Senders, CancelWait(p)  PROVE  IInv'
<1>1. Typed /\ Queued /\ Connection /\ Rules
  BY InvariantParts DEF Queues
<1>2. /\ p \in Procs /\ p # LossHandler /\ p # Connector /\ p \notin Closers
      /\ pc[p] = "waiting"
  BY ProcsAssumption DEF CancelWait, Procs, Users
<1>3. PICK i \in DOMAIN waiters : waiters[i] = p /\ waiters' = RemoveAt(waiters, i)
  BY DEF CancelWait
<1>4. /\ waiters' \in Seq(Users \cup {Connector}) /\ Distinct(waiters')
      /\ Range(waiters') \subseteq Range(waiters) \ {p}
  BY <1>1, <1>3, RemoveAtDistinct DEF Typed, Queued
<1>5. /\ pc' \in [Procs -> PCs]
      /\ \A q \in Procs : pc'[q] = IF q = p THEN "cancelled" ELSE pc[q]
  BY <1>1 DEF CancelWait, Typed, PCs
<1>6. Range(waiters) \subseteq Procs /\ Range(finishers) \subseteq Procs
  <2>1. /\ \A j \in DOMAIN waiters : waiters[j] \in Users \cup {Connector}
        /\ \A j \in DOMAIN finishers : finishers[j] \in Closers \cup {LossHandler}
    BY <1>1, ElementOfSeq, LenProperties DEF Typed
  <2> QED
    BY <2>1 DEF Range, Procs, Users
<1>7. Queues'
  <2>1. \A q \in Range(waiters') : pc'[q] = "waiting"
    BY <1>1, <1>4, <1>5, <1>6 DEF Queued
  <2>2. finishers' = finishers /\ \A q \in Range(finishers) : pc'[q] = "finishing"
    BY <1>1, <1>2, <1>5, <1>6 DEF CancelWait, loop, Queued
  <2> QED
    BY <1>1, <1>4, <1>5, <2>1, <2>2 DEF Queues, Queued, Typed
<1>8. Typed'
  BY <1>1, <1>7 DEF CancelWait, Typed, Queues, socket, flags, loop, registry
<1>9. Connection'
  <2>1. Elsewhere
    BY <1>2, <1>5 DEF Elsewhere, Procs, Users
  <2> QED
    BY <1>1, <2>1, ConnectionStays DEF CancelWait, loop
<1>10. Rules'
  BY <1>1, <1>2, <1>5, RulesStay DEF CancelWait, registry
<1> QED
  BY <1>7, <1>8, <1>9, <1>10 DEF IInv, Queues, Connection, Rules

-----------------------------------------------------------------------------
(* The read loop and the environment                                       *)

\* A step that moves no coroutine leaves the queues alone.
LEMMA QueuesStay ==
  ASSUME Queues, UNCHANGED <<pc, waiters, finishers>>
  PROVE  Queues'
  BY DEF Queues, Queued

LEMMA DeliverKeeps ==
  ASSUME IInv, NEW p \in Procs, Deliver(p)  PROVE  IInv'
<1>1. Typed /\ Queues /\ Connection /\ Rules
  BY InvariantParts
<1>2. /\ readLoop = "reading" /\ delivered = None /\ pc[p] = "awaiting"
      /\ UNCHANGED <<pc, request, link, socketOpen, connectionReady, shouldQuit,
                     waiters, finishers, hasRule>>
      /\ readLoop' = IF shouldQuit THEN "ended" ELSE readLoop
      /\ finished' = IF shouldQuit THEN TRUE ELSE finished
  BY DEF Deliver, socket, flags, waiting
<1>3. PICK ok \in BOOLEAN :
        /\ delivered' = [to |-> p, ok |-> ok]
        /\ ok /\ request[p] = "AddMatch" => daemonRule'
        /\ ok /\ request[p] = "RemoveMatch" => ~daemonRule'
        /\ request[p] \notin {"AddMatch", "RemoveMatch"} => daemonRule' = daemonRule
        /\ ~ok => daemonRule' = daemonRule
        /\ daemonRule' \in BOOLEAN
  BY <1>1 DEF Deliver, Typed
<1>4. /\ delivered' \in [to : Procs, ok : BOOLEAN]
      /\ delivered' # None /\ delivered'.to = p /\ delivered'.ok = ok
  <2>1. delivered' \in [to : Procs, ok : BOOLEAN]
    BY <1>3
  <2> QED
    BY <1>3, <2>1, ProcsAssumption
<1>5. Queues'
  BY <1>1, <1>2, QueuesStay
<1>6. Typed'
  BY <1>1, <1>2, <1>3, <1>4 DEF Typed
<1>7. Connection'
  <2>1. LoopRuns' /\ LossHandled'
    BY <1>1, <1>2 DEF Connection, LoopRuns, LossHandled
  <2>2. LostStaysLost' /\ OwnCloseIsNoLoss' /\ ReadyMeansReading'
    BY <1>1, <1>2 DEF Connection, LostStaysLost, OwnCloseIsNoLoss, ReadyMeansReading
  <2>3. LoopEndsBeforeClose'
    BY <1>1, <1>2 DEF Connection, LoopEndsBeforeClose
  <2> QED
    BY <2>1, <2>2, <2>3 DEF Connection
<1>8. Rules'
  <2>1. hasRule = daemonRule
    BY <1>1, <1>2 DEF Rules, RulesAgree, Typed
  <2>2. Replied'
    BY <1>2, <1>3, <1>4, <2>1 DEF Replied
  <2>3. RulesAgree'
    BY <1>2, <1>3, <1>4, <2>1 DEF RulesAgree
  <2> QED
    BY <2>2, <2>3 DEF Rules
<1> QED
  BY <1>5, <1>6, <1>7, <1>8 DEF IInv, Queues, Connection, Rules

\* Nobody has handled a loss before, and nobody has got past CloseData().
LEMMA ReadFailsKeeps ==
  ASSUME IInv, ReadFails  PROVE  IInv'
<1>1. Typed /\ Queues /\ Connection /\ Rules
  BY InvariantParts
<1>2. /\ readLoop = "reading" /\ delivered = None /\ pc[LossHandler] = "idle"
      /\ readLoop' = "ended" /\ finished' = TRUE /\ delivered' = None
      /\ hasRule' = hasRule /\ daemonRule' = daemonRule
      /\ ~link \/ ~socketOpen
      /\ pc[Connector] \notin {"connecting", "authenticating"}
  BY <1>1 DEF ReadFails, Connection, LossHandled, LoopRuns, registry
<1>3. hasRule' = daemonRule'
  BY <1>1, <1>2 DEF Rules, RulesAgree, Typed
<1>4. Rules'
  BY <1>2, <1>3, RulesSettled
<1>5. \A k \in Closers : pc[k] # "closed"
  BY <1>1, <1>2 DEF Connection, LoopEndsBeforeClose
<1>6. CASE shouldQuit /\ UNCHANGED <<pc, request, name, socket, flags, waiting, finishers>>
  <2>1. Queues'
    BY <1>1, <1>6, QueuesStay DEF waiting
  <2>2. Typed'
    BY <1>1, <1>2, <1>6 DEF Typed, socket, flags, waiting
  <2>3. LoopRuns' /\ LossHandled' /\ LostStaysLost' /\ OwnCloseIsNoLoss' /\ ReadyMeansReading'
    BY <1>1, <1>2, <1>6 DEF Connection, LoopRuns, LossHandled, LostStaysLost,
         OwnCloseIsNoLoss, ReadyMeansReading, socket, flags
  <2>4. LoopEndsBeforeClose'
    BY <1>2, <1>5, <1>6 DEF LoopEndsBeforeClose
  <2> QED
    BY <1>4, <2>1, <2>2, <2>3, <2>4 DEF IInv, Queues, Rules
<1>7. CASE ~shouldQuit /\ HandleConnectionLost
  <2>1. /\ LossHandler \in Procs /\ LossHandler # Connector /\ LossHandler \notin Closers
    BY ProcsAssumption DEF Procs, Users
  <2>2. Goes(LossHandler, "finishing")
    BY <1>7 DEF HandleConnectionLost, Leave, waiting, Goes, PCs
  <2>3. \A q \in Procs : pc'[q] = IF q = LossHandler THEN "finishing" ELSE pc[q]
    BY <1>1, <2>2 DEF Goes, Typed
  <2>4. Queues'
    BY <1>1, <1>2, <2>1, <2>2, QueuesAfterGoing DEF Queues
  <2>5. Typed'
    BY <1>1, <1>2, <1>7, <2>4 DEF Typed, Queues, HandleConnectionLost, Leave, CloseSocket
  <2>6. ~link
    BY <1>1, <1>2, <1>7 DEF Connection, LoopRuns
  <2>7. LoopRuns' /\ LossHandled'
    BY <1>2, <1>7, <2>1, <2>3 DEF LoopRuns, LossHandled, HandleConnectionLost,
         CloseSocket, Procs
  <2>8. LostStaysLost' /\ OwnCloseIsNoLoss' /\ ReadyMeansReading'
    BY <1>7, <2>6 DEF LostStaysLost, OwnCloseIsNoLoss, ReadyMeansReading,
         HandleConnectionLost, CloseSocket
  <2>9. LoopEndsBeforeClose'
    BY <1>2, <1>5, <2>1, <2>3 DEF LoopEndsBeforeClose, Procs, Users
  <2> QED
    BY <1>4, <2>4, <2>5, <2>7, <2>8, <2>9 DEF IInv, Queues, Rules
<1> QED
  BY <1>6, <1>7 DEF ReadFails

\* Nobody has got past CloseData() as long as the loop's message is pending.
LEMMA FinishKeeps ==
  ASSUME IInv, Finish  PROVE  IInv'
<1> DEFINE h == Head(finishers)
           rest == Tail(finishers)
<1>1. Typed /\ Queued /\ Connection /\ Rules
  BY InvariantParts DEF Queues
<1>2. /\ finishers # <<>> /\ finishers \in Seq(Closers \cup {LossHandler})
      /\ Distinct(finishers)
  BY <1>1 DEF Finish, Typed, Queued
<1>3. /\ h \in Closers \cup {LossHandler} /\ h \in Range(finishers)
      /\ rest \in Seq(Closers \cup {LossHandler}) /\ Distinct(rest)
      /\ Range(rest) = Range(finishers) \ {h}
  BY <1>2, TailDistinct
<1>4. /\ pc[h] = "finishing" /\ h \in Procs /\ h # Connector
      /\ LossHandler \in Procs /\ Connector \in Procs
      /\ LossHandler \notin Closers /\ Closers \subseteq Procs
  BY <1>1, <1>3, ProcsAssumption DEF Queued, Procs, Users
<1>5. PICK to \in {"posted", "closed"} :
        /\ pc' = [pc EXCEPT ![h] = to]
        /\ to = "posted" <=> h = LossHandler
  BY DEF Finish, Leave
<1>6. /\ finished /\ finished' = FALSE /\ finishers' = rest
      /\ UNCHANGED <<request, waiters, socket, flags, readLoop, delivered,
                     hasRule, daemonRule>>
  BY DEF Finish, Leave, waiting, registry
<1> HIDE DEF h, rest
<1>7. /\ pc' \in [Procs -> PCs]
      /\ \A q \in Procs : pc'[q] = IF q = h THEN to ELSE pc[q]
  BY <1>1, <1>4, <1>5 DEF Typed, PCs
<1>8. Range(waiters) \subseteq Procs /\ Range(finishers) \subseteq Procs
  <2>1. /\ \A i \in DOMAIN waiters : waiters[i] \in Users \cup {Connector}
        /\ \A i \in DOMAIN finishers : finishers[i] \in Closers \cup {LossHandler}
    BY <1>1, ElementOfSeq, LenProperties DEF Typed
  <2> QED
    BY <2>1 DEF Range, Procs, Users
<1>9. Queues'
  <2>1. \A q \in Range(waiters) : pc'[q] = "waiting"
    BY <1>1, <1>4, <1>7, <1>8 DEF Queued
  <2>2. \A q \in Range(rest) : pc'[q] = "finishing"
    BY <1>1, <1>3, <1>7, <1>8 DEF Queued
  <2> QED
    BY <1>1, <1>3, <1>6, <1>7, <2>1, <2>2 DEF Queues, Queued, Typed
<1>10. Typed'
  BY <1>1, <1>6, <1>9 DEF Typed, Queues, socket, flags
<1>11. Connection'
  <2>1. \/ pc'[LossHandler] = pc[LossHandler]
        \/ /\ h = LossHandler
           /\ pc[LossHandler] # "idle" /\ pc'[LossHandler] = "posted"
    <3>1. CASE h = LossHandler
      BY <1>4, <1>5, <1>7, <3>1
    <3>2. CASE h # LossHandler
      BY <1>4, <1>7, <3>2
    <3> QED
      BY <3>1, <3>2
  <2>2. pc'[Connector] = pc[Connector]
    BY <1>4, <1>7
  <2>3. LoopRuns' /\ LossHandled'
    BY <1>1, <1>6, <2>1, <2>2 DEF Connection, LoopRuns, LossHandled, socket, flags
  <2>4. LostStaysLost' /\ OwnCloseIsNoLoss' /\ ReadyMeansReading'
    BY <1>1, <1>6, <2>1 DEF Connection, LostStaysLost, OwnCloseIsNoLoss,
         ReadyMeansReading, socket, flags
  <2>5. /\ \A k \in Closers : pc[k] # "closed"
        /\ pc[LossHandler] \notin {"posted", "done"}
    BY <1>1, <1>6 DEF Connection, LoopEndsBeforeClose
  <2>6. /\ \A k \in Closers : pc'[k] = "closed" => k = h
        /\ pc'[LossHandler] \in {"posted", "done"} => h = LossHandler
    BY <1>4, <1>7, <2>5
  <2>7. readLoop' = "ended" /\ ~finished'
    BY <1>1, <1>6 DEF Connection, LoopRuns
  <2>8. LoopEndsBeforeClose'
    BY <2>6, <2>7 DEF LoopEndsBeforeClose
  <2> QED
    BY <2>3, <2>4, <2>8 DEF Connection
<1>12. Rules'
  <2>1. \A q \in Procs : q # h => pc'[q] = pc[q] /\ request'[q] = request[q]
    BY <1>6, <1>7
  <2> QED
    BY <1>1, <1>4, <1>6, <2>1, RulesStay
<1> QED
  BY <1>9, <1>10, <1>11, <1>12 DEF IInv, Queues, Connection, Rules

LEMMA OnDisconnectedKeeps ==
  ASSUME IInv, OnDisconnected  PROVE  IInv'
<1>1. Typed /\ Queued /\ Connection /\ Rules
  BY InvariantParts DEF Queues
<1>2. /\ LossHandler \in Procs /\ LossHandler # Connector /\ LossHandler \notin Closers
      /\ Connector \in Procs /\ Closers \subseteq Procs
  BY ProcsAssumption DEF Procs, Users
<1>3. /\ pc[LossHandler] = "posted" /\ Goes(LossHandler, "done")
      /\ UNCHANGED <<request, socket, flags, readLoop, finished, delivered,
                     hasRule, daemonRule>>
  BY DEF OnDisconnected, Leave, waiting, loop, registry, Goes, PCs
<1>4. \A q \in Procs : pc'[q] = IF q = LossHandler THEN "done" ELSE pc[q]
  BY <1>1, <1>3 DEF Goes, Typed
<1>5. Queues'
  BY <1>1, <1>2, <1>3, QueuesAfterGoing
<1>6. Typed'
  BY <1>1, <1>3, <1>5 DEF Typed, Queues, socket, flags
<1>7. Connection'
  <2>1. LoopRuns' /\ LossHandled'
    BY <1>1, <1>2, <1>3, <1>4 DEF Connection, LoopRuns, LossHandled, socket, flags
  <2>2. LostStaysLost' /\ OwnCloseIsNoLoss' /\ ReadyMeansReading'
    BY <1>1, <1>3 DEF Connection, LostStaysLost, OwnCloseIsNoLoss,
         ReadyMeansReading, socket, flags
  <2>3. LoopEndsBeforeClose'
    BY <1>1, <1>2, <1>3, <1>4 DEF Connection, LoopEndsBeforeClose
  <2> QED
    BY <2>1, <2>2, <2>3 DEF Connection
<1>8. Rules'
  BY <1>1, <1>2, <1>3, <1>4, RulesStay
<1> QED
  BY <1>5, <1>6, <1>7, <1>8 DEF IInv, Queues, Connection, Rules

LEMMA LoseKeeps ==
  ASSUME IInv, Lose  PROVE  IInv'
<1>1. Typed /\ Queues /\ Connection /\ Rules
  BY InvariantParts
<1>2. /\ link' = FALSE
      /\ UNCHANGED <<pc, request, socketOpen, flags, waiters, readLoop, finished,
                     finishers, delivered, hasRule, daemonRule>>
  BY DEF Lose, waiting, loop, registry
<1>3. Queues'
  BY <1>1, <1>2, QueuesStay
<1>4. Typed'
  BY <1>1, <1>2, <1>3 DEF Typed, flags
<1>5. LoopRuns' /\ LossHandled'
  BY <1>1, <1>2 DEF Connection, LoopRuns, LossHandled, flags
<1>6. LostStaysLost' /\ OwnCloseIsNoLoss' /\ ReadyMeansReading' /\ LoopEndsBeforeClose'
  BY <1>1, <1>2 DEF Connection, LostStaysLost, OwnCloseIsNoLoss, ReadyMeansReading,
       LoopEndsBeforeClose, flags
<1>7. Replied' /\ RulesAgree'
  BY <1>1, <1>2 DEF Rules, Replied, RulesAgree
<1> QED
  BY <1>3, <1>4, <1>5, <1>6, <1>7 DEF IInv, Queues

-----------------------------------------------------------------------------
(* The invariant                                                           *)

LEMMA InitKeeps == Init => IInv
<1> SUFFICES ASSUME Init  PROVE  IInv
  OBVIOUS
<1>1. /\ Connector \in Procs /\ LossHandler \in Procs /\ Connector # LossHandler
      /\ Connector \notin Closers /\ LossHandler \notin Closers /\ Closers \subseteq Procs
  BY ProcsAssumption DEF Procs, Users
<1>2. \A q \in Procs : pc[q] = IF q = Connector THEN "connecting" ELSE "idle"
  BY DEF Init
<1>3. waiters = <<>> /\ finishers = <<>> /\ delivered = None /\ hasRule = daemonRule
  BY DEF Init
<1>4. Typed
  <2>1. pc \in [Procs -> PCs] /\ request \in [Procs -> Requests]
    BY DEF Init, PCs, Requests
  <2>2. <<>> \in Seq(Users \cup {Connector}) /\ <<>> \in Seq(Closers \cup {LossHandler})
    BY EmptySeq
  <2> QED
    BY <1>3, <2>1, <2>2 DEF Init, Typed
<1>5. Queued
  BY <1>3 DEF Queued, Distinct, Range
<1>6. Replied /\ RulesAgree
  BY <1>3 DEF Replied, RulesAgree
<1>7. LoopRuns /\ LossHandled
  BY <1>1, <1>2 DEF Init, LoopRuns, LossHandled
<1>8. LostStaysLost /\ OwnCloseIsNoLoss /\ ReadyMeansReading
  BY <1>1, <1>2 DEF Init, LostStaysLost, OwnCloseIsNoLoss, ReadyMeansReading
<1>9. LoopEndsBeforeClose
  BY <1>1, <1>2 DEF LoopEndsBeforeClose
<1> QED
  BY <1>4, <1>5, <1>6, <1>7, <1>8, <1>9 DEF IInv

LEMMA StutterKeeps ==
  ASSUME IInv, UNCHANGED vars  PROVE  IInv'
<1>1. Typed /\ Queues /\ Connection /\ Rules
  BY InvariantParts
<1>2. UNCHANGED <<pc, request, link, socketOpen, connectionReady, shouldQuit, waiters,
                  readLoop, finished, finishers, delivered, hasRule, daemonRule>>
  BY DEF vars, socket, flags, waiting, loop, registry
<1>3. Queues' /\ Typed'
  BY <1>1, <1>2, QueuesStay DEF Typed
<1>4. LoopRuns' /\ LossHandled' /\ Replied' /\ RulesAgree'
  BY <1>1, <1>2 DEF Connection, Rules, LoopRuns, LossHandled, Replied, RulesAgree
<1>5. LostStaysLost' /\ OwnCloseIsNoLoss' /\ ReadyMeansReading' /\ LoopEndsBeforeClose'
  BY <1>1, <1>2 DEF Connection, LostStaysLost, OwnCloseIsNoLoss, ReadyMeansReading,
       LoopEndsBeforeClose
<1> QED
  BY <1>3, <1>4, <1>5 DEF IInv, Queues

LEMMA UserKeeps ==
  ASSUME IInv, NEW p \in Users, UserReturns(p) \/ UserCalls(p)
  PROVE  IInv'
<1>1. CASE p \in Senders
           /\ (SendReturns(p) \/ Send(p) \/ CancelWait(p))
  BY <1>1, SendReturnsKeeps, SendKeeps, CancelWaitKeeps
<1>2. CASE p \in Owners
           /\ \/ RequestNameReturns(p) \/ ReleaseNameReturns(p)
              \/ \E n \in Names : RequestName(p, n) \/ ReleaseName(p, n)
  BY <1>2, NameReturnsKeeps, NameCallKeeps
<1>3. CASE p \in Closers
           /\ (RemoveMatchReturns(p) \/ CloseReleaseReturns(p) \/ Close(p))
  BY <1>3, RemoveMatchReturnsKeeps, CloseReleaseReturnsKeeps, CloseKeeps
<1> QED
  BY <1>1, <1>2, <1>3 DEF UserReturns, UserCalls

\* Every step keeps the invariant: what the queues, the socket, the read loop,
\* the handed-over reply and the rule say of each other in DBusConnection.txx.
THEOREM Invariance == Spec => []IInv
<1>1. IInv /\ [Next]_vars => IInv'
  <2> SUFFICES ASSUME IInv, [Next]_vars  PROVE  IInv'
    OBVIOUS
  <2>1. CASE ConnectNext
    BY <2>1, ConnectedKeeps, AuthenticatedKeeps, AuthenticationFailsKeeps,
       HelloReturnsKeeps, ConnectNameReturnsKeeps, NotifyKeeps, SubscribeReturnsKeeps
       DEF ConnectNext
  <2>2. CASE \E p \in Users : UserReturns(p) \/ UserCalls(p)
    BY <2>2, UserKeeps
  <2>3. CASE \E p \in Procs : Deliver(p) \/ Refused(p)
    BY <2>3, DeliverKeeps, RefusedKeeps
  <2>4. CASE ReadFails \/ Finish \/ OnDisconnected \/ Lose
    BY <2>4, ReadFailsKeeps, FinishKeeps, OnDisconnectedKeeps, LoseKeeps
  <2>5. CASE UNCHANGED vars
    BY <2>5, StutterKeeps
  <2> QED
    BY <2>1, <2>2, <2>3, <2>4, <2>5 DEF Next
<1> QED
  BY <1>1, InitKeeps, PTL DEF Spec

\* Once HandleConnectionLost() runs, the connection never looks connected again,
\* whichever step of the handshake comes after.
THEOREM LossIsFinal == Spec => []LostStaysLost
<1>1. IInv => LostStaysLost
  BY DEF IInv
<1> QED
  BY <1>1, Invariance, PTL

\* The failed read that a Close() provokes is never taken for a lost connection.
THEOREM LossIsTheDaemons == Spec => []OwnCloseIsNoLoss
<1>1. IInv => OwnCloseIsNoLoss
  BY DEF IInv
<1> QED
  BY <1>1, Invariance, PTL

\* As long as nobody has begun to close a ready connection, its socket is open
\* and ReadLoop() is running.
THEOREM ReadyIsRead == Spec => []ReadyMeansReading
<1>1. IInv => ReadyMeansReading
  BY DEF IInv
<1> QED
  BY <1>1, Invariance, PTL

\* The NameOwnerChanged rule is in matchRules exactly when the daemon has it,
\* but for the time its reply takes to its coroutine.
THEOREM RuleIsAgreed == Spec => []RulesAgree
<1>1. IInv => RulesAgree
  BY DEF IInv
<1> QED
  BY <1>1, Invariance, PTL

\* CloseData() returns to one coroutine only, and to none while ReadLoop() runs.
THEOREM LoopEndsFirst == Spec => []LoopEndsBeforeClose
<1>1. IInv => LoopEndsBeforeClose
  BY DEF IInv
<1> QED
  BY <1>1, Invariance, PTL

-----------------------------------------------------------------------------
(* The names                                                               *)

\* What is left of the names when one is removed is names.
LEMMA WithoutType ==
  ASSUME names \in Seq(Names), NEW n
  PROVE  Without(n) \in Seq(Names)
<1> DEFINE T == Seq(Names)
           L == Len(names)
           step(kept, m) == IF m = n THEN kept ELSE Append(kept, m)
           fold(f) == [s \in SUBSET DOMAIN names |->
                         IF s = {} THEN <<>> ELSE step(f[s \ {Max(s)}], names[Max(s)])]
<1>1. DOMAIN names = 1 .. L /\ L \in Nat /\ \A i \in 1 .. L : names[i] \in Names
  BY LenProperties, ElementOfSeq
<1>2. <<>> \in T /\ \A kept \in T : \A m \in Names : step(kept, m) \in T
  BY EmptySeq, AppendProperties
<1>3. Without(n) = (CHOOSE f : f = fold(f))[DOMAIN names]
  BY DEF Without, FoldLeft, MapThenFoldSet
<1> HIDE DEF step, T, L
<1>4. \E f : f = fold(f)
  <2> DEFINE h == [x \in T \X (1 .. L) |-> step(x[1], names[x[2]])]
  <2>1. IsStep(h, T, L)
    BY <1>1, <1>2 DEF IsStep
  <2>2. PICK f : IsFold(f, T, L, <<>>, h)
    BY <1>1, <1>2, <2>1, FoldExists
  <2>3. ASSUME NEW s \in SUBSET (1 .. L), s # {}
        PROVE  f[s] = step(f[s \ {Max(s)}], names[Max(s)])
    <3>1. Max(s) \in 1 .. L
      BY <1>1, <2>3, MaxIsGreatest
    <3>2. f[s \ {Max(s)}] \in T
      BY <2>2 DEF IsFold
    <3>3. h[<<f[s \ {Max(s)}], Max(s)>>] = step(f[s \ {Max(s)}], names[Max(s)])
      BY <3>1, <3>2 DEF h
    <3> QED
      BY <2>2, <2>3, <3>3 DEF IsFold
  <2>4. f = fold(f)
    BY <1>1, <2>2, <2>3 DEF IsFold
  <2> QED
    BY <2>4
<1> PICK f : f = CHOOSE g : g = fold(g)
  OBVIOUS
<1>5. f = fold(f)
  BY <1>4
<1>6. f[{}] = <<>>
  BY <1>5
<1>7. ASSUME NEW i \in 1 .. L, f[1 .. i - 1] \in T
      PROVE  f[1 .. i] \in T
  <2>1. 1 .. i \in SUBSET DOMAIN names /\ 1 .. i # {}
    <3>1. i \in 1 .. i /\ \A j \in 1 .. i : j \in 1 .. L
      BY <1>1
    <3> QED
      BY <1>1, <3>1
  <2>2. Max(1 .. i) = i
    <3>1. i \in Nat /\ 1 .. i \in SUBSET (1 .. i)
      BY <1>1
    <3>2. Max(1 .. i) \in 1 .. i /\ \A y \in 1 .. i : y <= Max(1 .. i)
      BY <2>1, <3>1, MaxIsGreatest
    <3> QED
      BY <3>1, <3>2
  <2>3. (1 .. i) \ {i} = 1 .. i - 1
    BY <1>1
  <2>4. f[1 .. i] = step(f[1 .. i - 1], names[i])
    BY <1>5, <2>1, <2>2, <2>3
  <2> QED
    BY <1>1, <1>2, <1>7, <2>4
<1> HIDE DEF fold
<1>8. f[1 .. L] \in T
  BY <1>1, <1>2, <1>6, <1>7, FoldEnds
<1> QED
  BY <1>1, <1>3, <1>8 DEF T

\* A request for a name says which; so many have waited.
Addressed ==
  /\ name \in [Procs -> Names \cup {None}]
  /\ \A p \in Procs : request[p] = "RequestName" => name[p] \in Names
  /\ nrOfWaiters \in Nat

NamesTyped == Addressed /\ todo \in [Closers -> Seq(Names)] /\ names \in Seq(Names)

\* A coroutine that sends a message says which name it is about.
LEMMA SendMessageAddressed ==
  ASSUME Typed, Addressed, NEW p \in Procs, NEW req, NEW n \in Names \cup {None},
         req = "RequestName" => n \in Names, NEW ready, SendMessage(p, req, n, ready)
  PROVE  Addressed'
<1>1. /\ request \in [Procs -> Requests]
      /\ request' = [request EXCEPT ![p] = req] /\ name' = [name EXCEPT ![p] = n]
  BY DEF Typed, SendMessage
<1>2. /\ name' \in [Procs -> Names \cup {None}]
      /\ \A q \in Procs : request'[q] = "RequestName" => name'[q] \in Names
  BY <1>1 DEF Addressed
<1>3. nrOfWaiters' \in Nat
  BY DEF Addressed, SendMessage, waiting
<1> QED
  BY <1>2, <1>3 DEF Addressed

LEMMA LeaveAddressed ==
  ASSUME Addressed, UNCHANGED <<request, name, nrOfWaiters>>
  PROVE  Addressed'
  BY DEF Addressed

\* The handshake asks for the name given to the constructor.
LEMMA ConnectNames ==
  ASSUME Typed, NamesTyped, ConnectNext
  PROVE  NamesTyped'
<1> Addressed /\ todo \in [Closers -> Seq(Names)] /\ names \in Seq(Names)
  BY DEF NamesTyped
<1> Connector \in Procs
  BY DEF Procs
<1>1. todo' = todo /\ names' = names
  BY DEF ConnectNext, Connected, Authenticated, AuthenticationFails, HelloReturns,
         ConnectNameReturns, Notify, SubscribeReturns, Ready, registry
<1> SUFFICES Addressed'
  BY <1>1 DEF NamesTyped
<1>2. ASSUME Ready PROVE Addressed'
  <2>1. CASE nrOfWaiters > 0
    BY <1>2, <2>1, LeaveAddressed DEF Ready, Leave, waiting
  <2>2. CASE ~(nrOfWaiters > 0)
    BY <1>2, <2>2, SendMessageAddressed DEF Ready
  <2> QED
    BY <2>1, <2>2
<1>3. CASE Connected \/ AuthenticationFails \/ SubscribeReturns
  BY <1>3, LeaveAddressed
     DEF Connected, AuthenticationFails, SubscribeReturns, Leave, waiting
<1>4. CASE Authenticated
  <2>1. request' = [request EXCEPT ![Connector] = "Hello"] /\ UNCHANGED <<name, nrOfWaiters>>
    BY <1>4 DEF Authenticated, waiting
  <2>2. \A p \in Procs : request'[p] = "RequestName" => request[p] = "RequestName"
    BY <2>1 DEF Typed
  <2> QED
    BY <2>1, <2>2 DEF Addressed
<1>5. CASE HelloReturns
  <2>1. CASE names = <<>>
    BY <1>2, <1>5, <2>1 DEF HelloReturns
  <2>2. CASE names # <<>>
    <3>1. Head(names) \in Names
      BY <2>2, HeadTailProperties
    <3>2. SendMessage(Connector, "RequestName", Head(names), TRUE)
      BY <1>5, <2>2 DEF HelloReturns
    <3> QED
      BY <3>1, <3>2, SendMessageAddressed
  <2> QED
    BY <2>1, <2>2
<1>6. CASE ConnectNameReturns
  BY <1>2, <1>6 DEF ConnectNameReturns
<1>7. CASE Notify
  <2>1. /\ request' = [request EXCEPT ![Connector] = "AddMatch"] /\ name' = name
        /\ nrOfWaiters' = nrOfWaiters \/ nrOfWaiters' = nrOfWaiters + 1
    BY <1>7 DEF Notify
  <2>2. \A p \in Procs : request'[p] = "RequestName" => request[p] = "RequestName"
    BY <2>1 DEF Typed
  <2> QED
    BY <2>1, <2>2 DEF Addressed
<1> QED
  BY <1>3, <1>4, <1>5, <1>6, <1>7 DEF ConnectNext

\* Close() releases the names one by one.
LEMMA ReleaseNextNames ==
  ASSUME Typed, Addressed, todo \in [Closers -> Seq(Names)], NEW k \in Closers,
         NEW copy \in Seq(Names), NEW held, ReleaseNext(k, copy, held)
  PROVE  Addressed' /\ todo' \in [Closers -> Seq(Names)]
<1> k \in Procs
  BY DEF Procs, Users
<1>1. CASE copy = <<>>
  BY <1>1, LeaveAddressed DEF ReleaseNext, CloseData, Leave, waiting
<1>2. CASE copy # <<>>
  <2>1. Head(copy) \in Names /\ Tail(copy) \in Seq(Names)
    BY <1>2, HeadTailProperties
  <2>2. todo' \in [Closers -> Seq(Names)]
    BY <1>2, <2>1 DEF ReleaseNext
  <2>3. CASE Head(copy) \in Range(held)
    BY <1>2, <2>1, <2>2, <2>3, SendMessageAddressed DEF ReleaseNext
  <2>4. CASE Head(copy) \notin Range(held)
    BY <1>2, <2>2, <2>4, LeaveAddressed DEF ReleaseNext, Leave, waiting
  <2> QED
    BY <2>3, <2>4
<1> QED
  BY <1>1, <1>2

\* RequestWellKnownName() adds the name it asked for to wellKnownNames, and a release
\* takes one off.
LEMMA UserNames ==
  ASSUME Typed, NamesTyped, NEW p \in Users, UserReturns(p) \/ UserCalls(p)
  PROVE  NamesTyped'
<1> Addressed /\ todo \in [Closers -> Seq(Names)] /\ names \in Seq(Names)
  BY DEF NamesTyped
<1> p \in Procs
  BY DEF Procs
<1>1. CASE p \in Senders /\ (SendReturns(p) \/ CancelWait(p))
  BY <1>1, LeaveAddressed
     DEF SendReturns, CancelWait, Leave, waiting, registry, NamesTyped
<1>2. CASE p \in Senders /\ Send(p)
  <2>1. SendMessage(p, "call", None, connectionReady) /\ UNCHANGED <<todo, names>>
    BY <1>2 DEF Send, registry
  <2> QED
    BY <2>1, SendMessageAddressed DEF NamesTyped
<1>3. CASE p \in Owners /\ RequestNameReturns(p)
  <2>1. /\ UNCHANGED <<request, name, nrOfWaiters, todo>>
        /\ request[p] = "RequestName" /\ names' = Append(names, name[p])
    BY <1>3 DEF RequestNameReturns, Resumed, Leave, waiting
  <2>2. name[p] \in Names
    BY <2>1 DEF Addressed
  <2>3. names' \in Seq(Names)
    BY <2>1, <2>2, AppendProperties
  <2> QED
    BY <2>1, <2>3, LeaveAddressed DEF NamesTyped
<1>4. CASE p \in Owners /\ ReleaseNameReturns(p)
  <2>1. UNCHANGED <<request, name, nrOfWaiters, todo>> /\ names' = Without(name[p])
    BY <1>4 DEF ReleaseNameReturns, Leave, waiting
  <2> QED
    BY <2>1, LeaveAddressed, WithoutType DEF NamesTyped
<1>5. CASE p \in Owners /\ \E n \in Names : RequestName(p, n) \/ ReleaseName(p, n)
  <2> PICK n \in Names : RequestName(p, n) \/ ReleaseName(p, n)
    BY <1>5
  <2>1. UNCHANGED <<todo, names>>
    BY DEF RequestName, ReleaseName, registry
  <2>2. \/ Leave(p, "threw")
        \/ SendMessage(p, "RequestName", n, connectionReady)
        \/ SendMessage(p, "ReleaseName", n, connectionReady)
    BY DEF RequestName, ReleaseName
  <2>3. Addressed'
    BY <2>2, SendMessageAddressed, LeaveAddressed DEF Leave, waiting
  <2> QED
    BY <2>1, <2>3 DEF NamesTyped
<1>6. CASE p \in Closers /\ RemoveMatchReturns(p)
  <2>1. names' = names
    BY <1>6 DEF RemoveMatchReturns
  <2> QED
    BY <1>6, <2>1, ReleaseNextNames DEF RemoveMatchReturns, NamesTyped
<1>7. CASE p \in Closers /\ CloseReleaseReturns(p)
  <2>1. names' \in Seq(Names)
    BY <1>7, WithoutType DEF CloseReleaseReturns
  <2>2. todo[p] \in Seq(Names) /\ ReleaseNext(p, todo[p], names')
    BY <1>7 DEF CloseReleaseReturns
  <2> PICK copy, held : copy = todo[p] /\ held = names'
    OBVIOUS
  <2>3. ReleaseNext(p, copy, held)
    BY <2>2
  <2>4. Addressed' /\ todo' \in [Closers -> Seq(Names)]
    BY <1>7, <2>2, <2>3, ReleaseNextNames
  <2> QED
    BY <2>1, <2>4 DEF NamesTyped
<1>8. CASE p \in Closers /\ Close(p)
  <2>1. names' = names
    BY <1>8 DEF Close, registry
  <2>2. \/ (Leave(p, "done") \/ CloseData(p)) /\ UNCHANGED todo
        \/ SendMessage(p, "RemoveMatch", None, TRUE) /\ UNCHANGED todo
        \/ ReleaseNext(p, names, names)
    BY <1>8 DEF Close
  <2>3. CASE (Leave(p, "done") \/ CloseData(p)) /\ UNCHANGED todo
    BY <2>1, <2>3, LeaveAddressed DEF CloseData, Leave, waiting, NamesTyped
  <2>4. CASE SendMessage(p, "RemoveMatch", None, TRUE) /\ UNCHANGED todo
    BY <2>1, <2>4, SendMessageAddressed DEF NamesTyped
  <2>5. CASE ReleaseNext(p, names, names)
    BY <1>8, <2>1, <2>5, ReleaseNextNames DEF NamesTyped
  <2> QED
    BY <2>2, <2>3, <2>4, <2>5
<1> QED
  BY <1>1, <1>2, <1>3, <1>4, <1>5, <1>6, <1>7, <1>8 DEF UserReturns, UserCalls

\* The variables of the connection keep their types: what Close() releases, and what
\* RequestWellKnownName() lists when its reply comes, are names.
THEOREM TypeCorrect == Spec => []TypeOK
<1>1. Init => NamesTyped
  <2> SUFFICES ASSUME Init PROVE NamesTyped
    OBVIOUS
  <2>1. names \in Seq(Names) /\ <<>> \in Seq(Names)
    BY NamesAssumption, EmptySeq DEF Init
  <2>2. Addressed
    BY DEF Init, Addressed
  <2> QED
    BY <2>1, <2>2 DEF Init, NamesTyped
<1>2. IInv /\ NamesTyped /\ [Next]_vars => NamesTyped'
  <2> SUFFICES ASSUME IInv, NamesTyped, [Next]_vars PROVE NamesTyped'
    OBVIOUS
  <2> Typed
    BY DEF IInv
  <2>1. CASE ConnectNext
    BY <2>1, ConnectNames
  <2>2. CASE \E p \in Users : UserReturns(p) \/ UserCalls(p)
    BY <2>2, UserNames
  <2>3. CASE \/ \E p \in Procs : Deliver(p) \/ Refused(p)
             \/ ReadFails \/ Finish \/ OnDisconnected \/ Lose \/ UNCHANGED vars
    <3>1. UNCHANGED <<request, name, nrOfWaiters, todo, names>>
      BY <2>3 DEF Deliver, Refused, ReadFails, HandleConnectionLost, Finish, OnDisconnected,
                  Lose, Leave, waiting, registry, vars
    <3> QED
      BY <3>1, LeaveAddressed DEF NamesTyped
  <2> QED
    BY <2>1, <2>2, <2>3 DEF Next
<1>3. IInv /\ NamesTyped => TypeOK
  <2> SUFFICES ASSUME IInv, NamesTyped PROVE TypeOK
    OBVIOUS
  <2>1. waiters \in Seq(Procs) /\ finishers \in Seq(Procs)
    <3>1. Users \cup {Connector} \subseteq Procs /\ Closers \cup {LossHandler} \subseteq Procs
      BY DEF Procs, Users
    <3> QED
      BY <3>1, SeqDef DEF IInv, Typed
  <2> QED
    BY <2>1 DEF IInv, Typed, NamesTyped, Addressed, TypeOK
<1> QED
  BY <1>1, <1>2, <1>3, Invariance, PTL DEF Spec
================================================================================
