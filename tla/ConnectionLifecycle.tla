-------------------------- MODULE ConnectionLifecycle --------------------------
(***************************************************************************)
(* From Connect() to Close(): the connection handshake, the messages queued *)
(* until it is done, the read loop, the loss of the daemon and the          *)
(* coroutines that close the connection (src/src/DBusConnection.txx).       *)
(*                                                                         *)
(* Each coroutine is a process; an action is a stretch of code between two  *)
(* suspension points.  The executor is a FIFO: the read loop runs again     *)
(* only after the coroutine it handed a reply to ("delivered"), but calls   *)
(* of the user may come in between.  ReplyChannels shows that a reply       *)
(* reaches its caller, so a request and its reply are one step each here.   *)
(***************************************************************************)
EXTENDS Integers, Sequences, SequencesExt

CONSTANTS
  Connector,  \* the coroutine of Connect()
  LossHandler,\* the coroutine of HandleConnectionLost()
  Senders,    \* user coroutines in SendMessage()
  Closers,    \* user coroutines in Close()
  Owners,     \* user coroutines in Request- or ReleaseWellKnownName()
  Names,      \* well-known names
  OwnNames,   \* the name given to the constructor, in a sequence, or none
  Faults,     \* what the environment may do, a subset of AllFaults
  None        \* no reply delivered

AllFaults == {"loss", "reject", "refuse", "cancel", "early close"}

Users == Senders \cup Closers \cup Owners
Procs == Users \cup {Connector, LossHandler}

ASSUME ProcsAssumption ==
  /\ Connector # LossHandler
  /\ {Connector, LossHandler} \cap Users = {}
  /\ Senders \cap Closers = {} /\ Senders \cap Owners = {}
  /\ Closers \cap Owners = {}
  /\ None \notin [to : Procs, ok : BOOLEAN]
ASSUME NamesAssumption ==
  /\ OwnNames \in Seq(Names) /\ Len(OwnNames) <= 1
  /\ None \notin Names
  /\ Faults \subseteq AllFaults

Requests == {"Hello", "RequestName", "AddMatch", "RemoveMatch", "ReleaseName",
             "call"}

VARIABLES
  pc,              \* where each coroutine is suspended
  request,         \* the message it sends, or awaits the reply to
  name,            \* the name in that message
  todo,            \* CloseImpl's copy of wellKnownNames, less those released
  link,            \* the daemon is at the other end of the socket
  socketOpen,      \* InternalState::socket.is_open()
  connectionReady, \* InternalState::connectionReady
  shouldQuit,      \* InternalState::shouldQuit
  nrOfWaiters,     \* InternalState::nrOfWaiters
  waiters,         \* receivers suspended on connectionCompleted
  readLoop,        \* ReadLoop(): not started, reading or ended
  finished,        \* its async_send on readLoopFinished is pending
  finishers,       \* receivers suspended on readLoopFinished
  delivered,       \* a reply whose coroutine has not been resumed yet
  hasRule,         \* matchRules holds the NameOwnerChanged rule
  daemonRule,      \* the daemon does
  names            \* InternalState::wellKnownNames

socket    == <<link, socketOpen>>
flags     == <<connectionReady, shouldQuit>>
waiting   == <<nrOfWaiters, waiters>>
loop      == <<readLoop, finished, finishers>>
registry  == <<hasRule, daemonRule, names>>
vars == <<pc, request, name, todo, socket, flags, waiting, loop, delivered,
          registry>>

PCs == {"idle", "connecting", "authenticating", "notifying", "waiting",
        "awaiting", "finishing", "closed", "posted", "done", "threw",
        "cancelled"}

TypeOK ==
  /\ pc \in [Procs -> PCs]
  /\ request \in [Procs -> Requests]
  /\ name \in [Procs -> Names \cup {None}]
  /\ todo \in [Closers -> Seq(Names)]
  /\ {link, socketOpen, connectionReady, shouldQuit, finished, hasRule,
      daemonRule} \subseteq BOOLEAN
  /\ nrOfWaiters \in Nat
  /\ waiters \in Seq(Procs)
  /\ finishers \in Seq(Procs)
  /\ readLoop \in {"off", "reading", "ended"}
  /\ delivered \in [to : Procs, ok : BOOLEAN] \cup {None}
  /\ names \in Seq(Names)

\* Connect() has called async_connect, which opens the socket.
Init ==
  /\ pc = [p \in Procs |-> IF p = Connector THEN "connecting" ELSE "idle"]
  /\ request = [p \in Procs |-> "call"]
  /\ name = [p \in Procs |-> None]
  /\ todo = [k \in Closers |-> <<>>]
  /\ link = TRUE /\ socketOpen = TRUE
  /\ connectionReady = FALSE /\ shouldQuit = FALSE
  /\ nrOfWaiters = 0 /\ waiters = <<>>
  /\ readLoop = "off" /\ finished = FALSE /\ finishers = <<>>
  /\ delivered = None
  /\ hasRule = FALSE /\ daemonRule = FALSE /\ names = OwnNames
--------------------------------------------------------------------------------
(* Sending a request *)

\* async_write fails on a closed socket or one the daemon has left.
Written == IF link /\ socketOpen THEN "awaiting" ELSE "threw"

\* SendMessage(): wait for the connection unless "ready", then write.
SendMessage(p, req, n, ready) ==
  /\ request' = [request EXCEPT ![p] = req]
  /\ name' = [name EXCEPT ![p] = n]
  /\ IF ready
       THEN /\ pc' = [pc EXCEPT ![p] = Written]
            /\ UNCHANGED waiting
       ELSE /\ pc' = [pc EXCEPT ![p] = "waiting"]
            /\ waiters' = Append(waiters, p)
            /\ nrOfWaiters' = nrOfWaiters + 1

\* A coroutine leaves its code with pc "to"; it sends nothing.
Leave(p, to) ==
  /\ pc' = [pc EXCEPT ![p] = to]
  /\ UNCHANGED <<request, name, waiting>>

\* The reply of p's request is in its channel, p runs next and goes on.
Resumed(p, req) ==
  /\ delivered # None
  /\ delivered.to = p /\ delivered.ok
  /\ request[p] = req
  /\ delivered' = None

\* An ERROR reply is thrown where the request was made, and nobody catches it:
\* out of Connect(), of Close() half way, or of the user's own call.
Refused(p) ==
  /\ delivered # None
  /\ delivered.to = p /\ ~delivered.ok
  /\ delivered' = None
  /\ Leave(p, "threw")
  /\ UNCHANGED <<todo, socket, flags, loop, registry>>

Send(p) ==
  /\ pc[p] = "idle"
  /\ SendMessage(p, "call", None, connectionReady)
  /\ UNCHANGED <<todo, socket, flags, loop, delivered, registry>>

\* Mutant: every message counts as one that waited.
SendReturnsDecrement(p) ==
  /\ Resumed(p, "call")
  /\ pc' = [pc EXCEPT ![p] = "done"]
  /\ nrOfWaiters' = nrOfWaiters - 1
  /\ UNCHANGED <<request, name, waiters, todo, socket, flags, loop, registry>>

SendReturns(p) ==
  /\ Resumed(p, "call")
  /\ Leave(p, "done")
  /\ UNCHANGED <<todo, socket, flags, loop, registry>>

\* A timeout around SendMessage() cancels its wait for the connection: the
\* receive leaves the channel, nrOfWaiters is not decremented.
CancelWait(p) ==
  /\ "cancel" \in Faults
  /\ pc[p] = "waiting"
  /\ pc' = [pc EXCEPT ![p] = "cancelled"]
  /\ \E i \in DOMAIN waiters : waiters[i] = p /\ waiters' = RemoveAt(waiters, i)
  /\ UNCHANGED <<request, name, todo, socket, flags, nrOfWaiters, loop,
                 delivered, registry>>
--------------------------------------------------------------------------------
(* Connect() *)

\* The error code of async_connect is dropped.
Connected ==
  /\ pc[Connector] = "connecting"
  /\ Leave(Connector, "authenticating")
  /\ UNCHANGED <<todo, socket, flags, loop, delivered, registry>>

\* OK from the daemon: spawn the read loop and say Hello.
Authenticated ==
  /\ pc[Connector] = "authenticating"
  /\ link /\ socketOpen
  /\ readLoop' = "reading"
  /\ pc' = [pc EXCEPT ![Connector] = Written]
  /\ request' = [request EXCEPT ![Connector] = "Hello"]
  /\ UNCHANGED <<name, todo, socket, flags, waiting, finished, finishers,
                 delivered, registry>>

\* The daemon refuses, or the socket is gone; the socket object stays open.
AuthenticationFails ==
  /\ pc[Connector] = "authenticating"
  /\ "reject" \in Faults \/ ~link \/ ~socketOpen
  /\ Leave(Connector, "threw")
  /\ UNCHANGED <<todo, socket, flags, loop, delivered, registry>>

\* Mutant: Connect() wakes a sender whether or not one waits.
ReadyNotifiesAlways ==
  /\ connectionReady' = TRUE
  /\ Leave(Connector, "notifying")
  /\ UNCHANGED <<todo, socket, shouldQuit, loop, registry>>

\* Mutant: an off-by-one in the test for waiting senders.
ReadyNotifiesFromTwo ==
  /\ connectionReady' = TRUE
  /\ IF nrOfWaiters > 1
       THEN Leave(Connector, "notifying")
       ELSE SendMessage(Connector, "AddMatch", None, TRUE)
  /\ UNCHANGED <<todo, socket, shouldQuit, loop, registry>>

\* The handshake is complete: wake one waiting sender if there was any, else
\* go on to SubscribeToNameChanges().
Ready ==
  /\ connectionReady' = TRUE
  /\ IF nrOfWaiters > 0
       THEN Leave(Connector, "notifying")
       ELSE SendMessage(Connector, "AddMatch", None, TRUE)
  /\ UNCHANGED <<todo, socket, shouldQuit, loop, registry>>

HelloReturns ==
  /\ Resumed(Connector, "Hello")
  /\ IF names = <<>>
       THEN Ready
       ELSE /\ SendMessage(Connector, "RequestName", Head(names), TRUE)
            /\ UNCHANGED <<todo, socket, flags, loop, registry>>

\* Whatever number RequestName returns, the handshake goes on.
ConnectNameReturns ==
  /\ Resumed(Connector, "RequestName")
  /\ Ready

\* async_send on connectionCompleted meets the first receiver, which goes on to
\* write its message; Connect() goes on to SubscribeToNameChanges().
Notify ==
  /\ pc[Connector] = "notifying"
  /\ waiters # <<>>
  /\ request' = [request EXCEPT ![Connector] = "AddMatch"]
  /\ IF connectionReady
       THEN /\ pc' = [pc EXCEPT ![Head(waiters)] = Written,
                                ![Connector] = Written]
            /\ waiters' = Tail(waiters)
            /\ UNCHANGED nrOfWaiters
       ELSE /\ pc' = [pc EXCEPT ![Head(waiters)] = Written,
                                ![Connector] = "waiting"]
            /\ waiters' = Append(Tail(waiters), Connector)
            /\ nrOfWaiters' = nrOfWaiters + 1
  /\ UNCHANGED <<name, todo, socket, flags, loop, delivered, registry>>

SubscribeReturns ==
  /\ Resumed(Connector, "AddMatch")
  /\ Leave(Connector, "done")
  /\ hasRule' = TRUE
  /\ UNCHANGED <<todo, socket, flags, loop, daemonRule, names>>
--------------------------------------------------------------------------------
(* RequestWellKnownName() and ReleaseWellKnownName() *)

Held(n) == n \in Range(names)

\* The names that are left when every n is removed, in their order.
Without(n) ==
  FoldLeft(LAMBDA kept, m : IF m = n THEN kept ELSE Append(kept, m), <<>>, names)

RequestName(p, n) ==
  /\ pc[p] = "idle"
  /\ IF Held(n) THEN Leave(p, "threw")
             ELSE SendMessage(p, "RequestName", n, connectionReady)
  /\ UNCHANGED <<todo, socket, flags, loop, delivered, registry>>

RequestNameReturns(p) ==
  /\ Resumed(p, "RequestName")
  /\ Leave(p, "done")
  /\ names' = Append(names, name[p])
  /\ UNCHANGED <<todo, socket, flags, loop, hasRule, daemonRule>>

ReleaseName(p, n) ==
  /\ pc[p] = "idle"
  /\ IF ~Held(n) THEN Leave(p, "threw")
              ELSE SendMessage(p, "ReleaseName", n, connectionReady)
  /\ UNCHANGED <<todo, socket, flags, loop, delivered, registry>>

ReleaseNameReturns(p) ==
  /\ Resumed(p, "ReleaseName")
  /\ Leave(p, "done")
  /\ names' = Without(name[p])
  /\ UNCHANGED <<todo, socket, flags, loop, hasRule, daemonRule>>
--------------------------------------------------------------------------------
(* Close() *)

\* Mutant: the read loop is not told to quit.
CloseSocketKeepsReading ==
  /\ connectionReady' = FALSE
  /\ socketOpen' = FALSE
  /\ UNCHANGED <<link, shouldQuit>>

\* The first half of CloseData().
CloseSocket ==
  /\ connectionReady' = FALSE
  /\ shouldQuit' = TRUE
  /\ socketOpen' = FALSE
  /\ UNCHANGED link

\* Mutant: nobody waits for the read loop.
CloseDataAtOnce(p) ==
  /\ CloseSocket
  /\ Leave(p, "closed")
  /\ UNCHANGED loop

\* CloseData(): close the socket and wait for the read loop.
CloseData(p) ==
  /\ CloseSocket
  /\ Leave(p, "finishing")
  /\ finishers' = Append(finishers, p)
  /\ UNCHANGED <<readLoop, finished>>

\* The loop of CloseImpl() over its copy of the names; ReleaseWellKnownName
\* throws on a name that is no longer in "held".
ReleaseNext(k, copy, held) ==
  IF copy = <<>>
    THEN CloseData(k) /\ UNCHANGED todo
    ELSE /\ todo' = [todo EXCEPT ![k] = Tail(copy)]
         /\ IF Head(copy) \in Range(held)
              THEN SendMessage(k, "ReleaseName", Head(copy), connectionReady)
              ELSE Leave(k, "threw")
         /\ UNCHANGED <<socket, flags, loop>>

Close(k) ==
  /\ pc[k] = "idle"
  /\ "early close" \in Faults \/ pc[Connector] \in {"done", "threw"}
  /\ \/ /\ ~socketOpen
        /\ Leave(k, "done")
        /\ UNCHANGED <<todo, socket, flags, loop>>
     \/ /\ socketOpen /\ ~connectionReady
        /\ CloseData(k)
        /\ UNCHANGED todo
     \/ /\ socketOpen /\ connectionReady /\ hasRule
        /\ SendMessage(k, "RemoveMatch", None, TRUE)
        /\ UNCHANGED <<todo, socket, flags, loop>>
     \/ /\ socketOpen /\ connectionReady /\ ~hasRule
        /\ ReleaseNext(k, names, names)
  /\ UNCHANGED <<delivered, registry>>

\* Mutant: the rule stays in matchRules.
RemoveMatchReturnsKeepsRule(k) ==
  /\ Resumed(k, "RemoveMatch")
  /\ ReleaseNext(k, names, names)
  /\ UNCHANGED registry

RemoveMatchReturns(k) ==
  /\ Resumed(k, "RemoveMatch")
  /\ ReleaseNext(k, names, names)
  /\ hasRule' = FALSE
  /\ UNCHANGED <<daemonRule, names>>

CloseReleaseReturns(k) ==
  /\ Resumed(k, "ReleaseName")
  /\ names' = Without(name[k])
  /\ ReleaseNext(k, todo[k], names')
  /\ UNCHANGED <<hasRule, daemonRule>>

\* readLoopFinished hands the read loop's message to the first receiver.
Finish ==
  /\ finished
  /\ finishers # <<>>
  /\ finished' = FALSE
  /\ finishers' = Tail(finishers)
  /\ Leave(Head(finishers),
           IF Head(finishers) = LossHandler THEN "posted" ELSE "closed")
  /\ UNCHANGED <<todo, socket, flags, readLoop, delivered, registry>>
--------------------------------------------------------------------------------
(* The daemon, the read loop and the loss of the connection *)

\* The daemon goes away, or SimulateConnectionLoss() shuts the socket down.
Lose ==
  /\ "loss" \in Faults
  /\ link
  /\ link' = FALSE
  /\ UNCHANGED <<pc, request, name, todo, socketOpen, flags, waiting, loop,
                 delivered, registry>>

\* The read loop hands over a reply, one sent before the daemon left perhaps,
\* and looks at shouldQuit before it reads on.  The daemon may refuse any request
\* with an ERROR and refuses to remove a match rule it does not have.
Deliver(p) ==
  /\ readLoop = "reading"
  /\ delivered = None
  /\ pc[p] = "awaiting"
  /\ \/ /\ request[p] = "RemoveMatch" => daemonRule
        /\ delivered' = [to |-> p, ok |-> TRUE]
        /\ daemonRule' = CASE request[p] = "AddMatch"    -> TRUE
                           [] request[p] = "RemoveMatch" -> FALSE
                           [] OTHER                      -> daemonRule
     \/ /\ "refuse" \in Faults \/ (request[p] = "RemoveMatch" /\ ~daemonRule)
        /\ delivered' = [to |-> p, ok |-> FALSE]
        /\ UNCHANGED daemonRule
  /\ IF shouldQuit THEN readLoop' = "ended" /\ finished' = TRUE
                   ELSE UNCHANGED <<readLoop, finished>>
  /\ UNCHANGED <<pc, request, name, todo, socket, flags, waiting, finishers,
                 hasRule, names>>

\* Mutant: the loss is reported and nothing is closed.
HandleConnectionLostUnclosed ==
  /\ Leave(LossHandler, "posted")
  /\ UNCHANGED <<socket, flags, finishers>>

\* Mutant: the loss goes unnoticed.
HandleConnectionLostIgnored ==
  UNCHANGED <<pc, request, name, waiting, socket, flags, finishers>>

\* HandleConnectionLost() runs at once up to its suspension in CloseData().
HandleConnectionLost ==
  /\ CloseSocket
  /\ Leave(LossHandler, "finishing")
  /\ finishers' = Append(finishers, LossHandler)

\* Mutant: the loop returns without a word on readLoopFinished.
ReadFailsSilently ==
  /\ readLoop = "reading" /\ delivered = None
  /\ ~link \/ ~socketOpen
  /\ readLoop' = "ended"
  /\ UNCHANGED <<pc, request, name, todo, socket, flags, waiting, finished,
                 finishers, delivered, registry>>

\* A read fails, which ends the loop: as it should during a close, with a lost
\* connection to handle otherwise.
ReadFails ==
  /\ readLoop = "reading" /\ delivered = None
  /\ ~link \/ ~socketOpen
  /\ readLoop' = "ended"
  /\ finished' = TRUE
  /\ \/ /\ shouldQuit
        /\ UNCHANGED <<pc, request, name, socket, flags, waiting, finishers>>
     \/ /\ ~shouldQuit
        /\ HandleConnectionLost
  /\ UNCHANGED <<todo, delivered, registry>>

\* The user's context runs the onDisconnected callbacks.
OnDisconnected ==
  /\ pc[LossHandler] = "posted"
  /\ Leave(LossHandler, "done")
  /\ UNCHANGED <<todo, socket, flags, loop, delivered, registry>>
--------------------------------------------------------------------------------
ConnectNext ==
  \/ Connected
  \/ Authenticated
  \/ AuthenticationFails
  \/ HelloReturns
  \/ ConnectNameReturns
  \/ Notify
  \/ SubscribeReturns

UserReturns(p) ==
  \/ p \in Senders /\ SendReturns(p)
  \/ p \in Owners /\ RequestNameReturns(p)
  \/ p \in Owners /\ ReleaseNameReturns(p)
  \/ p \in Closers /\ RemoveMatchReturns(p)
  \/ p \in Closers /\ CloseReleaseReturns(p)

UserCalls(p) ==
  \/ p \in Senders /\ Send(p)
  \/ p \in Senders /\ CancelWait(p)
  \/ p \in Owners /\ \E n \in Names : RequestName(p, n)
  \/ p \in Owners /\ \E n \in Names : ReleaseName(p, n)
  \/ p \in Closers /\ Close(p)

Next ==
  \/ ConnectNext
  \/ \E p \in Users : UserReturns(p) \/ UserCalls(p)
  \/ \E p \in Procs : Deliver(p) \/ Refused(p)
  \/ ReadFails
  \/ Finish
  \/ OnDisconnected
  \/ Lose

Spec == Init /\ [][Next]_vars

\* The executor runs what is posted, the kernel reports a failed read, and a
\* daemon that is there answers; the user need not call anything.
Fairness ==
  /\ WF_vars(ConnectNext)
  /\ \A p \in Users : WF_vars(UserReturns(p))
  /\ \A p \in Procs : WF_vars(link /\ Deliver(p)) /\ WF_vars(Refused(p))
  /\ WF_vars(ReadFails) /\ WF_vars(Finish) /\ WF_vars(OnDisconnected)

FairSpec == Spec /\ Fairness
--------------------------------------------------------------------------------
(* Safety *)

\* Once a lost connection is being handled it never looks connected again, not
\* even when the last step of the handshake races the loss: test_dbus.cpp
\* expects IsConnected() to be false from the moment onDisconnected runs.
LostStaysLost ==
  pc[LossHandler] # "idle" => ~connectionReady /\ ~socketOpen

\* The failed read that a Close() provokes is never reported as a lost
\* connection: HandleConnectionLost() only runs when the daemon has left.
OwnCloseIsNoLoss == pc[LossHandler] # "idle" => ~link

\* A connection that says it is ready, and that nobody has begun to close, has
\* a read loop that will deliver its replies.
ReadyMeansReading ==
  connectionReady /\ ~shouldQuit => socketOpen /\ readLoop = "reading"

\* The match rule is in matchRules exactly when the daemon has it, but for the
\* time a reply about it takes from the read loop to its coroutine, whichever
\* closes race each other or a lost connection.
RulesAgree ==
  hasRule # daemonRule =>
    delivered # None /\ request[delivered.to] \in {"AddMatch", "RemoveMatch"}

\* No coroutine gets past CloseData() while the read loop, which still uses the
\* state that is closed, is running; the read loop lets through only one.
LoopEndsBeforeClose ==
  LET past == {k \in Closers : pc[k] = "closed"} \cup
              {p \in {LossHandler} : pc[p] \in {"posted", "done"}}
  IN  /\ past # {} => readLoop = "ended" /\ ~finished
      /\ \A p, q \in past : p = q

(* Liveness *)

\* Connect() returns or throws when the daemon stays and nobody cancels a queued
\* message: it does not wait for a waiter that is not there.
ConnectEnds == <>(pc[Connector] \in {"done", "threw"})

\* The message queued first while the connection is being established is
\* written, unless the daemon refuses a request of the handshake: then Connect()
\* has thrown and the connection never becomes ready.
FirstQueuedIsSent ==
  \A p \in Users :
    (waiters # <<>> /\ Head(waiters) = p /\ ~connectionReady /\ ~shouldQuit)
      ~> pc[p] # "waiting" \/ (pc[Connector] = "threw" /\ ~connectionReady)

\* Close() returns to its caller, or throws.
CloseReturns ==
  \A k \in Closers : pc[k] # "idle" ~> pc[k] \in {"closed", "done", "threw"}

\* When the daemon leaves while the read loop runs, the onDisconnected callbacks
\* are called, unless a Close() of the user's completes instead.
LossReported ==
  readLoop = "reading" /\ ~link
    ~> pc[LossHandler] = "done" \/ \E k \in Closers : pc[k] = "closed"

(* What the documentation says and the code does not do *)

\* "Messages are internally queued until the connection is established and then
\* processed": all of them.
QueuedMessagesAreSent ==
  \A s \in Senders : pc[s] = "waiting" /\ ~shouldQuit ~> pc[s] # "waiting"
================================================================================
