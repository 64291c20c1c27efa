------------------------------ MODULE Dispatch ------------------------------
(***************************************************************************)
(* What becomes of a message that is neither a reply nor a signal          *)
(* (HandleReadMessage() in DBusConnection.txx): the filters are asked,     *)
(* then the object path handlers are called, then the callbacks for all    *)
(* incoming messages, and if nobody takes it the caller is told that there *)
(* is no such method.                                                      *)
(*                                                                         *)
(* The single-threaded connection does all this in one coroutine.  The     *)
(* other one asks the filters on its own thread and hands the callbacks    *)
(* over to the user's io_context, which takes them in turn; by then the    *)
(* user may have registered and unregistered others.                       *)
(*                                                                         *)
(* Callbacks answer what they like, or throw.  Object path handlers may    *)
(* suspend, and so may the callbacks for incoming messages where they have *)
(* the message to themselves (multithreaded); a filter does not, because   *)
(* the message is gone when it resumes.  The user does not change the      *)
(* container that a suspended coroutine iterates over.                     *)
(***************************************************************************)
EXTENDS Integers, Sequences, SequencesExt, FiniteSets

CONSTANTS
  Paths,         \* the object paths messages and handlers may have
  MaxMessages, MaxFilters, MaxHandlers, MaxIncoming   \* bounds

ASSUME DispatchAssumption ==
  /\ IsFiniteSet(Paths)
  /\ {MaxMessages, MaxFilters, MaxHandlers, MaxIncoming} \subseteq Nat

VARIABLES
  singleThreaded,       \* the template parameter
  messageFilters,       \* the filters' IDs in the order of the hash map
  messageFilterID,
  objectPathHandlers,   \* how many handlers each path has
  onIncomingSignal,     \* how many callbacks there are for incoming messages
  messages,             \* the paths of the messages read
  stage,                \* where each of them is; "...Queued" for the user's io_context,
                        \* "handlersGone" if it came too late for the path handlers
  todo,                 \* for each, the callbacks its coroutine has yet to call
  calls,                \* for each, the callbacks called and what they answered
  userContext,          \* the messages handed over to the user's io_context
  begun,                \* the messages whose callbacks began, in that order
  unknownMethod         \* the messages answered with the error, in that order

registered == <<messageFilters, messageFilterID, objectPathHandlers, onIncomingSignal>>
vars == <<singleThreaded, registered, messages, stage, todo, calls, userContext,
          begun, unknownMethod>>

(***************************************************************************)
(* Callbacks                                                               *)
(***************************************************************************)
Filter(id)         == [kind |-> "filter", id |-> id]
PathHandler(p, n)  == [kind |-> "path", path |-> p, id |-> n]
Incoming(n)        == [kind |-> "incoming", id |-> n]

Callback == {Filter(id) : id \in 0 .. MaxFilters - 1}
              \union {PathHandler(p, n) : p \in Paths, n \in 1 .. MaxHandlers}
              \union {Incoming(n) : n \in 1 .. MaxIncoming}

\* MessageHandled, nothing where a path handler returns, or an exception.
Answers == {"YES", "NO", "returns", "throws"}

Called(callback, answer) == [callback |-> callback, answer |-> answer]

Filters  == [i \in DOMAIN messageFilters |-> Filter(messageFilters[i])]
Incomings == [n \in 1 .. onIncomingSignal |-> Incoming(n)]

PathHandlers ==
  {h \in {PathHandler(p, n) : p \in Paths, n \in 1 .. MaxHandlers} :
     h.id <= objectPathHandlers[h.path]}

\* The loop over objectPathHandlers, whatever the path of the message: the paths
\* in the order the hash map has, the handlers of each as they were registered.
HandlerOrders ==
  {order \in SetToSeqs(PathHandlers) :
     \A i, j \in DOMAIN order : i < j /\ order[i].path = order[j].path =>
       /\ order[i].id < order[j].id
       /\ \A k \in i .. j : order[k].path = order[i].path}

\* What asking callbacks until one of them does not answer NO may come to.
Askings(callbacks) ==
  {[i \in DOMAIN callbacks |-> Called(callbacks[i], "NO")]}
    \union {Append([i \in 1 .. n - 1 |-> Called(callbacks[i], "NO")],
                   Called(callbacks[n], answer)) :
              n \in DOMAIN callbacks, answer \in {"YES", "throws"}}

AllRefuse(called) == \A i \in DOMAIN called : called[i].answer = "NO"

Stages == {"pathQueued", "path", "incomingQueued", "incoming", "finished", "handlersGone"}

Call == [callback : Callback, answer : Answers]

TypeOK ==
  /\ singleThreaded \in BOOLEAN
  /\ messageFilters \in Seq(0 .. MaxFilters - 1)
  /\ messageFilterID \in 0 .. MaxFilters
  /\ objectPathHandlers \in [Paths -> 0 .. MaxHandlers]
  /\ onIncomingSignal \in 0 .. MaxIncoming
  /\ messages \in Seq(Paths) /\ Len(messages) <= MaxMessages
  /\ stage \in Seq(Stages) /\ Len(stage) = Len(messages)
  /\ todo \in Seq(Seq(Callback)) /\ Len(todo) = Len(messages)
  /\ calls \in Seq(Seq(Call)) /\ Len(calls) = Len(messages)
  /\ {userContext, begun, unknownMethod} \subseteq Seq(DOMAIN messages)

Init ==
  /\ singleThreaded \in BOOLEAN
  /\ messageFilters = <<>> /\ messageFilterID = 0
  /\ objectPathHandlers = [p \in Paths |-> 0]
  /\ onIncomingSignal = 0
  /\ messages = <<>> /\ stage = <<>> /\ todo = <<>> /\ calls = <<>>
  /\ userContext = <<>> /\ begun = <<>> /\ unknownMethod = <<>>

(***************************************************************************)
(* The user registers callbacks                                            *)
(***************************************************************************)
\* No coroutine is suspended in the loop of stage s.
NobodyIterates(s) == \A m \in DOMAIN stage : stage[m] # s

UnchangedMessages ==
  UNCHANGED <<singleThreaded, messages, stage, todo, calls, userContext, begun,
              unknownMethod>>

\* Mutant: the ID is counted up before it is handed out.
RegisterMessageFilterFromOne ==
  /\ messageFilterID < MaxFilters
  /\ messageFilterID' = messageFilterID + 1
  /\ \E i \in 1 .. Len(messageFilters) + 1 :
       messageFilters' = InsertAt(messageFilters, i, messageFilterID')
  /\ UnchangedMessages /\ UNCHANGED <<objectPathHandlers, onIncomingSignal>>

RegisterMessageFilter ==
  /\ messageFilterID < MaxFilters
  /\ \E i \in 1 .. Len(messageFilters) + 1 :
       messageFilters' = InsertAt(messageFilters, i, messageFilterID)
  /\ messageFilterID' = messageFilterID + 1
  /\ UnchangedMessages /\ UNCHANGED <<objectPathHandlers, onIncomingSignal>>

\* The i-th filter, by its ID.
UnregisterMessageFilter(i) ==
  /\ messageFilters' = RemoveAt(messageFilters, i)
  /\ UnchangedMessages
  /\ UNCHANGED <<messageFilterID, objectPathHandlers, onIncomingSignal>>

RegisterObjectPathHandler(p) ==
  /\ NobodyIterates("path")
  /\ objectPathHandlers[p] < MaxHandlers
  /\ objectPathHandlers' = [objectPathHandlers EXCEPT ![p] = @ + 1]
  /\ UnchangedMessages
  /\ UNCHANGED <<messageFilters, messageFilterID, onIncomingSignal>>

UnregisterObjectPathHandler(p) ==
  /\ NobodyIterates("path")
  /\ objectPathHandlers' = [objectPathHandlers EXCEPT ![p] = 0]
  /\ UnchangedMessages
  /\ UNCHANGED <<messageFilters, messageFilterID, onIncomingSignal>>

ReceiveIncomingMessages ==
  /\ NobodyIterates("incoming")
  /\ onIncomingSignal < MaxIncoming
  /\ onIncomingSignal' = onIncomingSignal + 1
  /\ UnchangedMessages
  /\ UNCHANGED <<messageFilters, messageFilterID, objectPathHandlers>>

(***************************************************************************)
(* The connection reads a message                                          *)
(***************************************************************************)
\* The message is at stage s: callbacks are to be called and called have been.
Enter(s, callbacks, called) ==
  /\ stage' = Append(stage, s)
  /\ todo'  = Append(todo, callbacks)
  /\ calls' = Append(calls, called)

Newest == Len(messages) + 1

\* Mutant: what follows the callbacks on the user's thread is left out.
AnswerHereIf(nobody, m) ==
  unknownMethod' = IF nobody /\ singleThreaded THEN Append(unknownMethod, m) ELSE unknownMethod

\* The error is sent if nobody took the message.
AnswerIf(nobody, m) ==
  unknownMethod' = IF nobody THEN Append(unknownMethod, m) ELSE unknownMethod

\* Mutant: co_spawn() is left out while the user's io_context is busy.
HandOverWhenIdle(s, asked) ==
  /\ ~singleThreaded
  /\ Enter(s, <<>>, asked)
  /\ userContext' = IF userContext = <<>> THEN <<Newest>> ELSE userContext
  /\ UNCHANGED <<begun, unknownMethod>>

HandOver(s, asked) ==
  /\ ~singleThreaded
  /\ Enter(s, <<>>, asked)
  /\ userContext' = Append(userContext, Newest)
  /\ UNCHANGED <<begun, unknownMethod>>

FilterTakes(asked) ==
  /\ ~AllRefuse(asked)
  /\ Enter("finished", <<>>, asked)
  /\ UNCHANGED <<userContext, begun, unknownMethod>>

ToPathHandlers(p, asked) ==
  /\ AllRefuse(asked)
  /\ objectPathHandlers[p] > 0
  /\ \/ HandOver("pathQueued", asked)
     \/ /\ singleThreaded
        /\ \E order \in HandlerOrders : Enter("path", order, asked)
        /\ begun' = Append(begun, Newest)
        /\ UNCHANGED <<userContext, unknownMethod>>

ToIncoming(p, asked) ==
  /\ AllRefuse(asked)
  /\ objectPathHandlers[p] = 0
  /\ onIncomingSignal > 0
  /\ \/ HandOver("incomingQueued", asked)
     \/ /\ singleThreaded
        /\ \E rest \in Askings(Incomings) :
             /\ Enter("finished", <<>>, asked \o rest)
             /\ AnswerIf(AllRefuse(rest), Newest)
        /\ begun' = Append(begun, Newest)
        /\ UNCHANGED userContext

ToNobody(p, asked) ==
  /\ AllRefuse(asked)
  /\ objectPathHandlers[p] = 0
  /\ onIncomingSignal = 0
  /\ Enter("finished", <<>>, asked)
  /\ unknownMethod' = Append(unknownMethod, Newest)
  /\ UNCHANGED <<userContext, begun>>

HandleReadMessage(p) ==
  /\ Len(messages) < MaxMessages
  /\ messages' = Append(messages, p)
  /\ \E asked \in Askings(Filters) :
       \/ FilterTakes(asked)
       \/ ToPathHandlers(p, asked)
       \/ ToIncoming(p, asked)
       \/ ToNobody(p, asked)
  /\ UNCHANGED <<singleThreaded, registered>>

(***************************************************************************)
(* The user's io_context                                                   *)
(***************************************************************************)
\* The handlers are those of now, and there may be none.
LoopOverPathHandlers(m) ==
  /\ stage[m] = "pathQueued"
  /\ \E order \in HandlerOrders :
       /\ todo' = [todo EXCEPT ![m] = order]
       /\ stage' = [stage EXCEPT ![m] = IF order = <<>> THEN "handlersGone" ELSE "path"]
  /\ UNCHANGED unknownMethod

LoopOverIncoming(m) ==
  /\ stage[m] = "incomingQueued"
  /\ todo' = [todo EXCEPT ![m] = Incomings]
  /\ stage' = [stage EXCEPT ![m] = IF Incomings = <<>> THEN "finished" ELSE "incoming"]
  /\ AnswerIf(Incomings = <<>>, m)

\* Mutant: the io_context is a stack.
BeginLast ==
  /\ userContext # <<>>
  /\ LoopOverPathHandlers(Last(userContext)) \/ LoopOverIncoming(Last(userContext))
  /\ begun' = Append(begun, Last(userContext))
  /\ userContext' = Front(userContext)
  /\ UNCHANGED <<singleThreaded, registered, messages, calls>>

\* The next coroutine looks at its container.
Begin ==
  /\ userContext # <<>>
  /\ LoopOverPathHandlers(Head(userContext)) \/ LoopOverIncoming(Head(userContext))
  /\ begun' = Append(begun, Head(userContext))
  /\ userContext' = Tail(userContext)
  /\ UNCHANGED <<singleThreaded, registered, messages, calls>>

\* Mutant: an exception counts as MessageHandled::NO.
StopsAtYes(answer) == answer = "YES"

Stops(answer) == answer \in {"YES", "throws"}

\* A callback returns, or throws, and its coroutine goes on.
CallNext(m) ==
  /\ m \in DOMAIN stage
  /\ stage[m] \in {"path", "incoming"}
  /\ \E answer \in IF stage[m] = "path" THEN {"returns", "throws"}
                                        ELSE {"YES", "NO", "throws"} :
       LET rest == IF Stops(answer) THEN <<>> ELSE Tail(todo[m]) IN
       /\ calls' = [calls EXCEPT ![m] = Append(@, Called(Head(todo[m]), answer))]
       /\ todo'  = [todo EXCEPT ![m] = rest]
       /\ stage' = [stage EXCEPT ![m] = IF rest = <<>> THEN "finished" ELSE @]
       /\ AnswerIf(stage[m] = "incoming" /\ rest = <<>> /\ ~Stops(answer), m)
  /\ UNCHANGED <<singleThreaded, registered, messages, userContext, begun>>

Next ==
  \/ RegisterMessageFilter
  \/ \E i \in DOMAIN messageFilters : UnregisterMessageFilter(i)
  \/ \E p \in Paths : RegisterObjectPathHandler(p)
  \/ \E p \in Paths : objectPathHandlers[p] > 0 /\ UnregisterObjectPathHandler(p)
  \/ ReceiveIncomingMessages
  \/ \E p \in Paths : HandleReadMessage(p)
  \/ Begin
  \/ \E m \in DOMAIN stage : CallNext(m)

Spec == Init /\ [][Next]_vars

\* The io_context runs what is ready, and the user's callbacks return or throw.
FairSpec ==
  Spec /\ WF_vars(Begin) /\ \A m \in 1 .. MaxMessages : WF_vars(CallNext(m))

-----------------------------------------------------------------------------
\* The caller of a method gets the UnknownMethod error once, and only if every
\* callback that saw the message refused it and no path handler saw it; a
\* callback that takes the message, or throws, is the last; and a message that
\* nobody took is answered on either thread, whatever the user registers
\* meanwhile -- unless it was handed over to path handlers of which none was left
\* when its turn came ("handlersGone").
HandledOrAnswered ==
  \A m \in DOMAIN messages :
    LET errors == {i \in DOMAIN unknownMethod : unknownMethod[i] = m}
    IN /\ \A i \in DOMAIN calls[m] :
            /\ Stops(calls[m][i].answer) => i = Len(calls[m]) /\ stage[m] = "finished"
            /\ \A j \in 1 .. i - 1 : calls[m][i].callback # calls[m][j].callback
       /\ errors # {} => Cardinality(errors) = 1 /\ AllRefuse(calls[m])
       /\ stage[m] = "finished" /\ AllRefuse(calls[m]) => errors # {}
       /\ stage[m] = "handlersGone" => ~singleThreaded /\ m \in Range(begun)

\* The callbacks of two messages begin in the order in which the messages were
\* read, also when they are handed over to another thread.
HandlersStartInOrder ==
  \A i, j \in DOMAIN begun : i < j => begun[i] < begun[j]

\* Every message that is read comes to an end, if the callbacks do.
EveryMessageIsSettled ==
  \A m \in 1 .. MaxMessages :
    m \in DOMAIN stage ~> m \in DOMAIN stage /\ stage[m] \in {"finished", "handlersGone"}

\* docs/using-cxxbus.md, item 3: a message is passed to an object path handler
\* if the message's path matches the registered object path.
OnlyItsPath ==
  \A m \in DOMAIN messages : \A i \in DOMAIN calls[m] :
    calls[m][i].callback.kind = "path" => calls[m][i].callback.path = messages[m]
=============================================================================
