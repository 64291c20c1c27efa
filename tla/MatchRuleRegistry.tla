-------------------------- MODULE MatchRuleRegistry --------------------------
(***************************************************************************)
(* The user's match rules: AddMatchRule(), RemoveMatchRule() and the       *)
(* callbacks for a signal (src/src/DBusConnection.txx).                    *)
(*                                                                         *)
(* A call sends its request, awaits the reply, and then changes            *)
(* matchRules.  Its request and the daemon's replies and signals travel in *)
(* order.  The read loop hands a reply to its call, which goes on before   *)
(* the loop reads again (ConnectionLifecycle), so both are one step.       *)
(*                                                                         *)
(* The callbacks do not suspend: the user would have to leave matchRules   *)
(* alone meanwhile.  On the multithreaded connection the user's io_context *)
(* runs them, in the order in which they are handed over.                  *)
(***************************************************************************)
EXTENDS Integers, Sequences, SequencesExt

CONSTANTS
  Calls,       \* calls of the user, each with the callback it may register
  Rules,       \* the rules they name
  Throwing,    \* the calls whose callback throws
  MaxSignals   \* bound: the signals the daemon sends

ASSUME RegistryAssumption == Throwing \subseteq Calls /\ MaxSignals \in Nat

VARIABLES
  singleThreaded, \* the template parameter
  request,        \* what each call asks of the daemon
  pc,             \* where each call is
  requests,       \* calls whose request is on its way to the daemon
  incoming,       \* replies and signals on their way to the read loop
  matchRules,     \* InternalState::matchRules
  called,         \* the callbacks called for the last signal, by rule
  daemonRules,    \* how often the daemon has each rule
  watchers,       \* the calls that added a rule since it was last removed, as
                  \* the daemon answered them
  emitted         \* how many signals the daemon has sent

daemon == <<daemonRules, watchers, emitted>>
vars == <<singleThreaded, request, pc, requests, incoming, matchRules, called,
          daemon>>

Requests == [member : {"AddMatch", "RemoveMatch"}, rule : Rules]
Replies  == [kind : {"return", "error"}, to : Calls]
Signals  == [kind : {"signal"}, matches : SUBSET Rules,
             watchers : [Rules -> Seq(Calls)]]

TypeOK ==
  /\ singleThreaded \in BOOLEAN
  /\ request \in [Calls -> Requests]
  /\ pc \in [Calls -> {"idle", "awaiting", "returned", "threw"}]
  /\ requests \in Seq(Calls)
  /\ incoming \in Seq(Replies \cup Signals)
  /\ matchRules \in Seq([rule : Rules, callback : Seq(Calls) \ {<<>>}])
  /\ called \in [Rules -> Seq(Calls)]
  /\ daemonRules \in [Rules -> Nat]
  /\ watchers \in [Rules -> Seq(Calls)]
  /\ emitted \in 0 .. MaxSignals

Init ==
  /\ singleThreaded \in BOOLEAN
  /\ request \in [Calls -> Requests]
  /\ pc = [c \in Calls |-> "idle"]
  /\ requests = <<>> /\ incoming = <<>>
  /\ matchRules = <<>>
  /\ called = [r \in Rules |-> <<>>]
  /\ daemonRules = [r \in Rules |-> 0]
  /\ watchers = [r \in Rules |-> <<>>]
  /\ emitted = 0
--------------------------------------------------------------------------------
(* The user *)

\* AddMatchRule() or RemoveMatchRule(), up to the reply.
Send(c) ==
  /\ pc[c] = "idle"
  /\ pc' = [pc EXCEPT ![c] = "awaiting"]
  /\ requests' = Append(requests, c)
  /\ UNCHANGED <<singleThreaded, request, incoming, matchRules, called, daemon>>
--------------------------------------------------------------------------------
(* The daemon *)

Reply(kind, c) == incoming' = Append(incoming, [kind |-> kind, to |-> c])

Accept(c, r) ==
  /\ request[c].member = "AddMatch"
  /\ daemonRules' = [daemonRules EXCEPT ![r] = @ + 1]
  /\ watchers' = [watchers EXCEPT ![r] = Append(@, c)]
  /\ Reply("return", c)

\* One addition less: the daemon goes on sending while another is left.
Drop(c, r) ==
  /\ request[c].member = "RemoveMatch" /\ daemonRules[r] > 0
  /\ daemonRules' = [daemonRules EXCEPT ![r] = @ - 1]
  /\ watchers' = [watchers EXCEPT ![r] = <<>>]
  /\ Reply("return", c)

\* A rule it does not have, or one too many.
Refuse(c, r) ==
  /\ request[c].member = "RemoveMatch" => daemonRules[r] = 0
  /\ Reply("error", c)
  /\ UNCHANGED <<daemonRules, watchers>>

Answer ==
  /\ requests # <<>>
  /\ LET c == Head(requests)
         r == request[c].rule
     IN Accept(c, r) \/ Drop(c, r) \/ Refuse(c, r)
  /\ requests' = Tail(requests)
  /\ UNCHANGED <<singleThreaded, request, pc, matchRules, called, emitted>>

\* A signal that matches these rules, of which the daemon has one.
Emit(matches) ==
  /\ \E r \in matches : daemonRules[r] > 0
  /\ emitted < MaxSignals
  /\ emitted' = emitted + 1
  /\ incoming' = Append(incoming, [kind |-> "signal", matches |-> matches,
                                   watchers |-> watchers])
  /\ UNCHANGED <<singleThreaded, request, pc, requests, matchRules, called,
                 daemonRules, watchers>>
--------------------------------------------------------------------------------
(* The read loop *)

\* find_if(): where the rule is, 0 if it is not there
Position(r) == SelectInSeq(matchRules, LAMBDA info : info.rule = r)

\* Mutant: the callback takes the place of the one that is there.
AddedInstead(c, r) ==
  IF Position(r) = 0
    THEN Append(matchRules, [rule |-> r, callback |-> <<c>>])
    ELSE [matchRules EXCEPT ![Position(r)].callback = <<c>>]

Added(c, r) ==
  IF Position(r) = 0
    THEN Append(matchRules, [rule |-> r, callback |-> <<c>>])
    ELSE [matchRules EXCEPT ![Position(r)].callback = Append(@, c)]

\* The rule goes with the callbacks of everybody who added it.
Erased(r) ==
  IF Position(r) = 0 THEN matchRules ELSE RemoveAt(matchRules, Position(r))

\* Mutant: an ERROR is taken for a METHOD_RETURN.
ThrowsNever(kind) == FALSE

\* SendMessageInternal() throws what an ERROR says.
Throws(kind) == kind = "error"

ReadReply(c, kind) ==
  /\ pc' = [pc EXCEPT ![c] = IF Throws(kind) THEN "threw" ELSE "returned"]
  /\ matchRules' = IF Throws(kind) THEN matchRules
                   ELSE IF request[c].member = "AddMatch"
                     THEN Added(c, request[c].rule)
                     ELSE Erased(request[c].rule)
  /\ UNCHANGED called

\* A callback that throws is the last of its coroutine.
UpToThrow(callbacks) ==
  LET first == SelectInSeq(callbacks, LAMBDA c : c \in Throwing)
  IN IF first = 0 THEN callbacks ELSE SubSeq(callbacks, 1, first)

\* One coroutine calls the callbacks of the rules in turn on the single-threaded
\* connection: none after one that throws.  Else each rule has its own.
Reached(i, matches) ==
  singleThreaded =>
    \A j \in 1 .. i - 1 :
      matchRules[j].rule \in matches =>
        Range(matchRules[j].callback) \cap Throwing = {}

\* The callbacks of the rules that match, in the order in which they were added.
Invoked(matches) ==
  [r \in Rules |->
     LET i == Position(r)
     IN IF r \in matches /\ i # 0 /\ Reached(i, matches)
          THEN UpToThrow(matchRules[i].callback) ELSE <<>>]

ReadSignal(matches) ==
  /\ called' = Invoked(matches)
  /\ UNCHANGED <<pc, matchRules>>

Read ==
  /\ incoming # <<>>
  /\ LET m == Head(incoming)
     IN IF m.kind = "signal" THEN ReadSignal(m.matches)
                             ELSE ReadReply(m.to, m.kind)
  /\ incoming' = Tail(incoming)
  /\ UNCHANGED <<singleThreaded, request, requests, daemon>>
--------------------------------------------------------------------------------
Next ==
  \/ \E c \in Calls : Send(c)
  \/ Answer
  \/ \E matches \in SUBSET Rules : Emit(matches)
  \/ Read

Spec == Init /\ [][Next]_vars
--------------------------------------------------------------------------------
\* A successful answer to a RemoveMatch for the rule is on its way.
RemovalUnderWay(r) ==
  \E i \in DOMAIN incoming :
    /\ incoming[i].kind = "return"
    /\ request[incoming[i].to] = [member |-> "RemoveMatch", rule |-> r]

\* The connection waits for signals only by rules the daemon has, but for those
\* it is about to hear are removed; however the additions, removals and
\* refusals of several coroutines overlap.
ListedRulesAreKnown ==
  \A i \in DOMAIN matchRules :
    LET r == matchRules[i].rule
    IN daemonRules[r] > 0 \/ RemovalUnderWay(r)

\* A signal calls, for every rule it matches, the callbacks whose addition was
\* in force at the daemon when it sent the signal: each of them once, in their
\* order, none added or removed before or after, whatever has been asked for
\* while the signal was under way.  Only a callback that throws cuts this short:
\* for its own rule, and on the single-threaded connection for all.
WatchersAreCalled ==
  [][LET m == Head(incoming)
     IN Read /\ m.kind = "signal" =>
          \A r \in Rules :
            /\ r \notin m.matches => called'[r] = <<>>
            /\ r \in m.matches =>
                 /\ IsPrefix(called'[r], m.watchers[r])
                 /\ called'[r] # m.watchers[r] =>
                      \E x \in Rules :
                        /\ Range(called'[x]) \cap Throwing # {}
                        /\ singleThreaded \/ x = r]_vars
================================================================================
