------------------------------- MODULE OwnNames -------------------------------
(***************************************************************************)
(* The well-known names of this connection: RequestWellKnownName() and     *)
(* ReleaseWellKnownName() (src/src/DBusConnection.txx) against the         *)
(* daemon's queues of owners, in which other clients take part.            *)
(*                                                                         *)
(* A call looks at wellKnownNames, sends its request, awaits the reply and *)
(* then changes wellKnownNames.  Requests reach the daemon, and replies    *)
(* the read loop, in order; a call goes on with its reply before the loop  *)
(* reads again (ConnectionLifecycle), so both are one step.                *)
(***************************************************************************)
EXTENDS Integers, Sequences, SequencesExt

CONSTANTS
  Calls,   \* calls of the user
  Names,   \* well-known names
  Us,      \* this connection
  Peers,    \* other clients of the daemon
  PeerFlags \* the flags they request names with

Clients == Peers \cup {Us}
Flags   == {"ALLOW_REPLACEMENT", "REPLACE_EXISTING", "DO_NOT_QUEUE"}

ASSUME ClientsAssumption == Us \notin Peers /\ PeerFlags \subseteq SUBSET Flags

\* The values of WellKnownNameFlag, which cannot be combined; peers can.
WellKnownNameFlag == {{}} \cup {{f} : f \in Flags}

VARIABLES
  request,        \* what each call asks of the daemon
  pc,             \* where each call is
  requests,       \* calls whose request is on its way to the daemon
  replies,        \* replies on their way to the read loop
  wellKnownNames, \* how often each name is in InternalState::wellKnownNames
  owners          \* the daemon's queue for each name, its owner first

vars == <<request, pc, requests, replies, wellKnownNames, owners>>

Requests == [member : {"RequestName"}, name : Names, flags : WellKnownNameFlag]
              \cup [member : {"ReleaseName"}, name : Names, flags : {{}}]
Answers  == {"owner", "queued", "exists", "already owner",   \* RequestName
             "released", "no owner", "not owner", "error"}   \* ReleaseName; an ERROR
Owner    == [client : Clients, flags : SUBSET Flags]

TypeOK ==
  /\ request \in [Calls -> Requests]
  /\ pc \in [Calls -> {"idle", "awaiting", "returned", "threw"}]
  /\ requests \in Seq(Calls)
  /\ replies \in Seq([to : Calls, answer : Answers])
  /\ wellKnownNames \in [Names -> Nat]
  /\ owners \in [Names -> Seq(Owner)]

\* Nobody has the name, or another client.
Before == {<<>>} \cup {<<o>> : o \in [client : Peers, flags : PeerFlags]}

\* Names of others, and the one given to the constructor, if there is one, which
\* Connect() has asked for: it is listed whoever owns it.
Init ==
  /\ request \in [Calls -> Requests]
  /\ pc = [c \in Calls |-> "idle"]
  /\ requests = <<>> /\ replies = <<>>
  /\ \E own \in {{}} \cup {{n} : n \in Names},
        before \in [Names -> Before] :
       /\ wellKnownNames = [n \in Names |-> IF n \in own THEN 1 ELSE 0]
       /\ owners = [n \in Names |-> IF n \in own
                      THEN Append(before[n], [client |-> Us, flags |-> {}])
                      ELSE before[n]]
--------------------------------------------------------------------------------
(* The user *)

Listed(n) == wellKnownNames[n] > 0

\* What a call throws before it sends anything.
Refused(c) ==
  IF request[c].member = "RequestName" THEN Listed(request[c].name)
                                       ELSE ~Listed(request[c].name)

\* RequestWellKnownName() or ReleaseWellKnownName(), up to the reply.
Call(c) ==
  /\ pc[c] = "idle"
  /\ pc' = [pc EXCEPT ![c] = IF Refused(c) THEN "threw" ELSE "awaiting"]
  /\ requests' = IF Refused(c) THEN requests ELSE Append(requests, c)
  /\ UNCHANGED <<request, replies, wellKnownNames, owners>>
--------------------------------------------------------------------------------
(* The daemon *)

InQueue(client, queue) == \E i \in DOMAIN queue : queue[i].client = client

\* A client is in a queue once.
Position(client, queue) == CHOOSE i \in DOMAIN queue : queue[i].client = client

Without(client, queue) ==
  IF InQueue(client, queue) THEN RemoveAt(queue, Position(client, queue)) ELSE queue

Owns(client, queue) == queue # <<>> /\ queue[1].client = client

Replaceable(queue, flags) ==
  "REPLACE_EXISTING" \in flags /\ "ALLOW_REPLACEMENT" \in queue[1].flags

\* The owner that is replaced becomes the next in line, unless it would not wait.
Replaced(queue, new) ==
  <<new>> \o (IF "DO_NOT_QUEUE" \in queue[1].flags THEN <<>> ELSE <<queue[1]>>)
    \o Without(new.client, Tail(queue))

\* A client that waits already keeps its place.
Waiting(queue, new) ==
  IF InQueue(new.client, queue)
    THEN [queue EXCEPT ![Position(new.client, queue)] = new]
    ELSE Append(queue, new)

\* How RequestName changes the queue, and what it answers.
Requested(queue, new) ==
  CASE queue = <<>> -> [queue |-> <<new>>, answer |-> "owner"]
    [] Owns(new.client, queue) ->
         [queue |-> <<new>> \o Tail(queue), answer |-> "already owner"]
    [] queue # <<>> /\ ~Owns(new.client, queue) /\ Replaceable(queue, new.flags) ->
         [queue |-> Replaced(queue, new), answer |-> "owner"]
    [] queue # <<>> /\ ~Owns(new.client, queue) /\ ~Replaceable(queue, new.flags)
         /\ "DO_NOT_QUEUE" \in new.flags ->
         [queue |-> Without(new.client, queue), answer |-> "exists"]
    [] OTHER -> [queue |-> Waiting(queue, new), answer |-> "queued"]

\* How ReleaseName does.
Released(queue, client) ==
  [queue  |-> Without(client, queue),
   answer |-> IF InQueue(client, queue) THEN "released"
              ELSE IF queue = <<>> THEN "no owner" ELSE "not owner"]

\* A policy of the bus may forbid the name.
Outcomes(c) ==
  LET queue == owners[request[c].name]
  IN IF request[c].member = "RequestName"
       THEN {Requested(queue, [client |-> Us, flags |-> request[c].flags]),
             [queue |-> queue, answer |-> "error"]}
       ELSE {Released(queue, Us)}

Answer ==
  /\ requests # <<>>
  /\ LET c == Head(requests)
     IN \E outcome \in Outcomes(c) :
          /\ owners' = [owners EXCEPT ![request[c].name] = outcome.queue]
          /\ replies' = Append(replies, [to |-> c, answer |-> outcome.answer])
  /\ requests' = Tail(requests)
  /\ UNCHANGED <<request, pc, wellKnownNames>>

PeerRequests(p, n, flags) ==
  /\ owners' = [owners EXCEPT
                  ![n] = Requested(@, [client |-> p, flags |-> flags]).queue]
  /\ UNCHANGED <<request, pc, requests, replies, wellKnownNames>>

PeerReleases(p, n) ==
  /\ InQueue(p, owners[n])
  /\ owners' = [owners EXCEPT ![n] = Released(@, p).queue]
  /\ UNCHANGED <<request, pc, requests, replies, wellKnownNames>>
--------------------------------------------------------------------------------
(* The read loop *)

\* Mutant: a name that is not acquired makes the call fail.
ThrowsUnlessAcquired(answer) == answer \in {"error", "queued", "exists"}

\* SendMessage() throws what an ERROR says; every other answer is only logged.
Throws(answer) == answer = "error"

Entered(n) == [wellKnownNames EXCEPT ![n] = @ + 1]

\* Mutant: of a name that is there twice one stays.
RemovedOnce(n) == [wellKnownNames EXCEPT ![n] = IF @ = 0 THEN 0 ELSE @ - 1]

\* std::ranges::remove and erase
Removed(n) == [wellKnownNames EXCEPT ![n] = 0]

Read ==
  /\ replies # <<>>
  /\ LET c == Head(replies).to
         answer == Head(replies).answer
         n == request[c].name
     IN /\ pc' = [pc EXCEPT ![c] = IF Throws(answer) THEN "threw" ELSE "returned"]
        /\ wellKnownNames' = IF Throws(answer) THEN wellKnownNames
                             ELSE IF request[c].member = "RequestName"
                               THEN Entered(n) ELSE Removed(n)
  /\ replies' = Tail(replies)
  /\ UNCHANGED <<request, requests, owners>>
--------------------------------------------------------------------------------
Next ==
  \/ \E c \in Calls : Call(c)
  \/ Answer
  \/ \E p \in Peers, n \in Names, flags \in PeerFlags : PeerRequests(p, n, flags)
  \/ \E p \in Peers, n \in Names : PeerReleases(p, n)
  \/ Read

Spec == Init /\ [][Next]_vars
--------------------------------------------------------------------------------
\* The i-th reply on its way is for such a call for the name, and no error.
IsReply(i, member, n) ==
  /\ request[replies[i].to].member = member
  /\ request[replies[i].to].name = n
  /\ replies[i].answer # "error"

ReplyUnderWay(member, n) == \E i \in DOMAIN replies : IsReply(i, member, n)

\* The daemon has this connection as the name's owner or in its queue.
Known(n) == InQueue(Us, owners[n])

\* Every name the daemon would give to this connection, now or when others let go
\* of it, is listed, so that it can be released and Close() releases it: also
\* when it was queued, taken over, asked for twice at a time or asked for and
\* released at a time, but for a reply under way.
KnownNamesAreListed ==
  \A n \in Names :
    Known(n) => Listed(n) \/ ReplyUnderWay("RequestName", n)

\* No call declines to wait for the name.
AlwaysQueues(n) ==
  \A c \in Calls : request[c].name = n => "DO_NOT_QUEUE" \notin request[c].flags

\* A name that is listed is the connection's to have or to wait for, as long as
\* nobody asked for it with DO_NOT_QUEUE: a release takes it off the list however
\* often it is there, whatever other calls had their replies in between.
ListedNamesAreKnown ==
  \A n \in Names :
    Listed(n) /\ AlwaysQueues(n) => Known(n) \/ ReplyUnderWay("ReleaseName", n)
================================================================================
