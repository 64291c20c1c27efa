----------------------------- MODULE ReplyChannels -----------------------------
(***************************************************************************)
(* How a reply finds its caller: SendMessageInternal and the reply branch   *)
(* of HandleReadMessage (src/src/DBusConnection.txx).                       *)
(*                                                                         *)
(* Every message takes the next 32-bit serial.  One that expects a reply    *)
(* reserves the channel replyChannels[serial % NumSlots], or, when that     *)
(* one is reserved, a channel of its own in fallbackReplyChannels.  The     *)
(* read loop puts the reply in the channel its REPLY_SERIAL selects, and    *)
(* the caller takes it out and releases the channel.                        *)
(*                                                                         *)
(* The code runs on one executor (the io_context, or the strand of the      *)
(* multithreaded connection), so an action is a stretch of code between two *)
(* suspension points; posted completions run in any order here.  The        *)
(* daemon and the socket are modelled from their use: requests are answered *)
(* in any order and at most once.                                           *)
(***************************************************************************)
EXTENDS Integers, FiniteSets

CONSTANTS Calls,          \* the messages handed to SendMessageInternal
          NumSlots,       \* CXXBUS_MAX_CONCURRENT_MESSAGES
          SerialModulus,  \* 2^32
          None,           \* an empty channel; no reply yet
          Absent          \* no entry in fallbackReplyChannels

ASSUME NumSlotsAssumption == NumSlots \in Nat \ {0}
ASSUME SerialModulusAssumption == SerialModulus \in Nat /\ SerialModulus >= 2
\* One connection sends at most one period of the serial counter.
ASSUME CallsAssumption ==
  IsFiniteSet(Calls) /\ Cardinality(Calls) <= SerialModulus

Serials == 0 .. SerialModulus - 1
SlotIds == 0 .. NumSlots - 1
Slot(s) == s % NumSlots
Kinds   == {"return", "error"}

\* A reply on the wire names the serial it answers; "to" is the message that
\* serial was given to when the peer answered, which the code cannot see.
Replies == [serial : Serials, to : Calls, kind : Kinds]

ASSUME NoneAssumption ==
  /\ None # Absent
  /\ {None, Absent} \cap (Replies \cup Kinds) = {}

VARIABLES
  serial,         \* InternalState::serial
  replyChannels,  \* slot -> [serial, ready, content of its capacity-1 channel]
  fallback,       \* fallbackReplyChannels: serial -> content, or Absent
  pc,             \* where each SendMessageInternal coroutine is
  callSerial,     \* its local serial
  expectsReply,   \* its local expectsReply
  newChannelUsed, \* its local newChannelUsed
  got,            \* its local reply
  transmitted,    \* messages whose bytes the daemon has
  answer,         \* the kind of the answer the peer has given, or None
  replies,        \* replies on their way to the read loop
  unknown,        \* replies HandleReadMessage had no channel for
  connected       \* the socket to the daemon works

local  == <<callSerial, expectsReply, newChannelUsed>>
daemon == <<transmitted, answer, replies>>
vars   == <<serial, replyChannels, fallback, pc, local, got, daemon, unknown,
            connected>>

PCs == {"idle", "writing", "awaiting", "sent", "returned", "raised", "failed",
        "cancelled"}

TypeOK ==
  /\ serial \in Serials
  /\ replyChannels \in [SlotIds -> [serial : Serials, ready : BOOLEAN,
                                    channel : Replies \cup {None}]]
  /\ fallback \in [Serials -> Replies \cup {None, Absent}]
  /\ pc \in [Calls -> PCs]
  /\ callSerial \in [Calls -> Serials]
  /\ expectsReply \in [Calls -> BOOLEAN]
  /\ newChannelUsed \in [Calls -> BOOLEAN]
  /\ got \in [Calls -> Replies \cup {None}]
  /\ transmitted \in SUBSET Calls
  /\ answer \in [Calls -> Kinds \cup {None}]
  /\ replies \in SUBSET Replies
  /\ unknown \in SUBSET Replies
  /\ connected \in BOOLEAN

Init ==
  /\ serial = 1
  /\ replyChannels =
       [i \in SlotIds |-> [serial |-> 0, ready |-> TRUE, channel |-> None]]
  /\ fallback = [s \in Serials |-> Absent]
  /\ pc = [c \in Calls |-> "idle"]
  /\ callSerial = [c \in Calls |-> 0]
  /\ expectsReply = [c \in Calls |-> FALSE]
  /\ newChannelUsed = [c \in Calls |-> FALSE]
  /\ got = [c \in Calls |-> None]
  /\ transmitted = {}
  /\ answer = [c \in Calls |-> None]
  /\ replies = {}
  /\ unknown = {}
  /\ connected = TRUE
--------------------------------------------------------------------------------
(* SendMessageInternal, up to its first suspension *)

\* serial++ on a uint32_t
Increment(s) == IF s = SerialModulus - 1 THEN 0 ELSE s + 1

\* Mutant: every slot is taken to be free.
SlotFreeUnchecked(s) == TRUE

SlotFree(s) == replyChannels[Slot(s)].ready

\* Mark the slot unavailable, or allocate a fallback channel.
Reserve(s) ==
  IF SlotFree(s)
    THEN /\ replyChannels' =
              [replyChannels EXCEPT ![Slot(s)] =
                 [serial |-> s, ready |-> FALSE, channel |-> @.channel]]
         /\ UNCHANGED fallback
    ELSE /\ fallback' = [fallback EXCEPT ![s] = None]
         /\ UNCHANGED replyChannels

\* Take a serial and, for a reply, a channel.  Serialize() then throws on a
\* message that lacks a required field: whatever was reserved stays reserved.
Start(c, expects, wellFormed) ==
  /\ pc[c] = "idle"
  /\ serial' = Increment(serial)
  /\ callSerial' = [callSerial EXCEPT ![c] = serial]
  /\ expectsReply' = [expectsReply EXCEPT ![c] = expects]
  /\ newChannelUsed' =
       [newChannelUsed EXCEPT ![c] = expects /\ ~SlotFree(serial)]
  /\ IF expects THEN Reserve(serial) ELSE UNCHANGED <<replyChannels, fallback>>
  /\ pc' = [pc EXCEPT ![c] = IF wellFormed THEN "writing" ELSE "failed"]
  /\ UNCHANGED <<got, daemon, unknown, connected>>
--------------------------------------------------------------------------------
(* The suspended coroutine *)

\* async_write completes: a one-way message is done.
WriteDone(c) ==
  /\ pc[c] = "writing"
  /\ c \in transmitted
  /\ pc' = [pc EXCEPT ![c] = IF expectsReply[c] THEN "awaiting" ELSE "sent"]
  /\ UNCHANGED <<serial, replyChannels, fallback, local, got, daemon, unknown,
                 connected>>

\* async_write throws out of SendMessageInternal.
WriteFail(c) ==
  /\ pc[c] = "writing"
  /\ c \notin transmitted
  /\ ~connected
  /\ pc' = [pc EXCEPT ![c] = "failed"]
  /\ UNCHANGED <<serial, replyChannels, fallback, local, got, daemon, unknown,
                 connected>>

\* Mutant: the pointer is not moved to the fallback channel.
OwnChannelSlotOnly(c) == replyChannels[Slot(callSerial[c])].channel

\* The channel the coroutine holds a pointer to.
OwnChannel(c) ==
  IF newChannelUsed[c] THEN fallback[callSerial[c]]
                       ELSE replyChannels[Slot(callSerial[c])].channel

\* The slot is ready again, or the fallback channel is erased.
Release(c) ==
  IF newChannelUsed[c]
    THEN /\ fallback' = [fallback EXCEPT ![callSerial[c]] = Absent]
         /\ UNCHANGED replyChannels
    ELSE /\ replyChannels' =
              [replyChannels EXCEPT ![Slot(callSerial[c])] =
                 [serial |-> @.serial, ready |-> TRUE, channel |-> None]]
         /\ UNCHANGED fallback

\* async_receive hands over the reply; an ERROR message is thrown as a
\* DBusError.
Receive(c) ==
  /\ pc[c] = "awaiting"
  /\ OwnChannel(c) \in Replies
  /\ got' = [got EXCEPT ![c] = OwnChannel(c)]
  /\ Release(c)
  /\ pc' = [pc EXCEPT ![c] = IF OwnChannel(c).kind = "error" THEN "raised"
                                                             ELSE "returned"]
  /\ UNCHANGED <<serial, local, daemon, unknown, connected>>

\* Mutant: a guard object marks the slot ready when the coroutine unwinds.
CancelMarksReady(c) ==
  /\ \/ pc[c] = "writing"
     \/ pc[c] = "awaiting" /\ OwnChannel(c) = None
  /\ pc' = [pc EXCEPT ![c] = "cancelled"]
  /\ replyChannels' =
       IF expectsReply[c] /\ ~newChannelUsed[c]
         THEN [replyChannels EXCEPT ![Slot(callSerial[c])].ready = TRUE]
         ELSE replyChannels
  /\ UNCHANGED <<serial, fallback, local, got, daemon, unknown, connected>>

\* The caller is cancelled while it is suspended (a timeout around
\* SendMessage, say) and operation_aborted leaves SendMessageInternal, which
\* has no handler to release the channel.  A receive that already completed
\* is not undone; a write that completed aborts at the next co_await.
Cancel(c) ==
  /\ \/ pc[c] = "writing"
     \/ pc[c] = "awaiting" /\ OwnChannel(c) = None
  /\ pc' = [pc EXCEPT ![c] = "cancelled"]
  /\ UNCHANGED <<serial, replyChannels, fallback, local, got, daemon, unknown,
                 connected>>
--------------------------------------------------------------------------------
(* The daemon and the socket *)

\* The message's last byte reaches the daemon, perhaps long before the
\* writing coroutine runs again.
Transmit(c) ==
  /\ pc[c] = "writing"
  /\ c \notin transmitted
  /\ connected
  /\ transmitted' = transmitted \cup {c}
  /\ UNCHANGED <<serial, replyChannels, fallback, pc, local, got, answer,
                 replies, unknown, connected>>

\* The peer, or the daemon on its behalf, answers a request it has.
Answer(c, kind) ==
  /\ connected
  /\ c \in transmitted
  /\ expectsReply[c]
  /\ answer[c] = None
  /\ answer' = [answer EXCEPT ![c] = kind]
  /\ replies' =
       replies \cup {[serial |-> callSerial[c], to |-> c, kind |-> kind]}
  /\ UNCHANGED <<serial, replyChannels, fallback, pc, local, got, transmitted,
                 unknown, connected>>

\* The daemon goes away; what it had not delivered is lost.
Disconnect ==
  /\ connected
  /\ connected' = FALSE
  /\ replies' = {}
  /\ UNCHANGED <<serial, replyChannels, fallback, pc, local, got, transmitted,
                 answer, unknown>>
--------------------------------------------------------------------------------
(* HandleReadMessage on a message with a REPLY_SERIAL *)

\* Mutant: the serial of the slot is not compared.
SlotMatchesAnySerial(s) == ~replyChannels[Slot(s)].ready

SlotMatches(s) ==
  replyChannels[Slot(s)].serial = s /\ ~replyChannels[Slot(s)].ready

FallbackMatches(s) == ~SlotMatches(s) /\ fallback[s] # Absent

\* async_send into a channel of capacity 1 that holds a reply waits for room.
ChannelFull(s) ==
  \/ SlotMatches(s) /\ replyChannels[Slot(s)].channel # None
  \/ FallbackMatches(s) /\ fallback[s] # None

Deliver(r) ==
  LET s == r.serial IN
  /\ r \in replies
  /\ ~ChannelFull(s)
  /\ replies' = replies \ {r}
  /\ replyChannels' =
       IF SlotMatches(s)
         THEN [replyChannels EXCEPT ![Slot(s)].channel = r]
         ELSE replyChannels
  /\ fallback' =
       IF FallbackMatches(s) THEN [fallback EXCEPT ![s] = r] ELSE fallback
  /\ unknown' =
       IF SlotMatches(s) \/ FallbackMatches(s) THEN unknown
                                               ELSE unknown \cup {r}
  /\ UNCHANGED <<serial, pc, local, got, transmitted, answer, connected>>
--------------------------------------------------------------------------------
CallNext(c) ==
  \/ \E expects, wellFormed \in BOOLEAN : Start(c, expects, wellFormed)
  \/ WriteDone(c)
  \/ WriteFail(c)
  \/ Receive(c)
  \/ Cancel(c)
  \/ Transmit(c)
  \/ \E kind \in Kinds : Answer(c, kind)

Next ==
  \/ \E c \in Calls : CallNext(c)
  \/ \E r \in replies : Deliver(r)
  \/ Disconnect

Spec == Init /\ [][Next]_vars

\* The executor runs every posted completion; a daemon that stays reachable
\* takes and answers every request.
Fairness ==
  /\ \A c \in Calls : /\ WF_vars(WriteDone(c)) /\ WF_vars(WriteFail(c))
                      /\ WF_vars(Receive(c)) /\ WF_vars(Transmit(c))
                      /\ WF_vars(\E kind \in Kinds : Answer(c, kind))
  /\ WF_vars(\E r \in replies : Deliver(r))

FairSpec == Spec /\ Fairness
--------------------------------------------------------------------------------
(* Properties *)

Started(c) == pc[c] # "idle"

\* c reserved a channel and has not released it.
Holds(c) ==
  expectsReply[c] /\ pc[c] \in {"writing", "awaiting", "failed", "cancelled"}

HoldsSlot(c, i) ==
  Holds(c) /\ ~newChannelUsed[c] /\ Slot(callSerial[c]) = i

\* A SendMessageInternal call returns, or throws, the reply to its own message:
\* never the one a peer gave to another message that used the same slot.
OwnReply == \A c \in Calls : got[c] # None => got[c].to = c

\* HandleReadMessage always finds the channel of a reply, the one to a caller
\* that was cancelled or failed included: "It should not be possible to get a
\* reply to a message we don't know" (DBusConnection.txx:554).
NoUnknownReply == unknown = {}

\* The channel a reply selects has room for it when it arrives: the coroutine that
\* handles the reply never waits in async_send for a caller that will not come.
RoomForEveryReply == \A r \in replies : ~ChannelFull(r.serial)

\* A slot that is not ready, or an entry of fallbackReplyChannels, belongs to
\* exactly one message that has not released it, and such a message has its
\* channel: no slot is given out twice and none is freed by another caller.
ChannelsAccounted ==
  /\ \A i \in SlotIds :
       IF replyChannels[i].ready
         THEN /\ \A c \in Calls : ~HoldsSlot(c, i)
              /\ replyChannels[i].channel = None
         ELSE \E c \in Calls :
                /\ HoldsSlot(c, i)
                /\ callSerial[c] = replyChannels[i].serial
                /\ \A d \in Calls : HoldsSlot(d, i) => d = c
  /\ \A s \in Serials :
       fallback[s] # Absent <=>
         \E c \in Calls : Holds(c) /\ newChannelUsed[c] /\ callSerial[c] = s

\* A reply waiting in a channel leaves it only to the message it answers, and
\* in the step in which that message's caller returns or throws.
TakenByItsCaller ==
  [][\A c \in Calls :
       LET r == OwnChannel(c) IN
         Holds(c) /\ r # None /\ OwnChannel(c)' # r =>
           r.to = c /\ got'[c] = r /\ pc'[c] \in {"returned", "raised"}]_vars

\* The messages sent are the calls of MethodCalls.
Promise ==
  INSTANCE MethodCalls WITH
    status <- [c \in Calls |->
                 CASE pc[c] \in {"writing", "awaiting"} -> "pending"
                   [] pc[c] \in {"sent", "failed", "cancelled"} -> "ended"
                   [] OTHER -> pc[c]]

\* A caller gets the peer's answer or gives up; it returns a value only when its
\* own peer returned one and throws a DBusError only when that peer sent one.
ImplementsMethodCalls == Promise!Spec

\* As long as the daemon stays reachable, every caller is resumed: no reply is
\* put where its caller does not look, or left waiting for room.
EveryCallEnds ==
  \A c \in Calls :
    pc[c] \in {"writing", "awaiting"} ~>
      (pc[c] \notin {"writing", "awaiting"} \/ ~connected)
================================================================================
