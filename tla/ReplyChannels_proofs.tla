-------------------------- MODULE ReplyChannels_proofs -------------------------
(***************************************************************************)
(* Theorems about ReplyChannels, for every number of slots, every serial    *)
(* width and every set of messages that fits in one period of the counter.  *)
(***************************************************************************)
EXTENDS ReplyChannels, FiniteSetTheorems, TLAPS

LEMMA SlotInRange == \A s \in Serials : Slot(s) \in SlotIds
  BY NumSlotsAssumption, SerialModulusAssumption DEF Serials, Slot, SlotIds

LEMMA IncrementType == \A s \in Serials : Increment(s) \in Serials
  BY SerialModulusAssumption DEF Serials, Increment

LEMMA ReserveType ==
  ASSUME TypeOK, NEW s \in Serials, Reserve(s)
  PROVE  /\ replyChannels' \in [SlotIds -> [serial : Serials, ready : BOOLEAN,
                                            channel : Replies \cup {None}]]
         /\ fallback' \in [Serials -> Replies \cup {None, Absent}]
<1>1. Slot(s) \in SlotIds
  BY SlotInRange
<1>2. CASE SlotFree(s)
  <2> DEFINE slot == [serial |-> s, ready |-> FALSE,
                      channel |-> replyChannels[Slot(s)].channel]
  <2>1. slot \in [serial : Serials, ready : BOOLEAN,
                  channel : Replies \cup {None}]
    BY <1>1 DEF TypeOK
  <2>2. /\ replyChannels' = [replyChannels EXCEPT ![Slot(s)] = slot]
        /\ UNCHANGED fallback
    BY <1>2 DEF Reserve
  <2> QED
    BY <1>1, <2>1, <2>2 DEF TypeOK
<1>3. CASE ~SlotFree(s)
  BY <1>3 DEF TypeOK, Reserve
<1> QED
  BY <1>2, <1>3

LEMMA ReleaseType ==
  ASSUME TypeOK, NEW c \in Calls, Release(c)
  PROVE  /\ replyChannels' \in [SlotIds -> [serial : Serials, ready : BOOLEAN,
                                            channel : Replies \cup {None}]]
         /\ fallback' \in [Serials -> Replies \cup {None, Absent}]
<1>1. callSerial[c] \in Serials /\ Slot(callSerial[c]) \in SlotIds
  BY SlotInRange DEF TypeOK
<1>2. CASE newChannelUsed[c]
  BY <1>1, <1>2 DEF TypeOK, Release
<1>3. CASE ~newChannelUsed[c]
  <2> DEFINE slot == [serial |-> replyChannels[Slot(callSerial[c])].serial,
                      ready |-> TRUE, channel |-> None]
  <2>1. slot \in [serial : Serials, ready : BOOLEAN,
                  channel : Replies \cup {None}]
    BY <1>1 DEF TypeOK
  <2>2. /\ replyChannels' =
             [replyChannels EXCEPT ![Slot(callSerial[c])] = slot]
        /\ UNCHANGED fallback
    BY <1>3 DEF Release
  <2> QED
    BY <1>1, <2>1, <2>2 DEF TypeOK
<1> QED
  BY <1>2, <1>3

\* The variables keep their types.
THEOREM TypeCorrect == Spec => []TypeOK
<1>1. Init => TypeOK
  BY SerialModulusAssumption DEF Init, TypeOK, Serials, PCs
<1>2. TypeOK /\ [Next]_vars => TypeOK'
  <2> SUFFICES ASSUME TypeOK, [Next]_vars PROVE TypeOK'
    OBVIOUS
  <2>1. CASE UNCHANGED vars
    BY <2>1 DEF TypeOK, vars, local, daemon
  <2>2. ASSUME NEW c \in Calls, CallNext(c) PROVE TypeOK'
    <3>1. ASSUME NEW expects \in BOOLEAN, NEW wellFormed \in BOOLEAN,
                 Start(c, expects, wellFormed)
          PROVE  TypeOK'
      <4>1. /\ replyChannels' \in [SlotIds ->
                 [serial : Serials, ready : BOOLEAN,
                  channel : Replies \cup {None}]]
            /\ fallback' \in [Serials -> Replies \cup {None, Absent}]
        BY <3>1, ReserveType DEF Start, TypeOK
      <4>2. /\ serial' \in Serials
            /\ callSerial' \in [Calls -> Serials]
            /\ pc' \in [Calls -> PCs]
        BY <3>1, IncrementType DEF Start, TypeOK, PCs
      <4>3. /\ expectsReply' \in [Calls -> BOOLEAN]
            /\ newChannelUsed' \in [Calls -> BOOLEAN]
        <5>1. (expects /\ ~SlotFree(serial)) \in BOOLEAN
          OBVIOUS
        <5> QED
          BY <5>1, <3>1 DEF Start, TypeOK
      <4>4. UNCHANGED <<got, transmitted, answer, replies, unknown, connected>>
        BY <3>1 DEF Start, daemon
      <4> QED
        BY <4>1, <4>2, <4>3, <4>4 DEF TypeOK
    <3>2. CASE WriteDone(c) \/ WriteFail(c) \/ Cancel(c) \/ Transmit(c)
      BY <3>2 DEF WriteDone, WriteFail, Cancel, Transmit, TypeOK, PCs, local,
                  daemon
    <3>3. CASE Receive(c)
      <4>1. /\ replyChannels' \in [SlotIds ->
                 [serial : Serials, ready : BOOLEAN,
                  channel : Replies \cup {None}]]
            /\ fallback' \in [Serials -> Replies \cup {None, Absent}]
        BY <3>3, ReleaseType DEF Receive, TypeOK
      <4>2. /\ got' \in [Calls -> Replies \cup {None}]
            /\ pc' \in [Calls -> PCs]
        BY <3>3 DEF Receive, TypeOK, PCs
      <4>3. UNCHANGED <<serial, local, daemon, unknown, connected>>
        BY <3>3 DEF Receive
      <4> QED
        BY <4>1, <4>2, <4>3 DEF TypeOK, local, daemon
    <3>4. ASSUME NEW kind \in Kinds, Answer(c, kind) PROVE TypeOK'
      BY <3>4 DEF Answer, TypeOK, Replies, local
    <3> QED
      BY <2>2, <3>1, <3>2, <3>3, <3>4 DEF CallNext
  <2>3. ASSUME NEW r \in replies, Deliver(r) PROVE TypeOK'
    <3>1. r \in Replies /\ r.serial \in Serials
      BY DEF TypeOK, Replies
    <3> QED
      BY <2>3, <3>1, SlotInRange, ZenonT(40) DEF Deliver, TypeOK, local
  <2>4. CASE Disconnect
    BY <2>4 DEF Disconnect, TypeOK, local
  <2> QED
    BY <2>1, <2>2, <2>3, <2>4 DEF Next
<1> QED
  BY <1>1, <1>2, PTL DEF Spec
--------------------------------------------------------------------------------
(* The inductive invariant.  OwnReply says nothing of a message whose reply is *)
(* still to come, so it is strengthened to the whole path of a reply: the      *)
(* serials in use are different, each message that holds a channel finds it    *)
(* under its serial, no channel is held otherwise, and a reply, in flight or   *)
(* in a channel, is the answer to the message that holds that channel.         *)

StartedCalls == {c \in Calls : Started(c)}

\* serial and the serials given out so far, within one period of the counter.
CounterInv ==
  LET n == Cardinality(StartedCalls) IN
  n < SerialModulus =>
    /\ serial = IF n + 1 = SerialModulus THEN 0 ELSE n + 1
    /\ \A c \in StartedCalls : callSerial[c] \in 1 .. n

UniqueSerials ==
  \A c, d \in StartedCalls : callSerial[c] = callSerial[d] => c = d

\* What the answer c was given looks like on the wire.
ReplyTo(c) == [serial |-> callSerial[c], to |-> c, kind |-> answer[c]]

PhaseInv ==
  \A c \in Calls :
    /\ pc[c] = "idle" => ~expectsReply[c] /\ c \notin transmitted
    /\ pc[c] \in {"awaiting", "returned", "raised"} => expectsReply[c]
    /\ pc[c] = "sent" => ~expectsReply[c]
    /\ newChannelUsed[c] => expectsReply[c]
    /\ answer[c] # None => expectsReply[c] /\ c \in transmitted
    /\ got[c] # None => pc[c] \in {"returned", "raised"}
    /\ pc[c] \in {"returned", "raised"} =>
         /\ answer[c] # None
         /\ got[c] = ReplyTo(c)
         /\ pc[c] = "raised" <=> answer[c] = "error"

HasChannel(c) ==
  IF newChannelUsed[c]
    THEN fallback[callSerial[c]] # Absent
    ELSE /\ ~replyChannels[Slot(callSerial[c])].ready
         /\ replyChannels[Slot(callSerial[c])].serial = callSerial[c]

ChannelsInv ==
  /\ \A c \in Calls : Holds(c) => HasChannel(c)
  /\ \A i \in SlotIds :
       IF replyChannels[i].ready THEN replyChannels[i].channel = None
                                 ELSE \E c \in Calls : HoldsSlot(c, i)
  /\ \A s \in Serials : fallback[s] # Absent =>
       \E c \in Calls : Holds(c) /\ newChannelUsed[c] /\ callSerial[c] = s

RepliesInv ==
  \A r \in replies : /\ Holds(r.to)
                     /\ answer[r.to] # None
                     /\ r = ReplyTo(r.to)
                     /\ OwnChannel(r.to) = None

ContentsInv ==
  \A c \in Calls : Holds(c) /\ OwnChannel(c) # None =>
    answer[c] # None /\ OwnChannel(c) = ReplyTo(c)

IInv ==
  /\ TypeOK
  /\ CounterInv
  /\ UniqueSerials
  /\ PhaseInv
  /\ ChannelsInv
  /\ RepliesInv
  /\ ContentsInv
  /\ unknown = {}

LEMMA InitIInv == Init => IInv
<1> SUFFICES ASSUME Init PROVE IInv
  OBVIOUS
<1>1. TypeOK
  BY SerialModulusAssumption DEF Init, TypeOK, Serials, PCs
<1>2. StartedCalls = {}
  BY DEF Init, StartedCalls, Started
<1>3. CounterInv
  BY <1>2, FS_EmptySet, SerialModulusAssumption DEF CounterInv, Init
<1>4. UniqueSerials
  BY <1>2 DEF UniqueSerials
<1>5. PhaseInv
  BY DEF Init, PhaseInv
<1>6. ChannelsInv /\ RepliesInv /\ ContentsInv
  BY DEF Init, ChannelsInv, RepliesInv, ContentsInv, Holds
<1> QED
  BY <1>1, <1>3, <1>4, <1>5, <1>6 DEF IInv, Init

\* The serial an unsent message would take is not in use.
LEMMA FreshSerial ==
  ASSUME IInv, NEW c \in Calls, pc[c] = "idle"
  PROVE  /\ IsFiniteSet(StartedCalls)
         /\ Cardinality(StartedCalls) \in Nat
         /\ Cardinality(StartedCalls) < SerialModulus
         /\ \A d \in StartedCalls : callSerial[d] # serial
<1> DEFINE n == Cardinality(StartedCalls)
<1>1. StartedCalls \subseteq Calls /\ c \notin StartedCalls
  BY DEF StartedCalls, Started
<1>2. /\ IsFiniteSet(StartedCalls)
      /\ n <= Cardinality(Calls)
      /\ n # Cardinality(Calls)
  BY <1>1, CallsAssumption, FS_Subset
<1>3. n \in Nat /\ Cardinality(Calls) \in Nat
  BY <1>2, CallsAssumption, FS_CardinalityType
<1>4. n < SerialModulus
  BY <1>2, <1>3, CallsAssumption, SerialModulusAssumption
<1>5. serial = IF n + 1 = SerialModulus THEN 0 ELSE n + 1
  BY <1>4 DEF IInv, CounterInv
<1>6. ASSUME NEW d \in StartedCalls PROVE callSerial[d] # serial
  <2>1. callSerial[d] \in 1 .. n
    BY <1>4 DEF IInv, CounterInv
  <2> QED
    BY <2>1, <1>3, <1>5
<1> QED
  BY <1>2, <1>3, <1>4, <1>6

\* Two messages never hold the same slot.
LEMMA OneHolder ==
  ASSUME IInv, NEW c \in Calls, NEW d \in Calls,
         Holds(c), Holds(d), ~newChannelUsed[c], ~newChannelUsed[d],
         Slot(callSerial[c]) = Slot(callSerial[d])
  PROVE  c = d
<1>1. HasChannel(c) /\ HasChannel(d)
  BY DEF IInv, ChannelsInv
<1>2. callSerial[c] = callSerial[d]
  BY <1>1 DEF HasChannel
<1>3. c \in StartedCalls /\ d \in StartedCalls
  BY DEF StartedCalls, Started, Holds
<1> QED
  BY <1>2, <1>3 DEF IInv, UniqueSerials

\* The serial of a message that holds a channel leads to that channel.
LEMMA SerialFindsChannel ==
  ASSUME IInv, NEW c \in Calls, Holds(c)
  PROVE  /\ SlotMatches(callSerial[c]) <=> ~newChannelUsed[c]
         /\ FallbackMatches(callSerial[c]) <=> newChannelUsed[c]
         /\ ChannelFull(callSerial[c]) <=> OwnChannel(c) # None
<1> DEFINE s == callSerial[c]
<1>1. HasChannel(c) /\ s \in Serials /\ newChannelUsed[c] \in BOOLEAN
  BY DEF IInv, ChannelsInv, TypeOK
<1>2. CASE ~newChannelUsed[c]
  BY <1>1, <1>2
  DEF HasChannel, SlotMatches, FallbackMatches, ChannelFull, OwnChannel
<1>3. CASE newChannelUsed[c]
  <2>1. ~SlotMatches(s)
    <3> SUFFICES ASSUME SlotMatches(s) PROVE FALSE
      OBVIOUS
    <3>1. PICK d \in Calls : HoldsSlot(d, Slot(s))
      BY <1>1, SlotInRange DEF SlotMatches, IInv, ChannelsInv
    <3>2. HasChannel(d) /\ Holds(d) /\ ~newChannelUsed[d]
      BY <3>1 DEF IInv, ChannelsInv, HoldsSlot
    <3>3. callSerial[d] = s
      BY <3>1, <3>2 DEF HasChannel, HoldsSlot, SlotMatches
    <3>4. c \in StartedCalls /\ d \in StartedCalls
      BY <3>2 DEF StartedCalls, Started, Holds
    <3>5. c = d
      BY <3>3, <3>4 DEF IInv, UniqueSerials
    <3> QED
      BY <3>2, <3>5, <1>3
  <2> QED
    BY <1>1, <1>3, <2>1
    DEF HasChannel, FallbackMatches, ChannelFull, OwnChannel
<1> QED
  BY <1>1, <1>2, <1>3

\* Steps that touch neither the channels nor the coroutines' locals.
LEMMA ChannelsFrame ==
  ASSUME IInv,
         UNCHANGED <<serial, replyChannels, fallback, local>>,
         \A d \in Calls : (Started(d)' <=> Started(d)) /\ (Holds(d)' <=> Holds(d))
  PROVE  /\ CounterInv'
         /\ UniqueSerials'
         /\ ChannelsInv'
         /\ \A d \in Calls : OwnChannel(d)' = OwnChannel(d)
<1>1. StartedCalls' = StartedCalls
  BY DEF StartedCalls
<1>2. CounterInv' /\ UniqueSerials'
  BY <1>1 DEF IInv, CounterInv, UniqueSerials, local
<1>3. \A d \in Calls : OwnChannel(d)' = OwnChannel(d)
  BY DEF OwnChannel, local
<1>4. \A d \in Calls : HasChannel(d)' <=> HasChannel(d)
  BY DEF HasChannel, local
<1>5. \A d \in Calls, i \in SlotIds : HoldsSlot(d, i)' <=> HoldsSlot(d, i)
  BY DEF HoldsSlot, local
<1>6. ChannelsInv'
  BY <1>4, <1>5 DEF IInv, ChannelsInv, local
<1> QED
  BY <1>2, <1>3, <1>6

\* A coroutine moves on, or gives up, without touching its channel.
LEMMA MoveStep ==
  ASSUME IInv, TypeOK', NEW c \in Calls,
         WriteDone(c) \/ WriteFail(c) \/ Cancel(c)
  PROVE  IInv'
<1>1. UNCHANGED <<serial, replyChannels, fallback, local, got, daemon, unknown>>
  BY DEF WriteDone, WriteFail, Cancel
<1>2. PICK p \in {"awaiting", "sent", "failed", "cancelled"} :
        /\ pc' = [pc EXCEPT ![c] = p]
        /\ pc[c] \in {"writing", "awaiting"}
        /\ p = "awaiting" => expectsReply[c]
        /\ p = "sent" => ~expectsReply[c]
  BY DEF WriteDone, WriteFail, Cancel
<1>3. \A d \in Calls : /\ Started(d)' <=> Started(d)
                       /\ Holds(d)' <=> Holds(d)
                       /\ ReplyTo(d)' = ReplyTo(d)
  BY <1>1, <1>2 DEF IInv, TypeOK, PhaseInv, Started, Holds, ReplyTo, local, daemon
<1>4. /\ CounterInv'
      /\ UniqueSerials'
      /\ ChannelsInv'
      /\ \A d \in Calls : OwnChannel(d)' = OwnChannel(d)
  BY <1>1, <1>3, ChannelsFrame
<1>5. PhaseInv'
  BY <1>1, <1>2, <1>3 DEF IInv, TypeOK, PhaseInv, local, daemon
<1>6. RepliesInv'
  <2>1. \A r \in replies : r.to \in Calls
    BY DEF IInv, TypeOK, Replies
  <2> QED
    BY <1>1, <1>3, <1>4, <2>1 DEF IInv, RepliesInv, daemon
<1>7. ContentsInv'
  BY <1>1, <1>3, <1>4 DEF IInv, ContentsInv, daemon
<1> QED
  BY <1>1, <1>4, <1>5, <1>6, <1>7 DEF IInv

LEMMA TransmitStep ==
  ASSUME IInv, TypeOK', NEW c \in Calls, Transmit(c)
  PROVE  IInv'
<1>1. UNCHANGED <<serial, replyChannels, fallback, pc, local, got, answer,
                  replies, unknown>>
  BY DEF Transmit
<1>2. \A d \in Calls : /\ Started(d)' <=> Started(d)
                       /\ Holds(d)' <=> Holds(d)
                       /\ ReplyTo(d)' = ReplyTo(d)
  BY <1>1 DEF Started, Holds, ReplyTo, local
<1>3. /\ CounterInv'
      /\ UniqueSerials'
      /\ ChannelsInv'
      /\ \A d \in Calls : OwnChannel(d)' = OwnChannel(d)
  BY <1>1, <1>2, ChannelsFrame
<1>4. PhaseInv'
  <2>1. transmitted' = transmitted \cup {c} /\ pc[c] = "writing"
    BY DEF Transmit
  <2> QED
    BY <1>1, <1>2, <2>1 DEF IInv, PhaseInv, local
<1>5. RepliesInv' /\ ContentsInv'
  <2>1. \A r \in replies : r.to \in Calls
    BY DEF IInv, TypeOK, Replies
  <2> QED
    BY <1>1, <1>2, <1>3, <2>1 DEF IInv, RepliesInv, ContentsInv
<1> QED
  BY <1>1, <1>3, <1>4, <1>5 DEF IInv

LEMMA DisconnectStep ==
  ASSUME IInv, TypeOK', Disconnect
  PROVE  IInv'
<1>1. /\ UNCHANGED <<serial, replyChannels, fallback, pc, local, got,
                     transmitted, answer, unknown>>
      /\ replies' = {}
  BY DEF Disconnect
<1>2. \A d \in Calls : /\ Started(d)' <=> Started(d)
                       /\ Holds(d)' <=> Holds(d)
                       /\ ReplyTo(d)' = ReplyTo(d)
  BY <1>1 DEF Started, Holds, ReplyTo, local
<1>3. /\ CounterInv'
      /\ UniqueSerials'
      /\ ChannelsInv'
      /\ \A d \in Calls : OwnChannel(d)' = OwnChannel(d)
  BY <1>1, <1>2, ChannelsFrame
<1>4. PhaseInv'
  BY <1>1, <1>2 DEF IInv, PhaseInv, local
<1>5. RepliesInv' /\ ContentsInv'
  BY <1>1, <1>2, <1>3 DEF IInv, RepliesInv, ContentsInv
<1> QED
  BY <1>1, <1>3, <1>4, <1>5 DEF IInv

\* The peer answers: its reply is on the wire and finds the channel empty.
LEMMA AnswerStep ==
  ASSUME IInv, TypeOK', NEW c \in Calls, NEW kind \in Kinds, Answer(c, kind)
  PROVE  IInv'
<1>1. /\ UNCHANGED <<serial, replyChannels, fallback, pc, local, got,
                     transmitted, unknown>>
      /\ c \in transmitted /\ expectsReply[c] /\ answer[c] = None
      /\ answer' = [answer EXCEPT ![c] = kind]
      /\ replies' =
           replies \cup {[serial |-> callSerial[c], to |-> c, kind |-> kind]}
  BY DEF Answer
<1>2. kind # None
  BY NoneAssumption
<1>3. answer'[c] = kind /\ \A d \in Calls \ {c} : answer'[d] = answer[d]
  BY <1>1 DEF IInv, TypeOK
<1>4. /\ \A d \in Calls : (Started(d)' <=> Started(d)) /\ (Holds(d)' <=> Holds(d))
      /\ \A d \in Calls \ {c} : ReplyTo(d)' = ReplyTo(d)
      /\ ReplyTo(c)' = [serial |-> callSerial[c], to |-> c, kind |-> kind]
  BY <1>1, <1>3 DEF Started, Holds, ReplyTo, local
<1>5. /\ CounterInv'
      /\ UniqueSerials'
      /\ ChannelsInv'
      /\ \A d \in Calls : OwnChannel(d)' = OwnChannel(d)
  BY <1>1, <1>4, ChannelsFrame
<1>6. Holds(c) /\ OwnChannel(c) = None
  <2>1. pc[c] \notin {"idle", "sent", "returned", "raised"}
    BY <1>1 DEF IInv, PhaseInv
  <2>2. Holds(c)
    BY <1>1, <2>1 DEF IInv, TypeOK, PCs, Holds
  <2> QED
    BY <1>1, <2>2 DEF IInv, ContentsInv
<1>7. PhaseInv'
  <2> SUFFICES ASSUME NEW d \in Calls
               PROVE  /\ answer'[d] # None => expectsReply[d] /\ d \in transmitted
                      /\ pc[d] \in {"returned", "raised"} =>
                           /\ answer'[d] # None
                           /\ got[d] = ReplyTo(d)'
                           /\ pc[d] = "raised" <=> answer'[d] = "error"
    BY <1>1 DEF IInv, PhaseInv, local
  <2>1. CASE d = c
    BY <2>1, <1>1, <1>6 DEF Holds
  <2>2. CASE d # c
    BY <2>2, <1>3, <1>4 DEF IInv, PhaseInv
  <2> QED
    BY <2>1, <2>2
<1>8. RepliesInv'
  <2> SUFFICES ASSUME NEW r \in replies'
               PROVE  /\ Holds(r.to) /\ OwnChannel(r.to) = None
                      /\ answer'[r.to] # None /\ r = ReplyTo(r.to)'
                      /\ r.to \in Calls
    BY <1>4, <1>5 DEF RepliesInv
  <2>1. CASE r \in replies
    <3>1. /\ r.to \in Calls
          /\ Holds(r.to) /\ OwnChannel(r.to) = None
          /\ answer[r.to] # None /\ r = ReplyTo(r.to)
      BY <2>1 DEF IInv, TypeOK, Replies, RepliesInv
    <3>2. r.to # c
      BY <3>1, <1>1
    <3> QED
      BY <3>1, <3>2, <1>3, <1>4
  <2>2. CASE r \notin replies
    <3>1. r = [serial |-> callSerial[c], to |-> c, kind |-> kind]
      BY <1>1, <2>2
    <3> QED
      BY <3>1, <1>2, <1>3, <1>4, <1>6
  <2> QED
    BY <2>1, <2>2
<1>9. ContentsInv'
  BY <1>3, <1>4, <1>5, <1>6 DEF IInv, ContentsInv
<1> QED
  BY <1>1, <1>5, <1>7, <1>8, <1>9 DEF IInv

\* The read loop puts a reply in the channel of the message it answers, and in
\* no other.
LEMMA DeliverEffect ==
  ASSUME IInv, TypeOK', NEW r \in replies, Deliver(r)
  PROVE  /\ r.to \in Calls /\ Holds(r.to) /\ r = ReplyTo(r.to)
         /\ OwnChannel(r.to)' = r
         /\ \A d \in Calls : /\ Holds(d)' <=> Holds(d)
                             /\ Holds(d) => HasChannel(d)'
                             /\ Holds(d) /\ d # r.to =>
                                  OwnChannel(d)' = OwnChannel(d)
         /\ \A i \in SlotIds : replyChannels'[i].ready = replyChannels[i].ready
         /\ \A i \in SlotIds : replyChannels[i].ready =>
              replyChannels'[i] = replyChannels[i]
         /\ \A s \in Serials : fallback'[s] # Absent => fallback[s] # Absent
         /\ unknown' = unknown
<1> DEFINE c == r.to
           s == callSerial[c]
<1>1. /\ r \in Replies /\ c \in Calls /\ Holds(c) /\ r = ReplyTo(c)
      /\ r # None /\ r # Absent
  BY NoneAssumption DEF IInv, TypeOK, Replies, RepliesInv
<1>2. r.serial = s /\ s \in Serials /\ Slot(s) \in SlotIds
  BY <1>1, SlotInRange DEF ReplyTo, IInv, TypeOK
<1>3. /\ SlotMatches(s) <=> ~newChannelUsed[c]
      /\ FallbackMatches(s) <=> newChannelUsed[c]
      /\ HasChannel(c)
  BY <1>1, SerialFindsChannel DEF IInv, ChannelsInv
<1>4. UNCHANGED <<serial, pc, local, got, transmitted, answer>>
  BY DEF Deliver
<1>5. \A d \in Calls : Holds(d)' <=> Holds(d)
  BY <1>4 DEF Holds, local
<1>6. \A d \in Calls : Holds(d) => HasChannel(d) /\ callSerial[d] \in Serials
                                  /\ Slot(callSerial[d]) \in SlotIds
  BY SlotInRange DEF IInv, ChannelsInv, TypeOK
<1>7. CASE ~newChannelUsed[c]
  <2>1. /\ replyChannels' = [replyChannels EXCEPT ![Slot(s)].channel = r]
        /\ fallback' = fallback
        /\ unknown' = unknown
    BY <1>2, <1>3, <1>7 DEF Deliver
  <2>2. /\ replyChannels'[Slot(s)].channel = r
        /\ \A i \in SlotIds :
             /\ replyChannels'[i].ready = replyChannels[i].ready
             /\ replyChannels'[i].serial = replyChannels[i].serial
             /\ i # Slot(s) => replyChannels'[i] = replyChannels[i]
    BY <1>2, <2>1 DEF IInv, TypeOK
  <2>3. ~replyChannels[Slot(s)].ready
    BY <1>3, <1>7 DEF HasChannel
  <2>4. \A d \in Calls : Holds(d) => HasChannel(d)'
    BY <1>4, <1>6, <2>1, <2>2 DEF HasChannel, local
  <2>5. OwnChannel(c)' = r
    BY <1>4, <1>7, <2>2 DEF OwnChannel, local
  <2>6. ASSUME NEW d \in Calls, Holds(d), d # c
        PROVE  OwnChannel(d)' = OwnChannel(d)
    <3>1. CASE newChannelUsed[d]
      BY <3>1, <1>4, <2>1 DEF OwnChannel, local
    <3>2. CASE ~newChannelUsed[d]
      <4>1. Slot(callSerial[d]) # Slot(s)
        BY <3>2, <2>6, <1>1, <1>7, OneHolder
      <4> QED
        BY <4>1, <3>2, <1>4, <1>6, <2>2, <2>6 DEF OwnChannel, local
    <3> QED
      BY <3>1, <3>2
  <2> QED
    BY <1>1, <1>5, <2>1, <2>2, <2>3, <2>4, <2>5, <2>6
<1>8. CASE newChannelUsed[c]
  <2>1. /\ replyChannels' = replyChannels
        /\ fallback' = [fallback EXCEPT ![s] = r]
        /\ unknown' = unknown
    BY <1>2, <1>3, <1>8 DEF Deliver
  <2>2. /\ fallback'[s] = r
        /\ \A t \in Serials : t # s => fallback'[t] = fallback[t]
    BY <1>2, <2>1 DEF IInv, TypeOK
  <2>3. fallback[s] # Absent
    BY <1>3, <1>8 DEF HasChannel
  <2>4. \A d \in Calls : Holds(d) => HasChannel(d)'
    BY <1>1, <1>4, <1>6, <2>1, <2>2 DEF HasChannel, local
  <2>5. OwnChannel(c)' = r
    BY <1>4, <1>8, <2>2 DEF OwnChannel, local
  <2>6. ASSUME NEW d \in Calls, Holds(d), d # c
        PROVE  OwnChannel(d)' = OwnChannel(d)
    <3>1. c \in StartedCalls /\ d \in StartedCalls
      BY <1>1, <2>6 DEF StartedCalls, Started, Holds
    <3>2. callSerial[d] # s
      BY <3>1, <2>6 DEF IInv, UniqueSerials
    <3> QED
      BY <3>2, <1>4, <1>6, <2>1, <2>2, <2>6 DEF OwnChannel, local
  <2> QED
    BY <1>1, <1>5, <2>1, <2>2, <2>3, <2>4, <2>5, <2>6
<1> QED
  BY <1>7, <1>8

LEMMA DeliverStep ==
  ASSUME IInv, TypeOK', NEW r \in replies, Deliver(r)
  PROVE  IInv'
<1>1. /\ UNCHANGED <<serial, pc, local, got, transmitted, answer>>
      /\ replies' = replies \ {r}
  BY DEF Deliver
<1>2. /\ r.to \in Calls /\ Holds(r.to) /\ r = ReplyTo(r.to)
      /\ OwnChannel(r.to)' = r
      /\ \A d \in Calls : /\ Holds(d)' <=> Holds(d)
                          /\ Holds(d) => HasChannel(d)'
                          /\ Holds(d) /\ d # r.to =>
                               OwnChannel(d)' = OwnChannel(d)
      /\ \A i \in SlotIds : replyChannels'[i].ready = replyChannels[i].ready
      /\ \A i \in SlotIds : replyChannels[i].ready =>
           replyChannels'[i] = replyChannels[i]
      /\ \A s \in Serials : fallback'[s] # Absent => fallback[s] # Absent
      /\ unknown' = unknown
  BY DeliverEffect
<1>3. /\ \A d \in Calls : ReplyTo(d)' = ReplyTo(d)
      /\ \A d \in Calls, i \in SlotIds : HoldsSlot(d, i)' <=> HoldsSlot(d, i)
      /\ StartedCalls' = StartedCalls
  BY <1>1, <1>2 DEF ReplyTo, HoldsSlot, StartedCalls, Started, local
<1>4. CounterInv' /\ UniqueSerials' /\ PhaseInv'
  BY <1>1, <1>3 DEF IInv, CounterInv, UniqueSerials, PhaseInv, local
<1>5. ChannelsInv'
  BY <1>1, <1>2, <1>3 DEF IInv, ChannelsInv, local
<1>6. RepliesInv'
  <2> SUFFICES ASSUME NEW q \in replies, q # r
               PROVE  (/\ Holds(q.to)
                       /\ answer[q.to] # None
                       /\ q = ReplyTo(q.to)
                       /\ OwnChannel(q.to) = None)'
    BY <1>1 DEF RepliesInv
  <2>1. /\ q.to \in Calls /\ Holds(q.to) /\ answer[q.to] # None
        /\ q = ReplyTo(q.to) /\ OwnChannel(q.to) = None
    BY DEF IInv, TypeOK, Replies, RepliesInv
  <2>2. q.to # r.to
    BY <1>2, <2>1
  <2> QED
    BY <1>1, <1>2, <1>3, <2>1, <2>2
<1>7. ContentsInv'
  <2>1. answer[r.to] # None
    BY DEF IInv, RepliesInv
  <2> QED
    BY <1>1, <1>2, <1>3, <2>1 DEF IInv, ContentsInv
<1> QED
  BY <1>2, <1>4, <1>5, <1>6, <1>7 DEF IInv

\* Releasing a channel leaves every other message its own.
LEMMA ReceiveEffect ==
  ASSUME IInv, TypeOK', NEW c \in Calls, Receive(c)
  PROVE  /\ Holds(c) /\ ~Holds(c)'
         /\ answer[c] # None /\ OwnChannel(c) = ReplyTo(c)
         /\ \A d \in Calls \ {c} : /\ Holds(d)' <=> Holds(d)
                                   /\ Holds(d) => HasChannel(d)'
                                   /\ Holds(d) => OwnChannel(d)' = OwnChannel(d)
         /\ \A i \in SlotIds :
              \/ replyChannels'[i] = replyChannels[i] /\ ~HoldsSlot(c, i)
              \/ replyChannels'[i].ready /\ replyChannels'[i].channel = None
         /\ \A s \in Serials : fallback'[s] # Absent =>
              /\ fallback[s] # Absent
              /\ ~(newChannelUsed[c] /\ callSerial[c] = s)
<1> DEFINE s == callSerial[c]
<1>1. /\ UNCHANGED <<serial, local, daemon, unknown>>
      /\ pc[c] = "awaiting" /\ OwnChannel(c) \in Replies
      /\ pc'[c] \in {"returned", "raised"}
      /\ \A d \in Calls \ {c} : pc'[d] = pc[d]
  BY DEF Receive, IInv, TypeOK
<1>2. /\ Holds(c) /\ ~Holds(c)'
      /\ \A d \in Calls \ {c} : Holds(d)' <=> Holds(d)
  BY <1>1 DEF Holds, local, IInv, PhaseInv
<1>3. answer[c] # None /\ OwnChannel(c) = ReplyTo(c)
  BY <1>1, <1>2, NoneAssumption DEF IInv, ContentsInv
<1>4. /\ HasChannel(c) /\ s \in Serials /\ Slot(s) \in SlotIds
      /\ \A d \in Calls : Holds(d) => HasChannel(d) /\ callSerial[d] \in Serials
                                      /\ Slot(callSerial[d]) \in SlotIds
  BY <1>2, SlotInRange DEF IInv, ChannelsInv, TypeOK
<1>5. \A d \in Calls \ {c} : Holds(d) => callSerial[d] # s
  <2> SUFFICES ASSUME NEW d \in Calls \ {c}, Holds(d) PROVE callSerial[d] # s
    OBVIOUS
  <2>1. c \in StartedCalls /\ d \in StartedCalls
    BY <1>2 DEF StartedCalls, Started, Holds
  <2> QED
    BY <2>1 DEF IInv, UniqueSerials
<1>6. CASE newChannelUsed[c]
  <2>1. replyChannels' = replyChannels /\ fallback' = [fallback EXCEPT ![s] = Absent]
    BY <1>6 DEF Receive, Release
  <2>2. /\ fallback'[s] = Absent
        /\ \A t \in Serials : t # s => fallback'[t] = fallback[t]
    BY <1>4, <2>1 DEF IInv, TypeOK
  <2>3. \A d \in Calls \ {c} : Holds(d) =>
          HasChannel(d)' /\ OwnChannel(d)' = OwnChannel(d)
    BY <1>1, <1>4, <1>5, <2>1, <2>2 DEF HasChannel, OwnChannel, local
  <2>4. \A i \in SlotIds : ~HoldsSlot(c, i)
    BY <1>6 DEF HoldsSlot
  <2> QED
    BY <1>2, <1>3, <2>1, <2>2, <2>3, <2>4
<1>7. CASE ~newChannelUsed[c]
  <2>1. /\ fallback' = fallback
        /\ replyChannels' = [replyChannels EXCEPT ![Slot(s)] =
             [serial |-> @.serial, ready |-> TRUE, channel |-> None]]
    BY <1>7 DEF Receive, Release
  <2>2. /\ replyChannels'[Slot(s)].ready /\ replyChannels'[Slot(s)].channel = None
        /\ \A i \in SlotIds : i # Slot(s) => replyChannels'[i] = replyChannels[i]
    BY <1>4, <2>1 DEF IInv, TypeOK
  <2>3. ASSUME NEW d \in Calls \ {c}, Holds(d)
        PROVE  HasChannel(d)' /\ OwnChannel(d)' = OwnChannel(d)
    <3>1. CASE newChannelUsed[d]
      BY <3>1, <1>1, <1>4, <2>1, <2>3 DEF HasChannel, OwnChannel, local
    <3>2. CASE ~newChannelUsed[d]
      <4>1. Slot(callSerial[d]) # Slot(s)
        BY <3>2, <2>3, <1>2, <1>7, OneHolder
      <4>2. replyChannels'[Slot(callSerial[d])] = replyChannels[Slot(callSerial[d])]
        BY <4>1, <1>4, <2>2, <2>3
      <4> QED
        BY <4>2, <3>2, <1>1, <1>4, <2>3 DEF HasChannel, OwnChannel, local
    <3> QED
      BY <3>1, <3>2
  <2>4. \A i \in SlotIds : i # Slot(s) => ~HoldsSlot(c, i)
    BY DEF HoldsSlot
  <2> QED
    BY <1>2, <1>3, <1>7, <2>1, <2>2, <2>3, <2>4
<1> QED
  BY <1>6, <1>7

LEMMA ReceiveStep ==
  ASSUME IInv, TypeOK', NEW c \in Calls, Receive(c)
  PROVE  IInv'
<1>1. /\ UNCHANGED <<serial, local, daemon, unknown>>
      /\ pc[c] = "awaiting" /\ got'[c] = OwnChannel(c)
      /\ pc'[c] = IF OwnChannel(c).kind = "error" THEN "raised" ELSE "returned"
      /\ \A d \in Calls \ {c} : pc'[d] = pc[d] /\ got'[d] = got[d]
  BY DEF Receive, IInv, TypeOK
<1>2. /\ Holds(c) /\ ~Holds(c)'
      /\ answer[c] # None /\ OwnChannel(c) = ReplyTo(c)
      /\ \A d \in Calls \ {c} : /\ Holds(d)' <=> Holds(d)
                                /\ Holds(d) => HasChannel(d)'
                                /\ Holds(d) => OwnChannel(d)' = OwnChannel(d)
      /\ \A i \in SlotIds :
           \/ replyChannels'[i] = replyChannels[i] /\ ~HoldsSlot(c, i)
           \/ replyChannels'[i].ready /\ replyChannels'[i].channel = None
      /\ \A s \in Serials : fallback'[s] # Absent =>
           /\ fallback[s] # Absent
           /\ ~(newChannelUsed[c] /\ callSerial[c] = s)
  BY ReceiveEffect
<1>3. /\ \A d \in Calls : (Started(d)' <=> Started(d)) /\ ReplyTo(d)' = ReplyTo(d)
      /\ StartedCalls' = StartedCalls
  <2>1. \A d \in Calls : Started(d)' <=> Started(d)
    BY <1>1 DEF Started
  <2> QED
    BY <1>1, <2>1 DEF ReplyTo, StartedCalls, local, daemon
<1>4. CounterInv' /\ UniqueSerials'
  BY <1>1, <1>3 DEF IInv, CounterInv, UniqueSerials, local
<1>5. PhaseInv'
  <2> SUFFICES ASSUME NEW d \in Calls
               PROVE  (/\ pc[d] = "idle" => ~expectsReply[d] /\ d \notin transmitted
                       /\ pc[d] \in {"awaiting", "returned", "raised"} => expectsReply[d]
                       /\ pc[d] = "sent" => ~expectsReply[d]
                       /\ newChannelUsed[d] => expectsReply[d]
                       /\ answer[d] # None => expectsReply[d] /\ d \in transmitted
                       /\ got[d] # None => pc[d] \in {"returned", "raised"}
                       /\ pc[d] \in {"returned", "raised"} =>
                            /\ answer[d] # None
                            /\ got[d] = ReplyTo(d)
                            /\ pc[d] = "raised" <=> answer[d] = "error")'
    BY DEF PhaseInv
  <2>1. CASE d = c
    BY <2>1, <1>1, <1>2, <1>3 DEF IInv, PhaseInv, local, daemon, ReplyTo
  <2>2. CASE d # c
    BY <2>2, <1>1, <1>3 DEF IInv, PhaseInv, local, daemon
  <2> QED
    BY <2>1, <2>2
<1>6. ChannelsInv'
  <2>1. \A d \in Calls : Holds(d)' => HasChannel(d)'
    BY <1>2
  <2>2. \A d \in Calls \ {c}, i \in SlotIds : HoldsSlot(d, i)' <=> HoldsSlot(d, i)
    BY <1>1, <1>2 DEF HoldsSlot, local
  <2>3. ASSUME NEW i \in SlotIds
        PROVE  IF replyChannels'[i].ready THEN replyChannels'[i].channel = None
                                          ELSE \E d \in Calls : HoldsSlot(d, i)'
    BY <1>2, <2>2 DEF IInv, ChannelsInv
  <2>4. ASSUME NEW s \in Serials, fallback'[s] # Absent
        PROVE  \E d \in Calls : (Holds(d) /\ newChannelUsed[d] /\ callSerial[d] = s)'
    <3>1. PICK d \in Calls : Holds(d) /\ newChannelUsed[d] /\ callSerial[d] = s
      BY <1>2, <2>4 DEF IInv, ChannelsInv
    <3> QED
      BY <1>1, <1>2, <2>4, <3>1 DEF local
  <2> QED
    BY <2>1, <2>3, <2>4 DEF ChannelsInv
<1>7. RepliesInv'
  <2> SUFFICES ASSUME NEW q \in replies
               PROVE  (/\ Holds(q.to)
                       /\ answer[q.to] # None
                       /\ q = ReplyTo(q.to)
                       /\ OwnChannel(q.to) = None)'
    BY <1>1 DEF RepliesInv, daemon
  <2>1. /\ q.to \in Calls /\ Holds(q.to) /\ answer[q.to] # None
        /\ q = ReplyTo(q.to) /\ OwnChannel(q.to) = None
    BY DEF IInv, TypeOK, Replies, RepliesInv
  <2>2. q.to # c
    BY <2>1, <1>1, NoneAssumption DEF Receive
  <2> QED
    BY <1>1, <1>2, <1>3, <2>1, <2>2 DEF daemon
<1>8. ContentsInv'
  BY <1>1, <1>2, <1>3 DEF IInv, ContentsInv, daemon
<1> QED
  BY <1>1, <1>4, <1>5, <1>6, <1>7, <1>8 DEF IInv

\* A new message gets an empty channel that no other message holds.
LEMMA StartEffect ==
  ASSUME IInv, TypeOK', NEW c \in Calls,
         NEW expects \in BOOLEAN, NEW wellFormed \in BOOLEAN,
         Start(c, expects, wellFormed)
  PROVE  /\ pc[c] = "idle" /\ ~Holds(c) /\ serial \in Serials
         /\ callSerial'[c] = serial /\ expectsReply'[c] = expects
         /\ newChannelUsed'[c] => expects
         /\ pc'[c] \in {"writing", "failed"}
         /\ Holds(c)' <=> expects
         /\ expects => HasChannel(c)' /\ OwnChannel(c)' = None
         /\ \A d \in Calls \ {c} :
              /\ pc'[d] = pc[d]
              /\ callSerial'[d] = callSerial[d]
              /\ expectsReply'[d] = expectsReply[d]
              /\ newChannelUsed'[d] = newChannelUsed[d]
              /\ Holds(d)' <=> Holds(d)
              /\ Holds(d) => HasChannel(d)'
              /\ Holds(d) => OwnChannel(d)' = OwnChannel(d)
         /\ \A i \in SlotIds :
              \/ replyChannels'[i] = replyChannels[i]
              \/ ~replyChannels'[i].ready /\ HoldsSlot(c, i)'
         /\ \A s \in Serials :
              \/ fallback'[s] = fallback[s]
              \/ s = serial /\ Holds(c)' /\ newChannelUsed'[c]
<1> DEFINE slot == Slot(serial)
<1>1. /\ pc[c] = "idle" /\ serial \in Serials /\ slot \in SlotIds
      /\ callSerial'[c] = serial /\ expectsReply'[c] = expects
      /\ newChannelUsed'[c] = (expects /\ ~SlotFree(serial))
      /\ pc'[c] \in {"writing", "failed"}
      /\ \A d \in Calls \ {c} :
           /\ pc'[d] = pc[d]
           /\ callSerial'[d] = callSerial[d]
           /\ expectsReply'[d] = expectsReply[d]
           /\ newChannelUsed'[d] = newChannelUsed[d]
  BY SlotInRange DEF Start, IInv, TypeOK
<1>2. /\ ~Holds(c)
      /\ Holds(c)' <=> expects
      /\ \A d \in Calls \ {c} : Holds(d)' <=> Holds(d)
  BY <1>1 DEF Holds
<1>3. \A d \in Calls : Holds(d) => /\ HasChannel(d)
                                  /\ callSerial[d] \in Serials
                                  /\ Slot(callSerial[d]) \in SlotIds
                                  /\ callSerial[d] # serial
  <2> SUFFICES ASSUME NEW d \in Calls, Holds(d)
               PROVE  /\ HasChannel(d)
                      /\ callSerial[d] \in Serials
                      /\ Slot(callSerial[d]) \in SlotIds
                      /\ callSerial[d] # serial
    OBVIOUS
  <2>1. d \in StartedCalls
    BY DEF StartedCalls, Started, Holds
  <2> QED
    BY <1>1, <2>1, FreshSerial, SlotInRange DEF IInv, ChannelsInv, TypeOK
<1>4. CASE ~expects
  <2>1. replyChannels' = replyChannels /\ fallback' = fallback
    BY <1>4 DEF Start
  <2>2. \A d \in Calls \ {c} : Holds(d) =>
          HasChannel(d)' /\ OwnChannel(d)' = OwnChannel(d)
    BY <1>1, <1>3, <2>1 DEF HasChannel, OwnChannel
  <2> QED
    BY <1>1, <1>2, <1>4, <2>1, <2>2
<1>5. CASE expects /\ SlotFree(serial)
  <2>1. /\ fallback' = fallback
        /\ replyChannels' = [replyChannels EXCEPT ![slot] =
             [serial |-> serial, ready |-> FALSE, channel |-> @.channel]]
    BY <1>5 DEF Start, Reserve
  <2>2. /\ replyChannels'[slot] = [serial |-> serial, ready |-> FALSE,
                                   channel |-> replyChannels[slot].channel]
        /\ \A i \in SlotIds : i # slot => replyChannels'[i] = replyChannels[i]
    BY <1>1, <2>1 DEF IInv, TypeOK
  <2>3. replyChannels[slot].ready /\ replyChannels[slot].channel = None
    BY <1>1, <1>5 DEF SlotFree, IInv, ChannelsInv
  <2>4. HasChannel(c)' /\ OwnChannel(c)' = None
    <3>1. newChannelUsed'[c] = FALSE
      BY <1>1, <1>5
    <3>2. callSerial'[c] = serial
      BY <1>1
    <3> QED
      BY <3>1, <3>2, <2>2, <2>3 DEF HasChannel, OwnChannel
  <2>5. ASSUME NEW d \in Calls \ {c}, Holds(d)
        PROVE  HasChannel(d)' /\ OwnChannel(d)' = OwnChannel(d)
    <3>1. CASE newChannelUsed[d]
      BY <3>1, <1>1, <1>3, <2>1, <2>5 DEF HasChannel, OwnChannel
    <3>2. CASE ~newChannelUsed[d]
      <4>1. Slot(callSerial[d]) # slot
        BY <3>2, <1>3, <2>3, <2>5 DEF HasChannel
      <4>2. replyChannels'[Slot(callSerial[d])] = replyChannels[Slot(callSerial[d])]
        BY <4>1, <1>3, <2>2, <2>5
      <4> QED
        BY <4>2, <3>2, <1>1, <1>3, <2>5 DEF HasChannel, OwnChannel
    <3> QED
      BY <3>1, <3>2
  <2>6. ~replyChannels'[slot].ready /\ \A i \in SlotIds : i = slot => HoldsSlot(c, i)'
    <3>1. newChannelUsed'[c] = FALSE
      BY <1>1, <1>5
    <3>2. callSerial'[c] = serial /\ Holds(c)'
      BY <1>1, <1>2, <1>5
    <3> QED
      BY <2>2, <3>1, <3>2 DEF HoldsSlot
  <2>7. newChannelUsed'[c] => expects
    BY <1>1
  <2>8. \A i \in SlotIds :
          \/ replyChannels'[i] = replyChannels[i]
          \/ ~replyChannels'[i].ready /\ HoldsSlot(c, i)'
    BY <2>2, <2>6
  <2>9. \A s \in Serials : fallback'[s] = fallback[s]
    BY <2>1
  <2> QED
    BY <1>1, <1>2, <2>4, <2>5, <2>7, <2>8, <2>9
<1>6. CASE expects /\ ~SlotFree(serial)
  <2>1. /\ replyChannels' = replyChannels
        /\ fallback' = [fallback EXCEPT ![serial] = None]
    BY <1>6 DEF Start, Reserve
  <2>2. /\ fallback'[serial] = None
        /\ \A s \in Serials : s # serial => fallback'[s] = fallback[s]
    BY <1>1, <2>1 DEF IInv, TypeOK
  <2>3. HasChannel(c)' /\ OwnChannel(c)' = None
    BY <1>1, <1>6, <2>2, NoneAssumption DEF HasChannel, OwnChannel
  <2>4. \A d \in Calls \ {c} : Holds(d) =>
          HasChannel(d)' /\ OwnChannel(d)' = OwnChannel(d)
    BY <1>1, <1>3, <2>1, <2>2 DEF HasChannel, OwnChannel
  <2> QED
    BY <1>1, <1>2, <1>6, <2>1, <2>2, <2>3, <2>4
<1> QED
  BY <1>4, <1>5, <1>6

LEMMA StartStep ==
  ASSUME IInv, TypeOK', NEW c \in Calls,
         NEW expects \in BOOLEAN, NEW wellFormed \in BOOLEAN,
         Start(c, expects, wellFormed)
  PROVE  IInv'
<1>1. /\ UNCHANGED <<got, transmitted, answer, replies, unknown>>
      /\ serial' = Increment(serial)
  BY DEF Start, daemon
<1>2. /\ pc[c] = "idle" /\ ~Holds(c) /\ serial \in Serials
      /\ callSerial'[c] = serial /\ expectsReply'[c] = expects
      /\ newChannelUsed'[c] => expects
      /\ pc'[c] \in {"writing", "failed"}
      /\ Holds(c)' <=> expects
      /\ expects => HasChannel(c)' /\ OwnChannel(c)' = None
      /\ \A d \in Calls \ {c} :
           /\ pc'[d] = pc[d]
           /\ callSerial'[d] = callSerial[d]
           /\ expectsReply'[d] = expectsReply[d]
           /\ newChannelUsed'[d] = newChannelUsed[d]
           /\ Holds(d)' <=> Holds(d)
           /\ Holds(d) => HasChannel(d)'
           /\ Holds(d) => OwnChannel(d)' = OwnChannel(d)
      /\ \A i \in SlotIds :
           \/ replyChannels'[i] = replyChannels[i]
           \/ ~replyChannels'[i].ready /\ HoldsSlot(c, i)'
      /\ \A s \in Serials :
           \/ fallback'[s] = fallback[s]
           \/ s = serial /\ Holds(c)' /\ newChannelUsed'[c]
  BY StartEffect
<1>3. /\ StartedCalls' = StartedCalls \cup {c}
      /\ c \notin StartedCalls
      /\ IsFiniteSet(StartedCalls)
      /\ Cardinality(StartedCalls) \in Nat
      /\ Cardinality(StartedCalls) < SerialModulus
      /\ \A d \in StartedCalls : d \in Calls \ {c} /\ callSerial[d] # serial
  <2>1. StartedCalls' = StartedCalls \cup {c} /\ c \notin StartedCalls
    BY <1>2 DEF StartedCalls, Started
  <2> QED
    BY <1>2, <2>1, FreshSerial DEF StartedCalls
<1>4. CounterInv'
  <2> DEFINE n == Cardinality(StartedCalls)
  <2>1. Cardinality(StartedCalls') = n + 1
    BY <1>3, FS_AddElement
  <2>2. /\ serial = IF n + 1 = SerialModulus THEN 0 ELSE n + 1
        /\ \A d \in StartedCalls : callSerial[d] \in 1 .. n
    BY <1>3 DEF IInv, CounterInv
  <2> HIDE DEF n
  <2> SUFFICES ASSUME n + 1 < SerialModulus
               PROVE  /\ serial' = IF n + 2 = SerialModulus THEN 0 ELSE n + 2
                      /\ \A d \in StartedCalls' : callSerial'[d] \in 1 .. n + 1
    <3>1. n \in Nat /\ n + 1 + 1 = n + 2
      BY <1>3 DEF n
    <3> QED
      BY <2>1, <3>1 DEF CounterInv
  <2>3. n \in Nat /\ serial = n + 1
    BY <1>3, <2>2, SerialModulusAssumption DEF n
  <2>4. serial' = IF n + 2 = SerialModulus THEN 0 ELSE n + 2
    BY <1>1, <2>3, SerialModulusAssumption DEF Increment
  <2>5. \A d \in StartedCalls' : callSerial'[d] \in 1 .. n + 1
    BY <1>2, <1>3, <2>2, <2>3
  <2> QED
    BY <2>4, <2>5
<1>5. UniqueSerials'
  BY <1>2, <1>3 DEF IInv, UniqueSerials
<1>6. PhaseInv'
  <2> SUFFICES ASSUME NEW d \in Calls
               PROVE  (/\ pc[d] = "idle" => ~expectsReply[d] /\ d \notin transmitted
                       /\ pc[d] \in {"awaiting", "returned", "raised"} => expectsReply[d]
                       /\ pc[d] = "sent" => ~expectsReply[d]
                       /\ newChannelUsed[d] => expectsReply[d]
                       /\ answer[d] # None => expectsReply[d] /\ d \in transmitted
                       /\ got[d] # None => pc[d] \in {"returned", "raised"}
                       /\ pc[d] \in {"returned", "raised"} =>
                            /\ answer[d] # None
                            /\ got[d] = ReplyTo(d)
                            /\ pc[d] = "raised" <=> answer[d] = "error")'
    BY DEF PhaseInv
  <2>1. CASE d = c
    <3>1. answer[c] = None /\ got[c] = None
      BY <1>2 DEF IInv, PhaseInv
    <3> QED
      BY <2>1, <3>1, <1>1, <1>2
  <2>2. CASE d # c
    <3>1. ReplyTo(d)' = ReplyTo(d)
      BY <2>2, <1>1, <1>2 DEF ReplyTo
    <3> QED
      BY <2>2, <3>1, <1>1, <1>2 DEF IInv, PhaseInv
  <2> QED
    BY <2>1, <2>2
<1>7. ChannelsInv'
  <2>1. \A d \in Calls : Holds(d)' => HasChannel(d)'
    BY <1>2
  <2>2. \A d \in Calls, i \in SlotIds : HoldsSlot(d, i) => HoldsSlot(d, i)'
    BY <1>2 DEF HoldsSlot
  <2>3. ASSUME NEW i \in SlotIds
        PROVE  IF replyChannels'[i].ready THEN replyChannels'[i].channel = None
                                          ELSE \E d \in Calls : HoldsSlot(d, i)'
    BY <1>2, <2>2 DEF IInv, ChannelsInv
  <2>4. ASSUME NEW s \in Serials, fallback'[s] # Absent
        PROVE  \E d \in Calls : (Holds(d) /\ newChannelUsed[d] /\ callSerial[d] = s)'
    <3>1. CASE fallback'[s] = fallback[s]
      <4>1. PICK d \in Calls : Holds(d) /\ newChannelUsed[d] /\ callSerial[d] = s
        BY <2>4, <3>1 DEF IInv, ChannelsInv
      <4> QED
        BY <4>1, <1>2
    <3>2. CASE fallback'[s] # fallback[s]
      BY <3>2, <1>2
    <3> QED
      BY <3>1, <3>2
  <2> QED
    BY <2>1, <2>3, <2>4 DEF ChannelsInv
<1>8. RepliesInv' /\ ContentsInv'
  <2>1. \A d \in Calls : Holds(d) => d # c /\ ReplyTo(d)' = ReplyTo(d)
    BY <1>1, <1>2 DEF ReplyTo
  <2>2. \A r \in replies : r.to \in Calls
    BY DEF IInv, TypeOK, Replies
  <2>3. RepliesInv'
    BY <1>1, <1>2, <2>1, <2>2 DEF IInv, RepliesInv
  <2>4. ContentsInv'
    BY <1>1, <1>2, <2>1 DEF IInv, ContentsInv
  <2> QED
    BY <2>3, <2>4
<1> QED
  BY <1>1, <1>4, <1>5, <1>6, <1>7, <1>8 DEF IInv
--------------------------------------------------------------------------------
(* The theorems *)

\* The inductive invariant holds: type correctness is assumed of the next state
\* by the lemmas, and was proved on its own.
THEOREM Invariance == Spec => []IInv
<1>1. IInv /\ TypeOK' /\ [Next]_vars => IInv'
  <2> SUFFICES ASSUME IInv, TypeOK', [Next]_vars PROVE IInv'
    OBVIOUS
  <2>1. ASSUME NEW c \in Calls, CallNext(c) PROVE IInv'
    <3>1. ASSUME NEW expects \in BOOLEAN, NEW wellFormed \in BOOLEAN,
                 Start(c, expects, wellFormed)
          PROVE  IInv'
      BY <3>1, StartStep
    <3>2. CASE WriteDone(c) \/ WriteFail(c) \/ Cancel(c)
      BY <3>2, MoveStep
    <3>3. CASE Receive(c)
      BY <3>3, ReceiveStep
    <3>4. CASE Transmit(c)
      BY <3>4, TransmitStep
    <3>5. ASSUME NEW kind \in Kinds, Answer(c, kind) PROVE IInv'
      BY <3>5, AnswerStep
    <3> QED
      BY <2>1, <3>1, <3>2, <3>3, <3>4, <3>5 DEF CallNext
  <2>2. ASSUME NEW r \in replies, Deliver(r) PROVE IInv'
    BY <2>2, DeliverStep
  <2>3. CASE Disconnect
    BY <2>3, DisconnectStep
  <2>4. CASE UNCHANGED vars
    <3>1. UNCHANGED <<serial, replyChannels, fallback, pc, local, got, daemon,
                      unknown>>
      BY <2>4 DEF vars
    <3>2. \A d \in Calls : /\ Started(d)' <=> Started(d)
                           /\ Holds(d)' <=> Holds(d)
                           /\ ReplyTo(d)' = ReplyTo(d)
      BY <3>1 DEF Started, Holds, ReplyTo, local, daemon
    <3>3. /\ CounterInv' /\ UniqueSerials' /\ ChannelsInv'
          /\ \A d \in Calls : OwnChannel(d)' = OwnChannel(d)
      BY <3>1, <3>2, ChannelsFrame
    <3>4. PhaseInv' /\ RepliesInv' /\ ContentsInv'
      <4>1. \A r \in replies : r.to \in Calls
        BY DEF IInv, TypeOK, Replies
      <4> QED
        BY <3>1, <3>2, <3>3, <4>1
        DEF IInv, PhaseInv, RepliesInv, ContentsInv, local, daemon
    <3> QED
      BY <3>1, <3>3, <3>4 DEF IInv
  <2> QED
    BY <2>1, <2>2, <2>3, <2>4 DEF Next
<1> QED
  BY InitIInv, TypeCorrect, <1>1, PTL DEF Spec

\* Every caller gets the reply to its own message.
THEOREM RepliesReachTheirCallers == Spec => []OwnReply
<1>1. IInv => OwnReply
  <2> SUFFICES ASSUME IInv, NEW c \in Calls, got[c] # None
               PROVE  got[c].to = c
    BY DEF OwnReply
  <2>1. got[c] = ReplyTo(c)
    BY DEF IInv, PhaseInv
  <2> QED
    BY <2>1 DEF ReplyTo
<1> QED
  BY <1>1, Invariance, PTL

\* HandleReadMessage never meets a reply it has no channel for: the
\* InternalError it throws there cannot happen within one period of serials.
THEOREM RepliesAreKnown == Spec => []NoUnknownReply
<1>1. IInv => NoUnknownReply
  BY DEF IInv, NoUnknownReply
<1> QED
  BY <1>1, Invariance, PTL

\* The coroutine that handles a reply never waits for room in its channel.
THEOREM RepliesFindRoom == Spec => []RoomForEveryReply
<1>1. IInv => RoomForEveryReply
  <2> SUFFICES ASSUME IInv, NEW r \in replies PROVE ~ChannelFull(r.serial)
    BY DEF RoomForEveryReply
  <2>1. /\ r.to \in Calls /\ Holds(r.to) /\ OwnChannel(r.to) = None
        /\ r = ReplyTo(r.to)
    BY DEF IInv, TypeOK, Replies, RepliesInv
  <2>2. r.serial = callSerial[r.to]
    BY <2>1 DEF ReplyTo
  <2> QED
    BY <2>1, <2>2, SerialFindsChannel
<1> QED
  BY <1>1, Invariance, PTL

\* Every reserved channel has exactly one message holding it.
THEOREM ReservationsAreExclusive == Spec => []ChannelsAccounted
<1>1. IInv => ChannelsAccounted
  <2> SUFFICES ASSUME IInv PROVE ChannelsAccounted
    OBVIOUS
  <2>1. ASSUME NEW i \in SlotIds, replyChannels[i].ready
        PROVE  /\ \A c \in Calls : ~HoldsSlot(c, i)
               /\ replyChannels[i].channel = None
    BY <2>1 DEF IInv, ChannelsInv, HoldsSlot, HasChannel
  <2>2. ASSUME NEW i \in SlotIds, ~replyChannels[i].ready
        PROVE  \E c \in Calls :
                 /\ HoldsSlot(c, i)
                 /\ callSerial[c] = replyChannels[i].serial
                 /\ \A d \in Calls : HoldsSlot(d, i) => d = c
    <3>1. PICK c \in Calls : HoldsSlot(c, i)
      BY <2>2 DEF IInv, ChannelsInv
    <3>2. callSerial[c] = replyChannels[i].serial
      BY <3>1 DEF IInv, ChannelsInv, HoldsSlot, HasChannel
    <3>3. \A d \in Calls : HoldsSlot(d, i) => d = c
      BY <3>1, OneHolder DEF HoldsSlot
    <3> QED
      BY <3>1, <3>2, <3>3
  <2>3. ASSUME NEW s \in Serials
        PROVE  fallback[s] # Absent <=>
                 \E c \in Calls : Holds(c) /\ newChannelUsed[c] /\ callSerial[c] = s
    BY DEF IInv, ChannelsInv, HasChannel
  <2>4. ASSUME NEW i \in SlotIds
        PROVE  IF replyChannels[i].ready
                 THEN /\ \A c \in Calls : ~HoldsSlot(c, i)
                      /\ replyChannels[i].channel = None
                 ELSE \E c \in Calls :
                        /\ HoldsSlot(c, i)
                        /\ callSerial[c] = replyChannels[i].serial
                        /\ \A d \in Calls : HoldsSlot(d, i) => d = c
    <3>1. CASE replyChannels[i].ready
      BY <2>1, <3>1
    <3>2. CASE ~replyChannels[i].ready
      BY <2>2, <3>2
    <3> QED
      BY <3>1, <3>2
  <2> QED
    BY <2>3, <2>4 DEF ChannelsAccounted
<1> QED
  BY <1>1, Invariance, PTL

\* A reply leaves a channel only to the message it answers.
THEOREM OnlyTheCallerTakes == Spec => TakenByItsCaller
<1> DEFINE Taken(c) ==
      Holds(c) /\ OwnChannel(c) # None /\ OwnChannel(c)' # OwnChannel(c) =>
        /\ OwnChannel(c).to = c
        /\ got'[c] = OwnChannel(c)
        /\ pc'[c] \in {"returned", "raised"}
<1>1. IInv /\ TypeOK' /\ [Next]_vars => \A c \in Calls : Taken(c)
  <2> SUFFICES ASSUME IInv, TypeOK', [Next]_vars, NEW c \in Calls
               PROVE  Taken(c)
    OBVIOUS
  <2>1. ASSUME UNCHANGED <<replyChannels, fallback, local>> PROVE Taken(c)
    BY <2>1 DEF OwnChannel, local
  <2>2. ASSUME NEW d \in Calls, CallNext(d) PROVE Taken(c)
    <3>1. ASSUME NEW expects \in BOOLEAN, NEW wellFormed \in BOOLEAN,
                 Start(d, expects, wellFormed)
          PROVE  Taken(c)
      BY <3>1, StartEffect
    <3>2. CASE Receive(d)
      <4>1. CASE c = d
        <5>1. OwnChannel(c) = ReplyTo(c)
          BY <3>2, <4>1, ReceiveEffect
        <5>2. got'[c] = OwnChannel(c) /\ pc'[c] \in {"returned", "raised"}
          BY <3>2, <4>1 DEF Receive, IInv, TypeOK
        <5> QED
          BY <5>1, <5>2 DEF ReplyTo
      <4>2. CASE c # d
        BY <3>2, <4>2, ReceiveEffect
      <4> QED
        BY <4>1, <4>2
    <3>3. CASE WriteDone(d) \/ WriteFail(d) \/ Cancel(d) \/ Transmit(d)
      BY <3>3, <2>1 DEF WriteDone, WriteFail, Cancel, Transmit
    <3>4. ASSUME NEW kind \in Kinds, Answer(d, kind) PROVE Taken(c)
      BY <3>4, <2>1 DEF Answer
    <3> QED
      BY <2>2, <3>1, <3>2, <3>3, <3>4 DEF CallNext
  <2>3. ASSUME NEW r \in replies, Deliver(r) PROVE Taken(c)
    <3>1. OwnChannel(r.to) = None
      BY DEF IInv, RepliesInv
    <3>2. Holds(c) /\ c # r.to => OwnChannel(c)' = OwnChannel(c)
      BY <2>3, DeliverEffect
    <3> QED
      BY <3>1, <3>2
  <2>4. CASE Disconnect
    BY <2>4, <2>1 DEF Disconnect
  <2>5. CASE UNCHANGED vars
    BY <2>5, <2>1 DEF vars
  <2> QED
    BY <2>2, <2>3, <2>4, <2>5 DEF Next
<1>2. IInv /\ TypeOK' /\ [Next]_vars =>
        [\A c \in Calls :
           LET r == OwnChannel(c) IN
             Holds(c) /\ r # None /\ OwnChannel(c)' # r =>
               r.to = c /\ got'[c] = r /\ pc'[c] \in {"returned", "raised"}]_vars
  BY <1>1
<1> QED
  BY <1>2, Invariance, TypeCorrect, PTL DEF Spec, TakenByItsCaller

\* Every behaviour of the connection is one of MethodCalls: the sent messages
\* are method calls, whatever the slots and the fallback channels do.
THEOREM Refinement == Spec => ImplementsMethodCalls
<1>1. Init => Promise!Init
  BY DEF Init, Promise!Init
<1>2. IInv /\ TypeOK' /\ [Next]_vars => [Promise!Next]_Promise!vars
  <2> SUFFICES ASSUME IInv, TypeOK', [Next]_vars
               PROVE  Promise!Next \/ UNCHANGED Promise!vars
    OBVIOUS
  <2>1. ASSUME UNCHANGED <<pc, answer>> PROVE UNCHANGED Promise!vars
    BY <2>1 DEF Promise!vars
  <2>2. ASSUME NEW c \in Calls, CallNext(c)
        PROVE  Promise!Next \/ UNCHANGED Promise!vars
    <3>1. ASSUME NEW expects \in BOOLEAN, NEW wellFormed \in BOOLEAN,
                 Start(c, expects, wellFormed)
          PROVE  Promise!Issue(c) \/ Promise!End(c)
      <4>1. /\ pc[c] = "idle" /\ answer' = answer
            /\ \/ pc' = [pc EXCEPT ![c] = "writing"]
               \/ pc' = [pc EXCEPT ![c] = "failed"]
        BY <3>1 DEF Start, daemon
      <4> QED
        BY <4>1 DEF IInv, TypeOK, Promise!Issue, Promise!End
    <3>2. CASE WriteDone(c) \/ WriteFail(c) \/ Cancel(c)
      <4>1. /\ pc[c] \in {"writing", "awaiting"} /\ answer' = answer
            /\ \E p \in {"awaiting", "sent", "failed", "cancelled"} :
                 /\ pc' = [pc EXCEPT ![c] = p]
                 /\ p = "awaiting" => pc[c] = "writing"
        BY <3>2 DEF WriteDone, WriteFail, Cancel, daemon
      <4>2. CASE pc' = [pc EXCEPT ![c] = "awaiting"]
        BY <4>1, <4>2 DEF IInv, TypeOK, Promise!vars
      <4>3. CASE \E p \in {"sent", "failed", "cancelled"} :
                   pc' = [pc EXCEPT ![c] = p]
        <5>1. Promise!End(c)
          BY <4>1, <4>3, ZenonT(40) DEF IInv, TypeOK, Promise!End
        <5> QED
          BY <5>1 DEF Promise!Next
      <4> QED
        BY <4>1, <4>2, <4>3
    <3>3. CASE Receive(c)
      <4>1. /\ pc[c] = "awaiting" /\ answer' = answer
            /\ pc' = [pc EXCEPT ![c] =
                 IF OwnChannel(c).kind = "error" THEN "raised" ELSE "returned"]
        BY <3>3 DEF Receive, daemon
      <4>2. OwnChannel(c).kind = answer[c] /\ answer[c] \in {"return", "error"}
        BY <3>3, ReceiveEffect DEF ReplyTo, IInv, TypeOK, Kinds
      <4>3. Promise!Complete(c)
        <5>1. CASE answer[c] = "error"
          BY <4>1, <4>2, <5>1, ZenonT(40) DEF IInv, TypeOK, Promise!Complete
        <5>2. CASE answer[c] = "return"
          BY <4>1, <4>2, <5>2 DEF IInv, TypeOK, Promise!Complete
        <5> QED
          BY <4>2, <5>1, <5>2
      <4> QED
        BY <4>3 DEF Promise!Next
    <3>4. CASE Transmit(c)
      BY <3>4, <2>1 DEF Transmit
    <3>5. ASSUME NEW kind \in Kinds, Answer(c, kind)
          PROVE  Promise!Answer(c, kind)
      <4>1. /\ answer[c] = None /\ answer' = [answer EXCEPT ![c] = kind]
            /\ pc' = pc /\ c \in transmitted
        BY <3>5 DEF Answer
      <4>2. pc[c] # "idle"
        BY <4>1 DEF IInv, PhaseInv
      <4> QED
        BY <4>1, <4>2 DEF IInv, TypeOK, PCs, Promise!Answer
    <3> QED
      BY <2>2, <3>1, <3>2, <3>3, <3>4, <3>5
      DEF CallNext, Promise!Next, Kinds, Promise!Kinds
  <2>3. ASSUME NEW r \in replies, Deliver(r) PROVE UNCHANGED Promise!vars
    BY <2>3, <2>1 DEF Deliver
  <2>4. CASE Disconnect
    BY <2>4, <2>1 DEF Disconnect
  <2>5. CASE UNCHANGED vars
    BY <2>5, <2>1 DEF vars, daemon
  <2> QED
    BY <2>2, <2>3, <2>4, <2>5 DEF Next
<1> QED
  BY <1>1, <1>2, Invariance, TypeCorrect, PTL
  DEF Spec, ImplementsMethodCalls, Promise!Spec
================================================================================
