---------------------------- MODULE OwnNames_proofs ----------------------------
(***************************************************************************)
(* For any number of calls, names and peers: the types of OwnNames, that    *)
(* every name the daemon knows this connection for is listed, and that      *)
(* every listed name is known, but for replies under way.                   *)
(*                                                                         *)
(* The invariant looks along the replies under way: the last of them that   *)
(* is about a name decides whether it will be listed.                       *)
(***************************************************************************)
EXTENDS OwnNames, SequenceLemmas, SequenceTheorems, TLAPS

\* No client is twice in a queue.
OnceEach(queue) ==
  \A i, j \in DOMAIN queue : queue[i].client = queue[j].client => i = j

-----------------------------------------------------------------------------
(* What the daemon's operators do to a queue                               *)

\* Without() takes off the client and nobody else.
LEMMA WithoutProperties ==
  ASSUME NEW q \in Seq(Owner), OnceEach(q), NEW c, NEW w, w = Without(c, q)
  PROVE  /\ w \in Seq(Owner) /\ OnceEach(w)
         /\ ~InQueue(c, w)
         /\ \A i \in DOMAIN w : \E j \in DOMAIN q : w[i] = q[j]
         /\ \A j \in DOMAIN q : q[j].client # c => \E i \in DOMAIN w : w[i] = q[j]
<1>1. CASE ~InQueue(c, q)
  <2>1. w = q
    BY <1>1 DEF Without
  <2> QED
    BY <1>1, <2>1 DEF InQueue
<1>2. CASE InQueue(c, q)
  <2> DEFINE p == Position(c, q)
  <2>1. p \in DOMAIN q /\ q[p].client = c
    BY <1>2 DEF InQueue, Position
  <2>2. w = RemoveAt(q, p)
    BY <1>2 DEF Without
  <2> HIDE DEF p
  <2>3. /\ w \in Seq(Owner) /\ Len(w) = Len(q) - 1
        /\ \A i \in 1 .. p - 1 : w[i] = q[i]
        /\ \A i \in p .. Len(q) - 1 : w[i] = q[i + 1]
    BY <2>1, <2>2, RemoveAtProperties, ZenonT(40)
  <2>4. /\ DOMAIN q = 1 .. Len(q) /\ Len(q) \in Nat
        /\ DOMAIN w = 1 .. Len(q) - 1
    BY <2>3, LenProperties
  <2> DEFINE from(i) == IF i < p THEN i ELSE i + 1
  <2>5. \A i \in DOMAIN w : from(i) \in DOMAIN q /\ from(i) # p /\ w[i] = q[from(i)]
    BY <2>1, <2>3, <2>4
  <2>6. \A i, j \in DOMAIN w : from(i) = from(j) => i = j
    BY <2>1, <2>4
  <2> HIDE DEF from
  <2>7. OnceEach(w)
    BY <2>5, <2>6 DEF OnceEach
  <2>8. ~InQueue(c, w)
    BY <2>1, <2>5 DEF OnceEach, InQueue
  <2>9. ASSUME NEW j \in DOMAIN q, q[j].client # c
        PROVE  \E i \in DOMAIN w : w[i] = q[j]
    <3>1. j # p
      BY <2>1, <2>9
    <3>2. CASE j < p
      <4>1. j \in DOMAIN w /\ w[j] = q[j]
        BY <2>1, <2>3, <2>4, <3>2
      <4> QED
        BY <4>1
    <3>3. CASE j > p
      <4>1. j - 1 \in DOMAIN w /\ w[j - 1] = q[j]
        BY <2>1, <2>3, <2>4, <3>3
      <4> QED
        BY <4>1
    <3> QED
      BY <2>1, <2>4, <3>1, <3>2, <3>3
  <2> QED
    BY <2>3, <2>5, <2>7, <2>8, <2>9
<1> QED
  BY <1>1, <1>2

\* What RequestName comes to: the client is in the queue unless the answer is
\* "exists", which only one that would not wait is told; nobody else is added,
\* and nobody else who would wait is lost.
RequestedWell(out, q, new) ==
  /\ out.queue \in Seq(Owner) /\ OnceEach(out.queue)
  /\ out.answer \in {"owner", "already owner", "exists", "queued"}
  /\ \A i \in DOMAIN out.queue :
       out.queue[i] = new \/ \E j \in DOMAIN q : out.queue[i] = q[j]
  /\ \A j \in DOMAIN q :
       q[j].client # new.client /\ "DO_NOT_QUEUE" \notin q[j].flags =>
         \E i \in DOMAIN out.queue : out.queue[i] = q[j]
  /\ out.answer # "exists" =>
       \E i \in DOMAIN out.queue : out.queue[i] = new
  /\ out.answer = "exists" => "DO_NOT_QUEUE" \in new.flags

\* The owner is followed by the rest of the queue, less the client.
LEMMA ReplacedProperties ==
  ASSUME NEW q \in Seq(Owner), OnceEach(q), NEW new \in Owner, q # <<>>,
         q[1].client # new.client
  PROVE  /\ Replaced(q, new) \in Seq(Owner) /\ OnceEach(Replaced(q, new))
         /\ \E i \in DOMAIN Replaced(q, new) : Replaced(q, new)[i] = new
         /\ \A i \in DOMAIN Replaced(q, new) :
              Replaced(q, new)[i] = new \/ \E j \in DOMAIN q : Replaced(q, new)[i] = q[j]
         /\ \A j \in DOMAIN q :
              q[j].client # new.client /\ "DO_NOT_QUEUE" \notin q[j].flags =>
                \E i \in DOMAIN Replaced(q, new) : Replaced(q, new)[i] = q[j]
<1> DEFINE t == Tail(q)
           w == Without(new.client, t)
<1>1. /\ q[1] \in Owner /\ t \in Seq(Owner)
      /\ DOMAIN q = 1 .. Len(q) /\ Len(q) \in Nat \ {0}
      /\ DOMAIN t = 1 .. Len(q) - 1
      /\ \A i \in DOMAIN t : t[i] = q[i + 1]
  BY HeadTailProperties, LenProperties, EmptySeq
<1> HIDE DEF t
<1>2. OnceEach(t)
  BY <1>1, SMTT(30) DEF OnceEach
<1>w. w = Without(new.client, t)
  OBVIOUS
<1> HIDE DEF w
<1>3. /\ w \in Seq(Owner) /\ OnceEach(w)
      /\ ~InQueue(new.client, w)
      /\ \A i \in DOMAIN w : \E j \in DOMAIN t : w[i] = t[j]
      /\ \A j \in DOMAIN t : t[j].client # new.client =>
           \E i \in DOMAIN w : w[i] = t[j]
  <2> DEFINE c == new.client
  <2>1. t \in Seq(Owner) /\ OnceEach(t) /\ w = Without(c, t)
    BY <1>1, <1>2, <1>w
  <2> HIDE DEF c
  <2>2. w \in Seq(Owner) /\ OnceEach(w) /\ ~InQueue(c, w)
    BY <2>1, WithoutProperties, Zenon
  <2>3. \A i \in DOMAIN w : \E j \in DOMAIN t : w[i] = t[j]
    BY <2>1, WithoutProperties, SMT
  <2>4. \A j \in DOMAIN t : t[j].client # c => \E i \in DOMAIN w : w[i] = t[j]
    BY <2>1, WithoutProperties, SMT
  <2> QED
    BY <2>2, <2>3, <2>4 DEF c
<1>4. /\ DOMAIN w = 1 .. Len(w) /\ Len(w) \in Nat
      /\ \A i \in DOMAIN w : w[i] \in Owner /\ w[i].client # new.client
  BY <1>3, LenProperties, ElementOfSeq DEF InQueue
<1>5. \A i \in DOMAIN w : \E j \in DOMAIN q : j # 1 /\ w[i] = q[j]
  <2>1. \A j \in DOMAIN t : j + 1 \in DOMAIN q /\ j + 1 # 1 /\ t[j] = q[j + 1]
    BY <1>1
  <2> TAKE i \in DOMAIN w
  <2>2. PICK j \in DOMAIN t : w[i] = t[j]
    BY <1>3
  <2> QED
    BY <2>1, <2>2
<1>6. \A i \in DOMAIN w : w[i].client # q[1].client
  BY <1>1, <1>5 DEF OnceEach
<1>7. \A j \in DOMAIN q : j # 1 /\ q[j].client # new.client =>
        \E i \in DOMAIN w : w[i] = q[j]
  <2> TAKE j \in DOMAIN q
  <2> HAVE j # 1 /\ q[j].client # new.client
  <2>1. j - 1 \in DOMAIN t /\ t[j - 1] = q[j]
    BY <1>1
  <2> QED
    BY <1>3, <2>1
<1>8. CASE "DO_NOT_QUEUE" \in q[1].flags
  <2> DEFINE r == <<new>> \o w
  <2>1. Replaced(q, new) = <<new>> \o <<>> \o w
    BY <1>8 DEF Replaced, w, t
  <2>2. /\ r \in Seq(Owner) /\ DOMAIN r = 1 .. Len(w) + 1
        /\ r[1] = new /\ \A i \in DOMAIN w : r[i + 1] = w[i]
    BY <1>3, <1>4
  <2>3. Replaced(q, new) = r
    BY <1>3, <2>1
  <2> HIDE DEF r
  <2>4. \A i \in DOMAIN r : i = 1 \/ (i - 1 \in DOMAIN w /\ r[i] = w[i - 1])
    BY <1>4, <2>2
  <2>5. \A i \in DOMAIN w : i + 1 \in DOMAIN r /\ r[i + 1] = w[i]
    BY <1>4, <2>2
  <2>6. OnceEach(r)
    <3> SUFFICES ASSUME NEW i \in DOMAIN r, NEW j \in DOMAIN r,
                        r[i].client = r[j].client
                 PROVE  i = j
      BY DEF OnceEach
    <3>1. CASE i = 1 \/ j = 1
      BY <1>4, <2>2, <2>4, <3>1
    <3>2. CASE i # 1 /\ j # 1
      <4>1. i - 1 = j - 1
        BY <1>3, <2>4, <3>2 DEF OnceEach
      <4> QED
        BY <2>2, <4>1
    <3> QED
      BY <3>1, <3>2
  <2>7. \A i \in DOMAIN r : r[i] = new \/ \E j \in DOMAIN q : r[i] = q[j]
    BY <1>5, <2>2, <2>4
  <2>8. ASSUME NEW j \in DOMAIN q, q[j].client # new.client,
               "DO_NOT_QUEUE" \notin q[j].flags
        PROVE  \E i \in DOMAIN r : r[i] = q[j]
    <3>1. j # 1
      BY <1>8, <2>8
    <3>2. PICK i \in DOMAIN w : w[i] = q[j]
      BY <1>7, <2>8, <3>1
    <3> QED
      BY <2>5, <3>2
  <2>9. 1 \in DOMAIN r
    BY <1>4, <2>2
  <2> QED
    BY <2>2, <2>3, <2>6, <2>7, <2>8, <2>9
<1>9. CASE "DO_NOT_QUEUE" \notin q[1].flags
  <2> DEFINE r == <<new>> \o <<q[1]>> \o w
  <2>1. Replaced(q, new) = r
    BY <1>9 DEF Replaced, w, t
  <2>2. /\ r \in Seq(Owner) /\ DOMAIN r = 1 .. Len(w) + 2
        /\ r[1] = new /\ r[2] = q[1] /\ \A i \in DOMAIN w : r[i + 2] = w[i]
    BY <1>1, <1>3, <1>4
  <2> HIDE DEF r
  <2>3. \A i \in DOMAIN r :
          i \in {1, 2} \/ (i - 2 \in DOMAIN w /\ r[i] = w[i - 2])
    BY <1>4, <2>2
  <2>4. \A i \in DOMAIN w : i + 2 \in DOMAIN r /\ r[i + 2] = w[i]
    BY <1>4, <2>2
  <2>5. {1, 2} \subseteq DOMAIN r /\ 1 \in DOMAIN q
    BY <1>1, <1>4, <2>2
  <2>6. OnceEach(r)
    <3> SUFFICES ASSUME NEW i \in DOMAIN r, NEW j \in DOMAIN r,
                        r[i].client = r[j].client
                 PROVE  i = j
      BY DEF OnceEach
    <3>1. CASE i \in {1, 2} \/ j \in {1, 2}
      BY <1>4, <1>6, <2>2, <2>3, <3>1
    <3>2. CASE i \notin {1, 2} /\ j \notin {1, 2}
      <4>1. i - 2 = j - 2
        BY <1>3, <2>3, <3>2 DEF OnceEach
      <4> QED
        BY <2>2, <4>1
    <3> QED
      BY <3>1, <3>2
  <2>7. \A i \in DOMAIN r : r[i] = new \/ \E j \in DOMAIN q : r[i] = q[j]
    BY <1>5, <2>2, <2>3, <2>5
  <2>8. ASSUME NEW j \in DOMAIN q, q[j].client # new.client
        PROVE  \E i \in DOMAIN r : r[i] = q[j]
    <3>1. CASE j = 1
      BY <2>2, <2>5, <3>1
    <3>2. CASE j # 1
      <4>1. PICK i \in DOMAIN w : w[i] = q[j]
        BY <1>7, <2>8, <3>2
      <4> QED
        BY <2>4, <4>1
    <3> QED
      BY <3>1, <3>2
  <2> QED
    BY <2>1, <2>2, <2>5, <2>6, <2>7, <2>8
<1> QED
  BY <1>8, <1>9

LEMMA WaitingProperties ==
  ASSUME NEW q \in Seq(Owner), OnceEach(q), NEW new \in Owner
  PROVE  /\ Waiting(q, new) \in Seq(Owner) /\ OnceEach(Waiting(q, new))
         /\ \E i \in DOMAIN Waiting(q, new) : Waiting(q, new)[i] = new
         /\ \A i \in DOMAIN Waiting(q, new) :
              Waiting(q, new)[i] = new \/ \E j \in DOMAIN q : Waiting(q, new)[i] = q[j]
         /\ \A j \in DOMAIN q : q[j].client # new.client =>
              \E i \in DOMAIN Waiting(q, new) : Waiting(q, new)[i] = q[j]
<1>1. CASE InQueue(new.client, q)
  <2> DEFINE p == Position(new.client, q)
             r == [q EXCEPT ![p] = new]
  <2>1. p \in DOMAIN q /\ q[p].client = new.client
    BY <1>1 DEF InQueue, Position
  <2>2. Waiting(q, new) = r
    BY <1>1 DEF Waiting
  <2> HIDE DEF p
  <2>3. /\ r \in Seq(Owner) /\ DOMAIN r = DOMAIN q /\ r[p] = new
        /\ \A i \in DOMAIN q : i # p => r[i] = q[i]
    BY <2>1, ExceptSeq
  <2> HIDE DEF r
  <2>4. OnceEach(r)
    BY <2>1, <2>3 DEF OnceEach
  <2> QED
    BY <2>1, <2>2, <2>3, <2>4
<1>2. CASE ~InQueue(new.client, q)
  <2> DEFINE r == Append(q, new)
  <2>1. /\ r \in Seq(Owner) /\ DOMAIN q = 1 .. Len(q) /\ Len(q) \in Nat
        /\ DOMAIN r = 1 .. Len(q) + 1 /\ r[Len(q) + 1] = new
        /\ \A i \in DOMAIN q : r[i] = q[i]
    BY AppendProperties, LenProperties
  <2>2. Waiting(q, new) = r
    BY <1>2 DEF Waiting
  <2> HIDE DEF r
  <2>3. \A i \in DOMAIN r : i = Len(q) + 1 \/ i \in DOMAIN q
    BY <2>1
  <2>4. \A i \in DOMAIN q : q[i].client # new.client
    BY <1>2 DEF InQueue
  <2>5. OnceEach(r)
    BY <2>1, <2>3, <2>4 DEF OnceEach
  <2> QED
    BY <2>1, <2>2, <2>3, <2>5
<1> QED
  BY <1>1, <1>2

LEMMA RequestedProperties ==
  ASSUME NEW q \in Seq(Owner), OnceEach(q), NEW new \in Owner, NEW out,
         out = Requested(q, new)
  PROVE  RequestedWell(out, q, new)
<1>1. CASE q = <<>>
  <2>1. out = [queue |-> <<new>>, answer |-> "owner"]
    BY <1>1 DEF Requested, Owns
  <2>2. /\ <<new>> \in Seq(Owner) /\ DOMAIN <<new>> = {1} /\ <<new>>[1] = new
        /\ DOMAIN q = {}
    BY <1>1
  <2> QED
    BY <2>1, <2>2 DEF RequestedWell, OnceEach
<1>2. CASE Owns(new.client, q)
  <2> DEFINE r == <<new>> \o Tail(q)
  <2>1. /\ q # <<>> /\ q[1].client = new.client
        /\ out.queue = r /\ out.answer = "already owner"
    BY <1>2 DEF Requested, Owns
  <2>2. /\ DOMAIN q = 1 .. Len(q) /\ Len(q) \in Nat \ {0}
        /\ Tail(q) \in Seq(Owner) /\ Len(Tail(q)) = Len(q) - 1
        /\ \A i \in 1 .. Len(q) - 1 : Tail(q)[i] = q[i + 1]
    BY <2>1, HeadTailProperties, LenProperties, EmptySeq
  <2>3. /\ r \in Seq(Owner) /\ DOMAIN r = DOMAIN q /\ r[1] = new
        /\ \A i \in DOMAIN q : i # 1 => r[i] = Tail(q)[i - 1]
    BY <2>2
  <2> HIDE DEF r
  <2>4. \A i \in DOMAIN q : i # 1 => r[i] = q[i]
    BY <2>2, <2>3
  <2>5. 1 \in DOMAIN q
    BY <2>2
  <2>6. OnceEach(r)
    <3>1. \A i \in DOMAIN q : r[i].client = q[i].client
      BY <2>1, <2>3, <2>4
    <3> QED
      BY <2>3, <3>1 DEF OnceEach
  <2>7. \A i \in DOMAIN r : r[i] = new \/ \E j \in DOMAIN q : r[i] = q[j]
    BY <2>3, <2>4
  <2>8. \A j \in DOMAIN q : q[j].client # new.client => \E i \in DOMAIN r : r[i] = q[j]
    BY <2>1, <2>3, <2>4
  <2>9. \E i \in DOMAIN r : r[i] = new
    BY <2>3, <2>5
  <2> QED
    BY <2>1, <2>3, <2>6, <2>7, <2>8, <2>9 DEF RequestedWell
<1>3. CASE q # <<>> /\ ~Owns(new.client, q) /\ Replaceable(q, new.flags)
  <2>1. out = [queue |-> Replaced(q, new), answer |-> "owner"]
    BY <1>3 DEF Requested
  <2>2. q[1].client # new.client
    BY <1>3 DEF Owns
  <2>3. /\ Replaced(q, new) \in Seq(Owner) /\ OnceEach(Replaced(q, new))
        /\ \E i \in DOMAIN Replaced(q, new) : Replaced(q, new)[i] = new
        /\ \A i \in DOMAIN Replaced(q, new) :
             Replaced(q, new)[i] = new \/ \E j \in DOMAIN q : Replaced(q, new)[i] = q[j]
        /\ \A j \in DOMAIN q :
             q[j].client # new.client /\ "DO_NOT_QUEUE" \notin q[j].flags =>
               \E i \in DOMAIN Replaced(q, new) : Replaced(q, new)[i] = q[j]
    BY <1>3, <2>2, ReplacedProperties, Zenon
  <2> QED
    BY <2>1, <2>3 DEF RequestedWell
<1>4. CASE /\ q # <<>> /\ ~Owns(new.client, q) /\ ~Replaceable(q, new.flags)
           /\ "DO_NOT_QUEUE" \in new.flags
  <2> DEFINE c == new.client
             w == Without(c, q)
  <2>1. out = [queue |-> w, answer |-> "exists"]
    BY <1>4 DEF Requested
  <2>2. w = Without(c, q)
    OBVIOUS
  <2> HIDE DEF c, w
  <2>3. w \in Seq(Owner) /\ OnceEach(w)
    BY <2>2, WithoutProperties, Zenon
  <2>4. \A i \in DOMAIN w : \E j \in DOMAIN q : w[i] = q[j]
    BY <2>2, WithoutProperties, SMT
  <2>5. \A j \in DOMAIN q : q[j].client # c => \E i \in DOMAIN w : w[i] = q[j]
    BY <2>2, WithoutProperties, SMT
  <2> QED
    BY <1>4, <2>1, <2>3, <2>4, <2>5 DEF RequestedWell, c
<1>5. CASE /\ q # <<>> /\ ~Owns(new.client, q) /\ ~Replaceable(q, new.flags)
           /\ "DO_NOT_QUEUE" \notin new.flags
  <2>1. out = [queue |-> Waiting(q, new), answer |-> "queued"]
    BY <1>5 DEF Requested
  <2>2. /\ Waiting(q, new) \in Seq(Owner) /\ OnceEach(Waiting(q, new))
        /\ \E i \in DOMAIN Waiting(q, new) : Waiting(q, new)[i] = new
        /\ \A i \in DOMAIN Waiting(q, new) :
             Waiting(q, new)[i] = new \/ \E j \in DOMAIN q : Waiting(q, new)[i] = q[j]
        /\ \A j \in DOMAIN q : q[j].client # new.client =>
             \E i \in DOMAIN Waiting(q, new) : Waiting(q, new)[i] = q[j]
    BY WaitingProperties, Zenon
  <2> QED
    BY <2>1, <2>2 DEF RequestedWell
<1> QED
  BY <1>1, <1>2, <1>3, <1>4, <1>5 DEF Owns

-----------------------------------------------------------------------------
(* The invariant                                                           *)

OnceInQueues == \A n \in Names : OnceEach(owners[n])

\* The last reply under way about the name will have it listed, or there is none
\* that will not and it is.
ToBeListed(n) ==
  \/ Listed(n) /\ ~ReplyUnderWay("ReleaseName", n)
  \/ \E i \in DOMAIN replies :
       /\ IsReply(i, "RequestName", n)
       /\ \A j \in DOMAIN replies : j > i => ~IsReply(j, "ReleaseName", n)

KnownAreToBeListed == \A n \in Names : Known(n) => ToBeListed(n)

\* This connection is not taken from a queue by others.
Waits(queue) ==
  \A i \in DOMAIN queue : queue[i].client = Us => "DO_NOT_QUEUE" \notin queue[i].flags

\* A reply that will have the name listed is followed by one that will not,
\* unless the daemon has the connection in its queue.
EntriesAreKnown(n) ==
  \A i \in DOMAIN replies : IsReply(i, "RequestName", n) =>
    Known(n) \/ \E j \in DOMAIN replies : j > i /\ IsReply(j, "ReleaseName", n)

ListedStayKnown ==
  \A n \in Names : AlwaysQueues(n) =>
    /\ Waits(owners[n])
    /\ Listed(n) => Known(n) \/ ReplyUnderWay("ReleaseName", n)
    /\ EntriesAreKnown(n)

Inv == TypeOK /\ OnceInQueues /\ KnownAreToBeListed /\ ListedStayKnown

-----------------------------------------------------------------------------
(* The steps                                                               *)

LEMMA InitInv == Init => Inv
<1> SUFFICES ASSUME Init PROVE Inv
  OBVIOUS
<1> PICK own \in {{}} \cup {{n} : n \in Names},
         before \in [Names -> Before] :
      /\ wellKnownNames = [n \in Names |-> IF n \in own THEN 1 ELSE 0]
      /\ owners = [n \in Names |-> IF n \in own
                     THEN Append(before[n], [client |-> Us, flags |-> {}])
                     ELSE before[n]]
  BY DEF Init
<1>1. ASSUME NEW n \in Names
      PROVE  /\ owners[n] \in Seq(Owner) /\ OnceEach(owners[n])
             /\ \A i \in DOMAIN owners[n] :
                  owners[n][i].client = Us => owners[n][i].flags = {}
             /\ Known(n) <=> n \in own
             /\ Listed(n) <=> n \in own
  <2> DEFINE us == [client |-> Us, flags |-> {}]
             q  == owners[n]
  <2>1. us \in Owner /\ us.client = Us /\ us.flags = {}
    BY DEF Owner, Clients
  <2>2. Listed(n) <=> n \in own
    BY DEF Listed
  <2>3. q = IF n \in own THEN Append(before[n], us) ELSE before[n]
    OBVIOUS
  <2> SUFFICES /\ q \in Seq(Owner)
               /\ \A i, j \in DOMAIN q : q[i].client = q[j].client => i = j
               /\ \A i \in DOMAIN q : q[i].client = Us => q[i].flags = {}
               /\ (\E i \in DOMAIN q : q[i].client = Us) <=> n \in own
    BY <2>2 DEF OnceEach, Known, InQueue
  <2> HIDE DEF us, q
  <2>4. CASE before[n] = <<>>
    <3>1. CASE n \in own
      <4>1. q = <<us>>
        BY <2>3, <2>4, <3>1
      <4>2. <<us>> \in Seq(Owner) /\ DOMAIN <<us>> = {1} /\ <<us>>[1] = us
        BY <2>1
      <4> QED
        BY <2>1, <3>1, <4>1, <4>2
    <3>2. CASE n \notin own
      <4>1. q \in Seq(Owner) /\ DOMAIN q = {}
        BY <2>3, <2>4, <3>2
      <4> QED
        BY <3>2, <4>1
    <3> QED
      BY <3>1, <3>2
  <2>5. CASE before[n] # <<>>
    <3>1. PICK x \in [client : Peers, flags : PeerFlags] : before[n] = <<x>>
      BY <2>5 DEF Before
    <3>2. x \in Owner /\ x.client # Us
      BY ClientsAssumption DEF Owner, Clients
    <3>3. CASE n \in own
      <4>1. q = Append(<<x>>, us)
        BY <2>3, <3>1, <3>3
      <4>2. <<x>> \in Seq(Owner) /\ Len(<<x>>) = 1 /\ <<x>>[1] = x
        BY <3>2
      <4>3. /\ q \in Seq(Owner) /\ DOMAIN q = {1, 2}
            /\ q[1] = x /\ q[2] = us
        BY <2>1, <4>1, <4>2, AppendProperties, LenProperties
      <4> QED
        BY <2>1, <3>2, <3>3, <4>3
    <3>4. CASE n \notin own
      <4>1. q = <<x>>
        BY <2>3, <3>1, <3>4
      <4>2. <<x>> \in Seq(Owner) /\ DOMAIN <<x>> = {1} /\ <<x>>[1] = x
        BY <3>2
      <4> QED
        BY <3>2, <3>4, <4>1, <4>2
    <3> QED
      BY <3>3, <3>4
  <2> QED
    BY <2>4, <2>5
<1>2. TypeOK
  <2>1. owners \in [Names -> Seq(Owner)]
    BY <1>1
  <2>2. wellKnownNames \in [Names -> Nat]
    OBVIOUS
  <2>3. /\ request \in [Calls -> Requests]
        /\ pc \in [Calls -> {"idle", "awaiting", "returned", "threw"}]
        /\ requests \in Seq(Calls)
        /\ replies \in Seq([to : Calls, answer : Answers])
    BY DEF Init
  <2> QED
    BY <2>1, <2>2, <2>3 DEF TypeOK
<1>3. DOMAIN replies = {}
  BY DEF Init
<1>4. OnceInQueues
  BY <1>1 DEF OnceInQueues
<1>5. KnownAreToBeListed
  BY <1>1, <1>3 DEF KnownAreToBeListed, ToBeListed, ReplyUnderWay
<1>6. ListedStayKnown
  <2> SUFFICES ASSUME NEW n \in Names
               PROVE  /\ Waits(owners[n])
                      /\ Listed(n) => Known(n) \/ ReplyUnderWay("ReleaseName", n)
                      /\ EntriesAreKnown(n)
    BY DEF ListedStayKnown
  <2>1. Waits(owners[n])
    BY <1>1 DEF Waits
  <2>2. EntriesAreKnown(n)
    BY <1>3 DEF EntriesAreKnown
  <2> QED
    BY <1>1, <2>1, <2>2
<1> QED
  BY <1>2, <1>4, <1>5, <1>6 DEF Inv

\* What this connection asks for with a call.
Asked(c) == [client |-> Us, flags |-> request[c].flags]

LEMMA RequestFields ==
  ASSUME TypeOK, NEW c \in Calls
  PROVE  /\ request[c].name \in Names
         /\ request[c].member \in {"RequestName", "ReleaseName"}
         /\ request[c].flags \in SUBSET Flags
<1>1. request[c] \in Requests
  BY DEF TypeOK
<1>2. {} \in SUBSET Flags /\ WellKnownNameFlag \subseteq SUBSET Flags
  BY DEF WellKnownNameFlag
<1>3. CASE request[c] \in [member : {"RequestName"}, name : Names,
                           flags : WellKnownNameFlag]
  BY <1>2, <1>3
<1>4. CASE request[c] \in [member : {"ReleaseName"}, name : Names, flags : {{}}]
  BY <1>2, <1>4
<1> QED
  BY <1>1, <1>3, <1>4 DEF Requests

\* The daemon's answers: the name was requested, it was forbidden, or released.
Answered(c, out) ==
  \/ /\ request[c].member = "RequestName"
     /\ RequestedWell(out, owners[request[c].name], Asked(c))
  \/ /\ request[c].member = "RequestName"
     /\ out.answer = "error" /\ out.queue = owners[request[c].name]
  \/ /\ request[c].member = "ReleaseName"
     /\ out.answer # "error" /\ ~InQueue(Us, out.queue)

LEMMA AnswerStep ==
  ASSUME TypeOK, OnceInQueues, Answer
  PROVE  \E c \in Calls, out \in [queue : Seq(Owner), answer : Answers] :
           /\ Answered(c, out) /\ OnceEach(out.queue)
           /\ request[c].name \in Names
           /\ owners' = [owners EXCEPT ![request[c].name] = out.queue]
           /\ replies' = Append(replies, [to |-> c, answer |-> out.answer])
           /\ requests' \in Seq(Calls)
           /\ UNCHANGED <<request, pc, wellKnownNames>>
<1> DEFINE c == Head(requests)
           n == request[c].name
           q == owners[n]
<1>1. c \in Calls /\ requests' \in Seq(Calls)
  BY HeadTailProperties DEF TypeOK, Answer
<1>2. PICK out \in Outcomes(c) :
        /\ owners' = [owners EXCEPT ![n] = out.queue]
        /\ replies' = Append(replies, [to |-> c, answer |-> out.answer])
  BY DEF Answer
<1> HIDE DEF c
<1>3. /\ n \in Names
      /\ request[c].member \in {"RequestName", "ReleaseName"}
      /\ request[c].flags \in SUBSET Flags
  BY <1>1, RequestFields
<1>4. q \in Seq(Owner) /\ OnceEach(q)
  BY <1>3 DEF TypeOK, OnceInQueues
<1>5. UNCHANGED <<request, pc, wellKnownNames>>
  BY DEF Answer
<1>6. Asked(c) \in Owner
  BY <1>3 DEF Asked, Owner, Clients
<1>7. CASE request[c].member = "RequestName" /\ out = Requested(q, Asked(c))
  <2>1. RequestedWell(out, q, Asked(c))
    BY <1>4, <1>6, <1>7, RequestedProperties, Zenon
  <2>2. out = [queue |-> out.queue, answer |-> out.answer]
    BY <1>7, <2>1 DEF Requested
  <2>3. out \in [queue : Seq(Owner), answer : Answers] /\ OnceEach(out.queue)
    BY <2>1, <2>2 DEF RequestedWell, Answers
  <2>4. Answered(c, out)
    BY <1>7, <2>1 DEF Answered
  <2> QED
    BY <1>1, <1>2, <1>3, <1>5, <2>3, <2>4
<1>8. CASE request[c].member = "RequestName" /\ out = [queue |-> q, answer |-> "error"]
  <2>1. out \in [queue : Seq(Owner), answer : Answers] /\ OnceEach(out.queue)
    BY <1>4, <1>8 DEF Answers
  <2>2. Answered(c, out)
    BY <1>8 DEF Answered
  <2> QED
    BY <1>1, <1>2, <1>3, <1>5, <2>1, <2>2
<1>9. CASE request[c].member = "ReleaseName" /\ out = Released(q, Us)
  <2>1. /\ out = [queue |-> out.queue, answer |-> out.answer]
        /\ out.queue = Without(Us, q)
        /\ out.answer \in {"released", "no owner", "not owner"}
    BY <1>9 DEF Released
  <2>2. /\ out.queue \in Seq(Owner) /\ OnceEach(out.queue) /\ ~InQueue(Us, out.queue)
    BY <1>4, <2>1, WithoutProperties, ZenonT(40)
  <2>3. out \in [queue : Seq(Owner), answer : Answers]
    BY <2>1, <2>2 DEF Answers
  <2>4. Answered(c, out)
    BY <1>9, <2>1, <2>2 DEF Answered
  <2> QED
    BY <1>1, <1>2, <1>3, <1>5, <2>2, <2>3, <2>4
<1> QED
  BY <1>2, <1>3, <1>7, <1>8, <1>9 DEF Outcomes, Asked

\* A reply is put behind the others.
LEMMA AppendedReply ==
  ASSUME TypeOK, NEW c \in Calls, NEW a \in Answers, request' = request,
         replies' = Append(replies, [to |-> c, answer |-> a])
  PROVE  /\ replies' \in Seq([to : Calls, answer : Answers])
         /\ \A m, n : \A i \in DOMAIN replies : IsReply(i, m, n)' <=> IsReply(i, m, n)
         /\ \E last \in DOMAIN replies' :
              /\ DOMAIN replies' = DOMAIN replies \cup {last}
              /\ \A i \in DOMAIN replies : i < last /\ ~(last < i)
              /\ ~(last < last)
              /\ \A m, n : IsReply(last, m, n)' <=>
                   request[c].member = m /\ request[c].name = n /\ a # "error"
<1>1. /\ replies \in Seq([to : Calls, answer : Answers])
      /\ [to |-> c, answer |-> a] \in [to : Calls, answer : Answers]
  BY DEF TypeOK
<1>2. /\ DOMAIN replies = 1 .. Len(replies) /\ Len(replies) \in Nat
      /\ replies' \in Seq([to : Calls, answer : Answers])
      /\ DOMAIN replies' = 1 .. Len(replies) + 1
      /\ \A i \in DOMAIN replies : replies'[i] = replies[i]
      /\ replies'[Len(replies) + 1] = [to |-> c, answer |-> a]
  BY <1>1, AppendProperties, LenProperties
<1>3. \A m, n : \A i \in DOMAIN replies : IsReply(i, m, n)' <=> IsReply(i, m, n)
  BY <1>2 DEF IsReply
<1>4. PICK last : last = Len(replies) + 1
  OBVIOUS
<1>5. /\ DOMAIN replies' = DOMAIN replies \cup {last} /\ last \in DOMAIN replies'
      /\ \A i \in DOMAIN replies : i < last /\ ~(last < i)
      /\ ~(last < last)
  BY <1>2, <1>4
<1>6. replies'[last].to = c /\ replies'[last].answer = a
  BY <1>2, <1>4
<1>7. \A m, n : IsReply(last, m, n)' <=>
        request[c].member = m /\ request[c].name = n /\ a # "error"
  BY <1>6 DEF IsReply
<1> QED
  BY <1>2, <1>3, <1>5, <1>7

\* The first reply is taken off.
LEMMA TakenReply ==
  ASSUME TypeOK, replies # <<>>, request' = request, replies' = Tail(replies)
  PROVE  /\ 1 \in DOMAIN replies /\ Head(replies) = replies[1]
         /\ replies[1] \in [to : Calls, answer : Answers]
         /\ DOMAIN replies \subseteq Nat \ {0} /\ DOMAIN replies' \subseteq Nat \ {0}
         /\ replies' \in Seq([to : Calls, answer : Answers])
         /\ \A i \in DOMAIN replies' :
              i + 1 \in DOMAIN replies /\ \A m, n : IsReply(i, m, n)' <=> IsReply(i + 1, m, n)
         /\ \A i \in DOMAIN replies : i # 1 =>
              i - 1 \in DOMAIN replies' /\ \A m, n : IsReply(i - 1, m, n)' <=> IsReply(i, m, n)
<1>1. replies \in Seq([to : Calls, answer : Answers])
  BY DEF TypeOK
<1>h. /\ Head(replies) \in [to : Calls, answer : Answers]
      /\ Tail(replies) \in Seq([to : Calls, answer : Answers])
      /\ Len(Tail(replies)) = Len(replies) - 1
      /\ \A i \in 1 .. Len(Tail(replies)) : Tail(replies)[i] = replies[i + 1]
  BY <1>1, HeadTailProperties, Zenon
<1>l. DOMAIN replies = 1 .. Len(replies) /\ Len(replies) \in Nat \ {0}
  BY <1>1, LenProperties, EmptySeq
<1>2. /\ DOMAIN replies = 1 .. Len(replies) /\ Len(replies) \in Nat \ {0}
      /\ Head(replies) = replies[1] /\ replies[1] \in [to : Calls, answer : Answers]
      /\ replies' \in Seq([to : Calls, answer : Answers])
      /\ DOMAIN replies' = 1 .. Len(replies) - 1
      /\ \A i \in 1 .. Len(replies) - 1 : replies'[i] = replies[i + 1]
  BY <1>1, <1>h, <1>l
<1>3. \A i \in DOMAIN replies : i # 1 => replies'[i - 1] = replies[i]
  BY <1>2
<1>4. /\ \A i \in DOMAIN replies' : i + 1 \in DOMAIN replies
      /\ \A i \in DOMAIN replies : i # 1 => i - 1 \in DOMAIN replies'
  BY <1>2
<1>5. \A m, n : \A i \in DOMAIN replies' : IsReply(i, m, n)' <=> IsReply(i + 1, m, n)
  BY <1>2 DEF IsReply
<1>6. \A m, n : \A i \in DOMAIN replies : i # 1 => (IsReply(i - 1, m, n)' <=> IsReply(i, m, n))
  BY <1>3 DEF IsReply
<1> QED
  BY <1>2, <1>4, <1>5, <1>6

\* What others do to a queue takes this connection from it only if it would not
\* wait, and never puts it in.
OthersDo(q, r) ==
  /\ \A i \in DOMAIN r : r[i].client # Us \/ \E j \in DOMAIN q : r[i] = q[j]
  /\ \A j \in DOMAIN q : q[j].client = Us /\ "DO_NOT_QUEUE" \notin q[j].flags =>
       \E i \in DOMAIN r : r[i] = q[j]

LEMMA OthersStep ==
  ASSUME NEW q, NEW r, OthersDo(q, r)
  PROVE  /\ InQueue(Us, r) => InQueue(Us, q)
         /\ Waits(q) => Waits(r) /\ (InQueue(Us, q) => InQueue(Us, r))
<1>1. InQueue(Us, r) => InQueue(Us, q)
  BY DEF OthersDo, InQueue
<1>2. Waits(q) => Waits(r)
  BY DEF OthersDo, Waits
<1>3. Waits(q) /\ InQueue(Us, q) => InQueue(Us, r)
  BY DEF OthersDo, Waits, InQueue
<1> QED
  BY <1>1, <1>2, <1>3

LEMMA PeerStep ==
  ASSUME TypeOK, OnceInQueues, NEW p \in Peers, NEW n \in Names, NEW q,
         q = owners[n],
         \/ \E flags \in PeerFlags : PeerRequests(p, n, flags)
         \/ PeerReleases(p, n)
  PROVE  \E r \in Seq(Owner) :
           /\ owners' = [owners EXCEPT ![n] = r] /\ OnceEach(r)
           /\ InQueue(Us, r) => InQueue(Us, q)
           /\ Waits(q) => Waits(r) /\ (InQueue(Us, q) => InQueue(Us, r))
           /\ UNCHANGED <<request, pc, requests, replies, wellKnownNames>>
<1>1. q \in Seq(Owner) /\ OnceEach(q) /\ p # Us
  BY ClientsAssumption DEF TypeOK, OnceInQueues
<1>2. ASSUME NEW flags \in PeerFlags, PeerRequests(p, n, flags)
      PROVE  \E r \in Seq(Owner) :
               /\ owners' = [owners EXCEPT ![n] = r] /\ OnceEach(r)
               /\ InQueue(Us, r) => InQueue(Us, q)
               /\ Waits(q) => Waits(r) /\ (InQueue(Us, q) => InQueue(Us, r))
               /\ UNCHANGED <<request, pc, requests, replies, wellKnownNames>>
  <2> DEFINE new == [client |-> p, flags |-> flags]
             out == Requested(q, new)
             r   == out.queue
  <2>1. new \in Owner /\ new.client = p
    BY ClientsAssumption DEF Owner, Clients
  <2>2. /\ owners' = [owners EXCEPT ![n] = r]
        /\ UNCHANGED <<request, pc, requests, replies, wellKnownNames>>
    BY <1>2 DEF PeerRequests
  <2>3. out = Requested(q, new)
    OBVIOUS
  <2> HIDE DEF new, out
  <2>4. RequestedWell(out, q, new)
    BY <1>1, <2>1, <2>3, RequestedProperties, Zenon
  <2>5. r \in Seq(Owner) /\ OnceEach(r)
    BY <2>4 DEF RequestedWell
  <2>6. /\ \A i \in DOMAIN r : r[i] = new \/ \E j \in DOMAIN q : r[i] = q[j]
        /\ \A j \in DOMAIN q :
             q[j].client # new.client /\ "DO_NOT_QUEUE" \notin q[j].flags =>
               \E i \in DOMAIN r : r[i] = q[j]
    BY <2>4 DEF RequestedWell
  <2> HIDE DEF r
  <2>7. \A i \in DOMAIN r : r[i].client # Us \/ \E j \in DOMAIN q : r[i] = q[j]
    BY <1>1, <2>1, <2>6
  <2>8. \A j \in DOMAIN q : q[j].client = Us /\ "DO_NOT_QUEUE" \notin q[j].flags =>
          \E i \in DOMAIN r : r[i] = q[j]
    BY <1>1, <2>1, <2>6
  <2>9. /\ InQueue(Us, r) => InQueue(Us, q)
        /\ Waits(q) => Waits(r) /\ (InQueue(Us, q) => InQueue(Us, r))
    <3>1. OthersDo(q, r)
      BY <2>7, <2>8 DEF OthersDo
    <3> QED
      BY <3>1, OthersStep, Zenon
  <2> QED
    BY <2>2, <2>5, <2>9
<1>3. ASSUME PeerReleases(p, n)
      PROVE  \E r \in Seq(Owner) :
               /\ owners' = [owners EXCEPT ![n] = r] /\ OnceEach(r)
               /\ InQueue(Us, r) => InQueue(Us, q)
               /\ Waits(q) => Waits(r) /\ (InQueue(Us, q) => InQueue(Us, r))
               /\ UNCHANGED <<request, pc, requests, replies, wellKnownNames>>
  <2> DEFINE r == Without(p, q)
  <2>1. /\ owners' = [owners EXCEPT ![n] = r]
        /\ UNCHANGED <<request, pc, requests, replies, wellKnownNames>>
    BY <1>3 DEF PeerReleases, Released
  <2>2. r = Without(p, q)
    OBVIOUS
  <2> HIDE DEF r
  <2>3. r \in Seq(Owner) /\ OnceEach(r)
    BY <1>1, <2>2, WithoutProperties, Zenon
  <2>4. \A i \in DOMAIN r : \E j \in DOMAIN q : r[i] = q[j]
    BY <1>1, <2>2, WithoutProperties, SMT
  <2>5. \A j \in DOMAIN q : q[j].client # p => \E i \in DOMAIN r : r[i] = q[j]
    BY <1>1, <2>2, WithoutProperties, SMT
  <2>6. \A j \in DOMAIN q : q[j].client = Us /\ "DO_NOT_QUEUE" \notin q[j].flags =>
          \E i \in DOMAIN r : r[i] = q[j]
    BY <1>1, <2>5
  <2>7. \A i \in DOMAIN r : r[i].client # Us \/ \E j \in DOMAIN q : r[i] = q[j]
    BY <2>4
  <2>8. /\ InQueue(Us, r) => InQueue(Us, q)
        /\ Waits(q) => Waits(r) /\ (InQueue(Us, q) => InQueue(Us, r))
    <3>1. OthersDo(q, r)
      BY <2>6, <2>7 DEF OthersDo
    <3> QED
      BY <3>1, OthersStep, Zenon
  <2> QED
    BY <2>1, <2>3, <2>8
<1> QED
  BY <1>2, <1>3

-----------------------------------------------------------------------------
(* The invariant is kept                                                   *)

\* Neither names nor replies change.
LEMMA NothingAboutNames ==
  ASSUME Inv, UNCHANGED <<request, replies, wellKnownNames, owners>>
  PROVE  OnceInQueues' /\ KnownAreToBeListed' /\ ListedStayKnown'
<1>1. OnceInQueues'
  BY DEF Inv, OnceInQueues
<1>2. KnownAreToBeListed'
  BY DEF Inv, KnownAreToBeListed, ToBeListed, ReplyUnderWay, IsReply, Known, Listed
<1>3. ListedStayKnown'
  BY DEF Inv, ListedStayKnown, EntriesAreKnown, ReplyUnderWay, IsReply, Known,
         Listed, AlwaysQueues
<1> QED
  BY <1>1, <1>2, <1>3

LEMMA CallInv == ASSUME Inv, NEW c \in Calls, Call(c) PROVE Inv'
<1>1. OnceInQueues' /\ KnownAreToBeListed' /\ ListedStayKnown'
  BY NothingAboutNames DEF Call
<1>2. pc' \in [Calls -> {"idle", "awaiting", "returned", "threw"}]
  BY DEF Inv, TypeOK, Call
<1>3. requests' \in Seq(Calls)
  BY AppendProperties DEF Inv, TypeOK, Call
<1> QED
  BY <1>1, <1>2, <1>3 DEF Inv, TypeOK, Call

LEMMA PeerInv ==
  ASSUME Inv, NEW p \in Peers, NEW n \in Names,
         \/ \E flags \in PeerFlags : PeerRequests(p, n, flags)
         \/ PeerReleases(p, n)
  PROVE  Inv'
<1> TypeOK /\ OnceInQueues
  BY DEF Inv
<1> PICK q : q = owners[n]
  OBVIOUS
<1> PICK r \in Seq(Owner) :
      /\ owners' = [owners EXCEPT ![n] = r] /\ OnceEach(r)
      /\ InQueue(Us, r) => InQueue(Us, q)
      /\ Waits(q) => Waits(r) /\ (InQueue(Us, q) => InQueue(Us, r))
      /\ UNCHANGED <<request, pc, requests, replies, wellKnownNames>>
  BY PeerStep
<1>1. TypeOK'
  BY DEF TypeOK
<1>2. ASSUME NEW m \in Names
      PROVE  owners'[m] = IF m = n THEN r ELSE owners[m]
  BY DEF TypeOK
<1>3. OnceInQueues'
  BY <1>2 DEF OnceInQueues
<1>4. ASSUME NEW m \in Names
      PROVE  /\ Known(m)' => Known(m)
             /\ Waits(owners[m]) => Waits(owners'[m]) /\ (Known(m) => Known(m)')
  BY <1>2 DEF Known
<1>5. ASSUME NEW m \in Names
      PROVE  /\ ToBeListed(m)' <=> ToBeListed(m)
             /\ Listed(m)' <=> Listed(m)
             /\ \A x : ReplyUnderWay(x, m)' <=> ReplyUnderWay(x, m)
             /\ AlwaysQueues(m)' <=> AlwaysQueues(m)
             /\ \A i, x : IsReply(i, x, m)' <=> IsReply(i, x, m)
  BY DEF ToBeListed, Listed, ReplyUnderWay, AlwaysQueues, IsReply
<1>6. KnownAreToBeListed'
  BY <1>4, <1>5 DEF Inv, KnownAreToBeListed
<1>7. ListedStayKnown'
  <2> SUFFICES ASSUME NEW m \in Names, AlwaysQueues(m)'
               PROVE  /\ Waits(owners'[m])
                      /\ Listed(m)' => Known(m)' \/ ReplyUnderWay("ReleaseName", m)'
                      /\ EntriesAreKnown(m)'
    BY DEF ListedStayKnown
  <2>1. /\ Waits(owners[m])
        /\ Listed(m) => Known(m) \/ ReplyUnderWay("ReleaseName", m)
        /\ EntriesAreKnown(m)
    BY <1>5 DEF Inv, ListedStayKnown
  <2>2. Waits(owners'[m]) /\ (Known(m) => Known(m)')
    BY <1>4, <2>1
  <2>3. EntriesAreKnown(m)'
    BY <1>5, <2>1, <2>2 DEF EntriesAreKnown
  <2> QED
    BY <1>5, <2>1, <2>2, <2>3
<1> QED
  BY <1>1, <1>3, <1>6, <1>7 DEF Inv

LEMMA AnswerInv == ASSUME Inv, Answer PROVE Inv'
<1> TypeOK /\ OnceInQueues
  BY DEF Inv
<1> PICK c \in Calls, out \in [queue : Seq(Owner), answer : Answers] :
      /\ Answered(c, out) /\ OnceEach(out.queue)
      /\ request[c].name \in Names
      /\ owners' = [owners EXCEPT ![request[c].name] = out.queue]
      /\ replies' = Append(replies, [to |-> c, answer |-> out.answer])
      /\ requests' \in Seq(Calls)
      /\ UNCHANGED <<request, pc, wellKnownNames>>
  BY AnswerStep
<1> PICK n : n = request[c].name
  OBVIOUS
<1>1. out.queue \in Seq(Owner) /\ out.answer \in Answers /\ request' = request
  OBVIOUS
<1>2. /\ replies' \in Seq([to : Calls, answer : Answers])
      /\ \A x, m : \A i \in DOMAIN replies : IsReply(i, x, m)' <=> IsReply(i, x, m)
      /\ \E last \in DOMAIN replies' :
           /\ DOMAIN replies' = DOMAIN replies \cup {last}
           /\ \A i \in DOMAIN replies : i < last /\ ~(last < i)
           /\ ~(last < last)
           /\ \A x, m : IsReply(last, x, m)' <=>
                request[c].member = x /\ request[c].name = m /\ out.answer # "error"
  BY <1>1, AppendedReply
<1> PICK last \in DOMAIN replies' :
      /\ DOMAIN replies' = DOMAIN replies \cup {last}
      /\ \A i \in DOMAIN replies : i < last /\ ~(last < i)
      /\ ~(last < last)
      /\ \A x, m : IsReply(last, x, m)' <=>
           request[c].member = x /\ request[c].name = m /\ out.answer # "error"
  BY <1>2
<1>3. TypeOK'
  BY <1>1, <1>2 DEF TypeOK
<1>4. \A m \in Names : owners'[m] = IF m = n THEN out.queue ELSE owners[m]
  BY DEF TypeOK
<1>5. OnceInQueues'
  BY <1>4 DEF OnceInQueues
<1>6. \A m : (Listed(m)' <=> Listed(m)) /\ (AlwaysQueues(m)' <=> AlwaysQueues(m))
  BY DEF Listed, AlwaysQueues
<1>7. ASSUME NEW m \in Names, owners'[m] = owners[m],
             \A x : ~IsReply(last, x, m)'
      PROVE  /\ Known(m)' => ToBeListed(m)'
             /\ AlwaysQueues(m)' =>
                  /\ Waits(owners'[m])
                  /\ Listed(m)' => Known(m)' \/ ReplyUnderWay("ReleaseName", m)'
                  /\ EntriesAreKnown(m)'
  <2>1. Known(m)' <=> Known(m)
    BY <1>7 DEF Known
  <2>2. \A x : ReplyUnderWay(x, m)' <=> ReplyUnderWay(x, m)
    BY <1>2, <1>7 DEF ReplyUnderWay
  <2>3. ToBeListed(m) => ToBeListed(m)'
    BY <1>2, <1>6, <1>7, <2>2 DEF ToBeListed
  <2>4. EntriesAreKnown(m) => EntriesAreKnown(m)'
    BY <1>2, <1>7, <2>1 DEF EntriesAreKnown
  <2>5. /\ Known(m) => ToBeListed(m)
        /\ AlwaysQueues(m) =>
             /\ Waits(owners[m])
             /\ Listed(m) => Known(m) \/ ReplyUnderWay("ReleaseName", m)
             /\ EntriesAreKnown(m)
    BY DEF Inv, KnownAreToBeListed, ListedStayKnown
  <2> QED
    BY <1>6, <1>7, <2>1, <2>2, <2>3, <2>4, <2>5
<1>8. ASSUME request[c].member = "RequestName",
             RequestedWell(out, owners[n], Asked(c))
      PROVE  /\ Known(n)' => ToBeListed(n)'
             /\ AlwaysQueues(n)' =>
                  /\ Waits(owners'[n])
                  /\ Listed(n)' => Known(n)' \/ ReplyUnderWay("ReleaseName", n)'
                  /\ EntriesAreKnown(n)'
  <2>1. out.answer # "error"
    BY <1>8 DEF RequestedWell
  <2>2. IsReply(last, "RequestName", n)' /\ ~IsReply(last, "ReleaseName", n)'
    BY <1>8, <2>1
  <2>3. ToBeListed(n)'
    BY <2>2 DEF ToBeListed
  <2>4. Asked(c).client = Us /\ Asked(c).flags = request[c].flags
    BY DEF Asked
  <2>5. ASSUME AlwaysQueues(n)' PROVE Waits(owners'[n]) /\ Known(n)'
    <3>1. "DO_NOT_QUEUE" \notin Asked(c).flags
      BY <1>6, <2>4, <2>5 DEF AlwaysQueues
    <3>2. Waits(owners[n])
      BY <1>6, <2>5 DEF Inv, ListedStayKnown
    <3>3. Waits(out.queue)
      <4>1. \A i \in DOMAIN out.queue : \/ out.queue[i] = Asked(c)
                                        \/ \E j \in DOMAIN owners[n] :
                                             out.queue[i] = owners[n][j]
        BY <1>8 DEF RequestedWell
      <4> QED
        BY <3>1, <3>2, <4>1 DEF Waits
    <3>4. \E i \in DOMAIN out.queue : out.queue[i] = Asked(c)
      BY <1>8, <3>1 DEF RequestedWell
    <3> QED
      BY <1>4, <2>4, <3>3, <3>4 DEF Known, InQueue
  <2>6. Known(n)' => EntriesAreKnown(n)'
    BY DEF EntriesAreKnown
  <2> QED
    BY <2>3, <2>5, <2>6
<1>9. ASSUME request[c].member = "ReleaseName", out.answer # "error",
             ~InQueue(Us, out.queue)
      PROVE  /\ Known(n)' => ToBeListed(n)'
             /\ AlwaysQueues(n)' =>
                  /\ Waits(owners'[n])
                  /\ Listed(n)' => Known(n)' \/ ReplyUnderWay("ReleaseName", n)'
                  /\ EntriesAreKnown(n)'
  <2>1. ~Known(n)' /\ Waits(owners'[n])
    BY <1>4, <1>9 DEF Known, InQueue, Waits
  <2>2. IsReply(last, "ReleaseName", n)' /\ ~IsReply(last, "RequestName", n)'
    BY <1>9
  <2>3. ReplyUnderWay("ReleaseName", n)'
    BY <2>2 DEF ReplyUnderWay
  <2>4. EntriesAreKnown(n)'
    BY <2>2 DEF EntriesAreKnown
  <2> QED
    BY <2>1, <2>3, <2>4
<1>10. ASSUME NEW m \in Names
       PROVE  /\ Known(m)' => ToBeListed(m)'
              /\ AlwaysQueues(m)' =>
                   /\ Waits(owners'[m])
                   /\ Listed(m)' => Known(m)' \/ ReplyUnderWay("ReleaseName", m)'
                   /\ EntriesAreKnown(m)'
  <2>1. CASE m # n
    BY <1>4, <1>7, <2>1
  <2>2. CASE m = n /\ out.answer = "error" /\ out.queue = owners[n]
    BY <1>4, <1>7, <2>2
  <2>3. CASE m = n /\ request[c].member = "RequestName"
             /\ RequestedWell(out, owners[n], Asked(c))
    BY <1>8, <2>3
  <2>4. CASE m = n /\ request[c].member = "ReleaseName" /\ out.answer # "error"
             /\ ~InQueue(Us, out.queue)
    BY <1>9, <2>4
  <2> QED
    BY <2>1, <2>2, <2>3, <2>4 DEF Answered
<1>11. KnownAreToBeListed' /\ ListedStayKnown'
  BY <1>10 DEF KnownAreToBeListed, ListedStayKnown
<1> QED
  BY <1>3, <1>5, <1>11 DEF Inv

LEMMA ReadInv == ASSUME Inv, Read PROVE Inv'
<1> DEFINE c == Head(replies).to
           n == request[c].name
           a == Head(replies).answer
<1> TypeOK /\ OnceInQueues
  BY DEF Inv
<1>1. /\ replies # <<>> /\ replies' = Tail(replies) /\ request' = request
      /\ requests' = requests /\ owners' = owners
      /\ pc' = [pc EXCEPT ![c] = IF Throws(a) THEN "threw" ELSE "returned"]
      /\ wellKnownNames' = IF Throws(a) THEN wellKnownNames
                           ELSE IF request[c].member = "RequestName"
                             THEN Entered(n) ELSE Removed(n)
  BY DEF Read
<1>2. /\ 1 \in DOMAIN replies /\ Head(replies) = replies[1]
      /\ replies[1] \in [to : Calls, answer : Answers]
      /\ DOMAIN replies \subseteq Nat \ {0} /\ DOMAIN replies' \subseteq Nat \ {0}
      /\ replies' \in Seq([to : Calls, answer : Answers])
      /\ \A i \in DOMAIN replies' :
           i + 1 \in DOMAIN replies /\ \A x, m : IsReply(i, x, m)' <=> IsReply(i + 1, x, m)
      /\ \A i \in DOMAIN replies : i # 1 =>
           i - 1 \in DOMAIN replies' /\ \A x, m : IsReply(i - 1, x, m)' <=> IsReply(i, x, m)
  BY <1>1, TakenReply
<1>3. c \in Calls /\ c = replies[1].to /\ a = replies[1].answer
  BY <1>2
<1>4. \A x, m : IsReply(1, x, m) <=>
        request[c].member = x /\ n = m /\ a # "error"
  BY <1>3 DEF IsReply
<1>5. n \in Names /\ request[c].member \in {"RequestName", "ReleaseName"}
  BY <1>3, RequestFields
<1> HIDE DEF c, n, a
<1>6. /\ \A m \in Names : wellKnownNames[m] \in Nat
      /\ wellKnownNames' \in [Names -> Nat]
      /\ \A m \in Names : m # n \/ a = "error" => wellKnownNames'[m] = wellKnownNames[m]
      /\ a # "error" /\ request[c].member = "RequestName" =>
           wellKnownNames'[n] = wellKnownNames[n] + 1
      /\ a # "error" /\ request[c].member = "ReleaseName" => wellKnownNames'[n] = 0
  <2>1. wellKnownNames \in [Names -> Nat]
    BY DEF TypeOK
  <2>2. CASE a = "error"
    BY <1>1, <2>1, <2>2 DEF Throws
  <2>3. CASE a # "error" /\ request[c].member = "RequestName"
    BY <1>1, <1>5, <2>1, <2>3 DEF Throws, Entered
  <2>4. CASE a # "error" /\ request[c].member = "ReleaseName"
    BY <1>1, <1>5, <2>1, <2>4 DEF Throws, Removed
  <2> QED
    BY <1>5, <2>1, <2>2, <2>3, <2>4
<1>7. TypeOK'
  <2>1. pc' \in [Calls -> {"idle", "awaiting", "returned", "threw"}]
    BY <1>1 DEF TypeOK
  <2> QED
    BY <1>1, <1>2, <1>6, <2>1 DEF TypeOK
<1>8. OnceInQueues'
  BY <1>1 DEF OnceInQueues
<1>9. \A m : (Known(m)' <=> Known(m)) /\ (AlwaysQueues(m)' <=> AlwaysQueues(m))
  BY <1>1 DEF Known, AlwaysQueues
\* The rest of the replies, as long as the first is not the one in question.
<1>10. ASSUME NEW x, NEW m
       PROVE  /\ ReplyUnderWay(x, m) => IsReply(1, x, m) \/ ReplyUnderWay(x, m)'
              /\ ReplyUnderWay(x, m)' =>
                   \E i \in DOMAIN replies : i # 1 /\ IsReply(i, x, m)
  <2>1. ReplyUnderWay(x, m) => IsReply(1, x, m) \/ ReplyUnderWay(x, m)'
    BY <1>2 DEF ReplyUnderWay
  <2>2. ASSUME ReplyUnderWay(x, m)'
        PROVE  \E i \in DOMAIN replies : i # 1 /\ IsReply(i, x, m)
    <3>1. PICK i \in DOMAIN replies' : IsReply(i, x, m)'
      BY <2>2 DEF ReplyUnderWay
    <3>2. i + 1 \in DOMAIN replies /\ IsReply(i + 1, x, m) /\ i + 1 # 1
      BY <1>2, <3>1
    <3> QED
      BY <3>2
  <2> QED
    BY <2>1, <2>2
<1>11. ASSUME NEW m, NEW i \in DOMAIN replies, i # 1, IsReply(i, "RequestName", m),
              \A j \in DOMAIN replies : j > i => ~IsReply(j, "ReleaseName", m)
       PROVE  ToBeListed(m)'
  <2> PICK k : k = i - 1
    OBVIOUS
  <2>1. k \in DOMAIN replies' /\ IsReply(k, "RequestName", m)' /\ k + 1 = i /\ k \in Nat
    BY <1>2, <1>11
  <2>2. ASSUME NEW j \in DOMAIN replies', j > k
        PROVE  ~IsReply(j, "ReleaseName", m)'
    <3>1. j + 1 \in DOMAIN replies /\ j + 1 > i
      BY <1>2, <2>1, <2>2
    <3> QED
      BY <1>2, <1>11, <3>1
  <2> QED
    BY <2>1, <2>2 DEF ToBeListed
<1>12. ASSUME NEW m \in Names, EntriesAreKnown(m) PROVE EntriesAreKnown(m)'
  <2> SUFFICES ASSUME NEW i \in DOMAIN replies', IsReply(i, "RequestName", m)'
               PROVE  \/ Known(m)'
                      \/ \E j \in DOMAIN replies' : j > i /\ IsReply(j, "ReleaseName", m)'
    BY DEF EntriesAreKnown
  <2>1. i \in Nat \ {0} /\ i + 1 \in DOMAIN replies /\ IsReply(i + 1, "RequestName", m)
    BY <1>2
  <2>2. CASE Known(m)
    BY <1>9, <2>2
  <2>3. CASE ~Known(m)
    <3>1. PICK j \in DOMAIN replies : j > i + 1 /\ IsReply(j, "ReleaseName", m)
      BY <1>12, <2>1, <2>3 DEF EntriesAreKnown
    <3> PICK k : k = j - 1
      OBVIOUS
    <3>2. j # 1 /\ k > i
      BY <1>2, <2>1, <3>1
    <3>3. k \in DOMAIN replies' /\ IsReply(k, "ReleaseName", m)'
      BY <1>2, <3>1, <3>2
    <3> QED
      BY <3>2, <3>3
  <2> QED
    BY <2>2, <2>3
<1>13. ASSUME NEW m \in Names
       PROVE  /\ Known(m)' => ToBeListed(m)'
              /\ AlwaysQueues(m)' =>
                   /\ Waits(owners'[m])
                   /\ Listed(m)' => Known(m)' \/ ReplyUnderWay("ReleaseName", m)'
                   /\ EntriesAreKnown(m)'
  <2>1. /\ Known(m) => ToBeListed(m)
        /\ AlwaysQueues(m) =>
             /\ Waits(owners[m])
             /\ Listed(m) => Known(m) \/ ReplyUnderWay("ReleaseName", m)
             /\ EntriesAreKnown(m)
    BY DEF Inv, KnownAreToBeListed, ListedStayKnown
  <2>2. AlwaysQueues(m)' => Waits(owners'[m]) /\ EntriesAreKnown(m)'
    BY <1>1, <1>9, <1>12, <2>1
  <2>3. CASE m # n \/ a = "error"
    <3>1. \A x : ~IsReply(1, x, m)
      BY <1>4, <2>3
    <3>2. Listed(m)' <=> Listed(m)
      BY <1>6, <2>3 DEF Listed
    <3>3. ASSUME Listed(m), ~ReplyUnderWay("ReleaseName", m) PROVE ToBeListed(m)'
      <4>1. ~ReplyUnderWay("ReleaseName", m)'
        BY <1>10, <3>3 DEF ReplyUnderWay
      <4> QED
        BY <3>2, <3>3, <4>1 DEF ToBeListed
    <3>4. ToBeListed(m) => ToBeListed(m)'
      BY <1>11, <3>1, <3>3 DEF ToBeListed
    <3> QED
      BY <1>9, <1>10, <2>1, <2>2, <3>1, <3>2, <3>4
  <2>4. CASE m = n /\ a # "error" /\ request[c].member = "RequestName"
    <3>1. IsReply(1, "RequestName", m) /\ ~IsReply(1, "ReleaseName", m)
      BY <1>4, <2>4
    <3>2. Listed(m)'
      BY <1>5, <1>6, <2>4 DEF Listed
    <3>3. ASSUME ToBeListed(m), ReplyUnderWay("ReleaseName", m)' PROVE ToBeListed(m)'
      <4>1. PICK k \in DOMAIN replies : k # 1 /\ IsReply(k, "ReleaseName", m)
        BY <1>10, <3>3
      <4>2. ReplyUnderWay("ReleaseName", m)
        BY <4>1 DEF ReplyUnderWay
      <4>3. PICK i \in DOMAIN replies :
              /\ IsReply(i, "RequestName", m)
              /\ \A j \in DOMAIN replies : j > i => ~IsReply(j, "ReleaseName", m)
        BY <3>3, <4>2 DEF ToBeListed
      <4>4. i # 1
        BY <1>2, <4>1, <4>3
      <4> QED
        BY <1>11, <4>3, <4>4
    <3>4. ToBeListed(m) => ToBeListed(m)'
      BY <3>2, <3>3 DEF ToBeListed
    <3>5. EntriesAreKnown(m) => Known(m) \/ ReplyUnderWay("ReleaseName", m)
      BY <1>2, <3>1 DEF EntriesAreKnown, ReplyUnderWay
    <3> QED
      BY <1>9, <1>10, <2>1, <2>2, <3>1, <3>4, <3>5
  <2>5. CASE m = n /\ a # "error" /\ request[c].member = "ReleaseName"
    <3>1. IsReply(1, "ReleaseName", m) /\ ~IsReply(1, "RequestName", m)
      BY <1>4, <2>5
    <3>2. ~Listed(m)'
      BY <1>6, <2>5 DEF Listed
    <3>3. ReplyUnderWay("ReleaseName", m)
      BY <1>2, <3>1 DEF ReplyUnderWay
    <3>4. ToBeListed(m) => ToBeListed(m)'
      BY <1>11, <3>1, <3>3 DEF ToBeListed
    <3> QED
      BY <1>9, <2>1, <2>2, <3>2, <3>4
  <2> QED
    BY <1>5, <2>3, <2>4, <2>5
<1>14. KnownAreToBeListed' /\ ListedStayKnown'
  BY <1>13 DEF KnownAreToBeListed, ListedStayKnown
<1> QED
  BY <1>7, <1>8, <1>14 DEF Inv

-----------------------------------------------------------------------------
(* The theorems                                                            *)

\* The inductive invariant: a queue has nobody twice, and for each name the
\* last reply under way that is about it agrees with the daemon's queue.
THEOREM Invariance == Spec => []Inv
<1>1. Init => Inv
  BY InitInv
<1>2. Inv /\ [Next]_vars => Inv'
  <2> SUFFICES ASSUME Inv, [Next]_vars PROVE Inv'
    OBVIOUS
  <2>1. ASSUME NEW c \in Calls, Call(c) PROVE Inv'
    BY <2>1, CallInv
  <2>2. ASSUME Answer PROVE Inv'
    BY <2>2, AnswerInv
  <2>3. ASSUME NEW p \in Peers, NEW n \in Names, NEW flags \in PeerFlags,
               PeerRequests(p, n, flags)
        PROVE  Inv'
    BY <2>3, PeerInv
  <2>4. ASSUME NEW p \in Peers, NEW n \in Names, PeerReleases(p, n) PROVE Inv'
    BY <2>4, PeerInv
  <2>5. ASSUME Read PROVE Inv'
    BY <2>5, ReadInv
  <2>6. CASE UNCHANGED vars
    <3>1. OnceInQueues' /\ KnownAreToBeListed' /\ ListedStayKnown'
      BY <2>6, NothingAboutNames DEF vars
    <3>2. TypeOK'
      BY <2>6 DEF Inv, TypeOK, vars
    <3> QED
      BY <3>1, <3>2 DEF Inv
  <2> QED
    BY <2>1, <2>2, <2>3, <2>4, <2>5, <2>6 DEF Next
<1> QED
  BY <1>1, <1>2, PTL DEF Spec

\* The variables keep their types: what the calls, the daemon and other clients
\* do never takes a name off the list that is not there.
THEOREM TypeCorrect == Spec => []TypeOK
<1>1. Inv => TypeOK
  BY DEF Inv
<1> QED
  BY <1>1, Invariance, PTL

\* Every name the daemon would give to this connection is listed, or a reply that
\* lists it is under way: however requests and releases overlap.
THEOREM NamesAreListed == Spec => []KnownNamesAreListed
<1>1. Inv => KnownNamesAreListed
  BY DEF Inv, KnownAreToBeListed, ToBeListed, KnownNamesAreListed, ReplyUnderWay
<1> QED
  BY <1>1, Invariance, PTL

\* A name that is listed is the connection's to have or to wait for, unless it was
\* asked for with DO_NOT_QUEUE or a reply that takes it off is under way.
THEOREM NamesAreKnown == Spec => []ListedNamesAreKnown
<1>1. Inv => ListedNamesAreKnown
  BY DEF Inv, ListedStayKnown, ListedNamesAreKnown
<1> QED
  BY <1>1, Invariance, PTL
============================================================================
