----------------------------- MODULE SequenceLemmas -----------------------------
(***************************************************************************)
(* What adding to a sequence and taking from it does to its elements, for   *)
(* the queues of the other proofs; the first that passes a test; and what   *)
(* induction these proofs need, by a least counterexample.                  *)
(***************************************************************************)
EXTENDS Sequences, SequencesExt, SequenceTheorems, WellFoundedInduction, TLAPS

\* Nothing is in the sequence twice.
Distinct(s) == \A i, j \in DOMAIN s : s[i] = s[j] => i = j

\* RemoveAt() moves what is behind the position up by one.
LEMMA RemoveAtProperties ==
  ASSUME NEW S, NEW s \in Seq(S), NEW p \in DOMAIN s
  PROVE  /\ RemoveAt(s, p) \in Seq(S)
         /\ Len(RemoveAt(s, p)) = Len(s) - 1
         /\ \A i \in 1 .. p - 1 : RemoveAt(s, p)[i] = s[i]
         /\ \A i \in p .. Len(s) - 1 : RemoveAt(s, p)[i] = s[i + 1]
<1> p \in 1 .. Len(s) /\ Len(s) \in Nat
  BY LenProperties
<1> DEFINE before == SubSeq(s, 1, p - 1)
           after  == SubSeq(s, p + 1, Len(s))
<1>1. /\ before \in Seq(S) /\ Len(before) = p - 1
      /\ \A i \in 1 .. p - 1 : before[i] = s[i]
  BY SubSeqProperties, Z3
<1>2. /\ after \in Seq(S) /\ Len(after) = Len(s) - p
      /\ \A i \in 1 .. Len(s) - p : after[i] = s[p + i]
  BY SubSeqProperties, Z3
<1>3. RemoveAt(s, p) = before \o after
  BY DEF RemoveAt
<1> HIDE DEF before, after
<1>4. /\ before \o after \in Seq(S)
      /\ Len(before \o after) = Len(s) - 1
      /\ \A i \in 1 .. Len(s) - 1 :
           (before \o after)[i] = IF i <= p - 1 THEN before[i] ELSE after[i - (p - 1)]
  <2>1. before \in Seq(S) /\ after \in Seq(S)
    BY <1>1, <1>2
  <2>2. /\ before \o after \in Seq(S)
        /\ Len(before \o after) = Len(before) + Len(after)
        /\ \A i \in 1 .. Len(before) + Len(after) :
             (before \o after)[i] =
               IF i <= Len(before) THEN before[i] ELSE after[i - Len(before)]
    BY <2>1, ConcatProperties
  <2>3. Len(before) = p - 1 /\ Len(before) + Len(after) = Len(s) - 1
    BY <1>1, <1>2
  <2> QED
    BY <2>2, <2>3, Zenon
<1>5. \A i \in p .. Len(s) - 1 : after[i - (p - 1)] = s[i + 1]
  <2> TAKE i \in p .. Len(s) - 1
  <2>1. i - (p - 1) \in 1 .. Len(s) - p /\ p + (i - (p - 1)) = i + 1
    OBVIOUS
  <2> QED
    BY <2>1, <1>2
<1> QED
  BY <1>1, <1>3, <1>4, <1>5

\* Who joins a queue is the only one more in it.
LEMMA AppendDistinct ==
  ASSUME NEW S, NEW s \in Seq(S), NEW x \in S, Distinct(s), x \notin Range(s)
  PROVE  /\ Append(s, x) \in Seq(S)
         /\ Distinct(Append(s, x))
         /\ Range(Append(s, x)) = Range(s) \cup {x}
<1>1. /\ Append(s, x) \in Seq(S)
      /\ DOMAIN s = 1 .. Len(s) /\ Len(s) \in Nat
      /\ DOMAIN Append(s, x) = 1 .. Len(s) + 1
      /\ \A i \in DOMAIN s : Append(s, x)[i] = s[i]
      /\ Append(s, x)[Len(s) + 1] = x
  BY AppendProperties, LenProperties
<1>2. Distinct(Append(s, x))
  BY <1>1 DEF Distinct, Range
<1>3. Range(Append(s, x)) = Range(s) \cup {x}
  BY <1>1 DEF Range
<1> QED
  BY <1>1, <1>2, <1>3

\* The first one leaves.
LEMMA TailDistinct ==
  ASSUME NEW S, NEW s \in Seq(S), s # <<>>, Distinct(s)
  PROVE  /\ Head(s) \in S /\ Head(s) \in Range(s)
         /\ Tail(s) \in Seq(S)
         /\ Distinct(Tail(s))
         /\ Range(Tail(s)) = Range(s) \ {Head(s)}
<1>1. /\ Head(s) \in S /\ Tail(s) \in Seq(S) /\ Head(s) = s[1]
      /\ DOMAIN s = 1 .. Len(s) /\ Len(s) \in Nat /\ Len(s) > 0
      /\ DOMAIN Tail(s) = 1 .. Len(s) - 1
      /\ \A i \in 1 .. Len(s) - 1 : Tail(s)[i] = s[i + 1]
  BY HeadTailProperties, LenProperties, EmptySeq
<1>2. Distinct(Tail(s))
  BY <1>1 DEF Distinct
<1>3. \A i \in DOMAIN s : i # 1 => i - 1 \in DOMAIN Tail(s) /\ Tail(s)[i - 1] = s[i]
  BY <1>1
<1>4. Range(Tail(s)) = Range(s) \ {Head(s)}
  <2>1. ASSUME NEW i \in DOMAIN Tail(s)
        PROVE  Tail(s)[i] \in Range(s) \ {Head(s)}
    BY <1>1, <2>1 DEF Distinct, Range
  <2>2. ASSUME NEW i \in DOMAIN s, s[i] # Head(s)
        PROVE  s[i] \in Range(Tail(s))
    BY <1>1, <1>3, <2>2 DEF Range
  <2> QED
    BY <2>1, <2>2 DEF Range
<1>5. Head(s) \in Range(s)
  <2>1. 1 \in DOMAIN s
    BY <1>1
  <2> QED
    BY <1>1, <2>1 DEF Range
<1> QED
  BY <1>1, <1>2, <1>4, <1>5

\* One leaves from within.
LEMMA RemoveAtDistinct ==
  ASSUME NEW S, NEW s \in Seq(S), NEW p \in DOMAIN s, Distinct(s)
  PROVE  /\ RemoveAt(s, p) \in Seq(S)
         /\ Distinct(RemoveAt(s, p))
         /\ Range(RemoveAt(s, p)) \subseteq Range(s) \ {s[p]}
<1> DEFINE r == RemoveAt(s, p)
           from(i) == IF i < p THEN i ELSE i + 1
<1>1. /\ r \in Seq(S) /\ Len(r) = Len(s) - 1
      /\ \A i \in 1 .. p - 1 : r[i] = s[i]
      /\ \A i \in p .. Len(s) - 1 : r[i] = s[i + 1]
  BY RemoveAtProperties
<1> HIDE DEF r
<1>2. /\ DOMAIN s = 1 .. Len(s) /\ Len(s) \in Nat
      /\ DOMAIN r = 1 .. Len(s) - 1
  BY <1>1, LenProperties
<1>3. \A i \in DOMAIN r : from(i) \in DOMAIN s /\ from(i) # p /\ r[i] = s[from(i)]
  BY <1>1, <1>2, SMTT(30)
<1>4. \A i, j \in DOMAIN r : from(i) = from(j) => i = j
  BY <1>2
<1> HIDE DEF from
<1>5. Distinct(r)
  BY <1>3, <1>4 DEF Distinct
<1>6. Range(r) \subseteq Range(s) \ {s[p]}
  BY <1>3 DEF Distinct, Range
<1> QED
  BY <1>1, <1>5, <1>6 DEF r

\* The first n of a sequence.
LEMMA PrefixOfSeq ==
  ASSUME NEW S, NEW s \in Seq(S), NEW n \in 1 .. Len(s)
  PROVE  /\ SubSeq(s, 1, n) \in Seq(S) /\ Len(SubSeq(s, 1, n)) = n
         /\ \A i \in 1 .. n : SubSeq(s, 1, n)[i] = s[i]
         /\ IsPrefix(SubSeq(s, 1, n), s)
<1> Len(s) \in Nat /\ n \in Nat \ {0}
  BY LenProperties
<1>1. \A i \in 1 .. n : s[i] \in S
  BY ElementOfSeq
<1>2. /\ SubSeq(s, 1, n) \in Seq(S) /\ Len(SubSeq(s, 1, n)) = n
      /\ \A i \in 1 .. n : SubSeq(s, 1, n)[i] = s[i]
  BY <1>1, SubSeqProperties, Z3
<1>3. SubSeq(SubSeq(s, 1, n), 1, n) = SubSeq(s, 1, n)
  BY <1>2
<1>4. n <= Len(s)
  OBVIOUS
<1>5. IsPrefix(SubSeq(s, 1, n), s)
  BY <1>2, <1>3, <1>4 DEF IsPrefix
<1> QED
  BY <1>2, <1>5

LEMMA EmptyPrefix ==
  ASSUME NEW S, NEW s \in Seq(S)
  PROVE  IsPrefix(<<>>, s)
<1>1. Len(<<>>) = 0 /\ Len(s) \in Nat
  BY LenProperties
<1>2. SubSeq(<<>>, 1, 0) = <<>> /\ SubSeq(s, 1, 0) = <<>>
  BY SubSeqEmpty
<1> QED
  BY <1>1, <1>2 DEF IsPrefix

-----------------------------------------------------------------------------
(* The least of some numbers, the first of some elements                   *)

\* The numbers are well-founded: what does not hold of all of them does not hold
\* of a first one.
LEMMA LeastNumber ==
  ASSUME NEW S, S \subseteq Nat, S # {}
  PROVE  \E x \in S : \A y \in S : x <= y
<1>1. IsWellFoundedOn(OpToRel(<, Nat), Nat)
  BY NatLessThanWellFounded
<1>2. PICK x \in S : \A y \in S : ~ (<<y, x>> \in OpToRel(<, Nat))
  BY <1>1, WFMin
<1>3. \A y \in S : <<y, x>> \in OpToRel(<, Nat) <=> y < x
  BY <1>2 DEF OpToRel
<1>4. \A y \in S : ~(y < x)
  BY <1>2, <1>3, Zenon
<1>5. x \in Nat /\ \A y \in S : y \in Nat
  OBVIOUS
<1> QED
  BY <1>4, <1>5

\* Induction for a set instead of a predicate: a set that has 0 and every
\* successor has all of 0 .. n.
LEMMA UpToN ==
  ASSUME NEW n \in Nat, NEW S, 0 \in S,
         \A i \in 1 .. n : i - 1 \in S => i \in S
  PROVE  \A i \in 0 .. n : i \in S
<1> SUFFICES ASSUME NEW i \in 0 .. n, i \notin S PROVE FALSE
  OBVIOUS
<1> DEFINE missing == {j \in 0 .. n : j \notin S}
<1>1. missing \subseteq Nat /\ missing # {}
  OBVIOUS
<1>2. PICK x \in missing : \A y \in missing : x <= y
  BY <1>1, LeastNumber
<1>3. x \in 1 .. n /\ x \notin S
  BY <1>2
<1>4. x - 1 \in S
  BY <1>2, <1>3
<1> QED
  BY <1>3, <1>4

LEMMA MinIsLeast ==
  ASSUME NEW S, S \subseteq Nat, S # {}
  PROVE  Min(S) \in S /\ \A y \in S : Min(S) <= y
<1>1. \E x \in S : \A y \in S : x =< y
  BY LeastNumber
<1>2. Min(S) = CHOOSE x \in S : \A y \in S : x =< y
  BY DEF Min
<1> QED
  BY <1>1, <1>2

LEMMA MaxIsGreatest ==
  ASSUME NEW n \in Nat, NEW S \in SUBSET (1 .. n), S # {}
  PROVE  Max(S) \in S /\ \A y \in S : y <= Max(S)
<1> DEFINE below == {n - x : x \in S}
<1> \A x \in S : x \in 1 .. n
  OBVIOUS
<1>1. below \subseteq Nat /\ below # {}
  <2>1. \A x \in S : n - x \in Nat
    OBVIOUS
  <2> QED
    BY <2>1
<1>2. PICK b \in below : \A y \in below : b <= y
  BY <1>1, LeastNumber
<1>3. PICK x \in S : b = n - x
  BY <1>2
<1>4. \A y \in S : y <= x
  <2> TAKE y \in S
  <2>1. n - y \in below
    OBVIOUS
  <2>2. n - x <= n - y
    BY <1>2, <1>3, <2>1
  <2>3. x \in Nat /\ y \in Nat
    OBVIOUS
  <2> HIDE DEF below
  <2> QED
    BY <2>2, <2>3
<1>5. Max(S) = CHOOSE m \in S : \A y \in S : m >= y
  BY DEF Max
<1>6. \A y \in S : x >= y
  BY <1>4
<1>7. Max(S) \in S /\ \A y \in S : Max(S) >= y
  BY <1>3, <1>5, <1>6
<1> QED
  BY <1>7

-----------------------------------------------------------------------------
(* Folds                                                                   *)

\* h makes another result of a result and the next position.
IsStep(h, T, n) == h \in [T \X (1 .. n) -> T]

\* g is the result for every set of positions.
IsFold(g, T, n, base, h) ==
  /\ g \in [SUBSET (1 .. n) -> T]
  /\ \A s \in SUBSET (1 .. n) :
       g[s] = IF s = {} THEN base ELSE h[<<g[s \ {Max(s)}], Max(s)>>]

\* A fold over the positions of a sequence, the last position first, is defined by
\* a function on sets of positions.  For the prover that is the function CHOOSE
\* picks of those that satisfy the equation: there is one.
LEMMA FoldExists ==
  ASSUME NEW T, NEW n \in Nat, NEW base \in T, NEW h, IsStep(h, T, n)
  PROVE  \E g : IsFold(g, T, n, base, h)
<1> h \in [T \X (1 .. n) -> T]
  BY DEF IsStep
<1> DEFINE Folds(i, g) ==
             \A s \in SUBSET (1 .. i) :
               g[s] = IF s = {} THEN base ELSE h[<<g[s \ {Max(s)}], Max(s)>>]
           done == {i \in 0 .. n : \E g \in [SUBSET (1 .. i) -> T] : Folds(i, g)}
<1>1. ASSUME NEW i, i = 0 PROVE i \in done
  <2> DEFINE g == [s \in SUBSET (1 .. i) |-> base]
  <2>1. SUBSET (1 .. i) = {{}}
    BY <1>1
  <2>2. g \in [SUBSET (1 .. i) -> T] /\ Folds(i, g)
    BY <2>1
  <2> HIDE DEF g, Folds
  <2>3. \E f \in [SUBSET (1 .. i) -> T] : Folds(i, f)
    BY <2>2
  <2>4. i \in 0 .. n
    BY <1>1
  <2> QED
    BY <2>3, <2>4 DEF done
<1>2. ASSUME NEW i \in 1 .. n, i - 1 \in done PROVE i \in done
  <2> PICK g \in [SUBSET (1 .. i - 1) -> T] : Folds(i - 1, g)
    BY <1>2
  <2> DEFINE longer == [s \in SUBSET (1 .. i) |->
                          IF i \in s THEN h[<<g[s \ {i}], i>>] ELSE g[s]]
  <2>1. \A s \in SUBSET (1 .. i) :
          /\ s \ {i} \in SUBSET (1 .. i - 1)
          /\ i \notin s => s \in SUBSET (1 .. i - 1)
          /\ i \notin s \ {i} /\ s \ {i} \in SUBSET (1 .. i)
    OBVIOUS
  <2>2. longer \in [SUBSET (1 .. i) -> T]
    <3>1. \A s \in SUBSET (1 .. i) : h[<<g[s \ {i}], i>>] \in T
      BY <2>1
    <3> QED
      BY <2>1, <3>1
  <2>3. ASSUME NEW s \in SUBSET (1 .. i)
        PROVE  longer[s] = IF s = {} THEN base ELSE h[<<longer[s \ {Max(s)}], Max(s)>>]
    <3>1. CASE i \in s
      <4>1. Max(s) = i
        <5>1. i \in Nat /\ s # {} /\ \A x \in s : x <= i
          BY <3>1
        <5>2. Max(s) \in s /\ \A x \in s : x <= Max(s)
          BY <5>1, MaxIsGreatest
        <5> PICK m : m = Max(s)
          OBVIOUS
        <5>3. m \in 1 .. i /\ m <= i /\ i <= m
          BY <3>1, <5>1, <5>2
        <5> QED
          BY <5>1, <5>3
      <4>2. longer[s \ {i}] = g[s \ {i}]
        BY <2>1
      <4> QED
        BY <3>1, <4>1, <4>2
    <3>2. CASE i \notin s
      <4>1. s \in SUBSET (1 .. i - 1) /\ longer[s] = g[s]
        BY <2>1, <3>2
      <4>2. g[s] = IF s = {} THEN base ELSE h[<<g[s \ {Max(s)}], Max(s)>>]
        BY <4>1
      <4>3. longer[s \ {Max(s)}] = g[s \ {Max(s)}]
        BY <3>2
      <4> QED
        BY <4>1, <4>2, <4>3
    <3> QED
      BY <3>1, <3>2
  <2> HIDE DEF longer
  <2>4. Folds(i, longer)
    BY <2>3
  <2> HIDE DEF Folds
  <2>5. \E f \in [SUBSET (1 .. i) -> T] : Folds(i, f)
    BY <2>2, <2>4
  <2> QED
    BY <2>5 DEF done
<1> HIDE DEF done
<1>3. n \in done
  BY <1>1, <1>2, UpToN
<1>4. PICK g \in [SUBSET (1 .. n) -> T] : Folds(n, g)
  BY <1>3 DEF done
<1>5. IsFold(g, T, n, base, h)
  BY <1>4 DEF IsFold
<1> QED
  BY <1>5

\* The positions a fold has seen, one at a time.
LEMMA Positions ==
  ASSUME NEW n \in Nat, NEW i \in 1 .. n
  PROVE  /\ 1 .. i \in SUBSET (1 .. n) /\ 1 .. i # {}
         /\ Max(1 .. i) = i /\ (1 .. i) \ {i} = 1 .. i - 1
<1>1. i \in Nat /\ i \in 1 .. i /\ 1 .. i \in SUBSET (1 .. i)
  OBVIOUS
<1>2. Max(1 .. i) \in 1 .. i /\ \A y \in 1 .. i : y <= Max(1 .. i)
  BY <1>1, MaxIsGreatest
<1>3. Max(1 .. i) = i
  BY <1>1, <1>2
<1> QED
  BY <1>1, <1>3

\* A fold whose every step keeps to T ends in T.
LEMMA FoldEnds ==
  ASSUME NEW T, NEW n \in Nat, NEW g, g[{}] \in T,
         \A i \in 1 .. n : g[1 .. i - 1] \in T => g[1 .. i] \in T
  PROVE  g[1 .. n] \in T
<1> DEFINE done == {i \in 0 .. n : g[1 .. i] \in T}
<1>1. 0 \in done
  <2>1. 1 .. 0 = {}
    OBVIOUS
  <2> QED
    BY <2>1
<1>2. \A i \in 1 .. n : i - 1 \in done => i \in done
  OBVIOUS
<1> HIDE DEF done
<1>3. n \in done
  BY <1>1, <1>2, UpToN, SMTT(30)
<1> QED
  BY <1>3 DEF done
================================================================================
