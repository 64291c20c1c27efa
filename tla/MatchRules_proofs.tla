--------------------------- MODULE MatchRules_proofs ---------------------------
(***************************************************************************)
(* Theorems about the rules and names of a user: NameGrammar decides about  *)
(* every string as the protocol does; a rule of MatchRules is one that the  *)
(* daemon takes; Matches() finds each plain argument in the body by its     *)
(* index; and its answer is that of the daemon, which sends signals by the  *)
(* text of the rule.  The answer depends on all that comes before, so the   *)
(* proofs go from characters to bytes, to the text, to the walk along the   *)
(* signature and to the comparisons.                                        *)
(***************************************************************************)
EXTENDS MatchRules, SequenceLemmas, SequenceTheorems, FiniteSetTheorems, TLAPS

-----------------------------------------------------------------------------
(* The loop over a path                                                    *)

\* What the loop keeps.
Scans == [valid : BOOLEAN, elementStart : Int]

FirstScan == [valid |-> TRUE, elementStart |-> 2]

\* What the loop has to say of position k: no separator behind a separator, at
\* the end either, and else a character of an element.
Good(path, k) ==
  IF k > Len(path) \/ path[k] = Slash THEN path[k - 1] # Slash
                                      ELSE IsPathCharacter(path[k])

\* After i turns the element begins behind the last separator, and all of the
\* positions are good.
Scanned(path, i, scan) ==
  /\ scan \in Scans
  /\ scan.elementStart \in 2 .. i + 2
  /\ i < Len(path) =>
       /\ path[scan.elementStart - 1] = Slash
       /\ \A k \in scan.elementStart .. i + 1 : path[k] # Slash
  /\ scan.valid <=> \A k \in 2 .. i + 1 : Good(path, k)

\* In front of the first turn.
LEMMA ScanStarts ==
  ASSUME NEW S, NEW path \in Seq(S), path # <<>>, path[1] = Slash
  PROVE  Scanned(path, 0, FirstScan)
<1>1. Len(path) \in Nat
  BY LenProperties
<1>2. 2 .. 0 + 1 = {} /\ 2 - 1 = 1 /\ 2 \in 2 .. 0 + 2
  OBVIOUS
<1> QED
  BY <1>1, <1>2 DEF Scanned, FirstScan, Scans

\* One turn looks at one more position.
LEMMA ScanGoesOn ==
  ASSUME NEW S, NEW path \in Seq(S), NEW i \in 1 .. Len(path), NEW scan,
         Scanned(path, i - 1, scan)
  PROVE  Scanned(path, i, ScanPath(scan, path, i + 1))
<1> PICK n, next : n = Len(path) /\ next = ScanPath(scan, path, i + 1)
  OBVIOUS
<1>1. /\ n \in Nat /\ i \in Nat \ {0} /\ i <= n
      /\ i - 1 < Len(path) /\ (i - 1) + 1 = i /\ (i - 1) + 2 = i + 1
  BY LenProperties
<1>2. /\ scan \in Scans /\ scan.valid \in BOOLEAN
      /\ scan.elementStart \in 2 .. i + 1
      /\ path[scan.elementStart - 1] = Slash
      /\ \A k \in scan.elementStart .. i : path[k] # Slash
      /\ scan.valid <=> \A k \in 2 .. i : Good(path, k)
  BY <1>1 DEF Scanned, Scans
<1>3. \A k : k \in 2 .. i + 1 <=> k \in 2 .. i \/ k = i + 1
  BY <1>1
<1>4. (\A k \in 2 .. i + 1 : Good(path, k)) <=> scan.valid /\ Good(path, i + 1)
  BY <1>2, <1>3
\* The element is empty when it would begin here, behind a separator.
<1>5. i + 1 # scan.elementStart <=> path[i] # Slash
  <2>1. CASE scan.elementStart = i + 1
    BY <1>1, <1>2, <2>1
  <2>2. CASE scan.elementStart # i + 1
    <3>1. i \in scan.elementStart .. i
      BY <1>1, <1>2, <2>2
    <3> QED
      BY <1>2, <2>2, <3>1
  <2> QED
    BY <2>1, <2>2
<1>6. CASE i + 1 > n \/ path[i + 1] = Slash
  <2>1. next = [valid |-> scan.valid /\ i + 1 # scan.elementStart, elementStart |-> i + 1 + 1]
    BY <1>6 DEF ScanPath
  <2>2. /\ next \in Scans /\ next.elementStart = i + 2
        /\ next.valid <=> scan.valid /\ i + 1 # scan.elementStart
    <3> PICK good \in BOOLEAN : good <=> scan.valid /\ i + 1 # scan.elementStart
      OBVIOUS
    <3>1. next = [valid |-> good, elementStart |-> i + 1 + 1]
      BY <1>2, <2>1
    <3> QED
      BY <1>1, <3>1 DEF Scans
  <2>3. Good(path, i + 1) <=> path[i] # Slash
    BY <1>1, <1>6 DEF Good
  <2>4. next.valid <=> \A k \in 2 .. i + 1 : Good(path, k)
    BY <1>4, <1>5, <2>2, <2>3
  <2>5. i < n => path[next.elementStart - 1] = Slash
    BY <1>1, <1>6, <2>2
  <2>6. next.elementStart \in 2 .. i + 2 /\ next.elementStart .. i + 1 = {}
    BY <1>1, <2>2
  <2> QED
    BY <2>2, <2>4, <2>5, <2>6 DEF Scanned
<1>7. CASE ~(i + 1 > n) /\ path[i + 1] # Slash
  <2>1. next = [scan EXCEPT !.valid = scan.valid /\ IsPathCharacter(path[i + 1])]
    BY <1>7 DEF ScanPath
  <2>2. IsPathCharacter(path[i + 1]) \in BOOLEAN
    BY DEF IsPathCharacter
  <2>3. /\ next \in Scans /\ next.elementStart = scan.elementStart
        /\ next.valid <=> scan.valid /\ IsPathCharacter(path[i + 1])
    BY <1>2, <2>1, <2>2 DEF Scans
  <2>4. next.valid <=> \A k \in 2 .. i + 1 : Good(path, k)
    BY <1>4, <1>7, <2>3 DEF Good
  <2>5. \A k \in scan.elementStart .. i + 1 : path[k] # Slash
    <3>1. \A k \in scan.elementStart .. i + 1 : k \in scan.elementStart .. i \/ k = i + 1
      BY <1>1, <1>2
    <3> QED
      BY <1>2, <1>7, <3>1
  <2>6. next.elementStart \in 2 .. i + 2
    BY <1>1, <1>2, <2>3
  <2> QED
    BY <1>2, <2>3, <2>4, <2>5, <2>6 DEF Scanned
<1> QED
  BY <1>6, <1>7

\* The loop as a whole: the fold over the positions.
LEMMA ScanEnds ==
  ASSUME NEW S, NEW path \in Seq(S), path # <<>>, path[1] = Slash
  PROVE  FoldLeft(LAMBDA scan, i : ScanPath(scan, path, i + 1),
                  [valid |-> TRUE, elementStart |-> 2],
                  [i \in 1 .. Len(path) |-> i]).valid
           <=> \A k \in 2 .. Len(path) + 1 : Good(path, k)
<1> DEFINE result == FoldLeft(LAMBDA scan, i : ScanPath(scan, path, i + 1),
                              [valid |-> TRUE, elementStart |-> 2],
                              [i \in 1 .. Len(path) |-> i])
           positions == [i \in 1 .. Len(path) |-> i]
           step(scan, i) == ScanPath(scan, path, i + 1)
           fold(f) == [s \in SUBSET DOMAIN positions |->
                         IF s = {} THEN FirstScan
                         ELSE step(f[s \ {Max(s)}], positions[Max(s)])]
           n == Len(path)
<1>1. result = (CHOOSE f : f = fold(f))[DOMAIN positions]
  BY DEF FoldLeft, MapThenFoldSet, FirstScan
<1>2. n \in Nat /\ DOMAIN positions = 1 .. n /\ \A i \in 1 .. n : positions[i] = i
  BY LenProperties
<1>3. FirstScan \in Scans /\ \A scan \in Scans : \A i \in 1 .. n : step(scan, i) \in Scans
  <2>1. FirstScan \in Scans
    BY DEF FirstScan, Scans
  <2>2. ASSUME NEW scan \in Scans, NEW i \in 1 .. n
        PROVE  step(scan, i) \in Scans
    <3>1. scan.valid \in BOOLEAN /\ i + 1 + 1 \in Int
      BY <1>2 DEF Scans
    <3>2. /\ (scan.valid /\ i + 1 # scan.elementStart) \in BOOLEAN
          /\ (scan.valid /\ IsPathCharacter(path[i + 1])) \in BOOLEAN
      BY DEF IsPathCharacter
    <3>3. [valid |-> scan.valid /\ i + 1 # scan.elementStart, elementStart |-> i + 1 + 1]
            \in Scans
      BY <3>1, <3>2 DEF Scans
    <3>4. [scan EXCEPT !.valid = scan.valid /\ IsPathCharacter(path[i + 1])] \in Scans
      BY <3>1, <3>2 DEF Scans
    <3> QED
      BY <3>3, <3>4 DEF ScanPath
  <2> QED
    BY <2>1, <2>2
<1> HIDE DEF result, positions, n, step
<1>4. \E f : f = fold(f)
  <2> DEFINE h == [x \in Scans \X (1 .. n) |-> step(x[1], x[2])]
  <2>1. IsStep(h, Scans, n)
    BY <1>3 DEF IsStep
  <2>2. PICK f : IsFold(f, Scans, n, FirstScan, h)
    BY <1>2, <1>3, <2>1, FoldExists
  <2>3. ASSUME NEW s \in SUBSET (1 .. n), s # {}
        PROVE  f[s] = step(f[s \ {Max(s)}], positions[Max(s)])
    <3>1. Max(s) \in 1 .. n /\ positions[Max(s)] = Max(s)
      BY <1>2, <2>3, MaxIsGreatest
    <3>2. f[s \ {Max(s)}] \in Scans
      BY <2>2 DEF IsFold
    <3>3. h[<<f[s \ {Max(s)}], Max(s)>>] = step(f[s \ {Max(s)}], Max(s))
      BY <3>1, <3>2
    <3>4. f[s] = h[<<f[s \ {Max(s)}], Max(s)>>]
      BY <2>2, <2>3 DEF IsFold
    <3> QED
      BY <3>1, <3>3, <3>4
  <2>4. f = fold(f)
    BY <1>2, <2>2, <2>3 DEF IsFold
  <2> QED
    BY <2>4
<1> PICK f : f = CHOOSE g : g = fold(g)
  OBVIOUS
<1>5. f = fold(f)
  BY <1>4
<1> DEFINE done == {i \in 0 .. n : Scanned(path, i, f[1 .. i])}
<1>6. 0 \in done
  <2>1. 1 .. 0 = {} /\ f[{}] = FirstScan
    <3>1. 1 .. 0 = {} /\ {} \in SUBSET DOMAIN positions
      OBVIOUS
    <3> QED
      BY <1>5, <3>1
  <2>2. Scanned(path, 0, FirstScan)
    BY ScanStarts
  <2> QED
    BY <1>2, <2>1, <2>2
<1>7. ASSUME NEW i \in 1 .. n, i - 1 \in done
      PROVE  i \in done
  <2>1. 1 .. i \in SUBSET DOMAIN positions /\ 1 .. i # {}
    <3>1. i \in 1 .. i /\ \A j \in 1 .. i : j \in 1 .. n
      BY <1>2
    <3> QED
      BY <1>2, <3>1
  <2>2. Max(1 .. i) = i
    <3>1. i \in Nat /\ 1 .. i \in SUBSET (1 .. i)
      BY <1>2
    <3>2. Max(1 .. i) \in 1 .. i /\ \A y \in 1 .. i : y <= Max(1 .. i)
      BY <2>1, <3>1, MaxIsGreatest
    <3> QED
      BY <3>1, <3>2
  <2>3. (1 .. i) \ {i} = 1 .. i - 1
    BY <1>2
  <2>4. f[1 .. i] = ScanPath(f[1 .. i - 1], path, i + 1)
    BY <1>2, <1>5, <2>1, <2>2, <2>3, ZenonT(40) DEF step
  <2>5. Scanned(path, i - 1, f[1 .. i - 1])
    BY <1>7
  <2>6. i \in 1 .. Len(path) /\ i \in 0 .. n
    BY <1>2 DEF n
  <2>7. Scanned(path, i, f[1 .. i])
    BY <2>4, <2>5, <2>6, ScanGoesOn
  <2> QED
    BY <2>6, <2>7
<1> HIDE DEF done, fold
<1>8. n \in done
  BY <1>2, <1>6, <1>7, UpToN, SMTT(30)
<1>9. Scanned(path, n, f[1 .. n])
  BY <1>8 DEF done
<1> QED
  BY <1>1, <1>2, <1>9 DEF Scanned, result, n

-----------------------------------------------------------------------------
(* The grammar                                                             *)

\* A path that is not the root is good everywhere if its elements are.
LEMMA GoodElements ==
  ASSUME NEW S, NEW path \in Seq(S), path[1] = Slash, Len(path) > 1
  PROVE  (\A k \in 2 .. Len(path) + 1 : Good(path, k))
           <=> HasElements(Tail(path), Slash, 1) /\ Consists(path, {Slash})
<1>0. PICK n, rest : n = Len(path) /\ rest = Tail(path)
  OBVIOUS
<1>1. /\ n \in Nat /\ n > 1 /\ DOMAIN path = 1 .. n
      /\ DOMAIN rest = 1 .. n - 1 /\ Len(rest) = n - 1 /\ rest # <<>>
      /\ \A i \in 1 .. n - 1 : rest[i] = path[i + 1]
  <2>1. n \in Nat /\ n > 1 /\ DOMAIN path = 1 .. n /\ path # <<>>
    BY <1>0, LenProperties
  <2>2. /\ rest \in Seq(S) /\ Len(rest) = n - 1
        /\ \A i \in 1 .. Len(rest) : rest[i] = path[i + 1]
    BY <1>0, <2>1, HeadTailProperties, Zenon
  <2>3. DOMAIN rest = 1 .. Len(rest)
    BY <2>2, LenProperties
  <2>4. rest # <<>>
    <3>1. Len(rest) # 0
      BY <2>1, <2>2
    <3> QED
      BY <3>1
  <2> QED
    BY <2>1, <2>2, <2>3, <2>4, Zenon
<1>2. Cardinality({i \in DOMAIN rest : rest[i] = Slash}) >= 1 - 1
  <2>1. IsFiniteSet(1 .. n - 1)
    BY <1>1, FS_Interval
  <2>2. IsFiniteSet({i \in DOMAIN rest : rest[i] = Slash})
    BY <1>1, <2>1, FS_Subset
  <2>3. Cardinality({i \in DOMAIN rest : rest[i] = Slash}) \in Nat
    BY <2>2, FS_CardinalityType
  <2> QED
    BY <2>3
<1>3. HasElements(rest, Slash, 1) <=>
        \A i \in 1 .. n - 1 : rest[i] = Slash => i # 1 /\ i # n - 1 /\ rest[i - 1] # Slash
  BY <1>1, <1>2 DEF HasElements
<1>4. ASSUME \A k \in 2 .. n + 1 : Good(path, k)
      PROVE  HasElements(rest, Slash, 1) /\ Consists(path, {Slash})
  <2>1. ASSUME NEW i \in 1 .. n - 1, rest[i] = Slash
        PROVE  i # 1 /\ i # n - 1 /\ rest[i - 1] # Slash
    <3>1. /\ i + 1 \in 2 .. n + 1 /\ i + 2 \in 2 .. n + 1 /\ path[i + 1] = Slash
          /\ (i + 1) - 1 = i /\ (i + 2) - 1 = i + 1
      BY <1>1, <2>1
    <3>2. path[i] # Slash
      BY <1>0, <1>4, <3>1 DEF Good
    <3>3. i # 1
      BY <3>2
    <3>4. rest[i - 1] = path[i]
      <4>1. i - 1 \in 1 .. n - 1 /\ (i - 1) + 1 = i
        BY <1>1, <3>3
      <4> QED
        BY <1>1, <4>1
    <3>5. i # n - 1
      <4>1. ASSUME i + 1 = n PROVE FALSE
        <5>1. n + 1 > n /\ Good(path, n + 1) /\ (n + 1) - 1 = n
          BY <1>1, <1>4
        <5>2. path[n] # Slash
          BY <1>0, <5>1 DEF Good
        <5> QED
          BY <3>1, <4>1, <5>2
      <4> QED
        BY <1>1, <4>1
    <3> QED
      BY <3>2, <3>3, <3>4, <3>5
  <2>2. ASSUME NEW i \in 1 .. n
        PROVE  IsPathCharacter(path[i]) \/ path[i] \in {Slash}
    <3>1. CASE i = 1
      BY <3>1
    <3>2. CASE i # 1
      <4>1. i \in 2 .. n + 1 /\ ~(i > n)
        BY <1>1, <3>2
      <4> QED
        BY <1>0, <1>4, <4>1 DEF Good
    <3> QED
      BY <3>1, <3>2
  <2> QED
    BY <1>1, <1>3, <2>1, <2>2 DEF Consists
<1>5. ASSUME HasElements(rest, Slash, 1), Consists(path, {Slash}), NEW k \in 2 .. n + 1
      PROVE  Good(path, k)
  <2>1. \A i \in 1 .. n - 1 : rest[i] = Slash => i # 1 /\ i # n - 1 /\ rest[i - 1] # Slash
    BY <1>3, <1>5
  <2>2. CASE k = n + 1
    <3>1. n - 1 \in 1 .. n - 1 /\ (n - 1) + 1 = n
      BY <1>1
    <3>2. path[n] # Slash
      BY <1>1, <2>1, <3>1
    <3>3. k > n /\ k - 1 = n
      BY <1>1, <2>2
    <3> QED
      BY <1>0, <3>2, <3>3 DEF Good
  <2>3. CASE k # n + 1 /\ path[k] = Slash
    <3>1. k - 1 \in 1 .. n - 1 /\ (k - 1) + 1 = k
      BY <1>1, <2>3
    <3>2. k - 1 # 1 /\ rest[k - 1 - 1] # Slash
      BY <1>1, <2>1, <2>3, <3>1
    <3>3. k - 1 - 1 \in 1 .. n - 1 /\ (k - 1 - 1) + 1 = k - 1
      BY <1>1, <3>1, <3>2
    <3>4. path[k - 1] # Slash
      BY <1>1, <3>2, <3>3
    <3> QED
      BY <1>0, <2>3, <3>4 DEF Good
  <2>4. CASE k # n + 1 /\ path[k] # Slash
    <3>1. k \in 1 .. n /\ ~(k > n)
      BY <1>1, <2>4
    <3>2. IsPathCharacter(path[k])
      BY <1>1, <1>5, <2>4, <3>1 DEF Consists
    <3> QED
      BY <1>0, <2>4, <3>1, <3>2 DEF Good
  <2> QED
    BY <2>2, <2>3, <2>4
<1> QED
  BY <1>0, <1>4, <1>5

\* ValidateDBusObjectPath() decides as the protocol does, for every string.
THEOREM EveryPathIsDecided ==
  ASSUME NEW S, NEW str \in Seq(S)
  PROVE  PathsAreExact(str)
<1> Len(str) \in Nat /\ DOMAIN str = 1 .. Len(str)
  BY LenProperties
<1>1. CASE str = <<>> \/ str[1] # Slash
  BY <1>1 DEF PathsAreExact, ObjectPath, ValidateDBusObjectPath, ProtocolPath
<1>2. CASE str # <<>> /\ str[1] = Slash /\ Len(str) = 1
  <2>1. str = <<Slash>>
    BY <1>2
  <2>2. Consists(str, {Slash})
    BY <1>2 DEF Consists
  <2> QED
    BY <1>2, <2>1, <2>2
       DEF PathsAreExact, ObjectPath, ValidateDBusObjectPath, ProtocolPath
<1>3. CASE str # <<>> /\ str[1] = Slash /\ Len(str) # 1
  <2>1. Len(str) > 1
    BY <1>3, EmptySeq
  <2>2. str # <<Slash>>
    BY <2>1, SMTT(30)
  <2>3. ObjectPath(str) <=> \A k \in 2 .. Len(str) + 1 : Good(str, k)
    BY <1>3, ScanEnds DEF ObjectPath, ValidateDBusObjectPath
  <2>4. (\A k \in 2 .. Len(str) + 1 : Good(str, k))
          <=> HasElements(Tail(str), Slash, 1) /\ Consists(str, {Slash})
    BY <1>3, <2>1, GoodElements
  <2> QED
    BY <1>3, <2>2, <2>3, <2>4 DEF PathsAreExact, ProtocolPath
<1> QED
  BY <1>1, <1>2, <1>3

-----------------------------------------------------------------------------
(* Names                                                                   *)

\* Two elements have a separator between them, which is not the first character.
LEMMA TwoElements ==
  ASSUME NEW S, NEW name \in Seq(S), HasElements(name, Dot, 2)
  PROVE  name # <<>> /\ name[1] # Dot /\ Contains(name, Dot)
<1> Len(name) \in Nat /\ DOMAIN name = 1 .. Len(name)
  BY LenProperties
<1>1. /\ name # <<>>
      /\ \A i \in DOMAIN name : name[i] = Dot => i # 1
      /\ Cardinality({i \in DOMAIN name : name[i] = Dot}) >= 2 - 1
  BY DEF HasElements
<1>2. 1 \in DOMAIN name
  BY <1>1, EmptySeq
<1>3. {i \in DOMAIN name : name[i] = Dot} # {}
  <2>1. Cardinality({}) = 0
    BY FS_EmptySet
  <2> QED
    BY <1>1, <2>1, SMTT(30)
<1> QED
  BY <1>1, <1>2, <1>3 DEF Contains

\* A name with a separator behind its first character still has one in front of which
\* there is something.
LEMMA TailHasDot ==
  ASSUME NEW S, NEW name \in Seq(S), name # <<>>, Contains(Tail(name), Dot)
  PROVE  Contains(name, Dot)
<1>1. /\ Tail(name) \in Seq(S) /\ Len(Tail(name)) = Len(name) - 1
      /\ \A i \in 1 .. Len(Tail(name)) : Tail(name)[i] = name[i + 1]
  BY HeadTailProperties, Zenon
<1>2. PICK i \in 1 .. Len(Tail(name)) : Tail(name)[i] = Dot
  BY DEF Contains
<1>3. Len(name) \in Nat /\ Len(name) # 0
  BY LenProperties, EmptySeq
<1>4. i + 1 \in 1 .. Len(name) /\ name[i + 1] = Dot
  BY <1>1, <1>2, <1>3
<1> QED
  BY <1>4 DEF Contains

\* No class of names refuses what the protocol allows, up to the length
\* MAX_DBUS_NAME_LENGTH, which the code excludes.
THEOREM NoNameIsRefused ==
  ASSUME NEW S, NEW str \in Seq(S)
  PROVE  NamesAreAccepted(str)
<1> SUFFICES ASSUME Len(str) < MaxNameLength
             PROVE  /\ ProtocolInterface(str) =>
                         DBusInterfaceName(str) /\ DBusErrorName(str)
                    /\ ProtocolWellKnownName(str) => DBusWellKnownName(str)
                    /\ ProtocolUniqueName(str) => DBusUniqueConnectionName(str)
  BY DEF NamesAreAccepted
<1>1. ASSUME ProtocolInterface(str) PROVE DBusInterfaceName(str) /\ DBusErrorName(str)
  BY <1>1, TwoElements
     DEF ProtocolInterface, DBusInterfaceName, DBusErrorName, ValidateDBusInterfaceName
<1>2. ASSUME ProtocolWellKnownName(str) PROVE DBusWellKnownName(str)
  <2>1. str # <<>> /\ str[1] # Dot /\ Contains(str, Dot)
    BY <1>2, TwoElements DEF ProtocolWellKnownName, ProtocolNamespace
  <2>2. str[1] # Colon
    <3>1. 1 \in DOMAIN str
      BY <2>1, EmptySeq, LenProperties
    <3>2. IsPathCharacter(str[1]) \/ str[1] \in {Dot, Hyphen}
      BY <1>2, <3>1 DEF ProtocolWellKnownName, ProtocolNamespace, Consists
    <3>3. ~IsPathCharacter(Colon) /\ Colon \notin {Dot, Hyphen}
      BY DEF IsPathCharacter, Dot, Hyphen, Colon
    <3> QED
      BY <3>2, <3>3, Zenon
  <2> QED
    BY <2>1, <2>2 DEF DBusWellKnownName, ValidateDBusName
<1>3. ASSUME ProtocolUniqueName(str) PROVE DBusUniqueConnectionName(str)
  <2>1. str # <<>> /\ str[1] = Colon /\ HasElements(Tail(str), Dot, 2)
    BY <1>3 DEF ProtocolUniqueName
  <2>2. Tail(str) \in Seq(S)
    BY <2>1, HeadTailProperties
  <2>3. Contains(str, Dot)
    BY <2>1, <2>2, TwoElements, TailHasDot
  <2>4. str[1] # Dot
    BY <2>1 DEF Dot, Colon
  <2> QED
    BY <2>1, <2>3, <2>4 DEF DBusUniqueConnectionName, ValidateDBusName
<1> QED
  BY <1>1, <1>2, <1>3

\* The strings TLC checks are among these, whatever the alphabet and their length.
THEOREM EveryStringIsValidated == \A str \in Strings : Validated(str)
<1> TAKE str \in Strings
<1>1. str \in Seq(Alphabet)
  <2>1. PICK n \in 0 .. MaxTyped : str \in [1 .. n -> Alphabet]
    BY DEF Strings
  <2>2. n \in Nat
    OBVIOUS
  <2> QED
    BY <2>1, <2>2, SeqDef
<1>2. PathsAreExact(str) /\ NamesAreAccepted(str)
  BY <1>1, EveryPathIsDecided, NoNameIsRefused
<1>3. KindsAreApart(str)
  BY DEF KindsAreApart, DBusWellKnownName, DBusUniqueConnectionName, ValidateDBusName
<1> QED
  BY <1>2, <1>3 DEF Validated

-----------------------------------------------------------------------------
(* Numbers and strings on the wire                                         *)

\* The limits are numbers.  Nothing else of them is needed, and the provers
\* would write a range between literals out.
LEMMA ByteLimit ==
  MaxOctet \in Nat /\ MaxOctet <= 255 /\ 255 <= MaxOctet
BY DEF MaxOctet

\* The number of bytes a message may have.
LEMMA MessageLimit ==
  MaxMessage \in Nat /\ MaxMessage <= 134217728
BY SMT DEF MaxMessage

\* What a byte can be,
LEMMA IsByte ==
  ASSUME NEW b \in Nat, b <= 255
  PROVE  b \in Octet
<1>1. \A max \in Nat : b <= max => b \in 0 .. max
  OBVIOUS
<1>2. b <= MaxOctet /\ MaxOctet \in Nat
  BY ByteLimit
<1> QED
  BY <1>1, <1>2, Zenon DEF Octet

\* zero,
LEMMA ZeroIsAByte == 0 \in Octet
BY IsByte

\* and no more than 255.
LEMMA BytesAreSmall ==
  ASSUME NEW b \in Octet
  PROVE  b \in Nat /\ b <= 255
<1>1. \A max \in Nat : b \in 0 .. max => b \in Nat /\ b <= max
  OBVIOUS
<1>2. b \in Nat /\ b <= MaxOctet
  BY <1>1, ByteLimit, Zenon DEF Octet
<1> QED
  BY <1>2, ByteLimit

\* A length is written and read in four bytes.
LEMMA NumberIsRead ==
  ASSUME NEW n \in Nat
  PROVE  /\ UInt32(n) \in Seq(Octet) /\ Len(UInt32(n)) = 4
         /\ n <= MaxMessage => Number(UInt32(n)) = n
<1> DEFINE a == n % 256
           b == (n \div 256) % 256
           c == (n \div 65536) % 256
           d == (n \div 16777216) % 256
<1>1. /\ a \in Nat /\ b \in Nat /\ c \in Nat /\ d \in Nat
      /\ a <= 255 /\ b <= 255 /\ c <= 255 /\ d <= 255
  BY SMT
<1>2. ASSUME n <= MaxMessage PROVE n = a + 256 * b + 65536 * c + 16777216 * d
  <2>0. n <= 134217728
    BY <1>2, MessageLimit, SMT
  <2>1. n = a + 256 * (n \div 256)
    BY SMT
  <2>2. n \div 256 = b + 256 * (n \div 65536)
    BY SMT
  <2>3. n \div 65536 = c + 256 * (n \div 16777216)
    BY SMT
  <2>4. n \div 16777216 = d
    BY <2>0, SMT
  <2> HIDE DEF a, b, c, d
  <2> QED
    BY <1>1, <2>1, <2>2, <2>3, <2>4, SMT
<1>3. UInt32(n) = <<a, b, c, d>>
  BY SMT DEF UInt32
<1> HIDE DEF a, b, c, d
<1> DEFINE bytes == <<a, b, c, d>>
           sum   == a + 256 * b + 65536 * c + 16777216 * d
<1>5. a \in Octet /\ b \in Octet /\ c \in Octet /\ d \in Octet
  BY <1>1, IsByte
<1>6. /\ bytes \in Seq(Octet) /\ Len(bytes) = 4
      /\ bytes[1] = a /\ bytes[2] = b /\ bytes[3] = c /\ bytes[4] = d
  BY <1>5
<1>7. UInt32(n) = bytes /\ (n <= MaxMessage => n = sum)
  BY <1>2, <1>3, SMT
<1> HIDE DEF bytes
<1>8. Number(bytes) = sum
  BY <1>6, SMT DEF Number
<1> HIDE DEF sum
<1> QED
  BY <1>6, <1>7, <1>8, SMT

\* What was put between two others is found there.
LEMMA MiddleOf ==
  ASSUME NEW S, NEW s \in Seq(S), NEW t \in Seq(S), NEW u \in Seq(S)
  PROVE  /\ (s \o t) \o u \in Seq(S)
         /\ Len((s \o t) \o u) = Len(s) + Len(t) + Len(u)
         /\ SubSeq((s \o t) \o u, Len(s) + 1, Len(s) + Len(t)) = t
<1> PICK l, m, n : l = Len(s) /\ m = Len(t) /\ n = Len(u)
  OBVIOUS
<1>1. l \in Nat /\ m \in Nat /\ n \in Nat
  BY LenProperties
<1>2. /\ s \o t \in Seq(S) /\ Len(s \o t) = l + m
      /\ \A i \in 1 .. l + m : (s \o t)[i] = IF i <= l THEN s[i] ELSE t[i - l]
  BY ConcatProperties, Zenon
<1> PICK w : w = (s \o t) \o u
  OBVIOUS
<1>3. /\ w \in Seq(S) /\ Len(w) = l + m + n
      /\ \A i \in 1 .. l + m + n : w[i] = IF i <= l + m THEN (s \o t)[i] ELSE u[i - (l + m)]
  BY <1>2, ConcatProperties
<1>4. \A i \in 1 .. m : w[l + i] = t[i]
  <2> TAKE i \in 1 .. m
  <2>1. /\ l + i \in 1 .. l + m + n /\ l + i \in 1 .. l + m /\ l + i <= l + m
        /\ ~(l + i <= l) /\ (l + i) - l = i
    BY <1>1
  <2> QED
    BY <1>2, <1>3, <2>1
<1>5. SubSeq(w, l + 1, l + m) = t
  <2>1. \A i \in l + 1 .. l + m : w[i] \in S
    <3>1. \A i \in l + 1 .. l + m : i \in 1 .. l + m + n
      BY <1>1
    <3> QED
      BY <1>3, <3>1, ElementOfSeq
  <2>2. /\ l + 1 \in Int /\ l + m \in Int /\ (l + m) - (l + 1) + 1 = m
        /\ \A i \in 1 .. m : (l + 1) + i - 1 = l + i
        /\ ~(l + 1 <= l + m) => m = 0
    BY <1>1
  <2> PICK v : v = SubSeq(w, l + 1, l + m)
    OBVIOUS
  <2>3. /\ v \in Seq(S)
        /\ Len(v) = IF l + 1 <= l + m THEN (l + m) - (l + 1) + 1 ELSE 0
        /\ \A i \in 1 .. (l + m) - (l + 1) + 1 : v[i] = w[(l + 1) + i - 1]
    BY <2>1, <2>2, SubSeqProperties, SMTT(30)
  <2>4. Len(v) = m /\ \A i \in 1 .. m : v[i] = t[i]
    BY <1>4, <2>2, <2>3
  <2> QED
    BY <2>3, <2>4, SeqEqual
<1> QED
  BY <1>3, <1>5

ByteSeq == Seq(Octet)

\* Bytes behind bytes are bytes,
LEMMA ConcatIsBytes ==
  ASSUME NEW s \in ByteSeq, NEW t \in ByteSeq
  PROVE  s \o t \in ByteSeq /\ Len(s \o t) = Len(s) + Len(t)
BY ConcatProperties DEF ByteSeq

\* those in the middle are taken out as they were put there,
LEMMA MiddleBytes ==
  ASSUME NEW s \in ByteSeq, NEW t \in ByteSeq, NEW u \in ByteSeq
  PROVE  /\ Len((s \o t) \o u) = Len(s) + Len(t) + Len(u)
         /\ SubSeq((s \o t) \o u, Len(s) + 1, Len(s) + Len(t)) = t
BY MiddleOf DEF ByteSeq

\* and it makes no difference which are put together first.
LEMMA Associates ==
  ASSUME NEW s \in ByteSeq, NEW t \in ByteSeq, NEW u \in ByteSeq
  PROVE  (s \o t) \o u = s \o (t \o u)
BY ConcatAssociative DEF ByteSeq

\* No byte is one that was never set.
LEMMA NothingIsMissing ==
  ASSUME NEW b \in ByteSeq
  PROVE  ~Contains(b, Unset)
<1>1. \A i \in 1 .. Len(b) : b[i] \in Octet
  BY DEF ByteSeq
<1>2. Unset \notin Octet
  BY BytesAreSmall DEF Unset
<1> QED
  BY <1>1, <1>2 DEF Contains

\* What a string begins with: its length, in one byte or four.
Prefix(T, n) == IF T.code = DBusTypeCodes.SIGNATURE THEN <<n % 256>> ELSE UInt32(n)
PrefixLength(T) == IF T.code = DBusTypeCodes.SIGNATURE THEN 1 ELSE 4
MaxLength(T) == IF T.code = DBusTypeCodes.SIGNATURE THEN MaxOctet ELSE MaxMessage

\* A limit is a number.
LEMMA MaxLengthIsNat == ASSUME NEW T PROVE MaxLength(T) \in Nat
BY ByteLimit, MessageLimit, SMT DEF MaxLength

\* The length is read as it was written, up to the limit.
LEMMA PrefixIsRead ==
  ASSUME NEW T, NEW n \in Nat
  PROVE  /\ Prefix(T, n) \in ByteSeq /\ Len(Prefix(T, n)) = PrefixLength(T)
         /\ n <= MaxLength(T) => Number(Prefix(T, n)) = n
<1>1. CASE T.code = DBusTypeCodes.SIGNATURE
  <2>1. n % 256 \in Octet
    <3>1. n % 256 \in Nat /\ n % 256 <= 255
      OBVIOUS
    <3> QED
      BY <3>1, IsByte
  <2>2. n <= MaxLength(T) => n % 256 = n
    <3>1. MaxLength(T) \in Nat /\ MaxLength(T) <= 255
      BY <1>1, ByteLimit DEF MaxLength
    <3> QED
      BY <3>1
  <2> PICK b : b = n % 256
    OBVIOUS
  <2>3. Prefix(T, n) = <<b>> /\ PrefixLength(T) = 1
    BY <1>1 DEF Prefix, PrefixLength
  <2>4. <<b>> \in Seq(Octet) /\ Len(<<b>>) = 1 /\ Number(<<b>>) = b
    BY <2>1 DEF Number
  <2> QED
    BY <2>2, <2>3, <2>4 DEF ByteSeq
<1>2. CASE T.code # DBusTypeCodes.SIGNATURE
  <2>1. Prefix(T, n) = UInt32(n) /\ PrefixLength(T) = 4 /\ MaxLength(T) = MaxMessage
    BY <1>2 DEF Prefix, PrefixLength, MaxLength
  <2> QED
    BY <2>1, NumberIsRead DEF ByteSeq
<1> QED
  BY <1>1, <1>2

\* A string is written behind the bytes that are there: its length, its characters
\* and a zero.
LEMMA StringIsWritten ==
  ASSUME NEW T, NEW str \in Seq(Octet \ {0}), NEW bytes \in ByteSeq
  PROVE  /\ MarshalBasicStringlikeType(T, str, bytes)
              = ((bytes \o Prefix(T, Len(str))) \o str) \o <<0>>
         /\ MarshalBasicStringlikeType(T, str, bytes) \in ByteSeq
         /\ Len(MarshalBasicStringlikeType(T, str, bytes))
              = Len(bytes) + PrefixLength(T) + Len(str) + 1
<1>1. ~Contains(str, 0)
  <2>1. \A i \in 1 .. Len(str) : str[i] \in Octet \ {0}
    OBVIOUS
  <2> QED
    BY <2>1 DEF Contains
<1> PICK n : n = Len(str)
  OBVIOUS
<1>2. n \in Nat
  BY LenProperties
<1>3. MarshalBasicStringlikeType(T, str, bytes) = ((bytes \o Prefix(T, n)) \o str) \o <<0>>
  BY <1>1, Zenon DEF MarshalBasicStringlikeType, Prefix
<1>4. str \in ByteSeq /\ <<0>> \in ByteSeq /\ Len(<<0>>) = 1
  BY ZeroIsAByte DEF ByteSeq
<1>5. Prefix(T, n) \in ByteSeq /\ Len(Prefix(T, n)) = PrefixLength(T)
  BY <1>2, PrefixIsRead
<1>6. bytes \o Prefix(T, n) \in ByteSeq /\ Len(bytes \o Prefix(T, n)) = Len(bytes) + PrefixLength(T)
  BY <1>5, ConcatProperties, ZenonT(40) DEF ByteSeq
<1>7. /\ (bytes \o Prefix(T, n)) \o str \in ByteSeq
      /\ Len((bytes \o Prefix(T, n)) \o str) = Len(bytes) + PrefixLength(T) + n
  BY <1>4, <1>6, ConcatProperties DEF ByteSeq
<1>8. /\ ((bytes \o Prefix(T, n)) \o str) \o <<0>> \in ByteSeq
      /\ Len(((bytes \o Prefix(T, n)) \o str) \o <<0>>) = Len(bytes) + PrefixLength(T) + n + 1
  BY <1>4, <1>7, ConcatProperties DEF ByteSeq
<1> QED
  BY <1>3, <1>8

\* A string comes back from wherever it was written.
THEOREM StringIsRead ==
  ASSUME NEW T, NEW str \in Seq(Octet \ {0}), Len(str) <= MaxLength(T), Accepts(T, str),
         NEW bytes \in ByteSeq, NEW rest \in ByteSeq
  PROVE  UnmarshalDBusBasicStringlikeType(T, MarshalBasicStringlikeType(T, str, bytes) \o rest,
                                          Len(bytes))
           = Read(str, Len(MarshalBasicStringlikeType(T, str, bytes)))
<1>1. PICK n, at, d, prefix : /\ n = Len(str) /\ at = Len(bytes) /\ d = PrefixLength(T)
                              /\ prefix = Prefix(T, Len(str))
  OBVIOUS
<1>2. PICK marshalled, w : /\ marshalled = MarshalBasicStringlikeType(T, str, bytes)
                           /\ w = marshalled \o rest
  OBVIOUS
<1>3. PICK behind, before, all : /\ behind = <<0>> \o rest /\ before = bytes \o prefix
                                 /\ all = Len(w)
  OBVIOUS
<1>4. /\ n \in Nat /\ at \in Nat /\ d \in {1, 4} /\ n <= MaxLength(T)
      /\ str \in ByteSeq /\ <<0>> \in ByteSeq /\ Len(<<0>>) = 1
  BY <1>1, LenProperties, ZeroIsAByte DEF ByteSeq, PrefixLength
<1>5. prefix \in ByteSeq /\ Len(prefix) = d /\ Number(prefix) = n
  BY <1>1, <1>4, PrefixIsRead
<1>6. /\ marshalled = (before \o str) \o <<0>> /\ marshalled \in ByteSeq
      /\ Len(marshalled) = at + d + n + 1
  BY <1>1, <1>2, <1>3, StringIsWritten
<1>7. /\ behind \in ByteSeq /\ Len(behind) = 1 + Len(rest)
      /\ before \in ByteSeq /\ Len(before) = at + d
  BY <1>1, <1>3, <1>4, <1>5, ConcatIsBytes
<1>8. /\ w = (before \o str) \o behind
      /\ w = before \o (str \o behind)
      /\ before \o str \in ByteSeq /\ str \o behind \in ByteSeq
  <2>1. before \o str \in ByteSeq /\ str \o behind \in ByteSeq
    BY <1>4, <1>7, ConcatIsBytes, Zenon
  <2>2. ((before \o str) \o <<0>>) \o rest = (before \o str) \o (<<0>> \o rest)
    <3>1. ASSUME NEW f \in ByteSeq, NEW z \in ByteSeq PROVE (f \o z) \o rest = f \o (z \o rest)
      BY Associates, Zenon
    <3>2. before \o str \in ByteSeq /\ <<0>> \in ByteSeq
      BY <1>4, <2>1, Zenon
    <3> QED
      BY <3>1, <3>2, Zenon
  <2>3. (before \o str) \o behind = before \o (str \o behind)
    <3>1. ASSUME NEW f \in ByteSeq, NEW z \in ByteSeq PROVE (f \o str) \o z = f \o (str \o z)
      BY <1>4, Associates, ZenonT(40)
    <3>2. before \in ByteSeq /\ behind \in ByteSeq
      BY <1>7, Zenon
    <3> QED
      BY <3>1, <3>2, Zenon
  <2> QED
    BY <1>2, <1>3, <1>6, <2>1, <2>2, <2>3, Zenon
<1>9. /\ SubSeq(w, at + 1, at + d) = prefix
      /\ SubSeq(w, (at + d) + 1, (at + d) + n) = str
      /\ all = (at + d) + n + (1 + Len(rest))
  <2>2. SubSeq((bytes \o prefix) \o (str \o behind), Len(bytes) + 1, Len(bytes) + Len(prefix))
          = prefix
    BY <1>4, <1>5, <1>7, <1>8, MiddleBytes
  <2>3. /\ Len((before \o str) \o behind) = Len(before) + Len(str) + Len(behind)
        /\ SubSeq((before \o str) \o behind, Len(before) + 1, Len(before) + Len(str)) = str
    BY <1>4, <1>5, <1>7, <1>8, MiddleBytes
  <2>4. SubSeq(w, at + 1, at + d) = prefix
    BY <1>1, <1>3, <1>5, <1>8, <2>2, Zenon
  <2> QED
    BY <1>1, <1>3, <1>7, <1>8, <2>3, <2>4, Zenon
<1>10. ReadBytes(d, w, at) = Read(prefix, at + d)
  <2>1. ~(at > all) /\ at <= all /\ at + d <= all /\ ~(at + d > all)
    BY <1>4, <1>9, LenProperties
  <2>2. ~Contains(prefix, Unset)
    BY <1>5, NothingIsMissing
  <2> QED
    BY <1>3, <1>9, <2>1, <2>2 DEF ReadBytes
<1>11. ReadNumber(d, w, at) = Read(n, at + d)
  <2>1. ~Failed(Read(prefix, at + d)) /\ Read(prefix, at + d).val = prefix
        /\ Read(prefix, at + d).at = at + d
    BY DEF Failed, Read
  <2> QED
    BY <1>5, <1>10, <2>1 DEF ReadNumber
<1>12. ReadText(T, w, Read(n, at + d)) = Read(str, (at + d) + n + 1)
  <2>1. ~Failed(Read(n, at + d)) /\ Read(n, at + d).val = n /\ Read(n, at + d).at = at + d
    BY DEF Failed, Read
  <2>2. ~(n >= all - (at + d))
    BY <1>4, <1>9, LenProperties
  <2>3. ~Contains(str, Unset)
    BY <1>4, NothingIsMissing
  <2> QED
    BY <1>3, <1>9, <2>1, <2>2, <2>3 DEF ReadText
<1>13. UnmarshalDBusBasicStringlikeType(T, w, at) = ReadText(T, w, ReadNumber(d, w, at))
  BY <1>1, Zenon DEF UnmarshalDBusBasicStringlikeType, PrefixLength
<1>14. (at + d) + n + 1 = at + d + n + 1
  BY <1>4
<1> QED
  BY <1>1, <1>2, <1>6, <1>11, <1>12, <1>13, <1>14, Zenon

-----------------------------------------------------------------------------
(* The text of a rule                                                      *)

\* What the builder can make of the calls it takes: each option or none, and
\* conditions on the first 64 arguments.
Optional(S) == {None} \union {Some(x) : x \in S}

Condition == [name : ArgumentTexts, index : {i \in Indices : IsIndex(i)}]

Rules ==
  [type : Optional({t \in Types : IsMatchable(t)}), sender : Optional(Senders),
   interface : Optional(InterfaceNames), member : Optional(MemberNames),
   path : Optional(ObjectPaths), pathNamespace : Optional(ObjectPaths),
   destination : Optional(UniqueNames), args : Seq(Condition), argPaths : Seq(Condition),
   argNamespace : Optional(Namespaces), eavesdrop : Optional(BOOLEAN)]

RuleOK ==
  /\ rule \in Rules
  /\ ~(Given(rule.path) /\ Given(rule.pathNamespace))

\* The rule does not change behind its text.
TextIsOfRule == text # <<>> => text = RuleText(rule)

RuleInv == RuleOK /\ TextIsOfRule

\* A value is one that an option can have, and is given.
LEMMA SomeIsOptional ==
  ASSUME NEW S, NEW x \in S
  PROVE  Some(x) \in Optional(S) /\ None \in Optional(S) /\ Given(Some(x)) /\ ~Given(None)
BY DEF Optional, Some, None, Given

\* The keys of a part of the text, and the arguments that it has a condition on:
\* no key has an index twice, no argument two conditions, and a path is one.
IsSequence(s) == \E S : s \in Seq(S)

InArgs(entry) == entry.key \in ArgKeys

Fine(s, keys, arguments) ==
  /\ IsSequence(s)
  /\ \A i \in DOMAIN s :
       /\ s[i].key \in keys /\ s[i].index <= 63
       /\ InArgs(s[i]) => s[i].index \in arguments
       /\ s[i].key \in PathKeys => ValidValue(s[i])
  /\ \A i, j \in DOMAIN s :
       /\ i # j /\ s[i].key = s[j].key => s[i].index # s[j].index
       /\ i # j /\ InArgs(s[i]) /\ InArgs(s[j]) => s[i].index # s[j].index

\* Two parts that have no key and no argument in common make one.
LEMMA FineTogether ==
  ASSUME NEW s, NEW K1, NEW A1, Fine(s, K1, A1),
         NEW t, NEW K2, NEW A2, Fine(t, K2, A2),
         K1 \cap K2 = {}, A1 \cap A2 = {}
  PROVE  Fine(s \o t, K1 \union K2, A1 \union A2)
<1>1. PICK S : s \in Seq(S) /\ t \in Seq(S)
  <2>1. PICK S : s \in Seq(S)
    BY DEF Fine, IsSequence
  <2>2. PICK T : t \in Seq(T)
    BY DEF Fine, IsSequence
  <2>3. s \in Seq(S \union T) /\ t \in Seq(S \union T)
    BY <2>1, <2>2
  <2> QED
    BY <2>3
<1>2. PICK m, n, u : m = Len(s) /\ n = Len(t) /\ u = s \o t
  OBVIOUS
<1>3. /\ m \in Nat /\ n \in Nat /\ DOMAIN s = 1 .. m /\ DOMAIN t = 1 .. n
      /\ u \in Seq(S) /\ DOMAIN u = 1 .. m + n
      /\ \A i \in 1 .. m + n : u[i] = IF i <= m THEN s[i] ELSE t[i - m]
  BY <1>1, <1>2, ConcatProperties, LenProperties
<1>4. \A i \in 1 .. m + n : \/ i \in 1 .. m /\ u[i] = s[i]
                            \/ i - m \in 1 .. n /\ u[i] = t[i - m]
  BY <1>3
<1>5. \A i, j \in 1 .. m + n : i # j => i - m # j - m
  BY <1>3
<1>6. /\ \A i \in 1 .. m : /\ s[i].key \in K1 /\ s[i].index <= 63
                           /\ InArgs(s[i]) => s[i].index \in A1
                           /\ s[i].key \in PathKeys => ValidValue(s[i])
      /\ \A i, j \in 1 .. m :
           /\ i # j /\ s[i].key = s[j].key => s[i].index # s[j].index
           /\ i # j /\ InArgs(s[i]) /\ InArgs(s[j]) => s[i].index # s[j].index
  BY <1>3, Zenon DEF Fine
<1>7. /\ \A i \in 1 .. n : /\ t[i].key \in K2 /\ t[i].index <= 63
                           /\ InArgs(t[i]) => t[i].index \in A2
                           /\ t[i].key \in PathKeys => ValidValue(t[i])
      /\ \A i, j \in 1 .. n :
           /\ i # j /\ t[i].key = t[j].key => t[i].index # t[j].index
           /\ i # j /\ InArgs(t[i]) /\ InArgs(t[j]) => t[i].index # t[j].index
  BY <1>3, Zenon DEF Fine
<1>8. \A i \in 1 .. m + n :
        /\ u[i].key \in K1 \union K2 /\ u[i].index <= 63
        /\ InArgs(u[i]) => u[i].index \in A1 \union A2
        /\ u[i].key \in PathKeys => ValidValue(u[i])
  BY <1>4, <1>6, <1>7, Zenon
<1>9. \A i, j \in 1 .. m + n :
        /\ i # j /\ u[i].key = u[j].key => u[i].index # u[j].index
        /\ i # j /\ InArgs(u[i]) /\ InArgs(u[j]) => u[i].index # u[j].index
  <2> SUFFICES ASSUME NEW i \in 1 .. m + n, NEW j \in 1 .. m + n, i # j
      PROVE  /\ u[i].key = u[j].key => u[i].index # u[j].index
             /\ InArgs(u[i]) /\ InArgs(u[j]) => u[i].index # u[j].index
    OBVIOUS
  <2>1. CASE i \in 1 .. m /\ u[i] = s[i] /\ j \in 1 .. m /\ u[j] = s[j]
    BY <1>6, <2>1, Zenon
  <2>2. CASE i \in 1 .. m /\ u[i] = s[i] /\ j - m \in 1 .. n /\ u[j] = t[j - m]
    BY <1>6, <1>7, <2>2
  <2>3. CASE i - m \in 1 .. n /\ u[i] = t[i - m] /\ j \in 1 .. m /\ u[j] = s[j]
    BY <1>6, <1>7, <2>3
  <2>4. CASE i - m \in 1 .. n /\ u[i] = t[i - m] /\ j - m \in 1 .. n /\ u[j] = t[j - m]
    <3>1. i - m # j - m
      BY <1>5
    <3> QED
      BY <1>7, <2>4, <3>1, Zenon
  <2> QED
    BY <1>4, <2>1, <2>2, <2>3, <2>4, Zenon
<1>10. IsSequence(u)
  BY <1>3 DEF IsSequence
<1>11. DOMAIN u = 1 .. m + n
  BY <1>3
<1>12. Fine(u, K1 \union K2, A1 \union A2)
  BY <1>8, <1>9, <1>10, <1>11, Zenon DEF Fine
<1> QED
  BY <1>2, <1>12, Zenon

\* An option that is given makes one entry.
KeyOf(key, option) == IF option = None THEN {} ELSE {key}

\* An option is such a part,
LEMMA OptionIsFine ==
  ASSUME NEW S, NEW option \in Optional(S), NEW key, NEW arguments,
         key \in ArgKeys => option = None \/ 0 \in arguments,
         key \in PathKeys => \A x \in S : ProtocolPath(x)
  PROVE  Fine(Entry(key, option), KeyOf(key, option), arguments)
<1>1. CASE option = None
  <2>1. DOMAIN option = {} /\ DOMAIN Entry(key, option) = {}
    BY <1>1 DEF None, Entry
  <2>2. Entry(key, option) = <<>>
    BY <1>1 DEF None, Entry
  <2>3. IsSequence(Entry(key, option))
    <3>1. <<>> \in Seq({})
      OBVIOUS
    <3> QED
      BY <2>2, <3>1 DEF IsSequence
  <2> QED
    BY <2>1, <2>3 DEF Fine
<1>2. ASSUME NEW x \in S, option = Some(x)
      PROVE  Fine(Entry(key, option), KeyOf(key, option), arguments)
  <2>1. option # None /\ DOMAIN option = {1}
    BY <1>2 DEF Some, None
  <2> DEFINE e == [key |-> key, index |-> 0, value |-> option[1]]
  <2>2. /\ DOMAIN Entry(key, option) = {1} /\ Entry(key, option)[1] = e
        /\ Entry(key, option) = [i \in 1 .. 1 |-> e]
    BY <2>1 DEF Entry
  <2>3. e.key = key /\ e.index = 0 /\ e.value = x
    BY <1>2 DEF Some
  <2> HIDE DEF e
  <2>4. IsSequence(Entry(key, option))
    <3>1. [i \in 1 .. 1 |-> e] \in Seq({e})
      OBVIOUS
    <3> QED
      BY <2>2, <3>1 DEF IsSequence
  <2>5. KeyOf(key, option) = {key}
    BY <2>1 DEF KeyOf
  <2>6. key \in PathKeys => ValidValue(e)
    <3> HAVE key \in PathKeys
    <3>1. ProtocolPath(e.value)
      BY <2>3
    <3>2. /\ e.key \notin {"sender", "destination"} /\ e.key # "interface"
          /\ e.key # "member" /\ e.key \in PathKeys /\ e.key # "arg0namespace"
          /\ e.key \notin {"arg", "argpath"}
      BY <2>3 DEF PathKeys
    <3>3. ValidValue(e) <=> ProtocolPath(e.value)
      BY <3>2, Zenon DEF ValidValue
    <3> QED
      BY <3>1, <3>3
  <2>7. /\ \A i \in DOMAIN Entry(key, option) : i = 1 /\ Entry(key, option)[i] = e
        /\ InArgs(e) => 0 \in arguments
    BY <2>1, <2>2, <2>3 DEF InArgs
  <2>8. e.key \in KeyOf(key, option) /\ e.index <= 63
    BY <2>3, <2>5
  <2> QED
    BY <2>3, <2>4, <2>6, <2>7, <2>8, Zenon DEF Fine
<1> QED
  BY <1>1, <1>2 DEF Optional

\* The conditions on arguments, if each has another index.
Asked(args) == {args[i].index : i \in DOMAIN args}

AskedOnce(args) == \A i, j \in DOMAIN args : args[i].index = args[j].index => i = j

\* and so are the conditions, each on another argument.
LEMMA ArgumentsAreFine ==
  ASSUME NEW args \in Seq(Condition), NEW key, key \notin PathKeys, AskedOnce(args)
  PROVE  Fine(ArgEntries(key, args), {key}, Asked(args))
<1>1. PICK n, s : n = Len(args) /\ s = ArgEntries(key, args)
  OBVIOUS
<1>2. n \in Nat /\ DOMAIN args = 1 .. n
  BY <1>1, LenProperties
<1>3. /\ DOMAIN s = 1 .. n
      /\ \A i \in 1 .. n : s[i].key = key /\ s[i].index = args[i].index
      /\ s = [i \in 1 .. n |-> [key |-> key, index |-> args[i].index, value |-> args[i].name]]
  BY <1>1, <1>2 DEF ArgEntries
<1>4. IsSequence(s)
  <2> DEFINE f(i) == [key |-> key, index |-> args[i].index, value |-> args[i].name]
             S == {f(i) : i \in 1 .. n}
  <2>1. \A i \in 1 .. n : f(i) \in S
    OBVIOUS
  <2>2. s = [i \in 1 .. n |-> f(i)]
    BY <1>3
  <2> HIDE DEF f, S
  <2>3. s \in Seq(S)
    BY <1>2, <2>1, <2>2
  <2> QED
    BY <2>3 DEF IsSequence
<1>5. \A i \in 1 .. n : args[i].index <= 63
  <2>1. \A i \in 1 .. n : args[i] \in Condition
    BY <1>2
  <2>2. \A c \in Condition : c.index <= 63
    BY DEF Condition, IsIndex
  <2> QED
    BY <2>1, <2>2
<1>6. \A i, j \in 1 .. n : i # j => s[i].index # s[j].index
  BY <1>2, <1>3 DEF AskedOnce
<1>7. \A i \in 1 .. n : s[i].index \in Asked(args)
  BY <1>2, <1>3 DEF Asked
<1>8. Fine(s, {key}, Asked(args))
  BY <1>3, <1>4, <1>5, <1>6, <1>7, SMTT(30) DEF Fine
<1> QED
  BY <1>1, <1>8

\* A sequence with as many elements as it is long has none twice.
LEMMA AllDifferent ==
  ASSUME NEW S, NEW s \in Seq(S), Cardinality(Range(s)) = Len(s)
  PROVE  \A i, j \in DOMAIN s : s[i] = s[j] => i = j
<1>1. PICK n : n = Len(s)
  OBVIOUS
<1>2. n \in Nat /\ DOMAIN s = 1 .. n /\ s \in [1 .. n -> Range(s)]
  <2>1. n \in Nat /\ DOMAIN s = 1 .. n /\ s \in [1 .. n -> S]
    BY <1>1, LenProperties, SMTT(30)
  <2> QED
    BY <2>1 DEF Range
<1>3. s \in Surjection(1 .. n, Range(s))
  BY <1>2 DEF Surjection, Range
<1>4. IsFiniteSet(1 .. n) /\ Cardinality(1 .. n) = n
  <2>1. 1 \in Int /\ n \in Int /\ (IF 1 > n THEN 0 ELSE n - 1 + 1) = n
    BY <1>2
  <2> QED
    BY <2>1, FS_Interval
<1>5. s \in Injection(1 .. n, Range(s))
  BY <1>1, <1>3, <1>4, FS_Surjection, Zenon
<1> QED
  BY <1>2, <1>5 DEF Injection, IsInjective

\* If no argument is asked for twice, the conditions on strings, those on paths and
\* the one on the namespace have no index in common.
LEMMA OncePerArgument ==
  ASSUME RuleOK, AsksOnceForEachArgument
  PROVE  /\ AskedOnce(rule.args) /\ AskedOnce(rule.argPaths)
         /\ Asked(rule.args) \cap Asked(rule.argPaths) = {}
         /\ Given(rule.argNamespace) => 0 \notin Asked(rule.args) \union Asked(rule.argPaths)
<1>1. PICK a, b, c : /\ a = [i \in DOMAIN rule.args |-> rule.args[i].index]
                     /\ b = [i \in DOMAIN rule.argPaths |-> rule.argPaths[i].index]
                     /\ c = [i \in DOMAIN rule.argNamespace |-> 0]
  OBVIOUS
<1>2. PICK l, m : l = Len(rule.args) /\ m = Len(rule.argPaths)
  OBVIOUS
<1>3. /\ l \in Nat /\ m \in Nat
      /\ DOMAIN rule.args = 1 .. l /\ DOMAIN rule.argPaths = 1 .. m
      /\ \A i \in 1 .. l : rule.args[i].index \in Int
      /\ \A i \in 1 .. m : rule.argPaths[i].index \in Int
  <2>1. rule.args \in Seq(Condition) /\ rule.argPaths \in Seq(Condition)
    BY DEF RuleOK, Rules
  <2>2. \A x \in Condition : x.index \in Int
    <3>1. \A x \in Condition : x.index \in Indices
      BY DEF Condition
    <3>2. \A x \in Octet : x \in Int
      BY BytesAreSmall
    <3> QED
      BY <3>1, <3>2, BuilderAssumption, Zenon
  <2> QED
    BY <1>2, <2>1, <2>2, LenProperties
<1>4. /\ a \in Seq(Int) /\ DOMAIN a = 1 .. l /\ Len(a) = l
      /\ \A i \in 1 .. l : a[i] = rule.args[i].index
  BY <1>1, <1>3
<1>5. /\ b \in Seq(Int) /\ DOMAIN b = 1 .. m /\ Len(b) = m
      /\ \A i \in 1 .. m : b[i] = rule.argPaths[i].index
  BY <1>1, <1>3
<1>6. /\ c \in Seq(Int) /\ Len(c) \in Nat
      /\ Given(rule.argNamespace) => Len(c) = 1 /\ c[1] = 0
  <2>1. rule.argNamespace \in Optional(Namespaces)
    BY DEF RuleOK, Rules
  <2>2. \/ rule.argNamespace = <<>> /\ DOMAIN rule.argNamespace = {}
        \/ DOMAIN rule.argNamespace = 1 .. 1
    BY <2>1 DEF Optional, Some, None
  <2>3. CASE rule.argNamespace = <<>> /\ DOMAIN rule.argNamespace = {}
    BY <1>1, <2>3 DEF Given, None
  <2>4. CASE DOMAIN rule.argNamespace = 1 .. 1
    BY <1>1, <2>4
  <2> QED
    BY <2>2, <2>3, <2>4
<1>7. PICK k, ab, u : k = Len(c) /\ ab = a \o b /\ u = ab \o c
  OBVIOUS
<1>8. /\ ab \in Seq(Int) /\ Len(ab) = l + m
      /\ \A i \in 1 .. l + m : ab[i] = IF i <= l THEN a[i] ELSE b[i - l]
  BY <1>4, <1>5, <1>7, ConcatProperties, ZenonT(40)
<1>9. /\ u \in Seq(Int) /\ Len(u) = l + m + k
      /\ \A i \in 1 .. l + m + k : u[i] = IF i <= l + m THEN ab[i] ELSE c[i - (l + m)]
  <2>1. c \in Seq(Int) /\ ab \in Seq(Int) /\ Len(ab) = l + m
    BY <1>6, <1>8
  <2>2. /\ ab \o c \in Seq(Int) /\ Len(ab \o c) = Len(ab) + Len(c)
        /\ \A i \in 1 .. Len(ab) + Len(c) :
             (ab \o c)[i] = IF i <= Len(ab) THEN ab[i] ELSE c[i - Len(ab)]
    BY <2>1, ConcatProperties, Zenon
  <2> QED
    BY <1>7, <2>1, <2>2, Zenon
<1>10. Cardinality(Range(u)) = Len(u)
  BY <1>1, <1>7, Zenon DEF AsksOnceForEachArgument
<1>11. \A i, j \in 1 .. l + m + k : u[i] = u[j] => i = j
  <2>1. DOMAIN u = 1 .. l + m + k
    BY <1>9, LenProperties
  <2> QED
    BY <1>9, <1>10, <2>1, AllDifferent, Zenon
<1>12. k \in Nat
  BY <1>6, <1>7
<1>13. \A i \in 1 .. l : i \in 1 .. l + m + k /\ u[i] = rule.args[i].index
  <2> TAKE i \in 1 .. l
  <2>1. i \in 1 .. l + m + k /\ i \in 1 .. l + m /\ i <= l + m /\ i <= l
    BY <1>3, <1>12
  <2>2. u[i] = ab[i]
    BY <1>9, <2>1, Zenon
  <2>3. ab[i] = a[i]
    BY <1>8, <2>1, Zenon
  <2> QED
    BY <1>4, <2>1, <2>2, <2>3, Zenon
<1>14. \A i \in 1 .. m : l + i \in 1 .. l + m + k /\ u[l + i] = rule.argPaths[i].index
  <2> TAKE i \in 1 .. m
  <2>1. /\ l + i \in 1 .. l + m + k /\ l + i \in 1 .. l + m /\ l + i <= l + m
        /\ ~(l + i <= l) /\ (l + i) - l = i
    BY <1>3, <1>12
  <2> QED
    BY <1>5, <1>8, <1>9, <2>1
<1>15. Given(rule.argNamespace) => l + m + 1 \in 1 .. l + m + k /\ u[l + m + 1] = 0
  <2> HAVE Given(rule.argNamespace)
  <2>1. k = 1 /\ c[1] = 0
    BY <1>6, <1>7
  <2>2. l + m + 1 \in 1 .. l + m + k /\ ~(l + m + 1 <= l + m) /\ (l + m + 1) - (l + m) = 1
    BY <1>3, <2>1
  <2> QED
    BY <1>9, <2>1, <2>2
<1>16. AskedOnce(rule.args)
  BY <1>3, <1>11, <1>13 DEF AskedOnce
<1>17. AskedOnce(rule.argPaths)
  <2>1. \A i, j \in 1 .. m : l + i = l + j => i = j
    BY <1>3
  <2>2. \A i, j \in 1 .. m : rule.argPaths[i].index = rule.argPaths[j].index => i = j
    BY <1>11, <1>14, <2>1, ZenonT(40)
  <2> QED
    BY <1>3, <2>2 DEF AskedOnce
<1>18. Asked(rule.args) \cap Asked(rule.argPaths) = {}
  <2>1. \A i \in 1 .. l, j \in 1 .. m : i # l + j
    BY <1>3
  <2>2. \A i \in 1 .. l, j \in 1 .. m : rule.args[i].index # rule.argPaths[j].index
    <3> TAKE i \in 1 .. l, j \in 1 .. m
    <3>1. i \in 1 .. l + m + k /\ l + j \in 1 .. l + m + k /\ u[i] # u[l + j]
      BY <1>11, <1>13, <1>14, <2>1
    <3> QED
      BY <1>13, <1>14, <3>1
  <2> QED
    BY <1>3, <2>2 DEF Asked
<1>19. ASSUME Given(rule.argNamespace)
       PROVE  0 \notin Asked(rule.args) \union Asked(rule.argPaths)
  <2>1. /\ \A i \in 1 .. l : i # l + m + 1
        /\ \A j \in 1 .. m : l + j # l + m + 1
    BY <1>3
  <2>2. \A i \in 1 .. l : rule.args[i].index # 0
    BY <1>11, <1>13, <1>15, <1>19, <2>1, Zenon
  <2>3. \A i \in 1 .. m : rule.argPaths[i].index # 0
    BY <1>11, <1>14, <1>15, <1>19, <2>1, Zenon
  <2> QED
    BY <1>3, <2>2, <2>3 DEF Asked
<1> QED
  BY <1>16, <1>17, <1>18, <1>19

\* The same with the sets by their names.
LEMMA FineJoined ==
  ASSUME NEW s, NEW K1, NEW A1, Fine(s, K1, A1),
         NEW t, NEW K2, NEW A2, Fine(t, K2, A2),
         K1 \cap K2 = {}, A1 \cap A2 = {},
         NEW K, NEW A, K = K1 \union K2, A = A1 \union A2
  PROVE  Fine(s \o t, K, A)
BY FineTogether, Zenon

\* An option has no other key than its own.
LEMMA OptionIsFineToo ==
  ASSUME NEW S, NEW option \in Optional(S), NEW key, NEW arguments,
         key \in ArgKeys => option = None \/ 0 \in arguments,
         key \in PathKeys => \A x \in S : ProtocolPath(x)
  PROVE  Fine(Entry(key, option), {key}, arguments)
<1>1. Fine(Entry(key, option), KeyOf(key, option), arguments)
  BY OptionIsFine
<1>2. KeyOf(key, option) \subseteq {key}
  BY DEF KeyOf
<1> QED
  BY <1>1, <1>2 DEF Fine

\* The daemon takes the text of a rule that asks once for each argument, and for
\* proper names: the paths have been looked at already.
LEMMA TextIsAccepted ==
  ASSUME RuleOK, AsksOnceForEachArgument, TextIsOfRule, text # <<>>, AsksForProperNames
  PROVE  DaemonAccepts(text)
<1> DEFINE named == [i \in DOMAIN rule.type |-> TypeName(rule.type[i])]
           A1 == Asked(rule.args)
           A2 == Asked(rule.argPaths)
           A3 == IF Given(rule.argNamespace) THEN {0} ELSE {}
           K5 == KeyOf("path", rule.path)
           K6 == KeyOf("path_namespace", rule.pathNamespace)
           p1 == Entry("type", named)
           p2 == Entry("sender", rule.sender)
           p3 == Entry("interface", rule.interface)
           p4 == Entry("member", rule.member)
           p5 == Entry("path", rule.path)
           p6 == Entry("path_namespace", rule.pathNamespace)
           p7 == Entry("destination", rule.destination)
           p8 == ArgEntries("arg", rule.args)
           p9 == ArgEntries("argpath", rule.argPaths)
           p10 == Entry("arg0namespace", rule.argNamespace)
           p11 == Entry("eavesdrop", rule.eavesdrop)
           s2 == p1 \o p2
           s3 == s2 \o p3
           s4 == s3 \o p4
           s5 == s4 \o p5
           s6 == s5 \o p6
           s7 == s6 \o p7
           s8 == s7 \o p8
           s9 == s8 \o p9
           s10 == s9 \o p10
           s11 == s10 \o p11
<1>1. /\ rule.sender \in Optional(Senders) /\ rule.interface \in Optional(InterfaceNames)
      /\ rule.member \in Optional(MemberNames) /\ rule.path \in Optional(ObjectPaths)
      /\ rule.pathNamespace \in Optional(ObjectPaths)
      /\ rule.destination \in Optional(UniqueNames)
      /\ rule.args \in Seq(Condition) /\ rule.argPaths \in Seq(Condition)
      /\ rule.argNamespace \in Optional(Namespaces) /\ rule.eavesdrop \in Optional(BOOLEAN)
      /\ \E S : named \in Optional(S)
  <2>1. \E S : named \in Optional(S)
    <3>1. rule.type \in Optional({t \in Types : IsMatchable(t)})
      BY DEF RuleOK, Rules
    <3>2. CASE rule.type = None
      <4>1. named = None
        BY <3>2 DEF None
      <4> HIDE DEF named
      <4> QED
        BY <4>1 DEF Optional
    <3>3. ASSUME NEW x, rule.type = Some(x) PROVE \E S : named \in Optional(S)
      <4>1. named = <<TypeName(x)>>
        BY <3>3 DEF Some
      <4> HIDE DEF named
      <4>2. named \in Optional({TypeName(x)})
        BY <4>1 DEF Optional, Some
      <4> QED
        BY <4>2
    <3> HIDE DEF named
    <3> QED
      BY <3>1, <3>2, <3>3 DEF Optional
  <2> HIDE DEF named
  <2> QED
    BY <2>1 DEF RuleOK, Rules
<1>2. /\ AskedOnce(rule.args) /\ AskedOnce(rule.argPaths) /\ A1 \cap A2 = {}
      /\ (A1 \union A2) \cap A3 = {}
      /\ rule.argNamespace = None \/ 0 \in A3
  BY OncePerArgument DEF Given
<1>3. K5 \subseteq {"path"} /\ K6 \subseteq {"path_namespace"}
  BY DEF KeyOf
<1>4. ~(K5 # {} /\ K6 # {})
  BY DEF RuleOK, Rules, KeyOf, Given
<1>5. RuleText(rule) = s11
  BY Zenon DEF RuleText
<1> HIDE DEF named, A1, A2, A3
<1>6. \A x \in ObjectPaths : ProtocolPath(x)
  <2> TAKE x \in ObjectPaths
  <2>1. x \in Seq(Nat) /\ ObjectPath(x)
    BY BuilderAssumption
  <2> QED
    BY <2>1, EveryPathIsDecided, Zenon DEF PathsAreExact
<1>7. Fine(p1, {"type"}, {})
  BY <1>1, <1>2, OptionIsFineToo DEF ArgKeys, PathKeys
<1>8. Fine(p2, {"sender"}, {})
  BY <1>1, <1>2, OptionIsFineToo DEF ArgKeys, PathKeys
<1>9. Fine(p3, {"interface"}, {})
  BY <1>1, <1>2, OptionIsFineToo DEF ArgKeys, PathKeys
<1>10. Fine(p4, {"member"}, {})
  BY <1>1, <1>2, OptionIsFineToo DEF ArgKeys, PathKeys
<1>11. Fine(p5, K5, {})
  BY <1>1, <1>2, <1>6, OptionIsFine DEF ArgKeys
<1>12. Fine(p6, K6, {})
  BY <1>1, <1>2, <1>6, OptionIsFine DEF ArgKeys
<1>13. Fine(p7, {"destination"}, {})
  BY <1>1, <1>2, OptionIsFineToo DEF ArgKeys, PathKeys
<1>14. Fine(p8, {"arg"}, A1)
  BY <1>1, <1>2, ArgumentsAreFine DEF A1, PathKeys
<1>15. Fine(p9, {"argpath"}, A2)
  BY <1>1, <1>2, ArgumentsAreFine DEF A2, PathKeys
<1>16. Fine(p10, {"arg0namespace"}, A3)
  BY <1>1, <1>2, OptionIsFineToo DEF ArgKeys, PathKeys
<1>17. Fine(p11, {"eavesdrop"}, {})
  BY <1>1, <1>2, OptionIsFineToo DEF ArgKeys, PathKeys
<1> HIDE DEF p1, p2, p3, p4, p5, p6, p7, p8, p9, p10, p11, K5, K6
<1>18. Fine(s2, {"type", "sender"}, {})
  <2>1. /\ {"type"} \cap {"sender"} = {}
        /\ {"type", "sender"} = {"type"} \union {"sender"}
    BY <1>3
  <2>2. {} \cap {} = {} /\ {} = {} \union {}
    BY <1>2
  <2> QED
    BY <1>7, <1>8, <2>1, <2>2, FineJoined, Zenon
<1>19. Fine(s3, {"type", "sender", "interface"}, {})
  <2>1. /\ {"type", "sender"} \cap {"interface"} = {}
        /\ {"type", "sender", "interface"} = {"type", "sender"} \union {"interface"}
    BY <1>3
  <2>2. {} \cap {} = {} /\ {} = {} \union {}
    BY <1>2
  <2> HIDE DEF s2
  <2> QED
    BY <1>18, <1>9, <2>1, <2>2, FineJoined, Zenon
<1>20. Fine(s4, {"type", "sender", "interface", "member"}, {})
  <2>1. /\ {"type", "sender", "interface"} \cap {"member"} = {}
        /\ {"type", "sender", "interface", "member"} = {"type", "sender", "interface"} \union {"member"}
    BY <1>3
  <2>2. {} \cap {} = {} /\ {} = {} \union {}
    BY <1>2
  <2> HIDE DEF s3
  <2> QED
    BY <1>19, <1>10, <2>1, <2>2, FineJoined, Zenon
<1>21. Fine(s5, ({"type", "sender", "interface", "member"} \union K5), {})
  <2>1. /\ {"type", "sender", "interface", "member"} \cap K5 = {}
        /\ ({"type", "sender", "interface", "member"} \union K5) = {"type", "sender", "interface", "member"} \union K5
    BY <1>3
  <2>2. {} \cap {} = {} /\ {} = {} \union {}
    BY <1>2
  <2> HIDE DEF s4
  <2> QED
    BY <1>20, <1>11, <2>1, <2>2, FineJoined, Zenon
<1>22. Fine(s6, ({"type", "sender", "interface", "member"} \union K5 \union K6), {})
  <2>1. /\ ({"type", "sender", "interface", "member"} \union K5) \cap K6 = {}
        /\ ({"type", "sender", "interface", "member"} \union K5 \union K6) = ({"type", "sender", "interface", "member"} \union K5) \union K6
    BY <1>3
  <2>2. {} \cap {} = {} /\ {} = {} \union {}
    BY <1>2
  <2> HIDE DEF s5
  <2> QED
    BY <1>21, <1>12, <2>1, <2>2, FineJoined, Zenon
<1>23. Fine(s7, ({"type", "sender", "interface", "member", "destination"} \union K5 \union K6), {})
  <2>1. /\ ({"type", "sender", "interface", "member"} \union K5 \union K6) \cap {"destination"} = {}
        /\ ({"type", "sender", "interface", "member", "destination"} \union K5 \union K6) = ({"type", "sender", "interface", "member"} \union K5 \union K6) \union {"destination"}
    BY <1>3
  <2>2. {} \cap {} = {} /\ {} = {} \union {}
    BY <1>2
  <2> HIDE DEF s6
  <2> QED
    BY <1>22, <1>13, <2>1, <2>2, FineJoined, Zenon
<1>24. Fine(s8, ({"type", "sender", "interface", "member", "destination", "arg"} \union K5 \union K6), A1)
  <2>1. /\ ({"type", "sender", "interface", "member", "destination"} \union K5 \union K6) \cap {"arg"} = {}
        /\ ({"type", "sender", "interface", "member", "destination", "arg"} \union K5 \union K6) = ({"type", "sender", "interface", "member", "destination"} \union K5 \union K6) \union {"arg"}
    BY <1>3
  <2>2. {} \cap A1 = {} /\ A1 = {} \union A1
    BY <1>2
  <2> HIDE DEF s7
  <2> QED
    BY <1>23, <1>14, <2>1, <2>2, FineJoined, Zenon
<1>25. Fine(s9, ({"type", "sender", "interface", "member", "destination", "arg", "argpath"} \union K5 \union K6), (A1 \union A2))
  <2>1. /\ ({"type", "sender", "interface", "member", "destination", "arg"} \union K5 \union K6) \cap {"argpath"} = {}
        /\ ({"type", "sender", "interface", "member", "destination", "arg", "argpath"} \union K5 \union K6) = ({"type", "sender", "interface", "member", "destination", "arg"} \union K5 \union K6) \union {"argpath"}
    BY <1>3
  <2>2. A1 \cap A2 = {} /\ (A1 \union A2) = A1 \union A2
    BY <1>2
  <2> HIDE DEF s8
  <2> QED
    BY <1>24, <1>15, <2>1, <2>2, FineJoined, Zenon
<1>26. Fine(s10, ({"type", "sender", "interface", "member", "destination", "arg", "argpath", "arg0namespace"} \union K5 \union K6), (A1 \union A2 \union A3))
  <2>1. /\ ({"type", "sender", "interface", "member", "destination", "arg", "argpath"} \union K5 \union K6) \cap {"arg0namespace"} = {}
        /\ ({"type", "sender", "interface", "member", "destination", "arg", "argpath", "arg0namespace"} \union K5 \union K6) = ({"type", "sender", "interface", "member", "destination", "arg", "argpath"} \union K5 \union K6) \union {"arg0namespace"}
    BY <1>3
  <2>2. (A1 \union A2) \cap A3 = {} /\ (A1 \union A2 \union A3) = (A1 \union A2) \union A3
    BY <1>2
  <2> HIDE DEF s9
  <2> QED
    BY <1>25, <1>16, <2>1, <2>2, FineJoined, Zenon
<1>27. Fine(s11, ({"type", "sender", "interface", "member", "destination", "arg", "argpath", "arg0namespace", "eavesdrop"} \union K5 \union K6), (A1 \union A2 \union A3))
  <2>1. /\ ({"type", "sender", "interface", "member", "destination", "arg", "argpath", "arg0namespace"} \union K5 \union K6) \cap {"eavesdrop"} = {}
        /\ ({"type", "sender", "interface", "member", "destination", "arg", "argpath", "arg0namespace", "eavesdrop"} \union K5 \union K6) = ({"type", "sender", "interface", "member", "destination", "arg", "argpath", "arg0namespace"} \union K5 \union K6) \union {"eavesdrop"}
    BY <1>3
  <2>2. (A1 \union A2 \union A3) \cap {} = {} /\ (A1 \union A2 \union A3) = (A1 \union A2 \union A3) \union {}
    BY <1>2
  <2> HIDE DEF s10
  <2> QED
    BY <1>26, <1>17, <2>1, <2>2, FineJoined, Zenon
<1> HIDE DEF s11
<1>28. ~({"path", "path_namespace"} \subseteq {s11[i].key : i \in DOMAIN s11})
  <2>1. \A i \in DOMAIN s11 : s11[i].key \in ({"type", "sender", "interface", "member", "destination", "arg", "argpath", "arg0namespace", "eavesdrop"} \union K5 \union K6)
    BY <1>27 DEF Fine
  <2>2. "path" \notin ({"type", "sender", "interface", "member", "destination", "arg", "argpath", "arg0namespace", "eavesdrop"} \union K5 \union K6) \/ "path_namespace" \notin ({"type", "sender", "interface", "member", "destination", "arg", "argpath", "arg0namespace", "eavesdrop"} \union K5 \union K6)
    BY <1>3, <1>4
  <2> QED
    BY <2>1, <2>2
<1>29. text = s11
  BY <1>5 DEF TextIsOfRule
<1>30. \A i \in DOMAIN s11 : ValidValue(s11[i])
  BY <1>27, <1>29, Zenon DEF AsksForProperNames, Fine
<1>31. DaemonAccepts(s11)
  BY <1>27, <1>28, <1>30 DEF DaemonAccepts, Fine, InArgs, PathKeys
<1> QED
  BY <1>29, <1>31, Zenon

-----------------------------------------------------------------------------
(* The builder                                                             *)

\* A call of the builder keeps the invariant, if the rule it makes is one.
LEMMA BuildKeeps ==
  ASSUME RuleInv, NEW r, Build(r),
         r \in Rules,
         ~(Given(r.path) /\ Given(r.pathNamespace))
  PROVE  RuleInv'
<1>1. rule' = r /\ text' = text /\ text = <<>>
  BY DEF Build
<1>2. RuleOK'
  BY <1>1 DEF RuleOK, Rules
<1>3. TextIsOfRule'
  BY <1>1 DEF TextIsOfRule
<1> QED
  BY <1>2, <1>3 DEF RuleInv

\* Nothing is set before the first call.
LEMMA RuleInvInit == Init => RuleInv
<1> SUFFICES ASSUME Init PROVE RuleInv
  OBVIOUS
<1>1. rule = Empty /\ text = <<>>
  BY DEF Init
<1>2. \A S : None \in Optional(S)
  BY DEF Optional
<1>3. <<>> \in Seq(Condition) /\ ~Given(None)
  BY DEF Given
<1>4. RuleOK
  BY <1>1, <1>2, <1>3 DEF RuleOK, Rules, Empty
<1>5. TextIsOfRule
  BY <1>1 DEF TextIsOfRule
<1> QED
  BY <1>4, <1>5 DEF RuleInv

\* What the builder is called with keeps the rule well formed.
LEMMA RuleInvNext == RuleInv /\ [Next]_vars => RuleInv'
<1> SUFFICES ASSUME RuleInv, [Next]_vars PROVE RuleInv'
  OBVIOUS
<1>1. \A S : \A x \in S : Some(x) \in Optional(S)
  BY SomeIsOptional
<1>2. RuleOK /\ TextIsOfRule
  BY DEF RuleInv
<1>3. CASE Sender
  <2>1. PICK name \in Senders : Build([rule EXCEPT !.sender = Some(name)])
    BY <1>3 DEF Sender
  <2>2. Some(name) \in Optional(Senders)
    BY <1>1
  <2> QED
    BY <1>2, <2>1, <2>2, BuildKeeps DEF RuleOK, Rules
<1>4. CASE Interface
  <2>1. PICK name \in InterfaceNames : Build([rule EXCEPT !.interface = Some(name)])
    BY <1>4 DEF Interface
  <2>2. Some(name) \in Optional(InterfaceNames)
    BY <1>1
  <2> QED
    BY <1>2, <2>1, <2>2, BuildKeeps DEF RuleOK, Rules
<1>5. CASE Member
  <2>1. PICK name \in MemberNames : Build([rule EXCEPT !.member = Some(name)])
    BY <1>5 DEF Member
  <2>2. Some(name) \in Optional(MemberNames)
    BY <1>1
  <2> QED
    BY <1>2, <2>1, <2>2, BuildKeeps DEF RuleOK, Rules
<1>6. CASE Destination
  <2>1. PICK name \in UniqueNames : Build([rule EXCEPT !.destination = Some(name)])
    BY <1>6 DEF Destination
  <2>2. Some(name) \in Optional(UniqueNames)
    BY <1>1
  <2> QED
    BY <1>2, <2>1, <2>2, BuildKeeps DEF RuleOK, Rules
<1>7. CASE ArgumentNamespace
  <2>1. PICK name \in Namespaces : Build([rule EXCEPT !.argNamespace = Some(name)])
    BY <1>7 DEF ArgumentNamespace
  <2>2. Some(name) \in Optional(Namespaces)
    BY <1>1
  <2> QED
    BY <1>2, <2>1, <2>2, BuildKeeps DEF RuleOK, Rules
<1>8. CASE EavesDrop
  <2>1. PICK eavesdrop \in BOOLEAN : Build([rule EXCEPT !.eavesdrop = Some(eavesdrop)])
    BY <1>8 DEF EavesDrop
  <2>2. Some(eavesdrop) \in Optional(BOOLEAN)
    BY <1>1
  <2> QED
    BY <1>2, <2>1, <2>2, BuildKeeps DEF RuleOK, Rules
<1>9. CASE Type
  <2>1. PICK t \in Types : IsMatchable(t) /\ Build([rule EXCEPT !.type = Some(t)])
    BY <1>9 DEF Type
  <2>2. Some(t) \in Optional({x \in Types : IsMatchable(x)})
    <3>1. t \in {x \in Types : IsMatchable(x)}
      BY <2>1
    <3> QED
      BY <1>1, <3>1
  <2> QED
    BY <1>2, <2>1, <2>2, BuildKeeps DEF RuleOK, Rules
<1>10. CASE Path
  <2>1. PICK path \in ObjectPaths : IsAlone(rule.pathNamespace) /\ Build([rule EXCEPT !.path = Some(path)])
    BY <1>10 DEF Path
  <2>2. Some(path) \in Optional(ObjectPaths) /\ ~Given(rule.pathNamespace)
    BY <1>1, <2>1 DEF IsAlone
  <2> QED
    BY <1>2, <2>1, <2>2, BuildKeeps DEF RuleOK, Rules
<1>11. CASE PathNamespace
  <2>1. PICK path \in ObjectPaths : IsAlone(rule.path) /\ Build([rule EXCEPT !.pathNamespace = Some(path)])
    BY <1>11 DEF PathNamespace
  <2>2. Some(path) \in Optional(ObjectPaths) /\ ~Given(rule.path)
    BY <1>1, <2>1 DEF IsAlone
  <2> QED
    BY <1>2, <2>1, <2>2, BuildKeeps DEF RuleOK, Rules
<1>12. CASE Argument
  <2>1. PICK index \in Indices, name \in ArgumentTexts : IsIndex(index) /\ Build([rule EXCEPT !.args = Append(@, [name |-> name, index |-> index])])
    BY <1>12 DEF Argument
  <2>2. Append(rule.args, [name |-> name, index |-> index]) \in Seq(Condition)
    <3>1. [name |-> name, index |-> index] \in Condition
      BY <2>1 DEF Condition
    <3>2. rule.args \in Seq(Condition)
      BY <1>2 DEF RuleOK, Rules
    <3> QED
      BY <3>1, <3>2, AppendProperties
  <2> QED
    BY <1>2, <2>1, <2>2, BuildKeeps DEF RuleOK, Rules
<1>13. CASE ArgumentPath
  <2>1. PICK index \in Indices, name \in ArgumentTexts : IsIndex(index) /\ Build([rule EXCEPT !.argPaths = Append(@, [name |-> name, index |-> index])])
    BY <1>13 DEF ArgumentPath
  <2>2. Append(rule.argPaths, [name |-> name, index |-> index]) \in Seq(Condition)
    <3>1. [name |-> name, index |-> index] \in Condition
      BY <2>1 DEF Condition
    <3>2. rule.argPaths \in Seq(Condition)
      BY <1>2 DEF RuleOK, Rules
    <3> QED
      BY <3>1, <3>2, AppendProperties
  <2> QED
    BY <1>2, <2>1, <2>2, BuildKeeps DEF RuleOK, Rules
<1>14. CASE GetRule
  BY <1>2, <1>14 DEF GetRule, RuleInv, RuleOK, Rules, TextIsOfRule
<1>15. CASE HandleReadMessage
  BY <1>2, <1>15 DEF HandleReadMessage, RuleInv, RuleOK, Rules, TextIsOfRule
<1>16. CASE UNCHANGED vars
  BY <1>2, <1>16 DEF vars, RuleInv, RuleOK, Rules, TextIsOfRule
<1> QED
  BY <1>3, <1>4, <1>5, <1>6, <1>7, <1>8, <1>9, <1>10, <1>11, <1>12, <1>13, <1>14, <1>15, <1>16 DEF Next

\* Whatever the builder is called with, a rule has a type the user may ask for, no
\* path beside a namespace and indices up to 63, and its text stays that of the rule.
THEOREM RuleIsAsBuilt == Spec => []RuleInv
<1> QED
  BY RuleInvInit, RuleInvNext, PTL DEF Spec

\* Whatever order the builder is called in, the daemon takes the text for this rule,
\* unless it asks twice for one argument, for a name, member or namespace that is none,
\* or for a text with an apostrophe: paths are always fit.
THEOREM RulesAreAlwaysAccepted == Spec => []RulesAreAccepted
<1>1. RuleInv => RulesAreAccepted
  BY TextIsAccepted DEF RuleInv, TextIsOfRule, RulesAreAccepted
<1> QED
  BY <1>1, RuleIsAsBuilt, PTL

-----------------------------------------------------------------------------
(* Codes and alignments                                                    *)

\* The classes of codes have nothing in common.
LEMMA CodesAreApart ==
  /\ \A c : IsDBusBasicFixedTypeCode(c) =>
       /\ ~IsDBusBasicStringlikeTypeCode(c)
       /\ c # DBusTypeCodes.STRING /\ c # DBusTypeCodes.OBJECT_PATH
       /\ c # DBusTypeCodes.SIGNATURE
       /\ c # DBusTypeCodes.VARIANT /\ c # DBusTypeCodes.STRUCT_BEGIN
       /\ c # DBusTypeCodes.ARRAY /\ c # DBusTypeCodes.DICT_BEGIN
  /\ DBusTypeCodes.STRING # DBusTypeCodes.OBJECT_PATH
  /\ DBusTypeCodes.STRING # DBusTypeCodes.SIGNATURE
  /\ DBusTypeCodes.OBJECT_PATH # DBusTypeCodes.SIGNATURE
  /\ \A c : IsDBusBasicStringlikeTypeCode(c) =>
       /\ ~IsDBusBasicFixedTypeCode(c)
       /\ c # DBusTypeCodes.VARIANT /\ c # DBusTypeCodes.STRUCT_BEGIN
       /\ c # DBusTypeCodes.ARRAY /\ c # DBusTypeCodes.DICT_BEGIN
  /\ ~IsDBusBasicFixedTypeCode(DBusTypeCodes.ARRAY)
  /\ ~IsDBusBasicStringlikeTypeCode(DBusTypeCodes.ARRAY)
  /\ DBusTypeCodes.ARRAY # DBusTypeCodes.VARIANT
  /\ DBusTypeCodes.ARRAY # DBusTypeCodes.STRUCT_BEGIN
  /\ DBusTypeCodes.ARRAY # DBusTypeCodes.DICT_BEGIN
BY DEF DBusTypeCodes, IsDBusBasicFixedTypeCode, IsDBusBasicStringlikeTypeCode

\* A basic type and an array are aligned to a power of two,
LEMMA BasicAlignment ==
  ASSUME NEW c, \/ IsDBusBasicFixedTypeCode(c)
                \/ IsDBusBasicStringlikeTypeCode(c)
                \/ c = DBusTypeCodes.ARRAY
  PROVE  GetAlignmentOfSignature(c) \in {1, 2, 4, 8} /\ GetAlignmentOfSignature(c) # NoAlignment
BY DEF DBusTypeCodes, IsDBusBasicFixedTypeCode, IsDBusBasicStringlikeTypeCode,
       GetAlignmentOfSignature, NoAlignment

\* and padding only moves on.
LEMMA PaddingIsSmall ==
  ASSUME NEW at \in Nat, NEW alignment \in {1, 2, 4, 8}
  PROVE  SkipPadding(at, alignment) \in Nat /\ at <= SkipPadding(at, alignment)
BY DEF SkipPadding, Padding

-----------------------------------------------------------------------------
(* The arguments of a signal that is laid out                              *)

\* There are arguments, and they are plain.
LaidOut(s) == HasPlainArguments(s) /\ IsLaidOut(s) /\ Len(s.ends) > 0

\* The arrays among the first k, which CodeAt() counts.
Count(s, k) == Cardinality({j \in 1 .. k : s.types[j].code = DBusTypeCodes.ARRAY})

\* One more argument is one more array, or none.
LEMMA CountGoesOn ==
  ASSUME NEW s, NEW k \in Nat
  PROVE  /\ Count(s, k) \in Nat /\ Count(s, 0) = 0
         /\ Count(s, k + 1) = IF s.types[k + 1].code = DBusTypeCodes.ARRAY
                              THEN Count(s, k) + 1 ELSE Count(s, k)
<1> DEFINE A(l) == {j \in 1 .. l : s.types[j].code = DBusTypeCodes.ARRAY}
<1>1. IsFiniteSet(A(k))
  <2>1. IsFiniteSet(1 .. k)
    BY FS_Interval
  <2> QED
    BY <2>1, FS_Subset
<1>2. Cardinality(A(k)) \in Nat
  BY <1>1, FS_CardinalityType
<1>3. A(0) = {} /\ Cardinality({}) = 0
  BY FS_EmptySet
<1>4. CASE s.types[k + 1].code = DBusTypeCodes.ARRAY
  <2>1. A(k + 1) = A(k) \union {k + 1} /\ k + 1 \notin A(k)
    BY <1>4
  <2> HIDE DEF A
  <2>2. Cardinality(A(k) \union {k + 1}) = Cardinality(A(k)) + 1
    BY <1>1, <2>1, FS_AddElement
  <2> QED
    BY <1>2, <1>3, <1>4, <2>1, <2>2 DEF Count, A
<1>5. CASE s.types[k + 1].code # DBusTypeCodes.ARRAY
  <2>1. A(k + 1) = A(k)
    BY <1>5
  <2> QED
    BY <1>2, <1>3, <1>5, <2>1 DEF Count
<1> QED
  BY <1>4, <1>5

\* An array takes two codes of the signature, everything else one.
LEMMA CodeAtGoesOn ==
  ASSUME NEW s, NEW k \in Nat \ {0}
  PROVE  /\ CodeAt(s, k) \in Nat /\ k <= CodeAt(s, k) /\ CodeAt(s, 1) = 1
         /\ CodeAt(s, k + 1) = CodeAt(s, k) + IF s.types[k].code = DBusTypeCodes.ARRAY THEN 2 ELSE 1
<1>1. /\ k - 1 \in Nat /\ (k - 1) + 1 = k /\ (k + 1) - 1 = k /\ k \in Nat
  OBVIOUS
<1>2. CodeAt(s, k) = k + Count(s, k - 1)
  BY Zenon DEF CodeAt, Count
<1>3. CodeAt(s, k + 1) = (k + 1) + Count(s, k)
  <2>1. CodeAt(s, k + 1) = (k + 1) + Count(s, (k + 1) - 1)
    BY Zenon DEF CodeAt, Count
  <2> QED
    BY <1>1, <2>1
<1>4. CodeAt(s, 1) = 1 + Count(s, 0)
  <2>1. CodeAt(s, 1) = 1 + Count(s, 1 - 1)
    BY Zenon DEF CodeAt, Count
  <2> QED
    BY <2>1
<1>5. /\ Count(s, k - 1) \in Nat /\ Count(s, 0) = 0
      /\ Count(s, k) = IF s.types[k].code = DBusTypeCodes.ARRAY
                       THEN Count(s, k - 1) + 1 ELSE Count(s, k - 1)
  BY <1>1, CountGoesOn
<1> QED
  BY <1>2, <1>3, <1>4, <1>5

\* What the definitions say of the parts of such a signal.
LEMMA LaidOutFacts ==
  ASSUME NEW s, LaidOut(s)
  PROVE  /\ Len(s.ends) \in Nat \ {0} /\ DOMAIN s.types = 1 .. Len(s.ends)
         /\ \A k \in 1 .. Len(s.ends) : s.ends[k] \in Nat
         /\ s.body \in ByteSeq /\ Len(s.body) \in Nat
         /\ Len(s.body) = s.ends[Len(s.ends)] /\ Len(s.body) <= MaxMessage
         /\ The(s.signature) \in Seq(Octet)
         /\ Len(The(s.signature)) = CodeAt(s, Len(s.ends) + 1) - 1
         /\ Len(The(s.signature)) <= 255
         /\ \A k \in 1 .. Len(s.ends) : IsArgument(s, k) /\ IsPlain(s.types[k])
<1>1. PICK n, sig : n = Len(s.ends) /\ sig = The(s.signature)
  OBVIOUS
<1>2. IsLaidOut(s) /\ n > 0
  BY <1>1 DEF LaidOut
<1>3. /\ s.ends \in Seq(Nat) /\ DOMAIN s.types = 1 .. n
      /\ s.body \in Seq(Octet) /\ Len(s.body) = IF n = 0 THEN 0 ELSE s.ends[n]
      /\ Len(s.body) <= MaxMessage
      /\ sig \in Seq(Octet) /\ Len(sig) = CodeAt(s, n + 1) - 1 /\ Len(sig) <= MaxOctet
      /\ \A k \in 1 .. n : IsArgument(s, k)
  BY <1>1, <1>2, Zenon DEF IsLaidOut
<1>4. n \in Nat \ {0}
  BY <1>1, <1>2, <1>3, LenProperties
<1>5. Len(sig) <= 255
  <2>1. Len(sig) \in Nat
    BY <1>3, LenProperties
  <2> QED
    BY <1>3, <2>1, ByteLimit
<1>6. \A k \in 1 .. n : IsPlain(s.types[k])
  BY <1>3 DEF LaidOut, HasPlainArguments
<1>7. \A k \in 1 .. n : s.ends[k] \in Nat
  BY <1>1, <1>3, SMTT(30)
<1>8. Len(s.body) \in Nat /\ Len(s.body) = s.ends[n]
  BY <1>3, <1>4, LenProperties
<1> QED
  BY <1>1, <1>3, <1>4, <1>5, <1>6, <1>7, <1>8, Zenon DEF ByteSeq

\* Every argument has its code in the signature.
LEMMA CodesAreThere ==
  ASSUME NEW s, LaidOut(s), NEW k \in 1 .. Len(s.ends)
  PROVE  /\ CodeAt(s, k) \in Nat \ {0} /\ k <= CodeAt(s, k)
         /\ CodeAt(s, k + 1) \in Nat /\ CodeAt(s, k) < CodeAt(s, k + 1)
         /\ CodeAt(s, k + 1) <= CodeAt(s, Len(s.ends) + 1)
         /\ CodeAt(s, k + 1) <= Len(The(s.signature)) + 1
         /\ k <= Len(The(s.signature))
<1>1. PICK n, length : n = Len(s.ends) /\ length = Len(The(s.signature))
  OBVIOUS
<1>2. n \in Nat \ {0} /\ length = CodeAt(s, n + 1) - 1
  BY <1>1, LaidOutFacts
<1>3. \A j \in Nat \ {0} : /\ CodeAt(s, j) \in Nat /\ j <= CodeAt(s, j)
                           /\ CodeAt(s, j) < CodeAt(s, j + 1)
  <2> TAKE j \in Nat \ {0}
  <2>1. /\ CodeAt(s, j) \in Nat /\ j <= CodeAt(s, j)
        /\ CodeAt(s, j + 1)
             = CodeAt(s, j) + IF s.types[j].code = DBusTypeCodes.ARRAY THEN 2 ELSE 1
    BY CodeAtGoesOn, Zenon
  <2> PICK c : c = CodeAt(s, j)
    OBVIOUS
  <2>2. \/ CodeAt(s, j + 1) = c + 2 \/ CodeAt(s, j + 1) = c + 1
    BY <2>1, Zenon
  <2> QED
    BY <2>1, <2>2
<1> DEFINE behind == {i \in 0 .. n : CodeAt(s, n + 1 - i) <= CodeAt(s, n + 1)}
<1>4. 0 \in behind
  <2>1. n + 1 - 0 = n + 1 /\ CodeAt(s, n + 1) \in Nat
    BY <1>2, <1>3
  <2> QED
    BY <1>2, <2>1
<1>5. ASSUME NEW i \in 1 .. n, i - 1 \in behind PROVE i \in behind
  <2>1. n + 1 - i \in Nat \ {0} /\ (n + 1 - i) + 1 = n + 1 - (i - 1) /\ n + 1 \in Nat \ {0}
    BY <1>2
  <2>2. CodeAt(s, n + 1 - i) < CodeAt(s, n + 1 - (i - 1))
    BY <1>3, <2>1
  <2>3. CodeAt(s, n + 1 - (i - 1)) <= CodeAt(s, n + 1)
    BY <1>5
  <2>4. /\ CodeAt(s, n + 1 - i) \in Nat /\ CodeAt(s, n + 1 - (i - 1)) \in Nat
        /\ CodeAt(s, n + 1) \in Nat
    <3>1. n + 1 - (i - 1) \in Nat \ {0}
      BY <1>2
    <3> QED
      BY <1>3, <2>1, <3>1
  <2>5. CodeAt(s, n + 1 - i) <= CodeAt(s, n + 1)
    BY <2>2, <2>3, <2>4
  <2> QED
    BY <2>5
<1> HIDE DEF behind
<1>6. \A i \in 0 .. n : i \in behind
  BY <1>2, <1>4, <1>5, UpToN
<1>7. n - k \in 0 .. n /\ n + 1 - (n - k) = k + 1 /\ k \in Nat \ {0} /\ k + 1 \in Nat \ {0}
      /\ n + 1 \in Nat \ {0}
  BY <1>1, <1>2
<1>8. CodeAt(s, k + 1) <= CodeAt(s, n + 1)
  BY <1>6, <1>7 DEF behind
<1>9. /\ CodeAt(s, k) \in Nat /\ k <= CodeAt(s, k) /\ CodeAt(s, k + 1) \in Nat
      /\ CodeAt(s, k) < CodeAt(s, k + 1) /\ CodeAt(s, n + 1) \in Nat
  BY <1>3, <1>7
<1>10. PICK a, b, c : a = CodeAt(s, k) /\ b = CodeAt(s, k + 1) /\ c = CodeAt(s, n + 1)
  OBVIOUS
<1>11. /\ a \in Nat /\ b \in Nat /\ c \in Nat /\ k <= a /\ a < b /\ b <= c /\ length = c - 1
       /\ k \in Nat \ {0}
  BY <1>2, <1>7, <1>8, <1>9, <1>10
<1>12. a \in Nat \ {0} /\ b <= length + 1 /\ k <= length
  BY <1>11
<1> QED
  BY <1>1, <1>10, <1>11, <1>12

\* Where an argument begins, and its code.
LEMMA BeginsBehind ==
  ASSUME NEW s, LaidOut(s), NEW k \in 1 .. Len(s.ends)
  PROVE  /\ Begin(s, k) \in Nat
         /\ Begin(s, k) = SkipPadding(IF k = 1 THEN 0 ELSE s.ends[k - 1],
                                      GetAlignmentOfSignature(s.types[k].code))
         /\ GetAlignmentOfSignature(s.types[k].code) \in {1, 2, 4, 8}
         /\ GetAlignmentOfSignature(s.types[k].code) # NoAlignment
         /\ The(s.signature)[CodeAt(s, k)] = s.types[k].code
         /\ s.ends[k] \in Nat /\ Begin(s, k) < s.ends[k] /\ s.ends[k] <= Len(s.body)
<1>1. /\ k \in Nat /\ Len(s.ends) \in Nat \ {0} /\ IsArgument(s, k) /\ IsPlain(s.types[k])
      /\ \A j \in 1 .. Len(s.ends) : s.ends[j] \in Nat
      /\ Len(s.body) \in Nat
  BY LaidOutFacts
<1>2. PICK before : before = IF k = 1 THEN 0 ELSE s.ends[k - 1]
  OBVIOUS
<1>3. before \in Nat
  BY <1>1, <1>2
<1>4. PICK a : a = GetAlignmentOfSignature(s.types[k].code)
  OBVIOUS
<1>5. a \in {1, 2, 4, 8} /\ a # NoAlignment
  <2>1. \/ IsDBusBasicFixedTypeCode(s.types[k].code)
        \/ IsDBusBasicStringlikeTypeCode(s.types[k].code)
        \/ s.types[k].code = DBusTypeCodes.ARRAY
    BY <1>1 DEF IsPlain, IsDBusBasicFixedType, IsDBusBasicStringlikeType
  <2> QED
    BY <1>4, <2>1, BasicAlignment
<1>6. Begin(s, k) = SkipPadding(before, a)
  BY <1>2, <1>4, Zenon DEF Begin, GetAlignmentOfDBusType
<1>7. Begin(s, k) \in Nat
  BY <1>3, <1>5, <1>6, PaddingIsSmall
<1>8. /\ The(s.signature)[CodeAt(s, k)] = s.types[k].code
      /\ s.ends[k] \in Begin(s, k) + 1 .. Len(s.body)
  BY <1>1, Zenon DEF IsArgument
<1> QED
  BY <1>1, <1>2, <1>4, <1>5, <1>6, <1>7, <1>8

-----------------------------------------------------------------------------
(* A turn of the loop                                                      *)

\* What the cases of the loop are for arguments that are plain.
Moved(w, at) == [w EXCEPT !.at = at]

\* A number is passed by,
LEMMA FixedCase ==
  ASSUME NEW sig, NEW i, NEW bytes, NEW w, NEW keep, NEW behind,
         IsDBusBasicFixedTypeCode(sig[i])
  PROVE  WalkArgument(sig, i, bytes, w, keep, behind)
           = [i |-> i, walk |-> Moved(w, w.at + GetAlignmentOfSignature(sig[i]))]
<1> PICK c : c = sig[i]
  OBVIOUS
<1> QED
  BY CodesAreApart, Zenon DEF WalkArgument, Moved

\* a string or an object path is read,
LEMMA StringCase ==
  ASSUME NEW sig, NEW i, NEW bytes, NEW w, NEW keep, NEW behind,
         sig[i] = DBusTypeCodes.STRING \/ sig[i] = DBusTypeCodes.OBJECT_PATH
  PROVE  WalkArgument(sig, i, bytes, w, keep, behind)
           = [i |-> i, walk |-> WalkString(w, sig[i], bytes, keep, Slice(4, bytes, w.at))]
<1>1. /\ ~IsDBusBasicFixedTypeCode(sig[i]) /\ sig[i] # DBusTypeCodes.SIGNATURE
      /\ sig[i] # DBusTypeCodes.VARIANT /\ sig[i] # DBusTypeCodes.STRUCT_BEGIN
      /\ sig[i] # DBusTypeCodes.ARRAY /\ sig[i] # DBusTypeCodes.DICT_BEGIN
  BY DEF DBusTypeCodes, IsDBusBasicFixedTypeCode
<1>2. sig[i] \in {DBusTypeCodes.STRING, DBusTypeCodes.OBJECT_PATH}
  OBVIOUS
<1> QED
  BY <1>1, <1>2, Zenon DEF WalkArgument

\* a signature is passed by,
LEMMA SignatureCase ==
  ASSUME NEW sig, NEW i, NEW bytes, NEW w, NEW keep, NEW behind,
         sig[i] = DBusTypeCodes.SIGNATURE
  PROVE  WalkArgument(sig, i, bytes, w, keep, behind)
           = [i |-> i, walk |-> WalkByte(w, sig[i], bytes, behind, Slice(1, bytes, w.at))]
<1>1. /\ ~IsDBusBasicFixedTypeCode(sig[i])
      /\ sig[i] \notin {DBusTypeCodes.STRING, DBusTypeCodes.OBJECT_PATH}
      /\ sig[i] # DBusTypeCodes.STRUCT_BEGIN
      /\ sig[i] # DBusTypeCodes.ARRAY /\ sig[i] # DBusTypeCodes.DICT_BEGIN
  BY DEF DBusTypeCodes, IsDBusBasicFixedTypeCode
<1>2. sig[i] \in {DBusTypeCodes.SIGNATURE, DBusTypeCodes.VARIANT}
  OBVIOUS
<1> QED
  BY <1>1, <1>2, Zenon DEF WalkArgument

\* and so is an array.
LEMMA ArrayCase ==
  ASSUME NEW sig, NEW i, NEW bytes, NEW w, NEW keep, NEW behind,
         sig[i] = DBusTypeCodes.ARRAY, Code(sig, i + 1) # DBusTypeCodes.DICT_BEGIN
  PROVE  WalkArgument(sig, i, bytes, w, keep, behind)
           = [i |-> i + 1,
              walk |-> WalkContainer(w, Slice(4, bytes, w.at), Code(sig, i + 1))]
<1>1. /\ ~IsDBusBasicFixedTypeCode(sig[i])
      /\ sig[i] \notin {DBusTypeCodes.STRING, DBusTypeCodes.OBJECT_PATH}
      /\ sig[i] \notin {DBusTypeCodes.SIGNATURE, DBusTypeCodes.VARIANT}
      /\ sig[i] # DBusTypeCodes.STRUCT_BEGIN /\ sig[i] # DBusTypeCodes.DICT_BEGIN
  BY DEF DBusTypeCodes, IsDBusBasicFixedTypeCode
<1> QED
  BY <1>1, Zenon DEF WalkArgument

\* The arguments of a type among the first k, by index.
Kept(s, c, k) ==
  {[index |-> j - 1, value |-> s.values[j]] : j \in {l \in 1 .. k : s.types[l].code = c}}

\* One more argument of the type is one more that is kept.
LEMMA KeptGoesOn ==
  ASSUME NEW s, NEW c, NEW k \in Nat \ {0}
  PROVE  Kept(s, c, k) = IF s.types[k].code = c
                         THEN Insert(Kept(s, c, k - 1), k - 1, s.values[k])
                         ELSE Kept(s, c, k - 1)
<1> DEFINE e(j) == [index |-> j - 1, value |-> s.values[j]]
           K(l) == {j \in 1 .. l : s.types[j].code = c}
<1>1. \A l : Kept(s, c, l) = {e(j) : j \in K(l)}
  BY Zenon DEF Kept
<1>2. \A l \in 1 .. k : l \in 1 .. k - 1 \/ l = k
  OBVIOUS
<1>3. CASE s.types[k].code = c
  <2>1. K(k) = K(k - 1) \union {k}
    BY <1>2, <1>3
  <2>2. Kept(s, c, k) = Kept(s, c, k - 1) \union {e(k)}
    <3> HIDE DEF e, K
    <3> QED
      BY <1>1, <2>1
  <2>3. ~ \E x \in Kept(s, c, k - 1) : x.index = k - 1
    <3>1. \A j \in K(k - 1) : e(j).index # k - 1
      OBVIOUS
    <3> HIDE DEF e, K
    <3> QED
      BY <1>1, <3>1
  <2>4. Insert(Kept(s, c, k - 1), k - 1, s.values[k]) = Kept(s, c, k - 1) \union {e(k)}
    BY <2>3, Zenon DEF Insert
  <2> QED
    BY <1>3, <2>2, <2>4, Zenon
<1>4. CASE s.types[k].code # c
  <2>1. K(k) = K(k - 1)
    BY <1>2, <1>4
  <2> HIDE DEF K
  <2> QED
    BY <1>1, <1>4, <2>1, Zenon
<1> QED
  BY <1>3, <1>4

\* Behind the k-th argument, with the strings and object paths up to it.
WalkedTo(s, k) ==
  [at |-> IF k = 0 THEN 0 ELSE s.ends[k], index |-> k,
   strings |-> Kept(s, DBusTypeCodes.STRING, k), paths |-> Kept(s, DBusTypeCodes.OBJECT_PATH, k)]

\* The walk in front of the k-th argument, and behind it but for the index.
Before(s, k) == [WalkedTo(s, k - 1) EXCEPT !.at = Begin(s, k)]
After(s, k) == [WalkedTo(s, k) EXCEPT !.index = k - 1]

\* A part of a part.
LEMMA PartOf ==
  ASSUME NEW bytes \in ByteSeq, NEW b \in Nat, NEW e \in Nat, b < e, e <= Len(bytes),
         NEW d \in Nat \ {0}, b + d <= e
  PROVE  /\ Len(SubSeq(bytes, b + 1, e)) = e - b
         /\ SubSeq(bytes, b + 1, b + d) = SubSeq(SubSeq(bytes, b + 1, e), 1, d)
<1>1. PICK n : n = Len(bytes)
  OBVIOUS
<1>2. /\ n \in Nat /\ e <= n
      /\ \A i \in 1 .. n : bytes[i] \in Octet
  BY <1>1, LenProperties DEF ByteSeq
<1>3. /\ \A i \in b + 1 .. e : bytes[i] \in Octet
      /\ \A i \in b + 1 .. b + d : bytes[i] \in Octet
  BY <1>2
<1>4. PICK whole, part : whole = SubSeq(bytes, b + 1, e) /\ part = SubSeq(bytes, b + 1, b + d)
  OBVIOUS
<1>5. /\ whole \in Seq(Octet) /\ Len(whole) = e - b
      /\ \A i \in 1 .. e - b : whole[i] = bytes[b + i]
  <2>1. /\ b + 1 \in Int /\ e \in Int /\ e - (b + 1) + 1 = e - b /\ b + 1 <= e
        /\ \A i \in 1 .. e - b : (b + 1) + i - 1 = b + i
    OBVIOUS
  <2>2. /\ whole \in Seq(Octet)
        /\ Len(whole) = IF b + 1 <= e THEN e - (b + 1) + 1 ELSE 0
        /\ \A i \in 1 .. e - (b + 1) + 1 : whole[i] = bytes[(b + 1) + i - 1]
    BY <1>3, <1>4, <2>1, SubSeqProperties
  <2> QED
    BY <2>1, <2>2
<1>6. /\ part \in Seq(Octet) /\ Len(part) = d
      /\ \A i \in 1 .. d : part[i] = bytes[b + i]
  <2>1. /\ b + 1 \in Int /\ b + d \in Int /\ (b + d) - (b + 1) + 1 = d /\ b + 1 <= b + d
        /\ \A i \in 1 .. d : (b + 1) + i - 1 = b + i
    OBVIOUS
  <2>2. /\ part \in Seq(Octet)
        /\ Len(part) = IF b + 1 <= b + d THEN (b + d) - (b + 1) + 1 ELSE 0
        /\ \A i \in 1 .. (b + d) - (b + 1) + 1 : part[i] = bytes[(b + 1) + i - 1]
    BY <1>3, <1>4, <2>1, SubSeqProperties
  <2> QED
    BY <2>1, <2>2
<1>7. d \in 1 .. e - b /\ \A i \in 1 .. d : i \in 1 .. e - b
  OBVIOUS
<1>8. /\ SubSeq(whole, 1, d) \in Seq(Octet) /\ Len(SubSeq(whole, 1, d)) = d
      /\ \A i \in 1 .. d : SubSeq(whole, 1, d)[i] = whole[i]
  <2>1. whole \in Seq(Octet) /\ d \in 1 .. Len(whole)
    BY <1>5, <1>7
  <2> QED
    BY <2>1, PrefixOfSeq, Zenon
<1>9. part = SubSeq(whole, 1, d)
  <2> PICK other : other = SubSeq(whole, 1, d)
    OBVIOUS
  <2>1. other \in Seq(Octet) /\ Len(other) = d /\ \A i \in 1 .. d : other[i] = part[i]
    BY <1>5, <1>6, <1>7, <1>8
  <2>2. other = part
    BY <1>6, <2>1, SeqEqual
  <2> QED
    BY <2>2
<1> QED
  BY <1>4, <1>5, <1>9

\* A string among the arguments, and its length in front of it.
LEMMA StringIsThere ==
  ASSUME NEW s, LaidOut(s), NEW k \in 1 .. Len(s.ends), NEW T, T = s.types[k],
         IsDBusBasicStringlikeType(T)
  PROVE  /\ s.values[k] \in Seq(Octet \ {0}) /\ Len(s.values[k]) \in Nat
         /\ Len(s.values[k]) <= MaxLength(T)
         /\ s.ends[k] = Begin(s, k) + PrefixLength(T) + Len(s.values[k]) + 1
         /\ SubSeq(s.body, Begin(s, k) + 1, s.ends[k])
              = MarshalBasicStringlikeType(T, s.values[k], <<>>)
         /\ Number(SubSeq(s.body, Begin(s, k) + 1, Begin(s, k) + PrefixLength(T)))
              = Len(s.values[k])
         /\ ~(Begin(s, k) + PrefixLength(T) > Len(s.body))
<1>1. PICK b, e, d, str, m, body : /\ b = Begin(s, k) /\ e = s.ends[k] /\ d = PrefixLength(T)
                                   /\ str = s.values[k] /\ m = Len(str) /\ body = s.body
  OBVIOUS
<1>2. /\ body \in ByteSeq /\ Len(body) \in Nat /\ Len(body) <= MaxMessage /\ IsArgument(s, k)
  BY <1>1, LaidOutFacts
<1>3. b \in Nat /\ e \in Nat /\ b < e /\ e <= Len(body)
  BY <1>1, BeginsBehind
<1>4. /\ str \in Seq(Octet \ {0})
      /\ T.code = DBusTypeCodes.SIGNATURE => m <= MaxOctet
      /\ SubSeq(body, b + 1, e) = MarshalBasicStringlikeType(T, str, <<>>)
  BY <1>1, <1>2, Zenon DEF IsArgument
<1>5. m \in Nat /\ d \in {1, 4}
  BY <1>1, <1>4, LenProperties DEF PrefixLength
<1>6. PICK prefix, rest : prefix = Prefix(T, m) /\ rest = str \o <<0>>
  OBVIOUS
<1>7. /\ prefix \in ByteSeq /\ Len(prefix) = d
      /\ m <= MaxLength(T) => Number(prefix) = m
  BY <1>1, <1>5, <1>6, PrefixIsRead
<1>8. PICK none, begun : none = <<>> /\ begun = none \o prefix
  OBVIOUS
<1>9. /\ str \in ByteSeq /\ <<0>> \in ByteSeq /\ none \in ByteSeq /\ Len(none) = 0
      /\ rest \in ByteSeq /\ begun \in ByteSeq
  <2>1. str \in ByteSeq /\ <<0>> \in ByteSeq /\ none \in ByteSeq /\ Len(none) = 0
    BY <1>4, <1>8, ZeroIsAByte DEF ByteSeq
  <2> QED
    BY <1>6, <1>7, <1>8, <2>1, ConcatIsBytes
<1>10. PICK marshalled : marshalled = MarshalBasicStringlikeType(T, str, none)
  OBVIOUS
<1>11. /\ marshalled = (begun \o str) \o <<0>>
       /\ Len(marshalled) = 0 + d + m + 1
  <2>1. /\ MarshalBasicStringlikeType(T, str, none)
             = ((none \o Prefix(T, Len(str))) \o str) \o <<0>>
        /\ Len(MarshalBasicStringlikeType(T, str, none))
             = Len(none) + PrefixLength(T) + Len(str) + 1
    BY <1>4, <1>9, StringIsWritten
  <2> QED
    BY <1>1, <1>6, <1>8, <1>9, <1>10, <2>1, Zenon
<1>12. marshalled = begun \o rest
  <2>1. (begun \o str) \o <<0>> = begun \o (str \o <<0>>)
    BY <1>9, Associates, ZenonT(40)
  <2> QED
    BY <1>6, <1>11, <2>1, Zenon
<1>13. SubSeq(marshalled, 1, d) = prefix
  <2>1. SubSeq((none \o prefix) \o rest, Len(none) + 1, Len(none) + Len(prefix)) = prefix
    BY <1>7, <1>9, MiddleBytes
  <2>2. Len(none) + 1 = 1 /\ Len(none) + Len(prefix) = d
    BY <1>5, <1>7, <1>9
  <2> QED
    BY <1>8, <1>12, <2>1, <2>2, Zenon
<1>14. Len(marshalled) = e - b
  BY <1>2, <1>3, <1>4, <1>5, <1>8, <1>10, PartOf
<1>15. e = b + d + m + 1 /\ b + d <= e /\ d \in Nat \ {0}
  BY <1>3, <1>5, <1>11, <1>14
<1>16. SubSeq(body, b + 1, b + d) = prefix
  <2>1. SubSeq(body, b + 1, b + d) = SubSeq(SubSeq(body, b + 1, e), 1, d)
    BY <1>2, <1>3, <1>15, PartOf
  <2> QED
    BY <1>4, <1>8, <1>10, <1>13, <2>1, Zenon
<1>17. m <= MaxLength(T)
  <2>1. m <= MaxMessage
    BY <1>2, <1>3, <1>5, <1>15, MessageLimit, SMT
  <2> QED
    BY <1>4, <2>1 DEF MaxLength
<1>18. ~(b + d > Len(body))
  BY <1>2, <1>3, <1>5, <1>15
<1> QED
  BY <1>1, <1>4, <1>5, <1>7, <1>15, <1>16, <1>17, <1>18, Zenon

\* What the walk in front of an argument lacks of the one behind it.
LEMMA WalkGoesOn ==
  ASSUME NEW s, NEW k \in Nat \ {0}, NEW c, c = s.types[k].code
  PROVE  /\ Before(s, k).at = Begin(s, k) /\ Before(s, k).index = k - 1
         /\ c # DBusTypeCodes.STRING /\ c # DBusTypeCodes.OBJECT_PATH
              => [Before(s, k) EXCEPT !.at = s.ends[k]] = After(s, k)
         /\ c = DBusTypeCodes.STRING
              => KeepString([Before(s, k) EXCEPT !.at = s.ends[k]], c, s.values[k]) = After(s, k)
         /\ c = DBusTypeCodes.OBJECT_PATH /\ ObjectPath(s.values[k])
              => KeepString([Before(s, k) EXCEPT !.at = s.ends[k]], c, s.values[k]) = After(s, k)
<1> DEFINE S(l) == Kept(s, DBusTypeCodes.STRING, l)
           P(l) == Kept(s, DBusTypeCodes.OBJECT_PATH, l)
<1>1. PICK l, e, b, v : l = k - 1 /\ e = s.ends[k] /\ b = Begin(s, k) /\ v = s.values[k]
  OBVIOUS
<1>2. DBusTypeCodes.STRING # DBusTypeCodes.OBJECT_PATH
  BY CodesAreApart
<1>3. /\ S(k) = IF c = DBusTypeCodes.STRING THEN Insert(S(l), l, v) ELSE S(l)
      /\ P(k) = IF c = DBusTypeCodes.OBJECT_PATH THEN Insert(P(l), l, v) ELSE P(l)
  BY <1>1, KeptGoesOn
<1>4. Before(s, k) = [at |-> b, index |-> l, strings |-> S(l), paths |-> P(l)]
  BY <1>1 DEF Before, WalkedTo
<1>5. After(s, k) = [at |-> e, index |-> l, strings |-> S(k), paths |-> P(k)]
  BY <1>1 DEF After, WalkedTo
<1> HIDE DEF S, P
<1>6. [Before(s, k) EXCEPT !.at = e] = [at |-> e, index |-> l, strings |-> S(l), paths |-> P(l)]
  BY <1>4
<1>7. PICK w : w = [Before(s, k) EXCEPT !.at = e]
  OBVIOUS
<1>8. c = DBusTypeCodes.STRING => KeepString(w, c, v) = After(s, k)
  <2>0. w = [at |-> e, index |-> l, strings |-> S(l), paths |-> P(l)]
    BY <1>6, <1>7
  <2>1. \A strings : [w EXCEPT !.strings = Insert(w.strings, w.index, strings)]
                       = [at |-> e, index |-> l, strings |-> Insert(S(l), l, strings),
                          paths |-> P(l)]
    BY <2>0
  <2> QED
    BY <1>2, <1>3, <1>5, <2>1, Zenon DEF KeepString
<1>9. c = DBusTypeCodes.OBJECT_PATH /\ ObjectPath(v) => KeepString(w, c, v) = After(s, k)
  <2>0. w = [at |-> e, index |-> l, strings |-> S(l), paths |-> P(l)]
    BY <1>6, <1>7
  <2>1. \A path : [w EXCEPT !.paths = Insert(w.paths, w.index, path)]
                    = [at |-> e, index |-> l, strings |-> S(l),
                       paths |-> Insert(P(l), l, path)]
    BY <2>0
  <2> QED
    BY <1>2, <1>3, <1>5, <2>1, Zenon DEF KeepString
<1>10. c # DBusTypeCodes.STRING /\ c # DBusTypeCodes.OBJECT_PATH => w = After(s, k)
  BY <1>3, <1>5, <1>6, <1>7
<1>11. Before(s, k).at = b /\ Before(s, k).index = l
  BY <1>4
<1> QED
  BY <1>1, <1>7, <1>8, <1>9, <1>10, <1>11, Zenon

\* A length is not a fault.
LEMMA LengthIsNoFault ==
  ASSUME NEW n
  PROVE  ~Failed([val |-> n]) /\ [val |-> n].val = n
BY DEF Failed

\* Each kind of argument is walked over to its end.
LEMMA FixedIsWalked ==
  ASSUME NEW s, LaidOut(s), NEW k \in 1 .. Len(s.ends), NEW keep, keep, NEW behind,
         IsDBusBasicFixedTypeCode(s.types[k].code)
  PROVE  WalkArgument(The(s.signature), CodeAt(s, k), s.body, Before(s, k), keep, behind)
           = [i |-> CodeAt(s, k), walk |-> After(s, k)]
<1>1. PICK c, sig, i, w : /\ c = s.types[k].code /\ sig = The(s.signature)
                          /\ i = CodeAt(s, k) /\ w = Before(s, k)
  OBVIOUS
<1>2. k \in Nat \ {0} /\ IsArgument(s, k)
  BY LaidOutFacts
<1>3. sig[i] = c /\ c # DBusTypeCodes.STRING /\ c # DBusTypeCodes.OBJECT_PATH
  BY <1>1, BeginsBehind, CodesAreApart
<1>4. s.ends[k] = Begin(s, k) + GetAlignmentOfSignature(c)
  BY <1>1, <1>2, Zenon DEF IsArgument, IsDBusBasicFixedType, GetAlignmentOfDBusType
<1>5. w.at = Begin(s, k) /\ [w EXCEPT !.at = s.ends[k]] = After(s, k)
  BY <1>1, <1>2, <1>3, WalkGoesOn, ZenonT(40)
<1>6. WalkArgument(sig, i, s.body, w, keep, behind)
        = [i |-> i, walk |-> Moved(w, w.at + GetAlignmentOfSignature(sig[i]))]
  <2>1. IsDBusBasicFixedTypeCode(sig[i])
    BY <1>1, <1>3
  <2> QED
    BY <2>1, FixedCase
<1> QED
  BY <1>1, <1>3, <1>4, <1>5, <1>6, Zenon DEF Moved

\* From in front of a string the walk comes behind it, and keeps it,
LEMMA StringIsWalked ==
  ASSUME NEW s, LaidOut(s), NEW k \in 1 .. Len(s.ends), NEW keep, keep, NEW behind,
         \/ s.types[k].code = DBusTypeCodes.STRING
         \/ s.types[k].code = DBusTypeCodes.OBJECT_PATH
  PROVE  WalkArgument(The(s.signature), CodeAt(s, k), s.body, Before(s, k), keep, behind)
           = [i |-> CodeAt(s, k), walk |-> After(s, k)]
<1>1. PICK T, c, sig, i, w, b, e, str, m, body, size :
        /\ T = s.types[k] /\ c = s.types[k].code /\ sig = The(s.signature)
        /\ i = CodeAt(s, k) /\ w = Before(s, k) /\ b = Begin(s, k) /\ e = s.ends[k]
        /\ str = s.values[k] /\ m = Len(s.values[k]) /\ body = s.body
        /\ size = [val |-> m]
  OBVIOUS
<1>2. k \in Nat \ {0} /\ IsArgument(s, k) /\ body \in ByteSeq /\ Len(body) \in Nat
  BY <1>1, LaidOutFacts
<1>3. /\ sig[i] = c /\ c \in {DBusTypeCodes.STRING, DBusTypeCodes.OBJECT_PATH}
      /\ c # DBusTypeCodes.SIGNATURE /\ T.code = c
      /\ b \in Nat /\ e \in Nat /\ e <= Len(body)
  BY <1>1, BeginsBehind, CodesAreApart
<1>4. IsDBusBasicStringlikeType(T) /\ PrefixLength(T) = 4 /\ PrefixLength(Text) = 4
  <2>1. Text.code # DBusTypeCodes.SIGNATURE
    BY CodesAreApart DEF Text, Basic
  <2> QED
    BY <1>3, <2>1, Zenon DEF IsDBusBasicStringlikeType, IsDBusBasicStringlikeTypeCode, PrefixLength
<1>5. /\ str \in Seq(Octet \ {0}) /\ m \in Nat /\ m <= MaxLength(T)
      /\ e = b + 4 + m + 1
      /\ SubSeq(body, b + 1, e) = MarshalBasicStringlikeType(T, str, <<>>)
      /\ Number(SubSeq(body, b + 1, b + 4)) = m
      /\ ~(b + 4 > Len(body))
  <2> HIDE DEF PrefixLength
  <2> QED
    BY <1>1, <1>4, StringIsThere, SMTT(30)
<1>6. Slice(4, body, b) = size
  BY <1>1, <1>5, Zenon DEF Slice
<1>7. c = DBusTypeCodes.OBJECT_PATH => ObjectPath(str)
  BY <1>1, <1>2, <1>3, <1>4, Zenon DEF IsArgument
<1>8. PICK none, slice : none = <<>> /\ slice = SubSeq(body, b + 1, e)
  OBVIOUS
<1>9. /\ slice = MarshalBasicStringlikeType(Text, str, none)
      /\ m <= MaxLength(Text) /\ Accepts(Text, str)
  <2>1. Text.code = DBusTypeCodes.STRING /\ "iface" \notin DOMAIN Text
    BY DEF Text, Basic
  <2>2. /\ Text.code # DBusTypeCodes.SIGNATURE /\ Text.code # DBusTypeCodes.OBJECT_PATH
    BY <2>1, CodesAreApart, Zenon
  <2>3. MarshalBasicStringlikeType(T, str, none) = MarshalBasicStringlikeType(Text, str, none)
    BY <1>3, <2>2, Zenon DEF MarshalBasicStringlikeType
  <2>4. MaxLength(T) = MaxLength(Text)
    BY <1>3, <2>2, Zenon DEF MaxLength
  <2>5. Accepts(Text, str)
    BY <2>1, <2>2, Zenon DEF Accepts, IsDBusInterfaceName
  <2> QED
    BY <1>5, <1>8, <2>3, <2>4, <2>5, Zenon
<1>10. none \in ByteSeq /\ Len(none) = 0
  BY <1>8 DEF ByteSeq
<1>11. slice \in ByteSeq /\ slice \o none = slice
  <2>1. slice \in Seq(Octet)
    BY <1>5, <1>9, <1>10, StringIsWritten DEF ByteSeq
  <2> QED
    BY <1>8, <2>1, ConcatEmptySeq DEF ByteSeq
<1>12. UnmarshalDBusBasicStringlikeType(Text, slice, 0) = Read(str, Len(slice))
  <2>1. UnmarshalDBusBasicStringlikeType(Text, MarshalBasicStringlikeType(Text, str, none) \o none,
                                         Len(none))
          = Read(str, Len(MarshalBasicStringlikeType(Text, str, none)))
    BY <1>1, <1>5, <1>9, <1>10, StringIsRead
  <2> QED
    BY <1>9, <1>10, <1>11, <2>1, Zenon
<1>13. /\ Whole(UnmarshalDBusBasicStringlikeType(Text, slice, 0), slice) = Read(str, Len(slice))
       /\ ~Failed(Read(str, Len(slice))) /\ Read(str, Len(slice)).val = str
  <2>1. ~Failed(Read(str, Len(slice))) /\ Read(str, Len(slice)).val = str
        /\ Read(str, Len(slice)).at = Len(slice)
    BY DEF Failed, Read
  <2> QED
    BY <1>12, <2>1, Zenon DEF Whole
<1>14. w.at = b /\ KeepString([w EXCEPT !.at = e], c, str) = After(s, k)
  BY <1>1, <1>2, <1>3, <1>7, WalkGoesOn
<1>15. ReadString(w, c, body, e) = After(s, k)
  <2>1. ~(e > Len(body))
    BY <1>2, <1>3
  <2> QED
    BY <1>8, <1>13, <1>14, <2>1, Zenon DEF ReadString
<1>16. WalkString(w, c, body, keep, size) = After(s, k)
  <2>1. ~Failed(size) /\ size.val = m
    BY <1>1, LengthIsNoFault
  <2>2. w.at + size.val + 5 = e
    BY <1>3, <1>5, <1>14, <2>1
  <2> QED
    BY <1>15, <2>1, <2>2, Zenon DEF WalkString
<1>17. WalkArgument(sig, i, body, w, keep, behind)
         = [i |-> i, walk |-> WalkString(w, sig[i], body, keep, Slice(4, body, w.at))]
  <2>1. sig[i] = DBusTypeCodes.STRING \/ sig[i] = DBusTypeCodes.OBJECT_PATH
    BY <1>3
  <2> QED
    BY <2>1, StringCase, ZenonT(40)
<1> QED
  BY <1>1, <1>3, <1>6, <1>14, <1>16, <1>17, Zenon

\* from in front of a signature it comes behind it,
LEMMA SignatureIsWalked ==
  ASSUME NEW s, LaidOut(s), NEW k \in 1 .. Len(s.ends), NEW keep, keep, NEW behind,
         s.types[k].code = DBusTypeCodes.SIGNATURE
  PROVE  WalkArgument(The(s.signature), CodeAt(s, k), s.body, Before(s, k), keep, behind)
           = [i |-> CodeAt(s, k), walk |-> After(s, k)]
<1>1. PICK T, c, sig, i, w, b, e, m, body, size :
        /\ T = s.types[k] /\ c = s.types[k].code /\ sig = The(s.signature)
        /\ i = CodeAt(s, k) /\ w = Before(s, k) /\ b = Begin(s, k) /\ e = s.ends[k]
        /\ m = Len(s.values[k]) /\ body = s.body /\ size = [val |-> m]
  OBVIOUS
<1>2. k \in Nat \ {0}
  BY LaidOutFacts
<1>3. /\ sig[i] = c /\ c = DBusTypeCodes.SIGNATURE /\ T.code = c /\ b \in Nat /\ e \in Nat
      /\ c # DBusTypeCodes.STRING /\ c # DBusTypeCodes.OBJECT_PATH
  BY <1>1, BeginsBehind, CodesAreApart
<1>4. IsDBusBasicStringlikeType(T) /\ PrefixLength(T) = 1
  BY <1>3, Zenon DEF IsDBusBasicStringlikeType, IsDBusBasicStringlikeTypeCode, PrefixLength
<1>5. /\ m \in Nat /\ e = b + 1 + m + 1 /\ Number(SubSeq(body, b + 1, b + 1)) = m
      /\ ~(b + 1 > Len(body))
  BY <1>1, <1>4, StringIsThere
<1>6. Slice(1, body, b) = size
  BY <1>1, <1>5, Zenon DEF Slice
<1>7. w.at = b /\ [w EXCEPT !.at = e] = After(s, k)
  BY <1>1, <1>2, <1>3, WalkGoesOn, ZenonT(40)
<1>8. WalkByte(w, c, body, behind, size) = After(s, k)
  <2>1. ~Failed(size) /\ size.val = m
    BY <1>1, LengthIsNoFault
  <2>2. w.at + size.val + 2 = e
    BY <1>3, <1>5, <1>7, <2>1
  <2> QED
    BY <1>3, <1>7, <2>1, <2>2, Zenon DEF WalkByte
<1>9. WalkArgument(sig, i, body, w, keep, behind)
        = [i |-> i, walk |-> WalkByte(w, sig[i], body, behind, Slice(1, body, w.at))]
  BY <1>3, SignatureCase, ZenonT(40)
<1> QED
  BY <1>1, <1>3, <1>6, <1>7, <1>8, <1>9, Zenon

\* and from in front of an array it comes behind its elements.
LEMMA ArrayIsWalked ==
  ASSUME NEW s, LaidOut(s), NEW k \in 1 .. Len(s.ends), NEW keep, keep, NEW behind,
         s.types[k].code = DBusTypeCodes.ARRAY
  PROVE  WalkArgument(The(s.signature), CodeAt(s, k), s.body, Before(s, k), keep, behind)
           = [i |-> CodeAt(s, k) + 1, walk |-> After(s, k)]
<1>1. PICK T, c, sig, i, w, b, e, body, next :
        /\ T = s.types[k] /\ c = s.types[k].code /\ sig = The(s.signature)
        /\ i = CodeAt(s, k) /\ w = Before(s, k) /\ b = Begin(s, k) /\ e = s.ends[k]
        /\ body = s.body /\ next = s.types[k].of.code
  OBVIOUS
<1>2. /\ k \in Nat \ {0} /\ IsArgument(s, k) /\ IsPlain(T) /\ body \in ByteSeq /\ Len(body) \in Nat
      /\ Len(body) <= MaxMessage /\ sig \in ByteSeq
  BY <1>1, LaidOutFacts DEF ByteSeq
<1>3. /\ sig[i] = c /\ c = DBusTypeCodes.ARRAY /\ b \in Nat /\ e \in Nat /\ e <= Len(body)
      /\ c # DBusTypeCodes.STRING /\ c # DBusTypeCodes.OBJECT_PATH
  <2>1. DBusTypeCodes.ARRAY # DBusTypeCodes.STRING
        /\ DBusTypeCodes.ARRAY # DBusTypeCodes.OBJECT_PATH
    BY DEF DBusTypeCodes
  <2> QED
    BY <1>1, <2>1, BeginsBehind
<1>4. PICK size \in 0 .. Len(body) :
        /\ e = SkipPadding(b + 4, GetAlignmentOfSignature(next)) + size
        /\ SubSeq(body, b + 1, b + 4) = UInt32(size)
  BY <1>1, <1>2, <1>3, Zenon DEF IsArgument, GetAlignmentOfDBusType
<1>5. size \in Nat /\ Number(UInt32(size)) = size
  <2>1. size \in Nat /\ size <= MaxMessage
    <3>1. MaxMessage \in Nat
      BY MessageLimit
    <3> QED
      BY <1>2, <3>1
  <2> QED
    BY <2>1, NumberIsRead
<1>6. IsDBusBasicFixedTypeCode(next) \/ IsDBusBasicStringlikeTypeCode(next)
  <2>1. ~IsDBusBasicFixedTypeCode(T.code) /\ ~IsDBusBasicStringlikeTypeCode(T.code)
    BY <1>1, <1>3, CodesAreApart
  <2> QED
    BY <1>1, <1>2, <2>1, Zenon DEF IsPlain, IsDBusBasicFixedType, IsDBusBasicStringlikeType
<1>7. PICK a : a = GetAlignmentOfSignature(next)
  OBVIOUS
<1>8. a \in {1, 2, 4, 8} /\ a # NoAlignment /\ next # DBusTypeCodes.DICT_BEGIN
  BY <1>6, <1>7, BasicAlignment, CodesAreApart
<1>9. Code(sig, i + 1) = next
  <2>1. sig[i + 1] = next
    BY <1>1, <1>2, <1>3, Zenon DEF IsArgument
  <2>2. i + 1 \in DOMAIN sig
    <3>1. i \in Nat \ {0} /\ CodeAt(s, k + 1) = i + 2 /\ i + 2 <= Len(sig) + 1
      BY <1>1, <1>2, <1>3, CodesAreThere, CodeAtGoesOn
    <3>2. Len(sig) \in Nat /\ DOMAIN sig = 1 .. Len(sig)
      BY <1>2, LenProperties DEF ByteSeq
    <3> QED
      BY <3>1, <3>2
  <2> QED
    BY <2>1, <2>2, Zenon DEF Code
<1>10. PICK begin : begin = SkipPadding(b + 4, a)
  OBVIOUS
<1>11. begin \in Nat /\ b + 4 <= begin /\ e = begin + size
  <2>1. b + 4 \in Nat
    BY <1>3
  <2> QED
    BY <1>4, <1>7, <1>8, <1>10, <2>1, PaddingIsSmall
<1>12. Slice(4, body, b) = [val |-> size]
  <2>1. ~(b + 4 > Len(body))
    BY <1>2, <1>3, <1>5, <1>11
  <2> QED
    BY <1>4, <1>5, <2>1, Zenon DEF Slice
<1>13. w.at = b /\ [w EXCEPT !.at = e] = After(s, k)
  BY <1>1, <1>2, <1>3, WalkGoesOn, ZenonT(40)
<1>14. WalkContainer(w, [val |-> size], next) = After(s, k)
  <2>1. WalkArray(w, size, next) = After(s, k)
    BY <1>7, <1>10, <1>11, <1>13, Zenon DEF WalkArray
  <2> QED
    BY <1>7, <1>8, <2>1, LengthIsNoFault, Zenon DEF WalkContainer
<1>15. WalkArgument(sig, i, body, w, keep, behind)
         = [i |-> i + 1, walk |-> WalkContainer(w, Slice(4, body, w.at), Code(sig, i + 1))]
  BY <1>3, <1>8, <1>9, ArrayCase
<1> QED
  BY <1>1, <1>9, <1>12, <1>13, <1>14, <1>15, Zenon

\* Whatever its type, an argument that is plain is walked over to its end.
LEMMA ArgumentIsWalked ==
  ASSUME NEW s, LaidOut(s), NEW k \in 1 .. Len(s.ends), NEW keep, keep, NEW behind
  PROVE  WalkArgument(The(s.signature), CodeAt(s, k), s.body, Before(s, k), keep, behind)
           = [i |-> CodeAt(s, k + 1) - 1, walk |-> After(s, k)]
<1>1. PICK c, i, next, sig, body, w : /\ c = s.types[k].code /\ i = CodeAt(s, k)
                                      /\ next = CodeAt(s, k + 1) /\ sig = The(s.signature)
                                      /\ body = s.body /\ w = Before(s, k)
  OBVIOUS
<1>2. k \in Nat \ {0} /\ IsPlain(s.types[k])
  BY LaidOutFacts
<1>3. i \in Nat /\ next = i + IF c = DBusTypeCodes.ARRAY THEN 2 ELSE 1
  BY <1>1, <1>2, CodeAtGoesOn
<1>4. \/ IsDBusBasicFixedTypeCode(c) \/ c = DBusTypeCodes.ARRAY
      \/ c = DBusTypeCodes.STRING \/ c = DBusTypeCodes.OBJECT_PATH
      \/ c = DBusTypeCodes.SIGNATURE
  BY <1>1, <1>2, Zenon DEF IsPlain, IsDBusBasicFixedType, IsDBusBasicStringlikeType,
                           IsDBusBasicStringlikeTypeCode
<1>5. CASE c = DBusTypeCodes.ARRAY
  <2>1. WalkArgument(sig, i, body, w, keep, behind) = [i |-> i + 1, walk |-> After(s, k)]
    BY <1>1, <1>5, ArrayIsWalked
  <2>2. next - 1 = i + 1
    BY <1>3, <1>5
  <2> QED
    BY <1>1, <2>1, <2>2, Zenon
<1>6. CASE c # DBusTypeCodes.ARRAY
  <2>1. WalkArgument(sig, i, body, w, keep, behind) = [i |-> i, walk |-> After(s, k)]
    <3>1. CASE IsDBusBasicFixedTypeCode(c)
      BY <1>1, <3>1, FixedIsWalked
    <3>2. CASE c = DBusTypeCodes.STRING \/ c = DBusTypeCodes.OBJECT_PATH
      BY <1>1, <3>2, StringIsWalked
    <3>3. CASE c = DBusTypeCodes.SIGNATURE
      BY <1>1, <3>3, SignatureIsWalked
    <3> QED
      BY <1>4, <1>6, <3>1, <3>2, <3>3, Zenon
  <2>2. next - 1 = i
    BY <1>3, <1>6
  <2> QED
    BY <1>1, <2>1, <2>2, Zenon
<1> QED
  BY <1>5, <1>6, Zenon

\* The loop in front of the argument behind the k-th.
TurnedTo(s, k) == [i |-> CodeAt(s, k + 1), walk |-> WalkedTo(s, k)]

\* One turn takes one argument, whichever it is.
LEMMA TurnTakesOne ==
  ASSUME NEW s, LaidOut(s), NEW k \in 1 .. Len(s.ends), NEW keep, keep, NEW behind
  PROVE  Turn(TurnedTo(s, k - 1), The(s.signature), s.body, keep, behind) = TurnedTo(s, k)
<1>1. PICK i, next, sig, body, turn, a, b : 
        /\ i = CodeAt(s, k) /\ next = CodeAt(s, k + 1) /\ sig = The(s.signature)
        /\ body = s.body /\ turn = TurnedTo(s, k - 1)
        /\ a = GetAlignmentOfSignature(s.types[k].code) /\ b = Begin(s, k)
  OBVIOUS
<1>2. /\ k \in Nat \ {0} /\ Len(sig) <= 255 /\ Len(sig) \in Nat
  BY <1>1, LaidOutFacts, LenProperties
<1>3. /\ i \in Nat \ {0} /\ next \in Nat /\ i < next /\ next <= Len(sig) + 1 /\ k <= Len(sig)
  BY <1>1, CodesAreThere
<1>4. /\ sig[i] = s.types[k].code /\ a # NoAlignment /\ a \in {1, 2, 4, 8}
      /\ b = SkipPadding(IF k = 1 THEN 0 ELSE s.ends[k - 1], a)
  BY <1>1, BeginsBehind
<1>5. turn.i = i /\ turn.walk = WalkedTo(s, k - 1)
  <2>1. (k - 1) + 1 = k
    BY <1>2
  <2> QED
    BY <1>1, <2>1 DEF TurnedTo
<1>6. ~Failed(turn.walk) /\ turn.walk.at = IF k = 1 THEN 0 ELSE s.ends[k - 1]
  <2>1. k - 1 = 0 <=> k = 1
    BY <1>2
  <2> QED
    BY <1>5, <2>1 DEF WalkedTo, Failed
<1>7. [turn.walk EXCEPT !.at = SkipPadding(turn.walk.at, a)] = Before(s, k)
  BY <1>1, <1>4, <1>5, <1>6, Zenon DEF Before
<1>8. PICK taken : taken = WalkArgument(sig, i, body, Before(s, k), keep, behind)
  OBVIOUS
<1>9. taken.i = next - 1 /\ taken.walk = After(s, k)
  <2>1. WalkArgument(sig, i, body, Before(s, k), keep, behind)
          = [i |-> next - 1, walk |-> After(s, k)]
    BY <1>1, ArgumentIsWalked
  <2> QED
    <3>1. taken = [i |-> next - 1, walk |-> After(s, k)]
      BY <1>8, <2>1, Zenon
    <3> QED
      BY <3>1
<1>10. PICK e, strings, paths :
         /\ e = IF k = 0 THEN 0 ELSE s.ends[k]
         /\ strings = Kept(s, DBusTypeCodes.STRING, k)
         /\ paths = Kept(s, DBusTypeCodes.OBJECT_PATH, k)
  OBVIOUS
<1>11. /\ WalkedTo(s, k) = [at |-> e, index |-> k, strings |-> strings, paths |-> paths]
       /\ After(s, k) = [at |-> e, index |-> k - 1, strings |-> strings, paths |-> paths]
  <2>1. WalkedTo(s, k) = [at |-> e, index |-> k, strings |-> strings, paths |-> paths]
    BY <1>10, Zenon DEF WalkedTo
  <2> QED
    BY <2>1 DEF After
<1>12. /\ (k - 1 + 1) % 256 = k /\ taken.i + 1 = next /\ ~(turn.i > Len(sig))
       /\ GetAlignmentOfSignature(sig[turn.i]) = a
  <2>1. k <= 255 /\ k % 256 = k /\ (k - 1) + 1 = k /\ (next - 1) + 1 = next /\ ~(i > Len(sig))
    BY <1>2, <1>3
  <2> QED
    BY <1>1, <1>4, <1>5, <1>9, <2>1, Zenon
<1>13. /\ ~Failed(taken.walk)
       /\ [taken.walk EXCEPT !.index = (taken.walk.index + 1) % 256] = WalkedTo(s, k)
  <2>1. taken.walk = [at |-> e, index |-> k - 1, strings |-> strings, paths |-> paths]
    BY <1>9, <1>11
  <2> QED
    BY <1>12, <1>11, <2>1 DEF Failed
<1>14. Advance(taken) = [i |-> next, walk |-> WalkedTo(s, k)]
  BY <1>12, <1>13, Zenon DEF Advance
<1>15. Turn(turn, sig, body, keep, behind) = Advance(taken)
  BY <1>4, <1>5, <1>6, <1>7, <1>8, <1>12, Zenon DEF Turn
<1> QED
  BY <1>1, <1>14, <1>15, Zenon DEF TurnedTo

\* There are turns left when all arguments are taken: they do nothing.
LEMMA TurnAtTheEnd ==
  ASSUME NEW s, LaidOut(s), NEW keep, NEW behind
  PROVE  Turn(TurnedTo(s, Len(s.ends)), The(s.signature), s.body, keep, behind)
           = TurnedTo(s, Len(s.ends))
<1>1. PICK n, sig, turn : n = Len(s.ends) /\ sig = The(s.signature) /\ turn = TurnedTo(s, n)
  OBVIOUS
<1>2. Len(sig) = CodeAt(s, n + 1) - 1 /\ sig \in Seq(Octet)
  BY <1>1, LaidOutFacts
<1>3. CodeAt(s, n + 1) \in Nat
  BY <1>1, LaidOutFacts, CodesAreThere, SMTT(30)
<1>4. turn.i = CodeAt(s, n + 1)
  BY <1>1 DEF TurnedTo
<1>5. turn.i > Len(sig)
  BY <1>2, <1>3, <1>4
<1> QED
  BY <1>1, <1>5, Zenon DEF Turn

\* The walk in front of the first argument.
LEMMA WalkStarts ==
  ASSUME NEW s
  PROVE  TurnedTo(s, 0) = [i |-> 1, walk |-> Start]
<1>1. \A c : Kept(s, c, 0) = {}
  BY DEF Kept
<1>2. WalkedTo(s, 0) = Start
  <2> PICK strings, paths : /\ strings = Kept(s, DBusTypeCodes.STRING, 0)
                            /\ paths = Kept(s, DBusTypeCodes.OBJECT_PATH, 0)
    OBVIOUS
  <2>1. WalkedTo(s, 0) = [at |-> 0, index |-> 0, strings |-> strings, paths |-> paths]
    BY DEF WalkedTo
  <2> QED
    BY <1>1, <2>1 DEF Start
<1>3. CodeAt(s, 0 + 1) = 1
  <2>1. 1 \in Nat \ {0} /\ 0 + 1 = 1
    OBVIOUS
  <2> QED
    BY <2>1, CodeAtGoesOn
<1> QED
  BY <1>2, <1>3 DEF TurnedTo

\* The loop ends behind the last argument.
LEMMA LoopEnds ==
  ASSUME NEW s, LaidOut(s), NEW keep, keep, NEW behind
  PROVE  Loop(The(s.signature), s.body, Start, keep, behind) = WalkedTo(s, Len(s.ends))
<1> PICK n, sig, body, base : /\ n = Len(s.ends) /\ sig = The(s.signature) /\ body = s.body
                              /\ base = [i |-> 1, walk |-> Start]
  OBVIOUS
<1> DEFINE result == FoldLeft(LAMBDA turn, c : Turn(turn, sig, body, keep, behind), base, sig)
           step(turn) == Turn(turn, sig, body, keep, behind)
           fold(f) == [p \in SUBSET DOMAIN sig |->
                         IF p = {} THEN base ELSE step(f[p \ {Max(p)}])]
           turns == {TurnedTo(s, k) : k \in 0 .. n}
           m == Len(sig)
           Taken(i) == IF i <= n THEN i ELSE n
<1>1. result = (CHOOSE f : f = fold(f))[DOMAIN sig]
  BY DEF FoldLeft, MapThenFoldSet
<1>2. /\ n \in Nat \ {0} /\ m \in Nat /\ DOMAIN sig = 1 .. m /\ n <= m
  <2>1. n \in Nat \ {0} /\ sig \in Seq(Octet)
    BY LaidOutFacts
  <2>2. n <= m
    <3>1. n \in 1 .. Len(s.ends)
      BY <2>1
    <3> QED
      BY <3>1, CodesAreThere
  <2> QED
    BY <2>1, <2>2, LenProperties
<1>3. /\ base = TurnedTo(s, 0)
      /\ \A k \in 1 .. n : step(TurnedTo(s, k - 1)) = TurnedTo(s, k)
      /\ step(TurnedTo(s, n)) = TurnedTo(s, n)
  <2>1. base = TurnedTo(s, 0)
    BY WalkStarts
  <2>2. ASSUME NEW k \in 1 .. n PROVE step(TurnedTo(s, k - 1)) = TurnedTo(s, k)
    BY TurnTakesOne
  <2>3. step(TurnedTo(s, n)) = TurnedTo(s, n)
    BY TurnAtTheEnd
  <2> QED
    BY <2>1, <2>2, <2>3
<1> HIDE DEF result, step, m
<1>4. base \in turns /\ \A turn \in turns : step(turn) \in turns
  <2>1. base \in turns
    BY <1>2, <1>3
  <2>2. ASSUME NEW turn \in turns PROVE step(turn) \in turns
    <3>1. PICK k \in 0 .. n : turn = TurnedTo(s, k)
      OBVIOUS
    <3>2. CASE k = n
      BY <1>3, <3>1, <3>2
    <3>3. CASE k # n
      <4>1. k + 1 \in 1 .. n /\ (k + 1) - 1 = k /\ k + 1 \in 0 .. n
        BY <1>2, <3>1, <3>3
      <4>2. step(turn) = TurnedTo(s, k + 1)
        BY <1>3, <3>1, <4>1
      <4> QED
        BY <4>1, <4>2
    <3> QED
      BY <3>2, <3>3
  <2> QED
    BY <2>1, <2>2
<1> HIDE DEF turns
<1>5. \E f : f = fold(f)
  <2> DEFINE h == [x \in turns \X (1 .. m) |-> step(x[1])]
  <2>1. IsStep(h, turns, m)
    BY <1>4 DEF IsStep
  <2>2. PICK f : IsFold(f, turns, m, base, h)
    BY <1>2, <1>4, <2>1, FoldExists
  <2>3. ASSUME NEW p \in SUBSET (1 .. m), p # {}
        PROVE  f[p] = step(f[p \ {Max(p)}])
    <3>1. Max(p) \in 1 .. m
      BY <1>2, <2>3, MaxIsGreatest
    <3>2. f[p \ {Max(p)}] \in turns
      BY <2>2 DEF IsFold
    <3>3. h[<<f[p \ {Max(p)}], Max(p)>>] = step(f[p \ {Max(p)}])
      BY <3>1, <3>2
    <3>4. f[p] = h[<<f[p \ {Max(p)}], Max(p)>>]
      BY <2>2, <2>3 DEF IsFold
    <3> QED
      BY <3>3, <3>4
  <2>4. f = fold(f)
    BY <1>2, <2>2, <2>3 DEF IsFold
  <2> QED
    BY <2>4
<1> PICK f : f = CHOOSE g : g = fold(g)
  OBVIOUS
<1>6. f = fold(f)
  BY <1>5
<1> DEFINE done == {i \in 0 .. m : f[1 .. i] = TurnedTo(s, Taken(i))}
<1>7. 0 \in done
  <2>1. 1 .. 0 = {} /\ {} \in SUBSET DOMAIN sig /\ Taken(0) = 0
    BY <1>2
  <2>2. f[{}] = base
    BY <1>6, <2>1
  <2> QED
    BY <1>2, <1>3, <2>1, <2>2
<1>8. ASSUME NEW i \in 1 .. m, i - 1 \in done
      PROVE  i \in done
  <2>1. /\ 1 .. i \in SUBSET DOMAIN sig /\ 1 .. i # {}
        /\ Max(1 .. i) = i /\ (1 .. i) \ {i} = 1 .. i - 1
    BY <1>2, Positions
  <2>2. f[1 .. i] = step(f[1 .. i - 1])
    BY <1>6, <2>1, ZenonT(40)
  <2>3. f[1 .. i - 1] = TurnedTo(s, Taken(i - 1))
    BY <1>8
  <2>4. step(TurnedTo(s, Taken(i - 1))) = TurnedTo(s, Taken(i))
    <3>1. CASE i <= n
      <4>1. Taken(i - 1) = i - 1 /\ Taken(i) = i /\ i \in 1 .. n
        BY <1>2, <3>1
      <4> HIDE DEF Taken
      <4> QED
        BY <1>3, <4>1
    <3>2. CASE ~(i <= n)
      <4>1. Taken(i - 1) = n /\ Taken(i) = n
        BY <1>2, <3>2
      <4> HIDE DEF Taken
      <4> QED
        BY <1>3, <4>1
    <3> QED
      BY <3>1, <3>2
  <2> QED
    BY <2>2, <2>3, <2>4
<1> HIDE DEF done
<1>9. m \in done
  <2>1. \A i \in 0 .. m : i \in done
    BY <1>2, <1>7, <1>8, UpToN
  <2> QED
    BY <1>2, <2>1
<1>10. f[1 .. m] = TurnedTo(s, n)
  <2>1. Taken(m) = n
    BY <1>2
  <2> QED
    BY <1>9, <2>1 DEF done
<1>11. result = TurnedTo(s, n)
  BY <1>1, <1>2, <1>10
<1>12. Loop(sig, body, Start, keep, behind) = result.walk
  BY Zenon DEF Loop, result
<1> QED
  BY <1>11, <1>12 DEF TurnedTo

\* The walk over a signal finds every argument where it is.
THEOREM ArgumentsAreFound ==
  ASSUME NEW s, LaidOut(s)
  PROVE  WalkSignature(The(s.signature), s.body) = WalkedTo(s, Len(s.ends))
<1>1. \A behind : Loop(The(s.signature), s.body, Start, TRUE, behind) = WalkedTo(s, Len(s.ends))
  <2> PICK keep : keep = TRUE
    OBVIOUS
  <2> TAKE behind
  <2>1. Loop(The(s.signature), s.body, Start, keep, behind) = WalkedTo(s, Len(s.ends))
    BY LoopEnds
  <2> QED
    BY <2>1, Zenon
<1> QED
  BY <1>1, Zenon DEF WalkSignature

\* FindArg() answers with the argument of the index if it has the type.
LEMMA ArgumentOfIndex ==
  ASSUME NEW s, DOMAIN s.types = 1 .. Len(s.ends), NEW c, NEW index \in Nat
  PROVE  FindArg(Kept(s, c, Len(s.ends)), index) = Arg(s, index, {c})
<1> PICK n, K : n = Len(s.ends) /\ K = Kept(s, c, n)
  OBVIOUS
<1>1. K = {[index |-> j - 1, value |-> s.values[j]] : j \in {l \in 1 .. n : s.types[l].code = c}}
  BY DEF Kept
<1>2. \A e \in K : \E j \in 1 .. n : /\ s.types[j].code = c /\ e.index = j - 1
                                      /\ e.value = s.values[j]
  BY <1>1
<1>3. CASE index + 1 \in 1 .. n /\ s.types[index + 1].code = c
  <2>1. Arg(s, index, {c}) = {s.values[index + 1]}
    BY <1>3 DEF Arg
  <2>2. [index |-> index, value |-> s.values[index + 1]] \in K
    <3>1. (index + 1) - 1 = index
      OBVIOUS
    <3> QED
      BY <1>1, <1>3, <3>1
  <2>3. \A e \in K : e.index = index => e.value = s.values[index + 1]
    <3> TAKE e \in K
    <3>1. PICK j \in 1 .. n : e.index = j - 1 /\ e.value = s.values[j]
      BY <1>2
    <3> QED
      BY <3>1
  <2>4. FindArg(K, index) = {s.values[index + 1]}
    BY <2>2, <2>3 DEF FindArg
  <2> QED
    BY <2>1, <2>4
<1>4. CASE ~(index + 1 \in 1 .. n /\ s.types[index + 1].code = c)
  <2>1. Arg(s, index, {c}) = {}
    BY <1>4 DEF Arg
  <2>2. \A e \in K : e.index # index
    <3> TAKE e \in K
    <3>1. PICK j \in 1 .. n : s.types[j].code = c /\ e.index = j - 1
      BY <1>2
    <3> QED
      BY <1>4, <3>1
  <2>3. FindArg(K, index) = {}
    BY <2>2 DEF FindArg
  <2> QED
    BY <2>1, <2>3
<1> QED
  BY <1>3, <1>4

-----------------------------------------------------------------------------
(* Paths and their elements                                                *)

\* What a path may be split into.
Splits == Seq(Seq(Nat))

\* The elements with one more character.
Longer(split, c) ==
  IF c = Slash THEN Append(split, <<c>>)
  ELSE IF split = <<>> \/ split[Len(split)] = <<Slash>> THEN Append(split, <<c>>)
  ELSE [split EXCEPT ![Len(split)] = Append(split[Len(split)], c)]

\* It is a sequence of texts still.
LEMMA LongerIsSplit ==
  ASSUME NEW split \in Splits, NEW c \in Nat
  PROVE  Longer(split, c) \in Splits
<1> PICK n, slash : n = Len(split) /\ slash = <<c>>
  OBVIOUS
<1>1. slash \in Seq(Nat) /\ n \in Nat /\ (split # <<>> => n \in 1 .. n /\ n \in DOMAIN split)
  BY LenProperties, EmptySeq DEF Splits
<1>2. Append(split, slash) \in Splits
  BY <1>1, AppendProperties DEF Splits
<1>3. ASSUME split # <<>>
      PROVE  [split EXCEPT ![n] = Append(split[n], c)] \in Splits
  <2>1. split[n] \in Seq(Nat)
    BY <1>1, <1>3, ElementOfSeq DEF Splits
  <2>2. Append(split[n], c) \in Seq(Nat)
    BY <2>1, AppendProperties
  <2> QED
    BY <1>1, <1>3, <2>2, ExceptSeq DEF Splits
<1> QED
  BY <1>2, <1>3 DEF Longer

\* f[i] are the elements of the first i characters.
SplitUp(str, f) ==
  /\ f \in [0 .. Len(str) -> Splits]
  /\ f[0] = <<>>
  /\ \A i \in 1 .. Len(str) : f[i] = Longer(f[i - 1], str[i])
  /\ SplitString(str) = f[Len(str)]

\* The fold that splits a path is this function.
LEMMA SplitGoesOn ==
  ASSUME NEW str \in Seq(Nat)
  PROVE  \E f : SplitUp(str, f)
<1> DEFINE result == FoldLeft(LAMBDA split, c :
             IF c = Slash THEN Append(split, <<c>>)
             ELSE IF split = <<>> \/ Last(split) = <<Slash>> THEN Append(split, <<c>>)
             ELSE [split EXCEPT ![Len(split)] = Append(@, c)],
           <<>>, str)
           step(split, c) ==
             IF c = Slash THEN Append(split, <<c>>)
             ELSE IF split = <<>> \/ Last(split) = <<Slash>> THEN Append(split, <<c>>)
             ELSE [split EXCEPT ![Len(split)] = Append(@, c)]
           fold(f) == [p \in SUBSET DOMAIN str |->
                         IF p = {} THEN <<>> ELSE step(f[p \ {Max(p)}], str[Max(p)])]
           m == Len(str)
<1>1. result = (CHOOSE f : f = fold(f))[DOMAIN str]
  BY DEF FoldLeft, MapThenFoldSet
<1>2. m \in Nat /\ DOMAIN str = 1 .. m /\ \A i \in 1 .. m : str[i] \in Nat
  BY LenProperties, ElementOfSeq
<1>3. \A split, c : step(split, c) = Longer(split, c)
  BY Zenon DEF Longer, Last
<1>4. SplitString(str) = result
  BY Zenon DEF SplitString
<1> HIDE DEF result, step, m
<1>5. <<>> \in Splits /\ \A split \in Splits, i \in 1 .. m : step(split, str[i]) \in Splits
  BY <1>2, <1>3, LongerIsSplit DEF Splits
<1>6. \E f : f = fold(f)
  <2> DEFINE h == [x \in Splits \X (1 .. m) |-> step(x[1], str[x[2]])]
  <2>1. IsStep(h, Splits, m)
    BY <1>5 DEF IsStep
  <2>2. PICK f : IsFold(f, Splits, m, <<>>, h)
    BY <1>2, <1>5, <2>1, FoldExists
  <2>3. ASSUME NEW p \in SUBSET (1 .. m), p # {}
        PROVE  f[p] = step(f[p \ {Max(p)}], str[Max(p)])
    <3>1. Max(p) \in 1 .. m
      BY <1>2, <2>3, MaxIsGreatest
    <3>2. f[p \ {Max(p)}] \in Splits
      BY <2>2 DEF IsFold
    <3>3. h[<<f[p \ {Max(p)}], Max(p)>>] = step(f[p \ {Max(p)}], str[Max(p)])
      BY <3>1, <3>2
    <3>4. f[p] = h[<<f[p \ {Max(p)}], Max(p)>>]
      BY <2>2, <2>3 DEF IsFold
    <3> QED
      BY <3>3, <3>4
  <2>4. f = fold(f)
    BY <1>2, <2>2, <2>3 DEF IsFold
  <2> QED
    BY <2>4
<1> PICK f : f = CHOOSE g : g = fold(g)
  OBVIOUS
<1>7. f = fold(f)
  BY <1>6
<1> DEFINE g == [i \in 0 .. m |-> f[1 .. i]]
           done == {i \in 0 .. m : f[1 .. i] \in Splits}
<1>8. f[1 .. 0] = <<>>
  <2>1. 1 .. 0 = {} /\ {} \in SUBSET DOMAIN str
    BY <1>2
  <2> QED
    BY <1>7, <2>1
<1>9. \A i \in 1 .. m : f[1 .. i] = step(f[1 .. i - 1], str[i])
  <2> TAKE i \in 1 .. m
  <2>1. /\ 1 .. i \in SUBSET DOMAIN str /\ 1 .. i # {}
        /\ Max(1 .. i) = i /\ (1 .. i) \ {i} = 1 .. i - 1
    BY <1>2, Positions
  <2> QED
    BY <1>7, <2>1
<1>10. \A i \in 0 .. m : i \in done
  <2>1. 0 \in done
    BY <1>2, <1>5, <1>8
  <2>2. ASSUME NEW i \in 1 .. m, i - 1 \in done PROVE i \in done
    <3>1. step(f[1 .. i - 1], str[i]) \in Splits
      BY <1>5, <2>2
    <3>2. f[1 .. i] = step(f[1 .. i - 1], str[i])
      BY <1>9, Zenon
    <3>3. f[1 .. i] \in Splits /\ i \in 0 .. m
      BY <1>2, <3>1, <3>2
    <3> QED
      BY <3>3
  <2> HIDE DEF done
  <2> QED
    BY <1>2, <2>1, <2>2, UpToN
<1>11. \A i \in 1 .. m : g[i] = Longer(g[i - 1], str[i])
  <2> TAKE i \in 1 .. m
  <2>1. f[1 .. i] = Longer(f[1 .. i - 1], str[i])
    BY <1>3, <1>9, Zenon
  <2>2. i \in 0 .. m /\ i - 1 \in 0 .. m
    BY <1>2
  <2> QED
    BY <2>1, <2>2
<1>12. g \in [0 .. m -> Splits] /\ g[0] = <<>> /\ g[m] = result
  <2>1. g[m] = result
    BY <1>1, <1>2
  <2>2. \A i \in 0 .. m : f[1 .. i] \in Splits
    BY <1>10
  <2>3. g \in [0 .. m -> Splits]
    BY <2>2
  <2>4. g[0] = <<>>
    BY <1>2, <1>8
  <2> QED
    BY <2>1, <2>3, <2>4
<1>13. SplitUp(str, g)
  <2> HIDE DEF g
  <2> QED
    BY <1>4, <1>11, <1>12 DEF SplitUp, m
<1> QED
  BY <1>13

\* What a longer split has in common with a shorter one.
LEMMA LongerKeeps ==
  ASSUME NEW split \in Splits, NEW c \in Nat
  PROVE  /\ \/ /\ Longer(split, c) = Append(split, <<c>>)
               /\ Len(Longer(split, c)) = Len(split) + 1
               /\ \A i \in 1 .. Len(split) : Longer(split, c)[i] = split[i]
               /\ Longer(split, c)[Len(split) + 1] = <<c>>
            \/ /\ c # Slash /\ Len(split) \in Nat \ {0} /\ split[Len(split)] # <<Slash>>
               /\ Len(Longer(split, c)) = Len(split)
               /\ \A i \in 1 .. Len(split) - 1 : Longer(split, c)[i] = split[i]
               /\ Longer(split, c)[Len(split)] = Append(split[Len(split)], c)
         /\ Len(split) \in Nat /\ Len(Longer(split, c)) \in Nat
<1> PICK n, new, longer : n = Len(split) /\ new = <<c>> /\ longer = Longer(split, c)
  OBVIOUS
<1>1. n \in Nat /\ new \in Seq(Nat) /\ DOMAIN split = 1 .. n
  BY LenProperties DEF Splits
<1>2. CASE c = Slash \/ split = <<>> \/ split[n] = <<Slash>>
  <2>1. longer = Append(split, new)
    BY <1>2 DEF Longer
  <2>2. /\ Len(longer) = n + 1
        /\ \A i \in 1 .. n : longer[i] = split[i]
        /\ longer[n + 1] = new
    BY <1>1, <2>1, AppendProperties DEF Splits
  <2> QED
    BY <1>1, <2>1, <2>2
<1>3. CASE ~(c = Slash \/ split = <<>> \/ split[n] = <<Slash>>)
  <2>1. n \in Nat \ {0}
    BY <1>1, <1>3, EmptySeq DEF Splits
  <2>2. PICK last : last = Append(split[n], c)
    OBVIOUS
  <2>3. longer = [split EXCEPT ![n] = last]
    BY <1>3, <2>2 DEF Longer
  <2>4. last \in Seq(Nat)
    <3>1. split[n] \in Seq(Nat)
      BY <1>1, <2>1, ElementOfSeq DEF Splits
    <3> QED
      BY <2>2, <3>1, AppendProperties
  <2>5. n \in 1 .. n /\ n \in DOMAIN split
    BY <1>1, <2>1
  <2>6. /\ Len(longer) = n /\ longer[n] = last
        /\ \A i \in 1 .. n - 1 : longer[i] = split[i]
    <3>1. longer \in Seq(Seq(Nat)) /\ Len(longer) = n
      BY <2>3, <2>4, <2>5, ExceptSeq DEF Splits
    <3>2. /\ longer[n] = last /\ \A i \in 1 .. n - 1 : longer[i] = split[i]
      BY <1>1, <2>1, <2>3, <2>5
    <3> QED
      BY <3>1, <3>2
  <2> QED
    BY <1>3, <2>1, <2>2, <2>6
<1> QED
  BY <1>2, <1>3

\* A path that has another that ends with a slash in front has its elements in front.
LEMMA PrefixHasTheElements ==
  ASSUME NEW a \in Seq(Nat), NEW p \in Seq(Nat), EndsWithSlash(a), IsPrefix(a, p)
  PROVE  IsPathPrefixed(SplitString(a), SplitString(p))
<1>1. PICK f : SplitUp(a, f)
  BY SplitGoesOn
<1>2. PICK g : SplitUp(p, g)
  BY SplitGoesOn
<1>3. PICK m, n, sa, l : m = Len(a) /\ n = Len(p) /\ sa = f[m] /\ l = Len(sa)
  OBVIOUS
<1>4. m \in Nat \ {0} /\ n \in Nat /\ m <= n /\ a[m] = Slash
      /\ \A i \in 1 .. m : a[i] \in Nat /\ a[i] = p[i]
  <2>1. /\ m \in Nat /\ n \in Nat /\ a # <<>> /\ a[m] = Slash
        /\ \A i \in 1 .. m : a[i] \in Nat
    BY <1>3, LenProperties, ElementOfSeq DEF EndsWithSlash, Last
  <2>2. m # 0
    BY <1>3, <2>1, EmptySeq
  <2>3. m <= n /\ SubSeq(a, 1, m) = SubSeq(p, 1, m)
    BY <1>3, Zenon DEF IsPrefix
  <2>4. m \in 1 .. m /\ m \in 1 .. n
    BY <2>1, <2>2, <2>3
  <2>5. \A i \in 1 .. m : SubSeq(a, 1, m)[i] = a[i]
    BY <1>3, <2>4, PrefixOfSeq
  <2>6. \A i \in 1 .. m : SubSeq(p, 1, m)[i] = p[i]
    BY <1>3, <2>4, PrefixOfSeq
  <2> QED
    BY <2>1, <2>2, <2>3, <2>5, <2>6
<1>5. /\ f \in [0 .. m -> Splits] /\ f[0] = <<>>
      /\ \A i \in 1 .. m : f[i] = Longer(f[i - 1], a[i])
      /\ SplitString(a) = sa
  BY <1>1, <1>3, Zenon DEF SplitUp
<1>6. /\ g \in [0 .. n -> Splits] /\ g[0] = <<>>
      /\ \A i \in 1 .. n : g[i] = Longer(g[i - 1], p[i])
      /\ SplitString(p) = g[n]
  BY <1>2, <1>3, Zenon DEF SplitUp
<1>7. \A i \in 1 .. n : p[i] \in Nat /\ g[i - 1] \in Splits
  <2>1. \A i \in 1 .. n : p[i] \in Nat
    BY <1>3, ElementOfSeq
  <2>2. \A i \in 1 .. n : i - 1 \in 0 .. n
    BY <1>4
  <2> QED
    BY <1>6, <2>1, <2>2
<1>8. f[m] = g[m]
  <2> DEFINE same == {i \in 0 .. m : f[i] = g[i]}
  <2>1. 0 \in same
    BY <1>4, <1>5, <1>6
  <2>2. ASSUME NEW i \in 1 .. m, i - 1 \in same PROVE i \in same
    <3>1. i \in 1 .. n /\ i \in 0 .. m
      BY <1>4
    <3>2. f[i - 1] = g[i - 1]
      BY <2>2
    <3> QED
      BY <1>4, <1>5, <1>6, <3>1, <3>2
  <2> HIDE DEF same
  <2>3. \A i \in 0 .. m : i \in same
    BY <1>4, <2>1, <2>2, UpToN
  <2> QED
    BY <1>4, <2>3 DEF same
<1>9. l \in Nat \ {0} /\ sa[l] = <<Slash>> /\ sa \in Splits /\ DOMAIN sa = 1 .. l
  <2>1. f[m - 1] \in Splits /\ m \in 1 .. m /\ Slash \in Nat /\ sa \in Splits
    <3>1. m - 1 \in 0 .. m /\ m \in 0 .. m /\ m \in 1 .. m
      BY <1>4
    <3>2. Slash \in Nat
      BY <1>4, <3>1
    <3> QED
      BY <1>3, <1>5, <3>1, <3>2
  <2>2. sa = Longer(f[m - 1], Slash)
    BY <1>3, <1>4, <1>5, <2>1
  <2>3. PICK before : before = f[m - 1]
    OBVIOUS
  <2>4. /\ Len(Longer(before, Slash)) = Len(before) + 1
        /\ Longer(before, Slash)[Len(before) + 1] = <<Slash>>
        /\ Len(before) \in Nat
    BY <2>1, <2>3, LongerKeeps
  <2>5. DOMAIN sa = 1 .. l
    BY <1>3, <2>1, LenProperties DEF Splits
  <2> QED
    <3>1. sa = Longer(before, Slash)
      BY <2>2, <2>3, Zenon
    <3>2. /\ l = Len(before) + 1 /\ sa[Len(before) + 1] = <<Slash>>
      BY <1>3, <2>4, <3>1, Zenon
    <3> QED
      BY <2>1, <2>4, <2>5, <3>2
<1> DEFINE Begins(split) == l <= Len(split) /\ \A i \in 1 .. l : split[i] = sa[i]
           kept == {j \in 0 .. n - m : Begins(g[m + j])}
<1>10. 0 \in kept
  BY <1>3, <1>4, <1>8, <1>9
<1>11. ASSUME NEW j \in 1 .. n - m, j - 1 \in kept PROVE j \in kept
  <2>1. m + j \in 1 .. n /\ (m + j) - 1 = m + (j - 1) /\ j \in 0 .. n - m
    BY <1>4
  <2>2. PICK split, longer, c : split = g[m + (j - 1)] /\ longer = g[m + j] /\ c = p[m + j]
    OBVIOUS
  <2>3. split \in Splits /\ c \in Nat /\ longer = Longer(split, c)
    BY <1>6, <1>7, <2>1, <2>2
  <2>4. l <= Len(split) /\ \A i \in 1 .. l : split[i] = sa[i]
    BY <1>11, <2>2
  <2>5. \/ /\ Len(longer) = Len(split) + 1
           /\ \A i \in 1 .. Len(split) : longer[i] = split[i]
        \/ /\ split[Len(split)] # <<Slash>> /\ Len(longer) = Len(split)
           /\ \A i \in 1 .. Len(split) - 1 : longer[i] = split[i]
    BY <2>3, LongerKeeps
  <2>6. Len(split) \in Nat
    BY <2>3, LongerKeeps
  <2>7. Begins(longer)
    <3>1. CASE /\ Len(longer) = Len(split) + 1
               /\ \A i \in 1 .. Len(split) : longer[i] = split[i]
      BY <1>9, <2>4, <2>6, <3>1, SMTT(30)
    <3>2. CASE /\ split[Len(split)] # <<Slash>> /\ Len(longer) = Len(split)
               /\ \A i \in 1 .. Len(split) - 1 : longer[i] = split[i]
      <4>1. l # Len(split)
        BY <1>9, <2>4, <3>2
      <4>2. \A i \in 1 .. l : i \in 1 .. Len(split) - 1
        BY <1>9, <2>4, <2>6, <4>1
      <4> QED
        BY <2>4, <3>2, <4>2
    <3> QED
      BY <2>5, <3>1, <3>2
  <2> QED
    BY <2>1, <2>2, <2>7
<1>12. n - m \in kept
  <2> HIDE DEF kept
  <2>1. n - m \in Nat
    BY <1>4
  <2>2. \A j \in 0 .. n - m : j \in kept
    BY <1>10, <1>11, <2>1, UpToN
  <2> QED
    BY <2>1, <2>2
<1>13. Begins(g[n])
  BY <1>4, <1>12
<1>14. \A i \in DOMAIN sa : i \in DOMAIN g[n] /\ g[n][i] = sa[i]
  <2>1. PICK sp : sp = g[n]
    OBVIOUS
  <2>2. sp \in Splits
    BY <1>4, <1>6, <2>1
  <2>3. Len(sp) \in Nat /\ DOMAIN sp = 1 .. Len(sp)
    BY <2>2, LenProperties DEF Splits
  <2>4. l <= Len(sp) /\ \A i \in 1 .. l : sp[i] = sa[i]
    BY <1>13, <2>1
  <2> QED
    BY <1>9, <2>1, <2>3, <2>4
<1> QED
  BY <1>5, <1>6, <1>14 DEF IsPathPrefixed

-----------------------------------------------------------------------------
\* The elements spell the first j characters; off says where each of them ends.
Spells(split, str, j, off) ==
  /\ off \in [0 .. Len(split) -> Nat]
  /\ off[0] = 0 /\ off[Len(split)] = j
  /\ \A i \in 1 .. Len(split) :
       /\ off[i] = off[i - 1] + Len(split[i])
       /\ \A x \in 1 .. Len(split[i]) : split[i][x] = str[off[i - 1] + x]

Spelled(split, str, j) == \E off : Spells(split, str, j, off)

\* The elements spell the path, with one more character too.
LEMMA SpellingGoesOn ==
  ASSUME NEW split \in Splits, NEW str \in Seq(Nat), NEW j \in Nat, Spelled(split, str, j),
         NEW c \in Nat, c = str[j + 1]
  PROVE  Spelled(Longer(split, c), str, j + 1)
<1>1. PICK n, longer : n = Len(split) /\ longer = Longer(split, c)
  OBVIOUS
<1>2. PICK off : Spells(split, str, j, off)
  BY DEF Spelled
<1>3. /\ off \in [0 .. n -> Nat] /\ off[0] = 0 /\ off[n] = j
      /\ \A i \in 1 .. n :
           /\ off[i] = off[i - 1] + Len(split[i])
           /\ \A x \in 1 .. Len(split[i]) : split[i][x] = str[off[i - 1] + x]
  BY <1>1, <1>2 DEF Spells
<1>4. n \in Nat
  BY <1>1, LongerKeeps
<1>5. \/ /\ Len(longer) = n + 1
         /\ \A i \in 1 .. n : longer[i] = split[i]
         /\ longer[n + 1] = <<c>>
      \/ /\ n \in Nat \ {0} /\ Len(longer) = n
         /\ \A i \in 1 .. n - 1 : longer[i] = split[i]
         /\ longer[n] = Append(split[n], c)
  BY <1>1, LongerKeeps, ZenonT(40)
<1>6. CASE /\ Len(longer) = n + 1
           /\ \A i \in 1 .. n : longer[i] = split[i]
           /\ longer[n + 1] = <<c>>
  <2> DEFINE to == [i \in 0 .. n + 1 |-> IF i <= n THEN off[i] ELSE j + 1]
  <2>1. /\ to \in [0 .. n + 1 -> Nat] /\ to[0] = 0 /\ to[n + 1] = j + 1
        /\ \A i \in 0 .. n : to[i] = off[i]
    BY <1>3, <1>4
  <2> HIDE DEF to
  <2>2. \A i \in 1 .. n :
           /\ to[i] = to[i - 1] + Len(longer[i])
           /\ \A x \in 1 .. Len(longer[i]) : longer[i][x] = str[to[i - 1] + x]
    <3> TAKE i \in 1 .. n
    <3>1. i \in 0 .. n /\ i - 1 \in 0 .. n
      BY <1>4
    <3>2. to[i] = off[i] /\ to[i - 1] = off[i - 1] /\ longer[i] = split[i]
      BY <1>6, <2>1, <3>1
    <3> QED
      BY <1>3, <3>2
  <2>3. /\ to[n + 1] = to[n] + Len(longer[n + 1])
        /\ \A x \in 1 .. Len(longer[n + 1]) : longer[n + 1][x] = str[to[n] + x]
    <3>1. to[n] = j
      BY <1>3, <1>4, <2>1
    <3>2. Len(<<c>>) = 1 /\ <<c>>[1] = c /\ \A x \in 1 .. 1 : x = 1
      OBVIOUS
    <3> QED
      BY <1>6, <2>1, <3>1, <3>2
  <2>4. \A i \in 1 .. n + 1 :
           /\ to[i] = to[i - 1] + Len(longer[i])
           /\ \A x \in 1 .. Len(longer[i]) : longer[i][x] = str[to[i - 1] + x]
    <3>1. (n + 1) - 1 = n /\ \A i \in 1 .. n + 1 : i \in 1 .. n \/ i = n + 1
      BY <1>4
    <3> QED
      BY <2>2, <2>3, <3>1, SMTT(30)
  <2>5. Spells(longer, str, j + 1, to)
    BY <1>6, <2>1, <2>4 DEF Spells
  <2> QED
    BY <1>1, <2>5 DEF Spelled
<1>7. CASE /\ n \in Nat \ {0} /\ Len(longer) = n
           /\ \A i \in 1 .. n - 1 : longer[i] = split[i]
           /\ longer[n] = Append(split[n], c)
  <2> DEFINE to == [off EXCEPT ![n] = j + 1]
  <2>1. /\ to \in [0 .. n -> Nat] /\ to[0] = 0 /\ to[n] = j + 1
        /\ \A i \in 0 .. n - 1 : to[i] = off[i]
    BY <1>3, <1>7
  <2> HIDE DEF to
  <2>2. \A i \in 1 .. n - 1 :
           /\ to[i] = to[i - 1] + Len(longer[i])
           /\ \A x \in 1 .. Len(longer[i]) : longer[i][x] = str[to[i - 1] + x]
    <3> TAKE i \in 1 .. n - 1
    <3>1. i \in 0 .. n - 1 /\ i - 1 \in 0 .. n - 1 /\ i \in 1 .. n
      BY <1>4
    <3>2. to[i] = off[i] /\ to[i - 1] = off[i - 1] /\ longer[i] = split[i]
      BY <1>7, <2>1, <3>1
    <3> QED
      BY <1>3, <3>1, <3>2
  <2>3. /\ to[n] = to[n - 1] + Len(longer[n])
        /\ \A x \in 1 .. Len(longer[n]) : longer[n][x] = str[to[n - 1] + x]
    <3>1. n \in 1 .. n /\ n - 1 \in 0 .. n - 1 /\ n - 1 \in 0 .. n
      BY <1>7
    <3>2. PICK piece, before, l : piece = split[n] /\ before = off[n - 1] /\ l = Len(piece)
      OBVIOUS
    <3>3. piece \in Seq(Nat) /\ l \in Nat /\ before \in Nat
      <4>1. piece \in Seq(Nat)
        BY <1>1, <3>1, <3>2, ElementOfSeq DEF Splits
      <4> QED
        BY <1>3, <3>1, <3>2, <4>1, LenProperties
    <3>4. j = before + l /\ \A x \in 1 .. l : piece[x] = str[before + x]
      BY <1>3, <3>1, <3>2
    <3>5. PICK new : new = longer[n]
      OBVIOUS
    <3>6. Len(new) = l + 1 /\ new[l + 1] = c /\ \A x \in 1 .. l : new[x] = piece[x]
      <4>1. new = Append(piece, c)
        BY <1>7, <3>2, <3>5
      <4> QED
        BY <3>2, <3>3, <4>1, AppendProperties
    <3>7. to[n - 1] = before
      BY <2>1, <3>1, <3>2
    <3>8. \A x \in 1 .. l + 1 : new[x] = str[before + x]
      <4>1. \A x \in 1 .. l + 1 : x \in 1 .. l \/ x = l + 1
        BY <3>3
      <4>2. before + (l + 1) = j + 1
        BY <3>3, <3>4
      <4> QED
        BY <3>4, <3>6, <4>1, <4>2
    <3>9. to[n] = before + Len(new)
      BY <2>1, <3>3, <3>4, <3>6
    <3> QED
      BY <3>5, <3>6, <3>7, <3>8, <3>9
  <2>4. \A i \in 1 .. n :
           /\ to[i] = to[i - 1] + Len(longer[i])
           /\ \A x \in 1 .. Len(longer[i]) : longer[i][x] = str[to[i - 1] + x]
    <3>1. \A i \in 1 .. n : i \in 1 .. n - 1 \/ i = n
      BY <1>7
    <3> QED
      BY <2>2, <2>3, <3>1
  <2>5. Spells(longer, str, j + 1, to)
    BY <1>7, <2>1, <2>4 DEF Spells
  <2> QED
    BY <1>1, <2>5 DEF Spelled
<1> QED
  BY <1>5, <1>6, <1>7

\* The elements of a path spell it.
LEMMA ElementsSpell ==
  ASSUME NEW str \in Seq(Nat)
  PROVE  /\ SplitString(str) \in Splits
         /\ Spelled(SplitString(str), str, Len(str))
<1>1. PICK f : SplitUp(str, f)
  BY SplitGoesOn
<1>2. PICK n : n = Len(str)
  OBVIOUS
<1>3. /\ f \in [0 .. n -> Splits] /\ f[0] = <<>>
      /\ \A i \in 1 .. n : f[i] = Longer(f[i - 1], str[i])
      /\ SplitString(str) = f[n]
  BY <1>1, <1>2, Zenon DEF SplitUp
<1>4. n \in Nat /\ \A i \in 1 .. n : str[i] \in Nat
  BY <1>2, LenProperties, ElementOfSeq
<1> DEFINE done == {j \in 0 .. n : Spelled(f[j], str, j)}
<1>5. 0 \in done
  <2> DEFINE off == [i \in 0 .. 0 |-> 0]
  <2>1. PICK none : none = f[0]
    OBVIOUS
  <2>2. Len(none) = 0
    BY <1>3, <2>1
  <2>3. off \in [0 .. 0 -> Nat] /\ off[0] = 0
    OBVIOUS
  <2> HIDE DEF off
  <2>4. Spells(none, str, 0, off)
    BY <2>2, <2>3 DEF Spells
  <2>5. Spelled(none, str, 0)
    BY <2>4 DEF Spelled
  <2> QED
    BY <1>4, <2>1, <2>5
<1>6. ASSUME NEW i \in 1 .. n, i - 1 \in done PROVE i \in done
  <2>1. PICK split, c, j : split = f[i - 1] /\ c = str[i] /\ j = i - 1
    OBVIOUS
  <2>2. /\ j \in Nat /\ j + 1 = i /\ i \in 0 .. n /\ j \in 0 .. n /\ c \in Nat
        /\ split \in Splits /\ f[i] = Longer(split, c) /\ c = str[j + 1]
    <3>1. j \in Nat /\ j + 1 = i /\ i \in 0 .. n /\ j \in 0 .. n
      BY <1>4, <2>1
    <3> QED
      BY <1>3, <1>4, <2>1, <3>1
  <2>3. Spelled(split, str, j)
    BY <1>6, <2>1
  <2>4. Spelled(Longer(split, c), str, j + 1)
    BY <2>2, <2>3, SpellingGoesOn
  <2>5. Spelled(f[i], str, i)
    BY <2>2, <2>4, Zenon
  <2> QED
    BY <2>2, <2>5
<1>7. n \in done
  <2> HIDE DEF done
  <2>1. \A i \in 0 .. n : i \in done
    BY <1>4, <1>5, <1>6, UpToN
  <2> QED
    BY <1>4, <2>1
<1>8. Spelled(f[n], str, n)
  BY <1>7
<1>9. f[n] \in Splits
  BY <1>3, <1>4
<1> QED
  BY <1>2, <1>3, <1>8, <1>9, Zenon

\* A path whose elements another has in front is in front of it.
LEMMA ElementsMakeThePrefix ==
  ASSUME NEW a \in Seq(Nat), NEW p \in Seq(Nat),
         IsPathPrefixed(SplitString(a), SplitString(p))
  PROVE  IsPrefix(a, p)
<1>1. PICK sa, sp, m, n, la, lp : /\ sa = SplitString(a) /\ sp = SplitString(p)
                                  /\ m = Len(a) /\ n = Len(p) /\ la = Len(sa) /\ lp = Len(sp)
  OBVIOUS
<1>2. /\ sa \in Splits /\ sp \in Splits /\ Spelled(sa, a, m) /\ Spelled(sp, p, n)
      /\ IsPathPrefixed(sa, sp)
  BY <1>1, ElementsSpell
<1>3. PICK offa : Spells(sa, a, m, offa)
  BY <1>2 DEF Spelled
<1>4. PICK offp : Spells(sp, p, n, offp)
  BY <1>2 DEF Spelled
<1>5. /\ offa \in [0 .. la -> Nat] /\ offa[0] = 0 /\ offa[la] = m
      /\ \A i \in 1 .. la :
           /\ offa[i] = offa[i - 1] + Len(sa[i])
           /\ \A x \in 1 .. Len(sa[i]) : sa[i][x] = a[offa[i - 1] + x]
  BY <1>1, <1>3 DEF Spells
<1>6. /\ offp \in [0 .. lp -> Nat] /\ offp[0] = 0 /\ offp[lp] = n
      /\ \A i \in 1 .. lp :
           /\ offp[i] = offp[i - 1] + Len(sp[i])
           /\ \A x \in 1 .. Len(sp[i]) : sp[i][x] = p[offp[i - 1] + x]
  BY <1>1, <1>4 DEF Spells
<1>7. /\ la \in Nat /\ lp \in Nat /\ m \in Nat /\ n \in Nat
      /\ DOMAIN sa = 1 .. la /\ DOMAIN sp = 1 .. lp
  BY <1>1, <1>2, LenProperties DEF Splits
<1>8. \A i \in 1 .. la : i \in 1 .. lp /\ sp[i] = sa[i]
  BY <1>2, <1>7 DEF IsPathPrefixed
<1>9. la <= lp
  <2>1. la # 0 => la \in 1 .. la
    BY <1>7
  <2> QED
    BY <1>7, <1>8, <2>1
<1>10. \A i \in 1 .. la : Len(sa[i]) \in Nat
  BY <1>1, <1>2, ElementOfSeq, LenProperties DEF Splits
<1>11. \A i \in 1 .. lp : Len(sp[i]) \in Nat
  BY <1>1, <1>2, ElementOfSeq, LenProperties DEF Splits
\* Up to each of the elements the two agree.
<1> DEFINE agreed == {i \in 0 .. la : /\ offa[i] = offp[i]
                                      /\ \A y \in 1 .. offa[i] : a[y] = p[y]}
<1>12. 0 \in agreed
  BY <1>5, <1>6, <1>7
<1>13. ASSUME NEW i \in 1 .. la, i - 1 \in agreed PROVE i \in agreed
  <2>1. i \in 1 .. lp /\ sp[i] = sa[i] /\ i \in 0 .. la /\ i - 1 \in 0 .. la
    BY <1>7, <1>8
  <2>2. PICK before, l : before = offa[i - 1] /\ l = Len(sa[i])
    OBVIOUS
  <2>3. /\ before \in Nat /\ l \in Nat
        /\ offp[i - 1] = before /\ \A y \in 1 .. before : a[y] = p[y]
    BY <1>5, <1>10, <1>13, <2>1, <2>2
  <2>4. /\ offa[i] = before + l /\ \A x \in 1 .. l : sa[i][x] = a[before + x]
    BY <1>5, <2>2
  <2>5. /\ offp[i] = before + l /\ \A x \in 1 .. l : sa[i][x] = p[before + x]
    BY <1>6, <2>1, <2>2, <2>3
  <2>6. \A y \in 1 .. before + l : a[y] = p[y]
    <3> TAKE y \in 1 .. before + l
    <3>1. y \in 1 .. before \/ (y - before \in 1 .. l /\ before + (y - before) = y)
      BY <2>3
    <3>2. \A x \in 1 .. l : a[before + x] = p[before + x]
      BY <2>4, <2>5
    <3> QED
      BY <2>3, <3>1, <3>2
  <2> QED
    BY <2>1, <2>4, <2>5, <2>6
<1>14. la \in agreed
  <2> HIDE DEF agreed
  <2>1. \A i \in 0 .. la : i \in agreed
    BY <1>7, <1>12, <1>13, UpToN
  <2> QED
    BY <1>7, <2>1
<1>15. offp[la] = m /\ \A y \in 1 .. m : a[y] = p[y]
  BY <1>5, <1>14
\* The rest of the other has a length.
<1>16. m <= n
  <2> DEFINE behind == {i \in 0 .. lp - la : m <= offp[la + i]}
  <2>1. 0 \in behind
    BY <1>7, <1>9, <1>15
  <2>2. ASSUME NEW i \in 1 .. lp - la, i - 1 \in behind PROVE i \in behind
    <3>1. /\ la + i \in 1 .. lp /\ (la + i) - 1 = la + (i - 1) /\ i \in 0 .. lp - la
          /\ la + i \in 0 .. lp /\ la + (i - 1) \in 0 .. lp
      BY <1>7, <1>9
    <3>2. PICK b, l : b = offp[la + (i - 1)] /\ l = Len(sp[la + i])
      OBVIOUS
    <3>3. b \in Nat /\ l \in Nat /\ m <= b /\ offp[la + i] = b + l
      BY <1>6, <1>11, <2>2, <3>1, <3>2
    <3> QED
      BY <1>7, <3>1, <3>3
  <2>3. lp - la \in behind
    <3> HIDE DEF behind
    <3>1. lp - la \in Nat
      BY <1>7, <1>9
    <3>2. \A i \in 0 .. lp - la : i \in behind
      BY <2>1, <2>2, <3>1, UpToN
    <3> QED
      BY <3>1, <3>2
  <2>4. la + (lp - la) = lp
    BY <1>7
  <2> QED
    BY <1>6, <2>3, <2>4
<1>17. SubSeq(a, 1, m) = SubSeq(p, 1, m)
  <2>1. CASE m = 0
    <3>1. SubSeq(a, 1, 0) = <<>> /\ SubSeq(p, 1, 0) = <<>>
      BY SubSeqEmpty
    <3> QED
      BY <2>1, <3>1
  <2>2. CASE m # 0
    <3>1. m \in 1 .. Len(a) /\ m \in 1 .. Len(p)
      BY <1>1, <1>7, <1>16, <2>2
    <3>2. PICK u, v : u = SubSeq(a, 1, m) /\ v = SubSeq(p, 1, m)
      OBVIOUS
    <3>3. u \in Seq(Nat) /\ Len(u) = m /\ \A i \in 1 .. m : u[i] = a[i]
      BY <3>1, <3>2, PrefixOfSeq
    <3>4. v \in Seq(Nat) /\ Len(v) = m /\ \A i \in 1 .. m : v[i] = p[i]
      BY <3>1, <3>2, PrefixOfSeq
    <3> QED
      BY <1>15, <3>2, <3>3, <3>4, SeqEqual
  <2> QED
    BY <2>1, <2>2
<1> QED
  BY <1>1, <1>16, <1>17, Zenon DEF IsPrefix

\* To compare the elements of a path that ends with a slash is to compare its
\* characters, whatever the two paths.
THEOREM ElementsAreThePrefix ==
  ASSUME NEW a \in Seq(Nat), NEW p \in Seq(Nat), EndsWithSlash(a)
  PROVE  IsPathPrefixed(SplitString(a), SplitString(p)) <=> IsPrefix(a, p)
BY PrefixHasTheElements, ElementsMakeThePrefix

-----------------------------------------------------------------------------
(* What the daemon makes of the text                                       *)

\* The conditions of two parts of a text hold if those of each do.
LEMMA MatchesBoth ==
  ASSUME NEW u, IsSequence(u), NEW v, IsSequence(v), NEW s
  PROVE  /\ IsSequence(u \o v)
         /\ DaemonMatches(u \o v, s) <=> DaemonMatches(u, s) /\ DaemonMatches(v, s)
<1>1. PICK S : u \in Seq(S) /\ v \in Seq(S)
  <2>1. PICK S : u \in Seq(S)
    BY DEF IsSequence
  <2>2. PICK T : v \in Seq(T)
    BY DEF IsSequence
  <2>3. u \in Seq(S \union T) /\ v \in Seq(S \union T)
    BY <2>1, <2>2
  <2> QED
    BY <2>3
<1>2. PICK m, n, w : m = Len(u) /\ n = Len(v) /\ w = u \o v
  OBVIOUS
<1>3. /\ m \in Nat /\ n \in Nat /\ DOMAIN u = 1 .. m /\ DOMAIN v = 1 .. n
      /\ w \in Seq(S) /\ DOMAIN w = 1 .. m + n
      /\ \A i \in 1 .. m + n : w[i] = IF i <= m THEN u[i] ELSE v[i - m]
  BY <1>1, <1>2, ConcatProperties, LenProperties
<1>4. \A i \in 1 .. m + n : \/ i \in 1 .. m /\ w[i] = u[i]
                            \/ i - m \in 1 .. n /\ w[i] = v[i - m]
  BY <1>3
<1>5. /\ \A i \in 1 .. m : i \in 1 .. m + n /\ w[i] = u[i]
      /\ \A i \in 1 .. n : m + i \in 1 .. m + n /\ w[m + i] = v[i]
  BY <1>3, SMTT(30)
<1>6. DaemonMatches(u, s) /\ DaemonMatches(v, s) => DaemonMatches(w, s)
  <2> SUFFICES ASSUME DaemonMatches(u, s), DaemonMatches(v, s), NEW i \in 1 .. m + n
               PROVE  Holds(w[i], s)
    BY <1>3 DEF DaemonMatches
  <2>1. \A j \in 1 .. m : Holds(u[j], s)
    BY <1>3 DEF DaemonMatches
  <2>2. \A j \in 1 .. n : Holds(v[j], s)
    BY <1>3 DEF DaemonMatches
  <2> QED
    BY <1>4, <2>1, <2>2, Zenon
<1>7. DaemonMatches(w, s) => DaemonMatches(u, s) /\ DaemonMatches(v, s)
  <2> SUFFICES ASSUME DaemonMatches(w, s)
               PROVE  /\ \A i \in 1 .. m : Holds(u[i], s)
                      /\ \A i \in 1 .. n : Holds(v[i], s)
    BY <1>3 DEF DaemonMatches
  <2>1. \A i \in 1 .. m + n : Holds(w[i], s)
    BY <1>3 DEF DaemonMatches
  <2>2. ASSUME NEW i \in 1 .. m PROVE Holds(u[i], s)
    BY <1>5, <2>1, Zenon
  <2>3. ASSUME NEW i \in 1 .. n PROVE Holds(v[i], s)
    BY <1>5, <2>1, Zenon
  <2> QED
    BY <2>2, <2>3
<1>8. IsSequence(w)
  BY <1>3 DEF IsSequence
<1> QED
  BY <1>2, <1>6, <1>7, <1>8, Zenon

\* An option that is given is one condition, and each of some arguments is.
Asks(key, option, s) ==
  Given(option) => Holds([key |-> key, index |-> 0, value |-> The(option)], s)

AsksArgs(key, args, s) ==
  \A i \in DOMAIN args :
    Holds([key |-> key, index |-> args[i].index, value |-> args[i].name], s)

\* The text of an option asks for what the option does,
LEMMA OptionMatches ==
  ASSUME NEW S, NEW option \in Optional(S), NEW key, NEW s
  PROVE  /\ IsSequence(Entry(key, option))
         /\ DaemonMatches(Entry(key, option), s) <=> Asks(key, option, s)
<1>1. CASE option = None
  <2>1. PICK text1 : text1 = Entry(key, option)
    OBVIOUS
  <2>2. text1 = <<>> /\ DOMAIN text1 = {} /\ ~Given(option)
    BY <1>1, <2>1 DEF None, Entry, Given
  <2>3. IsSequence(text1)
    <3>1. <<>> \in Seq({})
      OBVIOUS
    <3> QED
      BY <2>2, <3>1 DEF IsSequence
  <2> QED
    BY <2>1, <2>2, <2>3 DEF DaemonMatches, Asks
<1>2. ASSUME NEW x, option = Some(x)
      PROVE  /\ IsSequence(Entry(key, option))
             /\ DaemonMatches(Entry(key, option), s) <=> Asks(key, option, s)
  <2>1. DOMAIN option = {1} /\ option[1] = x /\ Given(option) /\ The(option) = x
    BY <1>2 DEF Some, None, Given, The
  <2> PICK e : e = [key |-> key, index |-> 0, value |-> x]
    OBVIOUS
  <2>2. PICK text1 : text1 = Entry(key, option)
    OBVIOUS
  <2>3. text1 = [i \in {1} |-> e]
    BY <2>1, <2>2 DEF Entry
  <2>4. DOMAIN text1 = {1} /\ text1[1] = e /\ text1 = [i \in 1 .. 1 |-> e]
    BY <2>3
  <2>5. IsSequence(text1)
    <3>1. [i \in 1 .. 1 |-> e] \in Seq({e})
      OBVIOUS
    <3> QED
      BY <2>4, <3>1 DEF IsSequence
  <2>6. DaemonMatches(text1, s) <=> Holds(e, s)
    BY <2>4, Zenon DEF DaemonMatches
  <2>7. Asks(key, option, s) <=> Holds(e, s)
    BY <2>1, Zenon DEF Asks
  <2> QED
    BY <2>2, <2>5, <2>6, <2>7, Zenon
<1> QED
  BY <1>1, <1>2 DEF Optional

\* and that of conditions for what each of them does.
LEMMA ArgumentsMatch ==
  ASSUME NEW args \in Seq(Condition), NEW key, NEW s
  PROVE  /\ IsSequence(ArgEntries(key, args))
         /\ DaemonMatches(ArgEntries(key, args), s) <=> AsksArgs(key, args, s)
<1>1. PICK n, text1 : n = Len(args) /\ text1 = ArgEntries(key, args)
  OBVIOUS
<1>2. n \in Nat /\ DOMAIN args = 1 .. n
  BY <1>1, LenProperties
<1> DEFINE f(i) == [key |-> key, index |-> args[i].index, value |-> args[i].name]
           S == {f(i) : i \in 1 .. n}
<1>3. text1 = [i \in 1 .. n |-> f(i)] /\ \A i \in 1 .. n : f(i) \in S
  BY <1>1, <1>2 DEF ArgEntries
<1>4. AsksArgs(key, args, s) <=> \A i \in 1 .. n : Holds(f(i), s)
  BY <1>2, Zenon DEF AsksArgs
<1> HIDE DEF f, S
<1>5. text1 \in Seq(S) /\ DOMAIN text1 = 1 .. n /\ \A i \in 1 .. n : text1[i] = f(i)
  BY <1>2, <1>3
<1>6. IsSequence(text1)
  BY <1>5 DEF IsSequence
<1>7. DaemonMatches(text1, s) <=> \A i \in 1 .. n : Holds(f(i), s)
  BY <1>5 DEF DaemonMatches
<1> QED
  BY <1>1, <1>4, <1>6, <1>7, Zenon

\* The types of a rule by their names.
TypeNames(r) == [i \in DOMAIN r.type |-> TypeName(r.type[i])]

\* The daemon sends what every condition of the rule holds for.
LEMMA TextMatches ==
  ASSUME NEW r \in Rules, NEW s
  PROVE  DaemonMatches(RuleText(r), s)
           <=> /\ Asks("type", TypeNames(r), s) /\ Asks("sender", r.sender, s)
               /\ Asks("interface", r.interface, s) /\ Asks("member", r.member, s)
               /\ Asks("path", r.path, s) /\ Asks("path_namespace", r.pathNamespace, s)
               /\ Asks("destination", r.destination, s)
               /\ AsksArgs("arg", r.args, s) /\ AsksArgs("argpath", r.argPaths, s)
               /\ Asks("arg0namespace", r.argNamespace, s) /\ Asks("eavesdrop", r.eavesdrop, s)
<1>1. /\ r.sender \in Optional(Senders) /\ r.interface \in Optional(InterfaceNames)
      /\ r.member \in Optional(MemberNames) /\ r.path \in Optional(ObjectPaths)
      /\ r.pathNamespace \in Optional(ObjectPaths)
      /\ r.destination \in Optional(UniqueNames)
      /\ r.args \in Seq(Condition) /\ r.argPaths \in Seq(Condition)
      /\ r.argNamespace \in Optional(Namespaces) /\ r.eavesdrop \in Optional(BOOLEAN)
      /\ r.type \in Optional({t \in Types : IsMatchable(t)})
  BY DEF Rules
<1>2. PICK named : named = TypeNames(r)
  OBVIOUS
<1>3. \E S : named \in Optional(S)
  <2>1. CASE r.type = None
    <3>1. named = None
      BY <1>2, <2>1 DEF None, TypeNames
    <3> QED
      BY <3>1 DEF Optional
  <2>2. ASSUME NEW x, r.type = Some(x) PROVE \E S : named \in Optional(S)
    <3>1. named = <<TypeName(x)>>
      BY <1>2, <2>2 DEF Some, TypeNames
    <3>2. named \in Optional({TypeName(x)})
      BY <3>1 DEF Optional, Some
    <3> QED
      BY <3>2
  <2> QED
    BY <1>1, <2>1, <2>2 DEF Optional
<1> DEFINE p1 == Entry("type", named)
           p2 == Entry("sender", r.sender)
           p3 == Entry("interface", r.interface)
           p4 == Entry("member", r.member)
           p5 == Entry("path", r.path)
           p6 == Entry("path_namespace", r.pathNamespace)
           p7 == Entry("destination", r.destination)
           p8 == ArgEntries("arg", r.args)
           p9 == ArgEntries("argpath", r.argPaths)
           p10 == Entry("arg0namespace", r.argNamespace)
           p11 == Entry("eavesdrop", r.eavesdrop)
<1>4. /\ IsSequence(p1) /\ (DaemonMatches(p1, s) <=> Asks("type", named, s))
      /\ IsSequence(p2) /\ (DaemonMatches(p2, s) <=> Asks("sender", r.sender, s))
      /\ IsSequence(p3) /\ (DaemonMatches(p3, s) <=> Asks("interface", r.interface, s))
      /\ IsSequence(p4) /\ (DaemonMatches(p4, s) <=> Asks("member", r.member, s))
      /\ IsSequence(p5) /\ (DaemonMatches(p5, s) <=> Asks("path", r.path, s))
      /\ IsSequence(p6) /\ (DaemonMatches(p6, s) <=> Asks("path_namespace", r.pathNamespace, s))
      /\ IsSequence(p7) /\ (DaemonMatches(p7, s) <=> Asks("destination", r.destination, s))
      /\ IsSequence(p10) /\ (DaemonMatches(p10, s) <=> Asks("arg0namespace", r.argNamespace, s))
      /\ IsSequence(p11) /\ (DaemonMatches(p11, s) <=> Asks("eavesdrop", r.eavesdrop, s))
  BY <1>1, <1>3, OptionMatches
<1>5. /\ IsSequence(p8) /\ (DaemonMatches(p8, s) <=> AsksArgs("arg", r.args, s))
      /\ IsSequence(p9) /\ (DaemonMatches(p9, s) <=> AsksArgs("argpath", r.argPaths, s))
  BY <1>1, ArgumentsMatch
<1>6. RuleText(r) = p1 \o p2 \o p3 \o p4 \o p5 \o p6 \o p7 \o p8 \o p9 \o p10 \o p11
  BY <1>2, Zenon DEF RuleText, TypeNames
<1> HIDE DEF p1, p2, p3, p4, p5, p6, p7, p8, p9, p10, p11
<1>7. PICK s2 : s2 = p1 \o p2
  OBVIOUS
<1>8. PICK s3 : s3 = s2 \o p3
  OBVIOUS
<1>9. PICK s4 : s4 = s3 \o p4
  OBVIOUS
<1>10. PICK s5 : s5 = s4 \o p5
  OBVIOUS
<1>11. PICK s6 : s6 = s5 \o p6
  OBVIOUS
<1>12. PICK s7 : s7 = s6 \o p7
  OBVIOUS
<1>13. PICK s8 : s8 = s7 \o p8
  OBVIOUS
<1>14. PICK s9 : s9 = s8 \o p9
  OBVIOUS
<1>15. PICK s10 : s10 = s9 \o p10
  OBVIOUS
<1>16. IsSequence(s2) /\ (DaemonMatches(s2, s) <=> DaemonMatches(p1, s) /\ DaemonMatches(p2, s))
  BY <1>4, <1>7, MatchesBoth
<1>17. IsSequence(s3) /\ (DaemonMatches(s3, s) <=> DaemonMatches(s2, s) /\ DaemonMatches(p3, s))
  BY <1>4, <1>8, <1>16, MatchesBoth
<1>18. IsSequence(s4) /\ (DaemonMatches(s4, s) <=> DaemonMatches(s3, s) /\ DaemonMatches(p4, s))
  BY <1>4, <1>9, <1>17, MatchesBoth
<1>19. IsSequence(s5) /\ (DaemonMatches(s5, s) <=> DaemonMatches(s4, s) /\ DaemonMatches(p5, s))
  BY <1>4, <1>10, <1>18, MatchesBoth
<1>20. IsSequence(s6) /\ (DaemonMatches(s6, s) <=> DaemonMatches(s5, s) /\ DaemonMatches(p6, s))
  BY <1>4, <1>11, <1>19, MatchesBoth
<1>21. IsSequence(s7) /\ (DaemonMatches(s7, s) <=> DaemonMatches(s6, s) /\ DaemonMatches(p7, s))
  BY <1>4, <1>12, <1>20, MatchesBoth
<1>22. IsSequence(s8) /\ (DaemonMatches(s8, s) <=> DaemonMatches(s7, s) /\ DaemonMatches(p8, s))
  BY <1>5, <1>13, <1>21, MatchesBoth
<1>23. IsSequence(s9) /\ (DaemonMatches(s9, s) <=> DaemonMatches(s8, s) /\ DaemonMatches(p9, s))
  BY <1>5, <1>14, <1>22, MatchesBoth
<1>24. IsSequence(s10) /\ (DaemonMatches(s10, s) <=> DaemonMatches(s9, s) /\ DaemonMatches(p10, s))
  BY <1>4, <1>15, <1>23, MatchesBoth
<1>25. DaemonMatches(s10 \o p11, s) <=> DaemonMatches(s10, s) /\ DaemonMatches(p11, s)
  BY <1>4, <1>24, MatchesBoth
<1>26. RuleText(r) = s10 \o p11
  BY <1>6, <1>7, <1>8, <1>9, <1>10, <1>11, <1>12, <1>13, <1>14, <1>15, Zenon
<1>27. DaemonMatches(RuleText(r), s) <=>
         /\ DaemonMatches(p1, s) /\ DaemonMatches(p2, s) /\ DaemonMatches(p3, s)
         /\ DaemonMatches(p4, s) /\ DaemonMatches(p5, s) /\ DaemonMatches(p6, s)
         /\ DaemonMatches(p7, s) /\ DaemonMatches(p8, s) /\ DaemonMatches(p9, s)
         /\ DaemonMatches(p10, s) /\ DaemonMatches(p11, s)
  BY <1>16, <1>17, <1>18, <1>19, <1>20, <1>21, <1>22, <1>23, <1>24, <1>25, <1>26
<1> QED
  BY <1>2, <1>4, <1>5, <1>27

\* What each of the conditions asks for.
LEMMA HoldsForTheHeader ==
  ASSUME NEW v, NEW n, NEW s
  PROVE  /\ Holds([key |-> "type", index |-> n, value |-> v], s) <=> v = "signal"
         /\ Holds([key |-> "sender", index |-> n, value |-> v], s)
              <=> v \in Range(s.sender) \union Range(s.names)
         /\ Holds([key |-> "interface", index |-> n, value |-> v], s) <=> s.interface = Some(v)
         /\ Holds([key |-> "member", index |-> n, value |-> v], s) <=> s.member = Some(v)
         /\ Holds([key |-> "path", index |-> n, value |-> v], s) <=> s.path = Some(v)
         /\ Holds([key |-> "path_namespace", index |-> n, value |-> v], s)
              <=> IsWithin(The(s.path), v)
         /\ Holds([key |-> "eavesdrop", index |-> n, value |-> v], s)
<1> DEFINE e(key) == [key |-> key, index |-> n, value |-> v]
<1>1. \A key : e(key).key = key /\ e(key).index = n /\ e(key).value = v
  OBVIOUS
<1> HIDE DEF e
<1>2. Holds(e("type"), s) <=> v = "signal"
  BY <1>1 DEF Holds
<1>3. Holds(e("sender"), s) <=> v \in Range(s.sender) \union Range(s.names)
  <2>1. /\ e("sender").key # "type"
        /\ e("sender").key # "interface"
        /\ e("sender").key # "member"
        /\ e("sender").key # "path"
        /\ e("sender").key # "path_namespace"
        /\ e("sender").key # "destination"
        /\ e("sender").key # "arg"
        /\ e("sender").key # "argpath"
        /\ e("sender").key # "arg0namespace"
        /\ e("sender").key # "eavesdrop"
    BY <1>1
  <2> QED
    BY <1>1, <2>1, Zenon DEF Holds
<1>4. Holds(e("interface"), s) <=> s.interface = Some(v)
  BY <1>1 DEF Holds
<1>5. Holds(e("member"), s) <=> s.member = Some(v)
  BY <1>1 DEF Holds
<1>6. Holds(e("path"), s) <=> s.path = Some(v)
  BY <1>1 DEF Holds
<1>7. Holds(e("path_namespace"), s) <=> IsWithin(The(s.path), v)
  <2>1. /\ e("path_namespace").key # "type"
        /\ e("path_namespace").key # "sender"
        /\ e("path_namespace").key # "interface"
        /\ e("path_namespace").key # "member"
        /\ e("path_namespace").key # "path"
        /\ e("path_namespace").key # "destination"
        /\ e("path_namespace").key # "arg"
        /\ e("path_namespace").key # "argpath"
        /\ e("path_namespace").key # "arg0namespace"
        /\ e("path_namespace").key # "eavesdrop"
    BY <1>1
  <2> QED
    BY <1>1, <2>1, Zenon DEF Holds
<1>8. Holds(e("eavesdrop"), s)
  <2>1. /\ e("eavesdrop").key # "type"
        /\ e("eavesdrop").key # "sender"
        /\ e("eavesdrop").key # "interface"
        /\ e("eavesdrop").key # "member"
        /\ e("eavesdrop").key # "path"
        /\ e("eavesdrop").key # "path_namespace"
        /\ e("eavesdrop").key # "destination"
        /\ e("eavesdrop").key # "arg"
        /\ e("eavesdrop").key # "argpath"
        /\ e("eavesdrop").key # "arg0namespace"
    BY <1>1
  <2> QED
    BY <1>1, <2>1, Zenon DEF Holds
<1> QED
  BY <1>2, <1>3, <1>4, <1>5, <1>6, <1>7, <1>8 DEF e

\* And of the arguments.
LEMMA HoldsForTheArguments ==
  ASSUME NEW v, NEW n, NEW s
  PROVE  /\ Holds([key |-> "arg", index |-> n, value |-> v], s)
              <=> v \in Arg(s, n, {DBusTypeCodes.STRING})
         /\ Holds([key |-> "argpath", index |-> n, value |-> v], s)
              <=> \E path \in Arg(s, n, {DBusTypeCodes.STRING, DBusTypeCodes.OBJECT_PATH}) :
                    \/ path = v
                    \/ EndsWithSlash(v) /\ IsPrefix(v, path)
                    \/ EndsWithSlash(path) /\ IsPrefix(path, v)
         /\ Holds([key |-> "arg0namespace", index |-> n, value |-> v], s)
              <=> \E str \in Arg(s, n, {DBusTypeCodes.STRING}) :
                    str = v \/ IsPrefix(Append(v, Dot), str)
<1> DEFINE e(key) == [key |-> key, index |-> n, value |-> v]
<1>1. \A key : e(key).key = key /\ e(key).index = n /\ e(key).value = v
  OBVIOUS
<1> HIDE DEF e
<1>2. Holds(e("arg"), s) <=> v \in Arg(s, n, {DBusTypeCodes.STRING})
  <2>1. /\ e("arg").key # "type"
        /\ e("arg").key # "sender"
        /\ e("arg").key # "interface"
        /\ e("arg").key # "member"
        /\ e("arg").key # "path"
        /\ e("arg").key # "path_namespace"
        /\ e("arg").key # "destination"
        /\ e("arg").key # "argpath"
        /\ e("arg").key # "arg0namespace"
        /\ e("arg").key # "eavesdrop"
    BY <1>1
  <2> QED
    BY <1>1, <2>1, Zenon DEF Holds
<1>3. Holds(e("argpath"), s)
        <=> \E path \in Arg(s, n, {DBusTypeCodes.STRING, DBusTypeCodes.OBJECT_PATH}) :
              \/ path = v
              \/ EndsWithSlash(v) /\ IsPrefix(v, path)
              \/ EndsWithSlash(path) /\ IsPrefix(path, v)
  BY <1>1, ZenonT(40) DEF Holds
<1>4. Holds(e("arg0namespace"), s)
        <=> \E str \in Arg(s, n, {DBusTypeCodes.STRING}) :
              str = v \/ IsPrefix(Append(v, Dot), str)
  BY <1>1 DEF Holds
<1> QED
  BY <1>2, <1>3, <1>4 DEF e

\* Prefixes of sequences of numbers.
NumberSeq == Seq(Nat)

\* A prefix has the same characters as far as it goes,
LEMMA PrefixElements ==
  ASSUME NEW u \in NumberSeq, NEW w \in NumberSeq
  PROVE  IsPrefix(u, w) <=> /\ Len(u) <= Len(w)
                            /\ \A i \in 1 .. Len(u) : u[i] = w[i]
<1>1. PICK m, n : m = Len(u) /\ n = Len(w)
  OBVIOUS
<1>2. m \in Nat /\ n \in Nat
  BY <1>1, LenProperties DEF NumberSeq
<1>3. CASE m = 0
  <2>1. SubSeq(u, 1, 0) = <<>> /\ SubSeq(w, 1, 0) = <<>>
    BY SubSeqEmpty DEF NumberSeq
  <2>2. IsPrefix(u, w)
    BY <1>1, <1>2, <1>3, <2>1 DEF IsPrefix
  <2> QED
    BY <1>1, <1>2, <1>3, <2>2
<1>4. CASE m # 0 /\ m <= n
  <2>1. m \in 1 .. Len(u) /\ m \in 1 .. Len(w)
    BY <1>1, <1>2, <1>4
  <2>2. PICK a, b : a = SubSeq(u, 1, m) /\ b = SubSeq(w, 1, m)
    OBVIOUS
  <2>3. a \in Seq(Nat) /\ Len(a) = m /\ \A i \in 1 .. m : a[i] = u[i]
    BY <2>1, <2>2, PrefixOfSeq DEF NumberSeq
  <2>4. b \in Seq(Nat) /\ Len(b) = m /\ \A i \in 1 .. m : b[i] = w[i]
    BY <2>1, <2>2, PrefixOfSeq DEF NumberSeq
  <2>5. a = b <=> \A i \in 1 .. m : a[i] = b[i]
    BY <2>3, <2>4, SeqEqual
  <2>6. IsPrefix(u, w) <=> a = b
    BY <1>1, <1>4, <2>2, Zenon DEF IsPrefix
  <2> QED
    BY <1>1, <1>4, <2>3, <2>4, <2>5, <2>6
<1>5. CASE ~(m <= n)
  BY <1>1, <1>5, Zenon DEF IsPrefix
<1> QED
  BY <1>2, <1>3, <1>4, <1>5

\* and what is a prefix of it is one too.
LEMMA PrefixOfLonger ==
  ASSUME NEW u \in NumberSeq, NEW w \in NumberSeq, NEW c \in Nat, IsPrefix(Append(u, c), w)
  PROVE  IsPrefix(u, w)
<1>1. PICK l, m, n : l = Append(u, c) /\ m = Len(u) /\ n = Len(w)
  OBVIOUS
<1>2. /\ l \in NumberSeq /\ Len(l) = m + 1 /\ m \in Nat /\ n \in Nat
      /\ \A i \in 1 .. m : l[i] = u[i]
  BY <1>1, AppendProperties, LenProperties DEF NumberSeq
<1>3. m + 1 <= n /\ \A i \in 1 .. m + 1 : l[i] = w[i]
  BY <1>1, <1>2, PrefixElements, ZenonT(40)
<1>4. m <= n /\ \A i \in 1 .. m : u[i] = w[i]
  BY <1>2, <1>3
<1> QED
  BY <1>1, <1>4, PrefixElements

\* A prefix is a part.
LEMMA PrefixIsIn ==
  ASSUME NEW u \in NumberSeq, NEW w \in NumberSeq, u = w \/ IsPrefix(u, w)
  PROVE  IsIn(u, w)
<1>1. PICK m, n : m = Len(u) /\ n = Len(w)
  OBVIOUS
<1>2. m \in Nat /\ n \in Nat
  BY <1>1, LenProperties DEF NumberSeq
<1>3. m <= n /\ \A i \in 1 .. m : u[i] = w[i]
  BY <1>1, <1>2, PrefixElements
<1>4. SubSeq(w, 1, m) = u
  <2>1. CASE m = 0
    <3>1. SubSeq(w, 1, 0) = <<>>
      BY SubSeqEmpty DEF NumberSeq
    <3>2. u = <<>>
      BY <1>1, <2>1, EmptySeq DEF NumberSeq
    <3> QED
      BY <2>1, <3>1, <3>2
  <2>2. CASE m # 0
    <3>1. m \in 1 .. Len(w)
      BY <1>1, <1>2, <1>3, <2>2
    <3>2. PICK a : a = SubSeq(w, 1, m)
      OBVIOUS
    <3>3. a \in Seq(Nat) /\ Len(a) = m /\ \A i \in 1 .. m : a[i] = w[i]
      BY <3>1, <3>2, PrefixOfSeq DEF NumberSeq
    <3>4. a = u
      BY <1>1, <1>3, <3>3, SeqEqual DEF NumberSeq
    <3> QED
      BY <3>2, <3>4
  <2> QED
    BY <2>1, <2>2
<1>5. 0 \in 0 .. n - m /\ 0 + 1 = 1 /\ 0 + m = m
  BY <1>2, <1>3
<1>6. SubSeq(w, 0 + 1, 0 + m) = u
  BY <1>4, <1>5, Zenon
<1> QED
  BY <1>1, <1>5, <1>6, Zenon DEF IsIn

\* Matches() compares two paths as the daemon does.
LEMMA PathsCompareAlike ==
  ASSUME NEW name \in NumberSeq, NEW path \in NumberSeq
  PROVE  MatchesPath(name, path)
           <=> \/ path = name
               \/ EndsWithSlash(name) /\ IsPrefix(name, path)
               \/ EndsWithSlash(path) /\ IsPrefix(path, name)
<1>1. EndsWithSlash(name)
        => (IsPathPrefixed(SplitString(name), SplitString(path)) <=> IsPrefix(name, path))
  BY ElementsAreThePrefix DEF NumberSeq
<1>2. EndsWithSlash(path)
        => (IsPathPrefixed(SplitString(path), SplitString(name)) <=> IsPrefix(path, name))
  BY ElementsAreThePrefix DEF NumberSeq
<1> QED
  BY <1>1, <1>2, Zenon DEF MatchesPath

-----------------------------------------------------------------------------
(* What Matches() makes of a signal                                        *)

\* The arguments Matches() sees.
Walked(s) == IF s.body = <<>> THEN Start ELSE WalkSignature(The(s.signature), s.body)

\* They are those of all of its arguments.
LEMMA SignalIsWalked ==
  ASSUME NEW s, HasPlainArguments(s), IsLaidOut(s)
  PROVE  Walked(s) = WalkedTo(s, Len(s.ends)) /\ DOMAIN s.types = 1 .. Len(s.ends)
<1> PICK n, body : n = Len(s.ends) /\ body = s.body
  OBVIOUS
<1>1. /\ s.ends \in Seq(Nat) /\ DOMAIN s.types = 1 .. n
      /\ body \in Seq(Octet) /\ Len(body) = IF n = 0 THEN 0 ELSE s.ends[n]
  BY Zenon DEF IsLaidOut
<1>2. n \in Nat
  BY <1>1, LenProperties
<1>3. CASE n = 0
  <2>1. body = <<>>
    BY <1>1, <1>3, EmptySeq
  <2>2. WalkedTo(s, 0) = Start
    BY WalkStarts DEF TurnedTo
  <2> QED
    BY <1>1, <1>3, <2>1, <2>2 DEF Walked
<1>4. CASE n # 0
  <2>1. LaidOut(s)
    BY <1>2, <1>4 DEF LaidOut
  <2>2. body # <<>>
    <3>1. n \in 1 .. Len(s.ends)
      BY <1>2, <1>4
    <3>2. Begin(s, n) \in Nat /\ Begin(s, n) < s.ends[n] /\ s.ends[n] \in Nat
      BY <2>1, <3>1, BeginsBehind
    <3>3. Len(body) # 0
      BY <1>1, <1>4, <3>2
    <3> QED
      BY <3>3
  <2>3. WalkSignature(The(s.signature), s.body) = WalkedTo(s, n)
    BY <2>1, ArgumentsAreFound
  <2> QED
    BY <1>1, <2>2, <2>3, Zenon DEF Walked
<1> QED
  BY <1>3, <1>4

\* The strings by index, the paths, and both together.
LEMMA ArgumentsByIndex ==
  ASSUME NEW s, HasPlainArguments(s), IsLaidOut(s), NEW index \in Nat
  PROVE  /\ FindArg(Walked(s).strings, index) = Arg(s, index, {DBusTypeCodes.STRING})
         /\ (IF FindArg(Walked(s).paths, index) # {} THEN FindArg(Walked(s).paths, index)
             ELSE FindArg(Walked(s).strings, index))
              = Arg(s, index, {DBusTypeCodes.STRING, DBusTypeCodes.OBJECT_PATH})
         /\ ~Failed(Walked(s))
<1>1. Walked(s) = WalkedTo(s, Len(s.ends)) /\ DOMAIN s.types = 1 .. Len(s.ends)
  BY SignalIsWalked
<1>2. PICK S, P : /\ S = Kept(s, DBusTypeCodes.STRING, Len(s.ends))
                  /\ P = Kept(s, DBusTypeCodes.OBJECT_PATH, Len(s.ends))
  OBVIOUS
<1>3. Walked(s).strings = S /\ Walked(s).paths = P /\ ~Failed(Walked(s))
  BY <1>1, <1>2 DEF WalkedTo, Failed
<1>4. FindArg(S, index) = Arg(s, index, {DBusTypeCodes.STRING})
  BY <1>1, <1>2, ArgumentOfIndex
<1>5. FindArg(P, index) = Arg(s, index, {DBusTypeCodes.OBJECT_PATH})
  BY <1>1, <1>2, ArgumentOfIndex
<1>6. (IF Arg(s, index, {DBusTypeCodes.OBJECT_PATH}) # {}
       THEN Arg(s, index, {DBusTypeCodes.OBJECT_PATH})
       ELSE Arg(s, index, {DBusTypeCodes.STRING}))
        = Arg(s, index, {DBusTypeCodes.STRING, DBusTypeCodes.OBJECT_PATH})
  BY DEF Arg
<1> QED
  BY <1>3, <1>4, <1>5, <1>6, Zenon

\* There is at most one, and it is a string.
LEMMA ArgumentIsText ==
  ASSUME NEW s, HasPlainArguments(s), IsLaidOut(s), NEW index \in Nat, NEW codes,
         codes \subseteq {DBusTypeCodes.STRING, DBusTypeCodes.OBJECT_PATH},
         NEW str \in Arg(s, index, codes)
  PROVE  str \in NumberSeq /\ Arg(s, index, codes) = {str}
<1>1. PICK k : k = index + 1
  OBVIOUS
<1>2. k \in DOMAIN s.types /\ s.types[k].code \in codes /\ Arg(s, index, codes) = {s.values[k]}
  BY <1>1 DEF Arg
<1>3. str = s.values[k]
  BY <1>2
<1>4. k \in 1 .. Len(s.ends)
  BY <1>2, SignalIsWalked
<1>5. IsArgument(s, k)
  BY <1>4, Zenon DEF IsLaidOut
<1>6. IsDBusBasicStringlikeType(s.types[k])
  BY <1>2, Zenon DEF IsDBusBasicStringlikeType, IsDBusBasicStringlikeTypeCode
<1>7. str \in Seq(Octet \ {0})
  BY <1>3, <1>5, <1>6, Zenon DEF IsArgument
<1>8. Octet \ {0} \subseteq Nat
  BY BytesAreSmall
<1>9. str \in Seq(Nat)
  BY <1>7, <1>8
<1> QED
  BY <1>2, <1>3, <1>9 DEF NumberSeq

\* An option that is given has one value.
LEMMA OptionOf ==
  ASSUME NEW S, NEW option \in Optional(S)
  PROVE  /\ Given(option) => /\ The(option) \in S /\ option = Some(The(option))
                             /\ Range(option) = {The(option)}
         /\ ~Given(option) => Range(option) = {}
<1>1. CASE option = None
  BY <1>1 DEF None, Given, Range
<1>2. ASSUME NEW x \in S, option = Some(x)
      PROVE  Given(option) /\ The(option) = x /\ Range(option) = {x}
  <2>1. option = <<x>> /\ DOMAIN <<x>> = {1} /\ <<x>>[1] = x /\ <<x>> # <<>>
    BY <1>2 DEF Some
  <2> QED
    BY <2>1 DEF Given, The, Range, None
<1>3. option = None \/ \E x \in S : option = Some(x)
  BY DEF Optional
<1> QED
  BY <1>1, <1>2, <1>3

\* The names of the types, of which one is that of a signal.
LEMMA SignalsByName ==
  ASSUME NEW r \in Rules, NEW s
  PROVE  Asks("type", TypeNames(r), s)
           <=> \A type \in Range(r.type) : DBusMessageType.SIGNAL = type
<1>1. r.type \in Optional({t \in Types : IsMatchable(t)})
  BY DEF Rules
<1>2. CASE ~Given(r.type)
  <2>1. Range(r.type) = {}
    BY <1>1, <1>2, OptionOf
  <2>2. TypeNames(r) = <<>>
    BY <1>2 DEF TypeNames, Given, None
  <2>3. ~Given(TypeNames(r))
    BY <2>2 DEF Given, None
  <2> QED
    BY <2>1, <2>3 DEF Asks
<1>3. CASE Given(r.type)
  <2>1. PICK t : t = The(r.type)
    OBVIOUS
  <2>2. t \in Types /\ IsMatchable(t) /\ r.type = Some(t) /\ Range(r.type) = {t}
    BY <1>1, <1>3, <2>1, OptionOf
  <2>3. t \in {1, 2, 3, 4}
    <3>1. t \in {DBusMessageType[name] : name \in DOMAIN DBusMessageType}
      BY <2>2, BuilderAssumption
    <3>2. t \in {0, 1, 2, 3, 4, 254, 255}
      BY <3>1 DEF DBusMessageType
    <3>3. t # 0 /\ t # 254 /\ t # 255
      BY <2>2 DEF IsMatchable, DBusMessageType
    <3> QED
      BY <3>2, <3>3
  <2>4. TypeName(t) = "signal" <=> DBusMessageType.SIGNAL = t
    <3>1. DBusMessageType.SIGNAL = 4
      BY DEF DBusMessageType
    <3> QED
      BY <2>3, <3>1 DEF TypeName
  <2>5. PICK named : named = TypeNames(r)
    OBVIOUS
  <2>6. named = <<TypeName(t)>>
    BY <2>2, <2>5 DEF TypeNames, Some
  <2>7. Given(named) /\ The(named) = TypeName(t)
    BY <2>6 DEF Given, The, None
  <2>8. Asks("type", named, s) <=> TypeName(t) = "signal"
    BY <2>7, HoldsForTheHeader DEF Asks
  <2> QED
    BY <2>2, <2>4, <2>5, <2>8
<1> QED
  BY <1>2, <1>3

\* An option of the rule against a field of the header.
LEMMA FieldsCompareAlike ==
  ASSUME NEW r \in Rules, NEW s
  PROVE  /\ Asks("interface", r.interface, s) <=> (Given(r.interface) => s.interface = r.interface)
         /\ Asks("member", r.member, s) <=> (Given(r.member) => s.member = r.member)
         /\ Asks("path", r.path, s) <=> (Given(r.path) => s.path = r.path)
<1>1. /\ r.interface \in Optional(InterfaceNames) /\ r.member \in Optional(MemberNames)
      /\ r.path \in Optional(ObjectPaths)
  BY DEF Rules
<1>2. /\ Given(r.interface) => r.interface = Some(The(r.interface))
      /\ Given(r.member) => r.member = Some(The(r.member))
      /\ Given(r.path) => r.path = Some(The(r.path))
  BY <1>1, OptionOf
<1>3. Asks("interface", r.interface, s) <=> (Given(r.interface) => s.interface = r.interface)
  BY <1>2, HoldsForTheHeader, Zenon DEF Asks
<1>4. Asks("member", r.member, s) <=> (Given(r.member) => s.member = r.member)
  BY <1>2, HoldsForTheHeader, Zenon DEF Asks
<1>5. Asks("path", r.path, s) <=> (Given(r.path) => s.path = r.path)
  BY <1>2, HoldsForTheHeader, Zenon DEF Asks
<1> QED
  BY <1>3, <1>4, <1>5

\* What Matches() compares of the header.
LEMMA HeaderOfSignal ==
  ASSUME NEW r \in Rules, NEW s
  PROVE  MatchesHeader(r, Received(s).header, s.names)
           <=> /\ \A type \in Range(r.type) : DBusMessageType.SIGNAL = type
               /\ Given(r.member) => s.member = r.member
               /\ Given(r.sender) => s.sender = r.sender
               /\ Given(r.interface) => s.interface = r.interface
               /\ Given(r.path) => s.path = r.path
               /\ \A i \in DOMAIN s.names : s.sender = Some(s.names[i])
<1>1. PICK h : h = Received(s).header
  OBVIOUS
<1>2. /\ h.type = DBusMessageType.SIGNAL /\ h.member = s.member /\ h.sender = s.sender
      /\ h.interface = s.interface /\ h.path = s.path
  BY <1>1 DEF Received
<1> QED
  BY <1>1, <1>2 DEF MatchesHeader

\* The answer, once the arguments are walked over.
LEMMA MatchesDecides ==
  ASSUME NEW r, NEW s, ~Failed(Walked(s))
  PROVE  Matches(r, Received(s), s.names) = "yes"
           <=> /\ MatchesHeader(r, Received(s).header, s.names)
               /\ MatchesArguments(r, Received(s).header, Walked(s))
<1>1. PICK h, walk : h = Received(s).header /\ walk = Walked(s)
  OBVIOUS
<1>2. h.signature = s.signature /\ Received(s).body = s.body
  BY <1>1 DEF Received
<1>3. walk = IF Received(s).body = <<>> THEN Start
             ELSE WalkSignature(The(h.signature), Received(s).body)
  BY <1>1, <1>2, Zenon DEF Walked
<1>4. Matches(r, Received(s), s.names)
        = IF ~MatchesHeader(r, h, s.names) THEN "no"
          ELSE IF Failed(walk) THEN walk.fault
          ELSE IF MatchesArguments(r, h, walk) THEN "yes" ELSE "no"
  BY <1>1, <1>3, Zenon DEF Matches, MatchesWalked
<1> QED
  BY <1>1, <1>4

\* A condition is on one of the first arguments, and its text is characters.
LEMMA ConditionsAreText ==
  ASSUME NEW args \in Seq(Condition), NEW i \in DOMAIN args
  PROVE  args[i].index \in Nat /\ args[i].name \in NumberSeq
<1>1. args[i] \in Condition
  OBVIOUS
<1>2. args[i].index \in Indices /\ args[i].name \in ArgumentTexts
  BY <1>1 DEF Condition
<1>3. args[i].index \in Octet /\ args[i].name \in Seq(Nat)
  BY <1>2, BuilderAssumption
<1> QED
  BY <1>3, BytesAreSmall DEF NumberSeq

\* The conditions on strings and on paths, as the daemon and Matches() see them.
LEMMA ArgumentsCompareAlike ==
  ASSUME NEW s, HasPlainArguments(s), IsLaidOut(s), NEW args \in Seq(Condition)
  PROVE  AsksArgs("arg", args, s)
           <=> \A i \in DOMAIN args :
                 FindArg(Walked(s).strings, args[i].index) = {args[i].name}
<1> SUFFICES ASSUME NEW i \in DOMAIN args
             PROVE  Holds([key |-> "arg", index |-> args[i].index, value |-> args[i].name], s)
                      <=> FindArg(Walked(s).strings, args[i].index) = {args[i].name}
  BY Zenon DEF AsksArgs
<1> PICK index, name : index = args[i].index /\ name = args[i].name
  OBVIOUS
<1>1. index \in Nat
  BY ConditionsAreText
<1>2. PICK found : found = Arg(s, index, {DBusTypeCodes.STRING})
  OBVIOUS
<1>3. FindArg(Walked(s).strings, index) = found
  BY <1>1, <1>2, ArgumentsByIndex
<1>4. name \in found => found = {name}
  <2>1. {DBusTypeCodes.STRING} \subseteq {DBusTypeCodes.STRING, DBusTypeCodes.OBJECT_PATH}
    OBVIOUS
  <2> QED
    BY <1>1, <1>2, <2>1, ArgumentIsText
<1>5. Holds([key |-> "arg", index |-> index, value |-> name], s) <=> name \in found
  BY <1>2, HoldsForTheArguments
<1> QED
  BY <1>3, <1>4, <1>5

\* The same for paths, which may be strings.
LEMMA ArgumentPathsCompareAlike ==
  ASSUME NEW s, HasPlainArguments(s), IsLaidOut(s), NEW args \in Seq(Condition)
  PROVE  AsksArgs("argpath", args, s)
           <=> \A i \in DOMAIN args :
                 LET paths   == FindArg(Walked(s).paths, args[i].index)
                     strings == FindArg(Walked(s).strings, args[i].index)
                 IN \E path \in IF paths # {} THEN paths ELSE strings :
                      MatchesPath(args[i].name, path)
<1> DEFINE found(i) == LET paths   == FindArg(Walked(s).paths, args[i].index)
                           strings == FindArg(Walked(s).strings, args[i].index)
                       IN IF paths # {} THEN paths ELSE strings
<1> SUFFICES ASSUME NEW i \in DOMAIN args
             PROVE  Holds([key |-> "argpath", index |-> args[i].index, value |-> args[i].name], s)
                      <=> \E path \in found(i) : MatchesPath(args[i].name, path)
  BY Zenon DEF AsksArgs
<1> PICK index, name : index = args[i].index /\ name = args[i].name
  OBVIOUS
<1>1. index \in Nat /\ name \in NumberSeq
  BY ConditionsAreText
<1>2. PICK all : all = Arg(s, index, {DBusTypeCodes.STRING, DBusTypeCodes.OBJECT_PATH})
  OBVIOUS
<1>3. found(i) = all
  BY <1>1, <1>2, ArgumentsByIndex
<1> HIDE DEF found
<1>4. \A path \in all : path \in NumberSeq
  <2>1. {DBusTypeCodes.STRING, DBusTypeCodes.OBJECT_PATH}
          \subseteq {DBusTypeCodes.STRING, DBusTypeCodes.OBJECT_PATH}
    OBVIOUS
  <2> QED
    BY <1>1, <1>2, <2>1, ArgumentIsText
<1>5. \A path \in all : MatchesPath(name, path)
        <=> \/ path = name
            \/ EndsWithSlash(name) /\ IsPrefix(name, path)
            \/ EndsWithSlash(path) /\ IsPrefix(path, name)
  BY <1>1, <1>4, PathsCompareAlike
<1>6. Holds([key |-> "argpath", index |-> index, value |-> name], s)
        <=> \E path \in all : \/ path = name
                              \/ EndsWithSlash(name) /\ IsPrefix(name, path)
                              \/ EndsWithSlash(path) /\ IsPrefix(path, name)
  BY <1>2, HoldsForTheArguments
<1> QED
  BY <1>3, <1>5, <1>6

\* A path that lies within a namespace contains it.
LEMMA WithinIsIn ==
  ASSUME NEW path \in NumberSeq, NEW namespace \in NumberSeq, IsWithin(path, namespace)
  PROVE  IsIn(namespace, path)
<1>1. Slash \in Nat
  BY DEF Slash
<1>2. CASE path = namespace
  BY <1>2, PrefixIsIn
<1>3. CASE IsPrefix(namespace, path)
  BY <1>3, PrefixIsIn
<1>4. CASE IsPrefix(Append(namespace, Slash), path)
  <2>1. IsPrefix(namespace, path)
    BY <1>1, <1>4, PrefixOfLonger
  <2> QED
    BY <2>1, PrefixIsIn
<1> QED
  BY <1>2, <1>3, <1>4 DEF IsWithin

\* What the daemon sends because of a rule, Matches() says yes to.
LEMMA SentIsMatched ==
  ASSUME NEW r \in Rules, NEW s, IsSignal(s), HasPlainArguments(s),
         ~Given(r.destination), Len(s.names) = 1, DaemonMatches(RuleText(r), s)
  PROVE  Matches(r, Received(s), s.names) = "yes"
<1>1. /\ Asks("type", TypeNames(r), s) /\ Asks("sender", r.sender, s)
      /\ Asks("interface", r.interface, s) /\ Asks("member", r.member, s)
      /\ Asks("path", r.path, s) /\ Asks("path_namespace", r.pathNamespace, s)
      /\ AsksArgs("arg", r.args, s) /\ AsksArgs("argpath", r.argPaths, s)
      /\ Asks("arg0namespace", r.argNamespace, s)
  BY TextMatches
<1>2. /\ r.sender \in Optional(Senders) /\ r.pathNamespace \in Optional(ObjectPaths)
      /\ r.args \in Seq(Condition) /\ r.argPaths \in Seq(Condition)
      /\ r.argNamespace \in Optional(Namespaces)
  BY DEF Rules
<1>3. /\ IsLaidOut(s) /\ s.path = Some(The(s.path)) /\ The(s.path) \in Seq(Nat)
      /\ DOMAIN s.names = {1} /\ s.sender = Some(s.names[1])
  <2>1. 1 .. 1 = {1}
    OBVIOUS
  <2> QED
    BY <2>1, Zenon DEF IsSignal
<1>4. ~Failed(Walked(s))
  BY <1>3, ArgumentsByIndex
<1>5. PICK name : name = s.names[1]
  OBVIOUS
<1>6. Given(r.sender) => s.sender = r.sender
  <2> SUFFICES ASSUME Given(r.sender) PROVE s.sender = r.sender
    OBVIOUS
  <2>1. r.sender = Some(The(r.sender))
    BY <1>2, OptionOf
  <2>2. The(r.sender) \in Range(s.sender) \union Range(s.names)
    BY <1>1, HoldsForTheHeader, Zenon DEF Asks
  <2>3. Range(s.sender) = {name}
    BY <1>3, <1>5 DEF Range, Some
  <2>4. Range(s.names) = {name}
    BY <1>3, <1>5 DEF Range
  <2>5. The(r.sender) = name
    BY <2>2, <2>3, <2>4
  <2> QED
    BY <1>3, <1>5, <2>1, <2>5
<1>7. \A i \in DOMAIN s.names : s.sender = Some(s.names[i])
  BY <1>3
<1>8. MatchesHeader(r, Received(s).header, s.names)
  <2>1. \A type \in Range(r.type) : DBusMessageType.SIGNAL = type
    BY <1>1, SignalsByName
  <2>2. /\ Given(r.interface) => s.interface = r.interface
        /\ Given(r.member) => s.member = r.member
        /\ Given(r.path) => s.path = r.path
    BY <1>1, FieldsCompareAlike
  <2> QED
    BY <1>6, <1>7, <2>1, <2>2, HeaderOfSignal
<1>9. PICK h, walk : h = Received(s).header /\ walk = Walked(s)
  OBVIOUS
<1>10. h.path = s.path
  BY <1>9 DEF Received
<1>11. \A i \in DOMAIN r.args : FindArg(walk.strings, r.args[i].index) = {r.args[i].name}
  <2>1. PICK args : args = r.args
    OBVIOUS
  <2>2. args \in Seq(Condition) /\ AsksArgs("arg", args, s) /\ IsLaidOut(s)
    BY <1>1, <1>2, <1>3, <2>1
  <2>3. \A i \in DOMAIN args : FindArg(Walked(s).strings, args[i].index) = {args[i].name}
    BY <2>2, ArgumentsCompareAlike
  <2> QED
    BY <1>9, <2>1, <2>3
<1>12. \A i \in DOMAIN r.argPaths :
         LET paths   == FindArg(walk.paths, r.argPaths[i].index)
             strings == FindArg(walk.strings, r.argPaths[i].index)
         IN \E path \in IF paths # {} THEN paths ELSE strings :
              MatchesPath(r.argPaths[i].name, path)
  BY <1>1, <1>2, <1>3, <1>9, ArgumentPathsCompareAlike, ZenonT(40)
<1>13. \A namespace \in Range(r.pathNamespace) :
         Given(h.path) /\ IsIn(namespace, The(h.path))
  <2> SUFFICES ASSUME NEW namespace \in Range(r.pathNamespace)
               PROVE  Given(s.path) /\ IsIn(namespace, The(s.path))
    BY <1>10
  <2>1. /\ Given(r.pathNamespace) /\ The(r.pathNamespace) = namespace
        /\ namespace \in ObjectPaths
    BY <1>2, OptionOf
  <2>2. namespace \in NumberSeq
    BY <2>1, BuilderAssumption DEF NumberSeq
  <2>3. IsWithin(The(s.path), namespace)
    BY <1>1, <2>1, HoldsForTheHeader, Zenon DEF Asks
  <2>4. IsIn(namespace, The(s.path))
    BY <1>3, <2>2, <2>3, WithinIsIn DEF NumberSeq
  <2>5. Given(s.path)
    BY <1>3, SomeIsOptional
  <2> QED
    BY <2>4, <2>5
<1>14. \A namespace \in Range(r.argNamespace) :
         \E str \in FindArg(walk.strings, 0) : IsPrefix(namespace, str)
  <2> SUFFICES ASSUME NEW namespace \in Range(r.argNamespace)
               PROVE  \E str \in FindArg(walk.strings, 0) : IsPrefix(namespace, str)
    OBVIOUS
  <2>1. /\ Given(r.argNamespace) /\ The(r.argNamespace) = namespace
        /\ namespace \in Namespaces
    BY <1>2, OptionOf
  <2>2. namespace \in NumberSeq /\ Dot \in Nat
    BY <2>1, BuilderAssumption DEF NumberSeq, Dot
  <2>3. FindArg(walk.strings, 0) = Arg(s, 0, {DBusTypeCodes.STRING})
    BY <1>3, <1>9, ArgumentsByIndex
  <2>4. PICK str \in Arg(s, 0, {DBusTypeCodes.STRING}) :
          str = namespace \/ IsPrefix(Append(namespace, Dot), str)
    BY <1>1, <2>1, HoldsForTheArguments, ZenonT(40) DEF Asks
  <2>5. str \in NumberSeq
    <3>1. {DBusTypeCodes.STRING} \subseteq {DBusTypeCodes.STRING, DBusTypeCodes.OBJECT_PATH}
      OBVIOUS
    <3> QED
      BY <1>3, <2>4, <3>1, ArgumentIsText
  <2>6. IsPrefix(namespace, str)
    <3>1. CASE str = namespace
      BY <2>5, <3>1, PrefixElements, LenProperties DEF NumberSeq
    <3>2. CASE IsPrefix(Append(namespace, Dot), str)
      BY <2>2, <2>5, <3>2, PrefixOfLonger
    <3> QED
      BY <2>4, <3>1, <3>2
  <2> QED
    BY <2>3, <2>4, <2>6
<1>15. MatchesArguments(r, h, walk)
  BY <1>11, <1>12, <1>13, <1>14, Zenon DEF MatchesArguments
<1> QED
  BY <1>4, <1>8, <1>9, <1>15, MatchesDecides

\* What Matches() says yes to, the daemon sends because of the rule.
LEMMA MatchedIsSent ==
  ASSUME NEW r \in Rules, NEW s, IsSignal(s), HasPlainArguments(s),
         ~Given(r.destination), ~Given(r.pathNamespace), ~Given(r.argNamespace),
         Matches(r, Received(s), s.names) = "yes"
  PROVE  DaemonMatches(RuleText(r), s)
<1>1. /\ r.sender \in Optional(Senders)
      /\ r.args \in Seq(Condition) /\ r.argPaths \in Seq(Condition)
  BY DEF Rules
<1>2. IsLaidOut(s)
  BY DEF IsSignal
<1>3. ~Failed(Walked(s))
  BY <1>2, ArgumentsByIndex
<1>4. PICK h, walk : h = Received(s).header /\ walk = Walked(s)
  OBVIOUS
<1>5. MatchesHeader(r, h, s.names) /\ MatchesArguments(r, h, walk)
  BY <1>3, <1>4, MatchesDecides
<1>6. /\ \A type \in Range(r.type) : DBusMessageType.SIGNAL = type
      /\ Given(r.member) => s.member = r.member
      /\ Given(r.sender) => s.sender = r.sender
      /\ Given(r.interface) => s.interface = r.interface
      /\ Given(r.path) => s.path = r.path
  BY <1>4, <1>5, HeaderOfSignal
<1>7. Asks("type", TypeNames(r), s)
  BY <1>6, SignalsByName
<1>8. /\ Asks("interface", r.interface, s) /\ Asks("member", r.member, s)
      /\ Asks("path", r.path, s)
  BY <1>6, FieldsCompareAlike
<1>9. Asks("sender", r.sender, s)
  <2> SUFFICES ASSUME Given(r.sender)
               PROVE  Holds([key |-> "sender", index |-> 0, value |-> The(r.sender)], s)
    BY Zenon DEF Asks
  <2>1. Range(r.sender) = {The(r.sender)} /\ s.sender = r.sender
    BY <1>1, <1>6, OptionOf
  <2>2. The(r.sender) \in Range(s.sender) \union Range(s.names)
    BY <2>1
  <2> QED
    BY <2>2, HoldsForTheHeader
<1>10. AsksArgs("arg", r.args, s)
  <2>1. \A i \in DOMAIN r.args : FindArg(walk.strings, r.args[i].index) = {r.args[i].name}
    BY <1>5, Zenon DEF MatchesArguments
  <2> QED
    BY <1>1, <1>2, <1>4, <2>1, ArgumentsCompareAlike
<1>11. AsksArgs("argpath", r.argPaths, s)
  <2>1. \A i \in DOMAIN r.argPaths :
          LET paths   == FindArg(walk.paths, r.argPaths[i].index)
              strings == FindArg(walk.strings, r.argPaths[i].index)
          IN \E path \in IF paths # {} THEN paths ELSE strings :
               MatchesPath(r.argPaths[i].name, path)
    BY <1>5, Zenon DEF MatchesArguments
  <2> QED
    BY <1>1, <1>2, <1>4, <2>1, ArgumentPathsCompareAlike
<1>12. /\ Asks("path_namespace", r.pathNamespace, s) /\ Asks("destination", r.destination, s)
       /\ Asks("arg0namespace", r.argNamespace, s) /\ Asks("eavesdrop", r.eavesdrop, s)
  BY HoldsForTheHeader DEF Asks
<1> QED
  BY <1>7, <1>8, <1>9, <1>10, <1>11, <1>12, TextMatches

-----------------------------------------------------------------------------
(* The answer                                                              *)

\* An answer is about the signal that was sent, and about the rule whose text the
\* daemon had.
SignalIsAnswered ==
  \/ signal = 0 /\ answer = ""
  \/ /\ signal \in DOMAIN Signals /\ text # <<>>
     /\ answer = Matches(rule, Received(Signals[signal]), Signals[signal].names)

AnswerInv == RuleInv /\ SignalIsAnswered

\* No signal is answered at first.
LEMMA AnswerInvInit == Init => AnswerInv
BY RuleInvInit, Zenon DEF AnswerInv, SignalIsAnswered, Init

\* The rule stays as it is once its text is sent.
LEMMA AnswerInvNext == AnswerInv /\ [Next]_vars => AnswerInv'
<1> SUFFICES ASSUME AnswerInv, [Next]_vars PROVE SignalIsAnswered'
  BY RuleInvNext, Zenon DEF AnswerInv
<1>1. SignalIsAnswered
  BY Zenon DEF AnswerInv
<1>2. ASSUME NEW r, Build(r) PROVE SignalIsAnswered'
  <2>1. text = <<>> /\ signal' = signal /\ answer' = answer
    BY <1>2, Zenon DEF Build
  <2>2. signal = 0 /\ answer = ""
    BY <1>1, <2>1, Zenon DEF SignalIsAnswered
  <2> QED
    BY <2>1, <2>2, Zenon DEF SignalIsAnswered
<1>3. CASE GetRule
  <2>1. text = <<>> /\ signal' = signal /\ answer' = answer
    BY <1>3, Zenon DEF GetRule
  <2>2. signal = 0 /\ answer = ""
    BY <1>1, <2>1, Zenon DEF SignalIsAnswered
  <2> QED
    BY <2>1, <2>2, Zenon DEF SignalIsAnswered
<1>4. CASE HandleReadMessage
  <2>1. PICK n : n = signal'
    OBVIOUS
  <2>2. /\ n \in DOMAIN Signals /\ text' = text /\ text # <<>> /\ rule' = rule
        /\ answer' = Matches(rule, Received(Signals[n]), Signals[n].names)
    BY <1>4, <2>1, Zenon DEF HandleReadMessage
  <2> QED
    BY <2>1, <2>2, Zenon DEF SignalIsAnswered
<1>5. CASE UNCHANGED vars
  BY <1>1, <1>5, Zenon DEF SignalIsAnswered, vars
<1>6. CASE \/ Type \/ Sender \/ Interface \/ Member \/ Path \/ PathNamespace \/ Destination
           \/ Argument \/ ArgumentPath \/ ArgumentNamespace \/ EavesDrop
  BY <1>2, <1>6, Zenon DEF Type, Sender, Interface, Member, Path, PathNamespace, Destination,
                           Argument, ArgumentPath, ArgumentNamespace, EavesDrop
<1> QED
  BY <1>3, <1>4, <1>5, <1>6, Zenon DEF Next

\* Every answer is what Matches() says of the signal that was sent and of the rule
\* that was added.
THEOREM AnswersAreMatches == Spec => []AnswerInv
<1> QED
  BY AnswerInvInit, AnswerInvNext, PTL DEF Spec

\* HandleReadMessage() calls the callback with every signal that the daemon sent
\* because of the rule, in the cases the property names.
THEOREM SentIsDelivered == Spec => []DeliversWhatTheDaemonSends
<1>1. AnswerInv => DeliversWhatTheDaemonSends
  <2> SUFFICES ASSUME AnswerInv, signal # 0, HasPlainArguments(Signals[signal]),
                      ~Given(rule.destination), Len(Signals[signal].names) = 1,
                      DaemonMatches(text, Signals[signal])
               PROVE  answer = "yes"
    BY Zenon DEF DeliversWhatTheDaemonSends
  <2>1. /\ signal \in DOMAIN Signals /\ text = RuleText(rule) /\ rule \in Rules
        /\ answer = Matches(rule, Received(Signals[signal]), Signals[signal].names)
    BY Zenon DEF AnswerInv, SignalIsAnswered, RuleInv, TextIsOfRule, RuleOK
  <2>2. IsSignal(Signals[signal])
    BY <2>1, SignalsAssumption
  <2> QED
    BY <2>1, <2>2, SentIsMatched
<1> QED
  BY <1>1, AnswersAreMatches, PTL

\* HandleReadMessage() calls the callback with no other signal, in the cases the
\* property names.
THEOREM HandledIsMatched == Spec => []HandlesOnlyWhatMatches
<1>1. AnswerInv => HandlesOnlyWhatMatches
  <2> SUFFICES ASSUME AnswerInv, answer = "yes", HasPlainArguments(Signals[signal]),
                      ~Given(rule.destination), ~Given(rule.pathNamespace),
                      ~Given(rule.argNamespace)
               PROVE  DaemonMatches(text, Signals[signal])
    BY Zenon DEF HandlesOnlyWhatMatches
  <2>1. answer # ""
    OBVIOUS
  <2>2. /\ signal \in DOMAIN Signals /\ text = RuleText(rule) /\ rule \in Rules
        /\ answer = Matches(rule, Received(Signals[signal]), Signals[signal].names)
    BY <2>1, Zenon DEF AnswerInv, SignalIsAnswered, RuleInv, TextIsOfRule, RuleOK
  <2>3. IsSignal(Signals[signal])
    BY <2>2, SignalsAssumption
  <2> QED
    BY <2>2, <2>3, MatchedIsSent
<1> QED
  BY <1>1, AnswersAreMatches, PTL

\* DBusTypes.cpp decides about every string as the protocol does, as far as the
\* property asks.
THEOREM NamesAreValidated == Spec => []ValidatesLikeTheProtocol
<1>1. ValidatesLikeTheProtocol
  BY EveryStringIsValidated, Zenon DEF ValidatesLikeTheProtocol
<1> QED
  BY <1>1, PTL
===============================================================================
