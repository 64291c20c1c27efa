----------------------------- MODULE WireFormat -----------------------------
(***************************************************************************)
(* One value on its way: a user of the library, or a peer, writes it, the  *)
(* other user reads it as a type of the same signature, and opens the      *)
(* variants in it.                                                         *)
(***************************************************************************)
EXTENDS Unmarshalling, DBusEncoding

CONSTANTS
  Letters,     \* what may be sent: a sequence of records [type, value]
  ReadAs(_)    \* the C++ types a receiver may read a type as, in a sequence

VARIABLES
  letter,   \* which one is being sent
  sender,   \* who marshals it: "library", "peer" or "nobody" yet
  wire,     \* the bytes that were sent
  reader,   \* the type the receiver asked for
  got       \* what the receiver has got: [val, at] or [fault]

vars == <<letter, sender, wire, reader, got>>

LOCAL C == DBusTypeCodes

Sent == Letters[letter]

Nothing == <<>>
Unread  == [fault |-> "unread"]

Init ==
  /\ letter \in DOMAIN Letters
  /\ sender = "nobody"
  /\ wire = Nothing
  /\ reader = Sent.type
  /\ got = Unread

SendByLibrary ==
  /\ sender = "nobody"
  /\ sender' = "library"
  /\ wire' = MarshalDBusType(Sent.type, Sent.value)
  /\ UNCHANGED <<letter, reader, got>>

SendByPeer ==
  /\ sender = "nobody"
  /\ sender' = "peer"
  /\ wire' = Encode(Sent.type, Sent.value, <<>>)
  /\ UNCHANGED <<letter, reader, got>>

RECURSIVE ArraysIn(_)
ArraysIn(T) ==
  CASE T.code = C.ARRAY -> {T} \union ArraysIn(T.of)
    [] T.code \in {C.STRUCT_BEGIN, Multiple} -> UNION {ArraysIn(T.of[i]) : i \in DOMAIN T.of}
    [] IsDBusMap(T) -> ArraysIn(T.val)
    [] OTHER -> {}

\* A user who reads a std::vector<bool>, which has no data(), has no program.
Compiles(T) == \A A \in ArraysIn(T) : A.of.code = C.BOOLEAN => IsStdArray(A)

\* An exception keeps the bytes from being sent.
Receive ==
  /\ sender # "nobody"
  /\ IsMarshalled(wire)
  /\ got = Unread
  /\ \E n \in DOMAIN ReadAs(Sent.type) :
       Compiles(ReadAs(Sent.type)[n]) /\ reader' = ReadAs(Sent.type)[n]
  /\ got' = UnmarshalDBusType(reader', wire, GetTypeSignature(Sent.type))
  /\ UNCHANGED <<letter, sender, wire>>

Next == SendByLibrary \/ SendByPeer \/ Receive

Spec == Init /\ [][Next]_vars

(***************************************************************************)
(* What was received is what was sent, once its variants are opened with   *)
(* the types they were created with.                                       *)
(***************************************************************************)
RECURSIVE Same(_, _, _)
Same(T, sent, received) ==
  LET opened == UnmarshalData(sent.type, received)
  IN CASE IsDBusBasicFixedType(T) \/ IsDBusBasicStringlikeType(T) -> received = sent
       [] T.code = C.ARRAY ->
            /\ Len(received) = Len(sent)
            /\ \A i \in DOMAIN sent : Same(T.of, sent[i], received[i])
       [] T.code \in {C.STRUCT_BEGIN, Multiple} ->
            \A i \in DOMAIN sent : Same(T.of[i], sent[i], received[i])
       [] T.code = C.DICT_BEGIN ->
            /\ Len(received) = Len(sent)
            /\ \A i \in DOMAIN sent : /\ sent[i][1] = received[i][1]
                                      /\ Same(T.val, sent[i][2], received[i][2])
       [] T.code = C.VARIANT ->
            /\ ~Failed(opened)
            /\ Same(sent.type, sent.value, opened.val)

Arrived == /\ ~Failed(got)
           /\ Same(Sent.type, Sent.value, got.val)

\* A std::array takes exactly as many elements as it has.
RECURSIVE Fits(_, _)
Fits(T, value) ==
  CASE T.code = C.ARRAY ->
         /\ IsStdArray(T) => Len(value) = T.size
         /\ \A i \in DOMAIN value : Fits(T.of, value[i])
    [] T.code \in {C.STRUCT_BEGIN, Multiple} ->
         \A i \in DOMAIN value : Fits(T.of[i], value[i])
    [] T.code = C.DICT_BEGIN -> \A i \in DOMAIN value : Fits(T.val, value[i][2])
    [] OTHER -> TRUE

(***************************************************************************)
(* Where the code is known to leave the protocol.  A variant is followed   *)
(* by its signature (Walks) to its end, and its bytes are then read from   *)
(* position 0 of a copy, which aligns them as before only if nothing in it *)
(* needs more than its first code does (Need).                             *)
(***************************************************************************)
Largest(S) == CHOOSE n \in S : \A m \in S : m <= n

RECURSIVE Need(_, _)
Need(T, value) ==
  LET a == NaturalAlignment(T)
  IN CASE T.code = C.ARRAY ->
            Largest({a, NaturalAlignment(T.of)} \union {Need(T.of, value[i]) : i \in DOMAIN value})
       [] T.code = C.VARIANT -> Need(value.type, value.value)
       [] IsDBusMap(T) -> 8
       [] OTHER -> a

RECURSIVE Walks(_, _)
Walks(T, value) ==
  CASE IsDBusMap(T) -> FALSE
    [] T.code = C.ARRAY -> T.of.code \notin {C.ARRAY, C.STRUCT_BEGIN, C.DICT_BEGIN}
    [] T.code = C.STRUCT_BEGIN -> \A i \in DOMAIN value : Walks(T.of[i], value[i])
    [] T.code = C.VARIANT -> Walks(value.type, value.value)
    [] OTHER -> TRUE

\* A variant keeps the string it was created with.
Keeps(variant) ==
  IsDBusBasicStringlikeType(variant.type)
    => Stored(variant.type, variant.value) = variant.value

RECURSIVE HasSoundVariants(_, _)
HasSoundVariants(T, value) ==
  CASE T.code = C.ARRAY -> \A i \in DOMAIN value : HasSoundVariants(T.of, value[i])
    [] T.code \in {C.STRUCT_BEGIN, Multiple} ->
         \A i \in DOMAIN value : HasSoundVariants(T.of[i], value[i])
    [] IsDBusMap(T) -> \A i \in DOMAIN value : HasSoundVariants(T.val, value[i][2])
    [] T.code = C.VARIANT ->
         /\ Walks(value.type, value.value)
         /\ Need(value.type, value.value) <= NaturalAlignment(value.type)
         /\ Keeps(value)
         /\ HasSoundVariants(value.type, value.value)
    [] OTHER -> TRUE

\* No map stands where the library aligns it as its entries.
RECURSIVE HasSoundMaps(_)
HasSoundMaps(T) ==
  CASE T.code = C.ARRAY -> ~IsDBusMap(T.of) /\ HasSoundMaps(T.of)
    [] T.code = C.STRUCT_BEGIN -> \A i \in DOMAIN T.of : HasSoundMaps(T.of[i])
    [] T.code = Multiple -> /\ \A i \in DOMAIN T.of : HasSoundMaps(T.of[i])
                            /\ \A i \in DOMAIN T.of \ {1} : ~IsDBusMap(T.of[i])
    [] IsDBusMap(T) -> HasSoundMaps(T.val)
    [] OTHER -> TRUE

\* The sender measures only the arrays that are not of a fixed type, and takes
\* the empty path of a default-constructed ObjectPath.
RECURSIVE WithinLimit(_, _)
WithinLimit(T, value) ==
  CASE T.code = C.ARRAY ->
         /\ IsDBusBasicFixedType(T.of) => Len(value) * SizeOf(T.of) < MaxArray
         /\ \A i \in DOMAIN value : WithinLimit(T.of, value[i])
    [] T.code \in {C.STRUCT_BEGIN, Multiple} ->
         \A i \in DOMAIN value : WithinLimit(T.of[i], value[i])
    [] T.code = C.OBJECT_PATH -> value # <<>>
    [] OTHER -> TRUE

\* An array of booleans is taken for one byte each, but for four where it is sent.
HasSoundArrays(T) == \A A \in ArraysIn(T) : A.of.code # C.BOOLEAN

Sound == /\ HasSoundVariants(Sent.type, Sent.value)
         /\ HasSoundArrays(Sent.type)
         /\ WithinLimit(Sent.type, Sent.value)

(***************************************************************************)
(* Properties                                                              *)
(***************************************************************************)

\* What MarshalDBusType() writes is what the protocol prescribes, byte for
\* byte: padding, lengths that leave out the first padding, the temporary
\* buffer of a map.
WritesAsPeers ==
  /\ sender = "library"
  /\ IsMarshalled(wire)
  /\ HasSoundVariants(Sent.type, Sent.value)
  /\ HasSoundMaps(Sent.type)
  => wire = Encode(Sent.type, Sent.value, <<>>)

\* Of what a peer sends, and the library would, UnmarshalDBusType() restores
\* every value, wherever it stands, with variants that can be opened, and refuses
\* it only where a std::array has another size.
UnderstandsPeers ==
  /\ sender = "peer"
  /\ got # Unread
  /\ IsMarshalled(MarshalDBusType(Sent.type, Sent.value))
  /\ Sound /\ HasSoundMaps(Sent.type)
  => IF Fits(reader, Sent.value) THEN Arrived ELSE got = Malformed

\* What the library does not refuse to send, it understands: a refusal comes
\* before the bytes are sent.
UnderstandsItself ==
  /\ sender = "library"
  /\ got # Unread
  /\ Sound
  => IF Fits(reader, Sent.value) THEN Arrived ELSE got = Malformed
=============================================================================
