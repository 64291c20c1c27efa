----------------------------- MODULE Marshalling -----------------------------
(***************************************************************************)
(* What a value of any type becomes on the wire (DBus.h, MarshalDBusType), *)
(* behind the bytes written so far, because padding depends on where the   *)
(* buffer stands (see BasicTypes).                                         *)
(***************************************************************************)
EXTENDS BasicTypes

CONSTANTS
  SmallBuffer,   \* Variant::SMALL_BUFFER_SIZE, 32
  MaxArray       \* 1 << 26, the length from which an array is refused

ASSUME SmallBufferAssumption == SmallBuffer \in Nat \ {0}
ASSUME MaxArrayAssumption == MaxArray \in Nat \ {0}

LOCAL C == DBusTypeCodes

RECURSIVE GetTypeSignature(_)
GetTypeSignature(T) ==
  LET OfMembers == FlattenSeq([i \in DOMAIN T.of |-> GetTypeSignature(T.of[i])])
  IN CASE T.code = C.ARRAY -> <<C.ARRAY>> \o GetTypeSignature(T.of)
       [] T.code = C.STRUCT_BEGIN -> <<C.STRUCT_BEGIN>> \o OfMembers \o <<C.STRUCT_END>>
       [] T.code = Multiple -> OfMembers
       [] T.code = C.DICT_BEGIN ->
            <<C.ARRAY, C.DICT_BEGIN>> \o GetTypeSignature(T.key)
              \o GetTypeSignature(T.val) \o <<C.DICT_END>>
       [] OTHER -> <<T.code>>

RECURSIVE MarshalDBusTypeImpl(_, _, _)

(***************************************************************************)
(* Tuples                                                                  *)
(***************************************************************************)

\* The members of a tuple one after the other, each with its alignment.
MarshalMembers(Ts, values, bytes, alignments) ==
  FoldLeft(LAMBDA b, i :
             MarshalDBusTypeImpl(Ts[i], values[i],
               IF i = 1 THEN b ELSE ApplyPadding(b, alignments[i])),
           bytes, [i \in 1 .. Len(Ts) |-> i])

MarshalBasicMultipleCompleteTypes(T, values, bytes) ==
  MarshalMembers(T.of, values, bytes,
                 [i \in DOMAIN T.of |-> GetAlignmentOfDBusType(T.of[i])])

(***************************************************************************)
(* Containers                                                              *)
(***************************************************************************)
Overwrite(bytes, at, new) ==
  [i \in DOMAIN bytes |-> IF i - at \in DOMAIN new THEN new[i - at] ELSE bytes[i]]

\* Mutant: the limit itself is let through.
ExceedsLimitByOne(arrSize) == arrSize > MaxArray

ExceedsLimit(arrSize) == arrSize >= MaxArray

MarshalDBusArray(T, value, bytes) ==
  LET alignment == GetAlignmentOfDBusType(T.of)
      Begin(n)  == ApplyPadding(bytes \o UInt32(n), alignment)
      Full      == FoldLeft(LAMBDA b, elem :
                              MarshalDBusTypeImpl(T.of, elem, ApplyPadding(b, alignment)),
                            Begin(0), value)
      arrSize   == Len(Full) - Len(Begin(0))
  IN IF IsDBusBasicFixedType(T.of) /\ T.of.code # C.BOOLEAN
     THEN Begin(Len(value) * SizeOf(T.of)) \o FlattenSeq(value)
     ELSE IF ExceedsLimit(arrSize)
     THEN Append(Full, Refused)
     ELSE Overwrite(Full, Len(bytes), UInt32(arrSize))

MarshalDBusStruct(T, value, bytes) ==
  MarshalMembers(T.of, value, bytes, [i \in DOMAIN T.of |-> MemberAlignment(T.of[i])])

MarshalEntry(T, bytes, entry) ==
  LET key == MarshalDBusTypeImpl(T.key, entry[1], bytes)
  IN MarshalDBusTypeImpl(T.val, entry[2], ApplyPadding(key, MemberAlignment(T.val)))

AddEntry(T, tempBuffer, entry) ==
  MarshalEntry(T, ApplyPadding(tempBuffer, GetAlignmentOfDBusType(T)), entry)

\* The entries are written to a buffer of their own, which begins aligned.
MarshalDBusMap(T, value, bytes) ==
  LET tempBuffer == FoldLeft(LAMBDA b, entry : AddEntry(T, b, entry), <<>>, value)
  IN ApplyPadding(bytes \o UInt32(Len(tempBuffer)), GetAlignmentOfDBusType(T))
       \o tempBuffer

(***************************************************************************)
(* Variants.  A variant the user creates holds a value and its type; one   *)
(* that was received holds a signature and bytes.  A short string is       *)
(* copied to a zeroed buffer and read back as a C string, by the           *)
(* constructor of its class; a string literal stays in that buffer when it *)
(* fits; of a pointer to characters, and of a longer literal, the bytes of *)
(* the pointer are read as characters.                                     *)
(***************************************************************************)
Create(T, value) == [type |-> T, value |-> value]

IsDeserialized(variant) == "bytes" \in DOMAIN variant

UpToNull(str) ==
  IF Contains(str, 0) THEN SubSeq(str, 1, SelectInSeq(str, LAMBDA c : c = 0) - 1)
                      ELSE str

Constructs(T, str) ==
  /\ T.code = C.OBJECT_PATH => ObjectPath(str)
  /\ IsDBusInterfaceName(T) => DBusInterfaceName(str)

\* What is marshalled of the string a variant was created with.
Stored(T, str) ==
  IF IsRaw(T)
  THEN IF T.raw = "literal" /\ Len(str) < SmallBuffer THEN UpToNull(str)
       ELSE <<Unset>>
  ELSE IF Len(str) < SmallBuffer
  THEN IF Constructs(T, UpToNull(str)) THEN UpToNull(str) ELSE <<Refused>>
  ELSE str

MarshalData(variant, bytes) ==
  LET T == variant.type
      signature == MarshalBasicStringlikeType(Basic(C.SIGNATURE),
                                              GetTypeSignature(T), bytes)
  IN IF IsDeserialized(variant)
     THEN Append(bytes, Refused)
     ELSE MarshalDBusTypeImpl(T,
            IF IsDBusBasicStringlikeType(T) THEN Stored(T, variant.value)
                                            ELSE variant.value,
            ApplyPadding(signature, GetAlignmentOfDBusType(T)))

MarshalDBusTypeImpl(T, value, bytes) ==
  CASE IsDBusBasicFixedType(T) -> MarshalBasicFixedType(T, value, bytes)
    [] IsDBusBasicStringlikeType(T) -> MarshalBasicStringlikeType(T, value, bytes)
    [] T.code = Multiple -> MarshalBasicMultipleCompleteTypes(T, value, bytes)
    [] T.code = C.ARRAY -> MarshalDBusArray(T, value, bytes)
    [] T.code = C.STRUCT_BEGIN -> MarshalDBusStruct(T, value, bytes)
    [] T.code = C.DICT_BEGIN -> MarshalDBusMap(T, value, bytes)
    [] T.code = C.VARIANT -> MarshalData(value, bytes)

MarshalDBusType(T, value) == MarshalDBusTypeImpl(T, value, <<>>)

IsMarshalled(bytes) == ~Contains(bytes, Refused)
=============================================================================
