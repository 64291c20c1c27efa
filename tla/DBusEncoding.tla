----------------------------- MODULE DBusEncoding -----------------------------
(***************************************************************************)
(* How a peer that is not this library puts a value on the wire: the       *)
(* marshalling rules of the D-Bus protocol, in which each type has one     *)
(* alignment wherever it appears, and a map is an array of entries.  The   *)
(* library is held against it.                                             *)
(***************************************************************************)
EXTENDS Marshalling

LOCAL C == DBusTypeCodes

NaturalAlignment(T) == GetAlignmentOfSignature(GetTypeSignature(T)[1])

RECURSIVE Encode(_, _, _)

EncodeAll(Ts, values, bytes) ==
  FoldLeft(LAMBDA b, i : Encode(Ts[i], values[i], b), bytes, [i \in DOMAIN Ts |-> i])

\* The length does not count the padding before the first element.
EncodeArray(Ts, values, alignment, bytes) ==
  LET begin == ApplyPadding(bytes \o UInt32(0), alignment)
      full  == EncodeAll(Ts, values, begin)
  IN bytes \o UInt32(Len(full) - Len(begin)) \o SubSeq(full, Len(bytes) + 5, Len(full))

\* The value behind the bytes that are there, with the padding it needs.
Encode(T, value, bytes) ==
  LET b == IF T.code = Multiple THEN bytes ELSE ApplyPadding(bytes, NaturalAlignment(T))
      Entry == Tuple(<<T.key, T.val>>)
  IN CASE IsDBusBasicFixedType(T) -> MarshalBasicFixedType(T, value, b)
       [] IsDBusBasicStringlikeType(T) -> MarshalBasicStringlikeType(T, value, b)
       [] T.code = Multiple -> EncodeAll(T.of, value, b)
       [] T.code = C.STRUCT_BEGIN -> EncodeAll(T.of, value, b)
       [] T.code = C.ARRAY ->
            EncodeArray([i \in DOMAIN value |-> T.of], value, NaturalAlignment(T.of), b)
       [] T.code = C.DICT_BEGIN ->
            EncodeArray([i \in DOMAIN value |-> Entry], value, 8, b)
       [] T.code = C.VARIANT ->
            Encode(value.type, value.value,
                   MarshalBasicStringlikeType(Basic(C.SIGNATURE),
                                              GetTypeSignature(value.type), b))
=============================================================================
