---------------------------- MODULE Unmarshalling ----------------------------
(***************************************************************************)
(* How a value of any type is read back (DBus.h, UnmarshalDBusType), from  *)
(* the bytes and the position arrPointer (see BasicTypes).                 *)
(***************************************************************************)
EXTENDS Marshalling

LOCAL C == DBusTypeCodes

RECURSIVE UnmarshalDBusTypeImpl(_, _, _)

(***************************************************************************)
(* Tuples                                                                  *)
(***************************************************************************)
UnmarshalMembers(Ts, bytes, at, alignments) ==
  LET Next(r, i) ==
        LET p == IF i = 1 THEN r.at ELSE SkipPadding(r.at, alignments[i])
            e == UnmarshalDBusTypeImpl(Ts[i], bytes, p)
        IN CASE Failed(r) -> r
             [] ~Failed(r) /\ Failed(e) -> e
             [] OTHER -> Read(Append(r.val, e.val), e.at)
  IN FoldLeft(Next, Read(<<>>, at), [i \in 1 .. Len(Ts) |-> i])

UnmarshalDBusBasicMultipleCompleteTypes(T, bytes, at) ==
  UnmarshalMembers(T.of, bytes, at,
                   [i \in DOMAIN T.of |-> GetAlignmentOfDBusType(T.of[i])])

UnmarshalDBusStruct(T, bytes, at) ==
  UnmarshalMembers(T.of, bytes, at, [i \in DOMAIN T.of |-> MemberAlignment(T.of[i])])

(***************************************************************************)
(* Arrays: those of fixed types are copied at once, the others read        *)
(* element by element until their length is used up.  A std::vector<bool>  *)
(* has no data() to be copied to, and no array of that type is read.       *)
(***************************************************************************)
CopyElements(T, n, bytes, at) ==
  LET size  == SizeOf(T.of)
      count == n \div size
  IN CASE IsStdArray(T) /\ count # T.size -> Malformed
       [] OTHER ->
            IF at + n > Len(bytes) THEN Malformed
            ELSE IF n % size # 0 \/ Contains(SubSeq(bytes, at + 1, at + n), Unset)
            THEN Undefined
            ELSE Read([i \in 1 .. count |-> SubSeq(bytes, at + (i - 1) * size + 1,
                                                   at + i * size)], at + n)

\* Mutant: there is padding behind the last element, too.
NextElementAlways(T, at, end) == SkipPadding(at, GetAlignmentOfDBusType(T.of))

NextElement(T, at, end) ==
  IF at < end THEN SkipPadding(at, GetAlignmentOfDBusType(T.of)) ELSE at

RECURSIVE ReadElements(_, _, _, _, _)
ReadElements(T, bytes, at, end, elems) ==
  LET e == UnmarshalDBusTypeImpl(T.of, bytes, at)
  IN IF at >= end
     THEN IF IsStdArray(T) /\ Len(elems) < T.size THEN Malformed ELSE Read(elems, at)
     ELSE IF at >= Len(bytes) \/ (IsStdArray(T) /\ Len(elems) >= T.size)
     THEN Malformed
     ELSE IF Failed(e) THEN e
     ELSE ReadElements(T, bytes, NextElement(T, e.at, end), end, Append(elems, e.val))

ReadArray(T, bytes, length, begin) ==
  CASE Failed(length) -> length
    [] ~Failed(length) /\ length.val >= MaxArray -> Malformed
    [] OTHER -> IF IsDBusBasicFixedType(T.of)
                THEN CopyElements(T, length.val, bytes, begin)
                ELSE ReadElements(T, bytes, begin, begin + length.val, <<>>)

UnmarshalDBusArray(T, bytes, at) ==
  ReadArray(T, bytes, ReadNumber(4, bytes, at),
            SkipPadding(at + 4, GetAlignmentOfDBusType(T.of)))

(***************************************************************************)
(* Maps.  A key that is already there keeps its value.                     *)
(***************************************************************************)
Emplace(map, key, value) ==
  IF \E i \in DOMAIN map : map[i][1] = key THEN map ELSE Append(map, <<key, value>>)

RECURSIVE ReadEntries(_, _, _, _, _)
ReadEntries(T, bytes, at, end, map) ==
  LET key   == UnmarshalDBusTypeImpl(T.key, bytes, at)
      value == UnmarshalDBusTypeImpl(T.val, bytes,
                                     SkipPadding(key.at, MemberAlignment(T.val)))
      p     == IF value.at < end THEN SkipPadding(value.at, GetAlignmentOfDBusType(T))
               ELSE value.at
  IN IF at >= end THEN Read(map, at)
     ELSE IF Failed(key) THEN key
     ELSE IF Failed(value) THEN value
     ELSE ReadEntries(T, bytes, p, end, Emplace(map, key.val, value.val))

UnmarshalDBusMap(T, bytes, at) ==
  LET length == ReadNumber(4, bytes, at)
      begin  == SkipPadding(length.at, GetAlignmentOfDBusType(T))
  IN IF Failed(length) THEN length
     ELSE ReadEntries(T, bytes, begin, begin + length.val, <<>>)

(***************************************************************************)
(* Variants.  WalkVariant follows the signature, from its i-th code on, to *)
(* find where the value ends; nothing is built of it.  The answer is the   *)
(* position, or a fault.                                                   *)
(***************************************************************************)
BehindDict(sig, i) ==
  LET ends == {j \in i .. Len(sig) : sig[j] = C.DICT_END}
  IN IF ends = {} THEN Len(sig) + 1 ELSE (CHOOSE j \in ends : \A k \in ends : j <= k) + 1

RECURSIVE WalkVariant(_, _, _, _)

\* The signature of a variant in a variant is followed before the rest.
WalkInner(sig, i, bytes, inner) ==
  IF Failed(inner) THEN inner
  ELSE WalkVariant(SubSeq(sig, 1, i) \o inner.val \o SubSeq(sig, i + 1, Len(sig)),
                   i + 1, bytes, inner.at)

WalkLength(sig, i, bytes, length) ==
  LET next == Code(sig, i + 1)
      alignment == GetAlignmentOfSignature(next)
  IN IF Failed(length) THEN length
     ELSE IF IsDBusBasicStringlikeTypeCode(sig[i])
     THEN WalkVariant(sig, i + 1, bytes, length.at + length.val + 1)
     ELSE IF alignment = NoAlignment THEN Malformed
     ELSE WalkVariant(sig, IF next = C.DICT_BEGIN THEN i + 1 ELSE i + 2, bytes,
                      SkipPadding(length.at, alignment) + length.val)

WalkCode(sig, i, bytes, alignment, p) ==
  LET c == sig[i]
  IN IF alignment = NoAlignment THEN Malformed
     ELSE IF IsDBusBasicFixedTypeCode(c)
     THEN WalkVariant(sig, i + 1, bytes, p + alignment)
     ELSE IF c = C.STRUCT_BEGIN THEN WalkVariant(sig, i + 1, bytes, p)
     ELSE IF c = C.DICT_BEGIN THEN WalkVariant(sig, BehindDict(sig, i), bytes, p)
     ELSE IF c = C.VARIANT
     THEN WalkInner(sig, i, bytes,
                    UnmarshalDBusBasicStringlikeType(Basic(C.SIGNATURE), bytes, p))
     ELSE WalkLength(sig, i, bytes,
                     ReadNumber(IF c = C.SIGNATURE THEN 1 ELSE 4, bytes, p))

WalkVariant(sig, i, bytes, at) ==
  LET alignment == GetAlignmentOfSignature(sig[i])
  IN CASE i > Len(sig) -> Read(<<>>, at)
       [] i <= Len(sig) /\ sig[i] \in {C.STRUCT_END, C.DICT_END} ->
            WalkVariant(sig, i + 1, bytes, at)
       [] OTHER -> WalkCode(sig, i, bytes, alignment, SkipPadding(at, alignment))

\* A short variant is copied to a buffer whose rest is never written.
CopyVariant(T, signature, bytes, begin, end) ==
  LET size == end - begin
      data == SubSeq(bytes, begin + 1, end)
      tail == [i \in 1 .. (SmallBuffer - size) |-> Unset]
  IN Read([signature |-> signature,
           bytes |-> IF T.fast \/ size > SmallBuffer THEN data ELSE data \o tail],
          end)

ReadVariant(T, bytes, signature, alignment, end) ==
  CASE Failed(signature) -> signature
    [] ~Failed(signature) /\ alignment = NoAlignment -> Malformed
    [] OTHER ->
         IF Failed(end) THEN end
         ELSE IF end.at > Len(bytes) THEN Undefined
         ELSE CopyVariant(T, signature.val, bytes,
                          SkipPadding(signature.at, alignment), end.at)

\* The value begins where its first code is aligned, and ends where the walk does.
FollowSignature(T, bytes, signature) ==
  ReadVariant(T, bytes, signature,
              GetAlignmentOfSignature(Code(signature.val, 1)),
              WalkVariant(signature.val, 1, bytes, signature.at))

UnmarshalDBusVariant(T, bytes, at) ==
  FollowSignature(T, bytes,
                  UnmarshalDBusBasicStringlikeType(Basic(C.SIGNATURE), bytes, at))

\* Variant::UnmarshalData() and FastVariant::UnmarshalData().
UnmarshalData(T, variant) ==
  IF ~IsDeserialized(variant) THEN Malformed
  ELSE IF variant.signature # GetTypeSignature(T) THEN Malformed
  ELSE UnmarshalDBusTypeImpl(T, variant.bytes, 0)

UnmarshalDBusTypeImpl(T, bytes, at) ==
  CASE IsDBusBasicFixedType(T) -> UnmarshalDBusBasicFixedType(T, bytes, at)
    [] IsDBusBasicStringlikeType(T) -> UnmarshalDBusBasicStringlikeType(T, bytes, at)
    [] T.code = Multiple -> UnmarshalDBusBasicMultipleCompleteTypes(T, bytes, at)
    [] T.code = C.ARRAY -> UnmarshalDBusArray(T, bytes, at)
    [] T.code = C.STRUCT_BEGIN -> UnmarshalDBusStruct(T, bytes, at)
    [] T.code = C.DICT_BEGIN -> UnmarshalDBusMap(T, bytes, at)
    [] T.code = C.VARIANT -> UnmarshalDBusVariant(T, bytes, at)

UnmarshalDBusType(T, bytes, signature) ==
  LET r == UnmarshalDBusTypeImpl(T, bytes, 0)
  IN IF ~(\A i \in DOMAIN signature : IsDBusTypeCode(signature[i])) THEN Malformed
     ELSE IF ~AreDBusTypeCodeBracketsEven(signature) THEN Malformed
     ELSE IF signature # GetTypeSignature(T) THEN Malformed
     ELSE Whole(r, bytes)
=============================================================================
