------------------------------ MODULE DBusTypes ------------------------------
(***************************************************************************)
(* The codes and the types of the protocol (DBusTypes.h, DBusConcepts.h,   *)
(* DBusHelpers.h, DBusHelpers.cpp).  A code is the number of its ASCII     *)
(* character.  A C++ type the library can marshal is a record with the     *)
(* code of its outermost constructor:                                      *)
(*                                                                         *)
(*   [code]                a basic type; "raw" distinguishes a string      *)
(*                         literal and a pointer from std::string, "iface" *)
(*                         a DBusInterfaceName                             *)
(*   [code, of, size]      ARRAY: std::vector (size = Dynamic) or          *)
(*                         std::array                                      *)
(*   [code, of]            STRUCT_BEGIN: std::tuple; MultipleCompleteTypes *)
(*   [code, key, val]      DICT_BEGIN: std::map                            *)
(*   [code, fast]          VARIANT: Variant or FastVariant                 *)
(*                                                                         *)
(* A value of a fixed type is the sequence of its bytes in memory (a       *)
(* little-endian machine), except that of bool; a string is the sequence   *)
(* of its characters; arrays, tuples and maps are sequences, the latter    *)
(* of pairs in the order of their keys.                                    *)
(***************************************************************************)
EXTENDS Integers, Sequences, SequencesExt

\* An optional is a sequence with no element or one.
None    == <<>>
Some(v) == <<v>>
Given(option) == option # None
The(option)   == option[1]

(***************************************************************************)
(* Enumerations                                                            *)
(***************************************************************************)
DBusMessageType ==
  [INVALID |-> 0, METHOD_CALL |-> 1, METHOD_RETURN |-> 2, ERROR |-> 3,
   SIGNAL |-> 4, OPTIONAL |-> 254, NONE |-> 255]

Endianness == [LITTLE_ENDIAN_TYPE |-> 108, BIG_ENDIAN_TYPE |-> 66]

DBusMessageFlags ==
  [NONE |-> 0, NO_REPLY_EXPECTED |-> 1, NO_AUTO_START |-> 2,
   ALLOW_INTERACTIVE_AUTHORIZATION |-> 4]

HeaderFieldCode ==
  [INVALID |-> 0, PATH |-> 1, INTERFACE |-> 2, MEMBER |-> 3, ERROR_NAME |-> 4,
   REPLY_SERIAL |-> 5, DESTINATION |-> 6, SENDER |-> 7, SIGNATURE |-> 8,
   UNIX_FDS |-> 9]

DBusTypeCodes ==
  [BYTE |-> 121, BOOLEAN |-> 98, INT16 |-> 110, UINT16 |-> 113, INT32 |-> 105,
   UINT32 |-> 117, INT64 |-> 120, UINT64 |-> 116, DOUBLE |-> 100,
   UNIX_FD |-> 104, STRING |-> 115, OBJECT_PATH |-> 111, SIGNATURE |-> 103,
   ARRAY |-> 97, STRUCT_BEGIN |-> 40, STRUCT_END |-> 41, VARIANT |-> 118,
   DICT_BEGIN |-> 123, DICT_END |-> 125, INVALID |-> 255]

LOCAL C == DBusTypeCodes

IsDBusBasicFixedTypeCode(c) ==
  c \in {C.BYTE, C.BOOLEAN, C.INT16, C.UINT16, C.INT32, C.UINT32, C.INT64,
         C.UINT64, C.DOUBLE, C.UNIX_FD}

IsDBusBasicStringlikeTypeCode(c) == c \in {C.STRING, C.OBJECT_PATH, C.SIGNATURE}

IsDBusContainerTypeCode(c) ==
  c \in {C.ARRAY, C.STRUCT_BEGIN, C.STRUCT_END, C.DICT_BEGIN, C.DICT_END,
         C.VARIANT}

IsDBusTypeCode(c) ==
  \/ IsDBusBasicFixedTypeCode(c)
  \/ IsDBusBasicStringlikeTypeCode(c)
  \/ IsDBusContainerTypeCode(c)

\* Only the numbers of opening and closing brackets are compared.
AreDBusTypeCodeBracketsEven(signature) ==
  Len(SelectSeq(signature, LAMBDA c : c \in {C.DICT_BEGIN, C.STRUCT_BEGIN}))
    = Len(SelectSeq(signature, LAMBDA c : c \in {C.DICT_END, C.STRUCT_END}))

\* What GetAlignmentOfSignature() answers when it throws.
NoAlignment == 0

GetAlignmentOfSignature(c) ==
  CASE c \in {C.BYTE, C.SIGNATURE, C.VARIANT} -> 1
    [] c \in {C.INT16, C.UINT16} -> 2
    [] c \in {C.BOOLEAN, C.UNIX_FD, C.INT32, C.UINT32, C.STRING,
              C.OBJECT_PATH, C.ARRAY} -> 4
    [] c \in {C.INT64, C.UINT64, C.DOUBLE, C.STRUCT_BEGIN, C.DICT_BEGIN} -> 8
    [] OTHER -> NoAlignment

(***************************************************************************)
(* Types                                                                   *)
(***************************************************************************)
Multiple == -1   \* the code of MultipleCompleteTypes, which has none
Dynamic  == -1   \* the size of an array that is a std::vector

Basic(c)      == [code |-> c]
Vector(T)     == [code |-> C.ARRAY, of |-> T, size |-> Dynamic]
StdArray(T, n) == [code |-> C.ARRAY, of |-> T, size |-> n]
Tuple(Ts)     == [code |-> C.STRUCT_BEGIN, of |-> Ts]
MultipleCompleteTypes(Ts) == [code |-> Multiple, of |-> Ts]
Map(K, V)     == [code |-> C.DICT_BEGIN, key |-> K, val |-> V]
Variant       == [code |-> C.VARIANT, fast |-> FALSE]
FastVariant   == [code |-> C.VARIANT, fast |-> TRUE]

IsDBusBasicFixedType(T)  == IsDBusBasicFixedTypeCode(T.code)
IsDBusBasicStringlikeType(T) == IsDBusBasicStringlikeTypeCode(T.code)
IsRaw(T)                 == "raw" \in DOMAIN T
IsDBusInterfaceName(T)   == "iface" \in DOMAIN T
IsDBusMap(T)             == T.code = C.DICT_BEGIN
IsStdArray(T)            == T.code = C.ARRAY /\ T.size # Dynamic

\* A map is aligned as its entries, not as the array it is sent as.
GetAlignmentOfDBusType(T) == GetAlignmentOfSignature(T.code)

\* Mutant: the map that is a member has no alignment of its own.
MemberAlignmentOfEntries(T) == GetAlignmentOfDBusType(T)

\* Where a struct or an entry is concerned, a map is aligned as an array.
MemberAlignment(T) == IF IsDBusMap(T) THEN 4 ELSE GetAlignmentOfDBusType(T)

SizeOf(T) == IF T.code = C.BOOLEAN THEN 1 ELSE GetAlignmentOfDBusType(T)

(***************************************************************************)
(* Padding                                                                 *)
(***************************************************************************)
Padding(at, alignment) == (-at) % alignment

ApplyPadding(bytes, alignment) ==
  bytes \o [i \in 1 .. Padding(Len(bytes), alignment) |-> 0]

SkipPadding(at, alignment) == at + Padding(at, alignment)
=============================================================================
