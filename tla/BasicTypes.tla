------------------------------ MODULE BasicTypes ------------------------------
(***************************************************************************)
(* Numbers and strings on the wire (DBus.h): what a value of a basic type  *)
(* becomes and how it is read back.                                        *)
(*                                                                         *)
(* A marshalling operator takes the bytes written so far and returns them  *)
(* with its own appended, as the functions do with the buffer they are     *)
(* given.  An exception leaves the mark Refused in the buffer, which       *)
(* nobody ever sends; a byte the program never wrote is the mark Unset.    *)
(*                                                                         *)
(* An unmarshalling operator takes the bytes and the position arrPointer   *)
(* and returns either                                                      *)
(*   [val, at]   the value and the position behind it, or                  *)
(*   [fault]     "refused" where the code throws, "undefined" where it     *)
(*               uses a byte that was never written or that lies outside   *)
(*               of what was received.                                     *)
(***************************************************************************)
EXTENDS DBusTypes, DBusNames

LOCAL C == DBusTypeCodes

Refused == -1
Unset   == -2

Malformed == [fault |-> "refused"]
Undefined == [fault |-> "undefined"]
Failed(r) == "fault" \in DOMAIN r

Read(val, at) == [val |-> val, at |-> at]

\* A byte.
MaxOctet == 255
Octet == 0 .. MaxOctet

\* The length of the longest message of the protocol, 128 MiB.
MaxMessage == 134217728

\* A signature ends with a NUL.
Code(sig, i) == IF i \in DOMAIN sig THEN sig[i] ELSE 0

Text == Basic(C.STRING)

(***************************************************************************)
(* Writing                                                                 *)
(***************************************************************************)
UInt32(n) == <<n % 256, (n \div 256) % 256, (n \div 65536) % 256, (n \div 16777216) % 256>>

MarshalBasicFixedType(T, value, bytes) ==
  bytes \o (IF T.code = C.BOOLEAN THEN UInt32(IF value THEN 1 ELSE 0) ELSE value)

MarshalBasicStringlikeType(T, str, bytes) ==
  IF Contains(str, 0)
  THEN Append(bytes, Refused)
  ELSE bytes \o (IF T.code = C.SIGNATURE THEN <<Len(str) % 256>> ELSE UInt32(Len(str)))
             \o str \o <<0>>

(***************************************************************************)
(* Reading                                                                 *)
(***************************************************************************)

\* The bytes of a length are small enough to be added up in 32 bits.
Number(b) ==
  IF Len(b) = 1 THEN b[1] ELSE b[1] + 256 * b[2] + 65536 * b[3] + 16777216 * b[4]

\* The space that is left is unsigned: past the end there is plenty of it.
ReadBytes(n, bytes, at) ==
  LET b == SubSeq(bytes, at + 1, at + n)
  IN CASE at > Len(bytes) -> Undefined
       [] at <= Len(bytes) /\ at + n > Len(bytes) -> Malformed
       [] at + n <= Len(bytes) ->
            IF Contains(b, Unset) THEN Undefined ELSE Read(b, at + n)

ReadNumber(n, bytes, at) ==
  LET r == ReadBytes(n, bytes, at)
  IN IF Failed(r) THEN r ELSE Read(Number(r.val), r.at)

UnmarshalDBusBasicFixedType(T, bytes, at) ==
  IF T.code # C.BOOLEAN
  THEN ReadBytes(SizeOf(T), bytes, at)
  ELSE LET r == ReadNumber(4, bytes, at)
       IN IF Failed(r) THEN r ELSE Read(r.val = 1, r.at)

Accepts(T, str) ==
  /\ T.code = C.OBJECT_PATH => ObjectPath(str)
  /\ IsDBusInterfaceName(T) => DBusInterfaceName(str)

\* The characters behind a length; the space that is left has to hold the NUL.
ReadText(T, bytes, length) ==
  LET str == SubSeq(bytes, length.at + 1, length.at + length.val)
  IN CASE Failed(length) -> length
       [] ~Failed(length) /\ length.val >= Len(bytes) - length.at -> Malformed
       [] OTHER ->
            IF Contains(str, Unset) THEN Undefined
            ELSE IF Accepts(T, str) THEN Read(str, length.at + length.val + 1)
            ELSE Malformed

UnmarshalDBusBasicStringlikeType(T, bytes, at) ==
  ReadText(T, bytes, ReadNumber(IF T.code = C.SIGNATURE THEN 1 ELSE 4, bytes, at))

\* UnmarshalDBusType() leaves no byte over.
Whole(r, bytes) == IF ~Failed(r) /\ r.at # Len(bytes) THEN Malformed ELSE r
=============================================================================
