---------------------------- MODULE MessageHeader ----------------------------
(***************************************************************************)
(* The header of a message: its type, which fields a message requires      *)
(* (HEADER_FIELDS), how a peer writes it and how UnmarshalDBusHeader()     *)
(* reads it.                                                               *)
(***************************************************************************)
EXTENDS Unmarshalling, DBusEncoding, FiniteSets

LOCAL C == DBusTypeCodes
LOCAL M == DBusMessageType
LOCAL F == HeaderFieldCode

(***************************************************************************)
(* The header                                                              *)
(***************************************************************************)
Byte == Basic(C.BYTE)
Word == Basic(C.UINT32)
InterfaceText == [code |-> C.STRING, iface |-> TRUE]

HeaderFieldsType(variant) == Vector(Tuple(<<Byte, variant>>))

HeaderType == MultipleCompleteTypes(
  <<Byte, Byte, Byte, Byte, Word, Word, HeaderFieldsType(Variant)>>)

FirstPartType == MultipleCompleteTypes(<<Byte, Byte, Byte, Byte, Word, Word, Word>>)

FIRST_HEADER_PART_SIZE == 16
DBUS_MESSAGE_BODY_ALIGNMENT == 8

\* HEADER_FIELDS: of the fields in the order of their codes, the message types
\* that require them; the optional ones are required by none.
RequiredMessageType(code) ==
  CASE code = F.PATH         -> {M.METHOD_CALL, M.SIGNAL}
    [] code = F.INTERFACE    -> {M.SIGNAL}
    [] code = F.MEMBER       -> {M.METHOD_CALL, M.SIGNAL}
    [] code = F.ERROR_NAME   -> {M.ERROR}
    [] code = F.REPLY_SERIAL -> {M.ERROR, M.METHOD_RETURN}
    [] OTHER -> {}

HEADER_FIELDS ==
  <<F.PATH, F.INTERFACE, F.MEMBER, F.ERROR_NAME, F.REPLY_SERIAL, F.DESTINATION,
    F.SENDER, F.SIGNATURE, F.UNIX_FDS>>

Field(code, T, value) == <<<<code>>, Create(T, value)>>

Header(type, flags, length, serial, fields) ==
  <<<<Endianness.LITTLE_ENDIAN_TYPE>>, <<type>>, <<flags>>, <<1>>,
    UInt32(length), UInt32(serial), fields>>

\* What a peer, or the daemon, makes of the same.
EncodeMessage(type, flags, serial, fields, body) ==
  ApplyPadding(Encode(HeaderType, Header(type, flags, Len(body), serial, fields), <<>>),
               DBUS_MESSAGE_BODY_ALIGNMENT) \o body

(***************************************************************************)
(* Reading (UnmarshalDBusHeader)                                           *)
(***************************************************************************)
FieldsOf(fields, code) == SelectSeq(fields, LAMBDA field : field[1] = <<code>>)

\* The first field of a code, opened as a value of type T: an optional, or a fault.
AsOption(opened) == IF Failed(opened) THEN opened ELSE [val |-> Some(opened.val)]

Option(fields, code, T) ==
  LET found == FieldsOf(fields, code)
  IN IF found = <<>> THEN [val |-> None] ELSE AsOption(UnmarshalData(T, found[1][2]))

LacksAField(fields, type, length) ==
  \/ FieldsOf(fields, F.SIGNATURE) = <<>> /\ length # 0
  \/ \E i \in DOMAIN HEADER_FIELDS :
       LET code == HEADER_FIELDS[i]
       IN type \in RequiredMessageType(code) /\ FieldsOf(fields, code) = <<>>

\* In the order in which they are opened; the destination is taken from the field
\* of the sender.
Options(fields) ==
  <<Option(fields, F.REPLY_SERIAL, Word), Option(fields, F.PATH, Basic(C.OBJECT_PATH)),
    Option(fields, F.INTERFACE, InterfaceText), Option(fields, F.MEMBER, Text),
    Option(fields, F.ERROR_NAME, Text), Option(fields, F.SIGNATURE, Basic(C.SIGNATURE)),
    Option(fields, F.SENDER, Text), Option(fields, F.SENDER, Text)>>

OpenHeader(type, serial, options) ==
  LET broken == SelectSeq(options, Failed)
  IN IF broken # <<>> THEN broken[1]
     ELSE [val |-> [type |-> type, serial |-> serial, replySerial |-> options[1].val,
                    path |-> options[2].val, interface |-> options[3].val,
                    member |-> options[4].val, errorName |-> options[5].val,
                    signature |-> options[6].val, sender |-> options[7].val,
                    destination |-> options[8].val]]

ReadFields(fields, serial, type, length) ==
  CASE Failed(fields) -> fields
    [] ~Failed(fields) /\ LacksAField(fields.val, type, length) -> Malformed
    [] OTHER -> OpenHeader(type, serial, Options(fields.val))

UnmarshalDBusHeader(data, serial, type, length) ==
  ReadFields(UnmarshalDBusTypeImpl(HeaderFieldsType(FastVariant), data,
                                   FIRST_HEADER_PART_SIZE - 4),
             serial, type, length)
=============================================================================
