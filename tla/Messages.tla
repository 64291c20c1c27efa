------------------------------ MODULE Messages ------------------------------
(***************************************************************************)
(* A message from the user who builds it (DBusMessage) to the one who      *)
(* reads it (ReadLoop, DBusMessageHeader, IncomingDBusMessage).  A peer's  *)
(* message comes first, so that there is a call to reply to and something  *)
(* in the stream before the message that is being built.                   *)
(***************************************************************************)
EXTENDS MessageHeader

CONSTANTS
  PeerMessages,   \* what peers send: a sequence of [type, serial, fields, body]
  Arguments,      \* what Parameter() is called with: a sequence of [type, value]
  Members, Paths, Interfaces, Destinations, ErrorNames, Texts,
  SenderName,     \* the unique name the daemon stamps on what is built here
  Serial,         \* the serial it is sent with
  MaxSetters      \* how often a user changes a message before sending it

VARIABLES
  draft,      \* the message being built; none before its first function
  argument,   \* what its parameter was made of, an optional; none once
              \* Parameter() has thrown half way
  setters,    \* how many functions have changed it
  wire,       \* what Serialize() made of it
  posted,     \* what the daemon has put in the stream, in order
  stream,     \* the bytes that wait to be read
  received    \* what ReadLoop() made of each message: [header, body] or [fault]

building == <<draft, argument, setters>>
vars == <<draft, argument, setters, wire, posted, stream, received>>

LOCAL M == DBusMessageType
LOCAL F == HeaderFieldCode
LOCAL C == DBusTypeCodes

(***************************************************************************)
(* Serialising (CreateDBusMessage)                                         *)
(***************************************************************************)
\* The option a required field is taken from, and the type of its variant.
Source(m, code) ==
  CASE code = F.PATH         -> [T |-> Basic(C.OBJECT_PATH), option |-> m.path]
    [] code = F.INTERFACE    -> [T |-> InterfaceText, option |-> m.interface]
    [] code = F.MEMBER       -> [T |-> Text, option |-> m.method]
    [] code = F.ERROR_NAME   -> [T |-> Text, option |-> m.errorName]
    [] code = F.REPLY_SERIAL -> [T |-> Word, option |-> m.replySerial]
    [] code = F.SIGNATURE    -> [T |-> Basic(C.SIGNATURE), option |-> m.signature]

\* Mutant: a body goes without its signature.
IsRequiredByType(m, code) == m.type \in RequiredMessageType(code)

\* A signature is required by a body.
IsRequired(m, code) ==
  IF code = F.SIGNATURE THEN m.body # <<>> ELSE m.type \in RequiredMessageType(code)

Required(m) == SelectSeq(HEADER_FIELDS, LAMBDA code : IsRequired(m, code))

\* Of an optional string, an empty one is as good as none.
IsProvided(m, code) ==
  LET option == Source(m, code).option
  IN Given(option) /\ The(option) # <<>>

\* What is sent although nothing requires it.
OptionalFields(m) ==
  (IF Given(m.interface) /\ ~IsRequired(m, F.INTERFACE)
   THEN <<Field(F.INTERFACE, InterfaceText, The(m.interface))>> ELSE <<>>)
  \o
  (IF Given(m.destination) /\ The(m.destination) # <<>>
   THEN <<Field(F.DESTINATION, Text, The(m.destination))>> ELSE <<>>)

HeaderFields(m) ==
  [i \in DOMAIN Required(m) |->
     LET source == Source(m, Required(m)[i])
     IN Field(Required(m)[i], source.T, The(source.option))] \o OptionalFields(m)

\* Mutant: the body follows the header where it ends.
BehindHeaderUnpadded(header, body) == header \o body

BehindHeader(header, body) == ApplyPadding(header, DBUS_MESSAGE_BODY_ALIGNMENT) \o body

CreateDBusMessage(m, serial) ==
  IF \E i \in DOMAIN Required(m) : ~IsProvided(m, Required(m)[i])
  THEN <<Refused>>
  ELSE BehindHeader(
         MarshalDBusType(HeaderType,
           Header(m.type, FoldSet(+, 0, m.flags), Len(m.body), serial, HeaderFields(m))),
         m.body)

(***************************************************************************)
(* Types and initial state                                                 *)
(***************************************************************************)
Blank ==
  [type |-> M.INVALID, method |-> None, path |-> None, interface |-> None,
   flags |-> {}, signature |-> None, destination |-> None, errorName |-> None,
   replySerial |-> None, body |-> <<>>]

Post(type, serial, fields, body) ==
  [type |-> type, serial |-> serial, fields |-> fields, body |-> body]

Init ==
  /\ draft = Blank
  /\ argument = None
  /\ setters = 0
  /\ wire = <<>>
  /\ posted = <<>>
  /\ stream = <<>>
  /\ received = <<>>

(***************************************************************************)
(* Building a message                                                      *)
(***************************************************************************)
New(m) ==
  /\ draft = Blank
  /\ Len(posted) = 1
  /\ draft' = m
  /\ UNCHANGED <<setters, wire, posted, stream, received>>

Set(m) ==
  /\ draft # Blank
  /\ wire = <<>>
  /\ setters < MaxSetters
  /\ setters' = setters + 1
  /\ draft' = m
  /\ UNCHANGED <<wire, posted, stream, received>>

Method ==
  /\ \E member \in Members, path \in Paths :
       New([Blank EXCEPT !.type = M.METHOD_CALL, !.method = Some(member),
                         !.path = Some(path)])
  /\ UNCHANGED argument

Signal ==
  /\ \E member \in Members, path \in Paths, interface \in Interfaces :
       New([Blank EXCEPT !.type = M.SIGNAL, !.method = Some(member),
                         !.path = Some(path), !.interface = Some(interface)])
  /\ UNCHANGED argument

\* The header of a message that was read; a reply can only be made of one.
LOCAL Incoming == {received[i].header : i \in {j \in DOMAIN received : ~Failed(received[j])}}

WithParameter(m, T, value) ==
  [m EXCEPT !.signature = Some(GetTypeSignature(T)), !.body = MarshalDBusType(T, value)]

\* Mutant: an answer is not addressed.
AnswerToNobody(incoming, type) ==
  [Blank EXCEPT !.type = type, !.replySerial = Some(UInt32(incoming.serial))]

AnswerTo(incoming, type) ==
  [Blank EXCEPT !.type = type, !.replySerial = Some(UInt32(incoming.serial)),
                !.destination = incoming.sender]

Reply ==
  /\ \E incoming \in Incoming : New(AnswerTo(incoming, M.METHOD_RETURN))
  /\ UNCHANGED argument

Error ==
  \E incoming \in Incoming, name \in ErrorNames, text \in Texts :
    /\ New(WithParameter([AnswerTo(incoming, M.ERROR) EXCEPT !.errorName = Some(name)],
                         Text, text))
    /\ argument' = Some([type |-> Text, value |-> text])

Path ==
  /\ \E path \in Paths : Set([draft EXCEPT !.path = Some(path)])
  /\ UNCHANGED argument

Interface ==
  /\ \E interface \in Interfaces : Set([draft EXCEPT !.interface = Some(interface)])
  /\ UNCHANGED argument

Destination ==
  /\ \E destination \in Destinations :
       Set([draft EXCEPT !.destination = Some(destination)])
  /\ UNCHANGED argument

Flag ==
  /\ Set([draft EXCEPT !.flags = draft.flags \union {DBusMessageFlags.NO_REPLY_EXPECTED}])
  /\ UNCHANGED argument

\* The signature is assigned before the value is marshalled: what cannot be
\* marshalled throws and leaves a new signature over the old body, in a message
\* that a user who catches the exception can still change and send.
Parameter ==
  \E a \in DOMAIN Arguments :
    LET m == WithParameter(draft, Arguments[a].type, Arguments[a].value)
    IN \/ /\ IsMarshalled(m.body)
          /\ Set(m)
          /\ argument' = Some(Arguments[a])
       \/ /\ ~IsMarshalled(m.body)
          /\ Set([draft EXCEPT !.signature = m.signature])
          /\ argument' = None

\* An exception leaves the mark, and nothing to send.
Serialize ==
  /\ draft # Blank
  /\ wire = <<>>
  /\ wire' = CreateDBusMessage(draft, Serial)
  /\ UNCHANGED <<building, posted, stream, received>>

(***************************************************************************)
(* The daemon passes messages on, with the name of their sender, and       *)
(* ReadLoop() takes them from the stream.                                  *)
(***************************************************************************)
Deliver(post, flags) ==
  /\ posted' = Append(posted, post)
  /\ stream' = stream \o EncodeMessage(post.type, flags, post.serial, post.fields, post.body)
  /\ UNCHANGED <<building, wire, received>>

Relay ==
  /\ wire # <<>> /\ IsMarshalled(wire)
  /\ Len(posted) = 1
  /\ Deliver(Post(draft.type, Serial,
                  Append(HeaderFields(draft), Field(F.SENDER, Text, SenderName)),
                  draft.body),
             FoldSet(+, 0, draft.flags))

PeerSends ==
  /\ posted = <<>>
  /\ \E p \in DOMAIN PeerMessages : Deliver(PeerMessages[p], 0)

\* Mutant: the padding behind the header fields is left in the stream.
AddPaddingToSizeNone(size, alignment) == size

AddPaddingToSize(size, alignment) == SkipPadding(size, alignment)

FirstPart == UnmarshalDBusType(FirstPartType, SubSeq(stream, 1, FIRST_HEADER_PART_SIZE),
                               GetTypeSignature(FirstPartType)).val

FieldsEnd(first) == FIRST_HEADER_PART_SIZE + Number(first[7])

BodyBegin(first) == AddPaddingToSize(FieldsEnd(first), DBUS_MESSAGE_BODY_ALIGNMENT)

MessageEnd(first) == BodyBegin(first) + Number(first[5])

CanReadMessage ==
  /\ Len(stream) >= FIRST_HEADER_PART_SIZE
  /\ Len(stream) >= MessageEnd(FirstPart)

\* A message whose header cannot be read is dropped; all of it has been taken.
WholeMessage(header, body) ==
  IF Failed(header) THEN header ELSE [header |-> header.val, body |-> body]

Unmarshalled(first) ==
  WholeMessage(UnmarshalDBusHeader(SubSeq(stream, 1, FieldsEnd(first)), Number(first[6]),
                                   first[2][1], Number(first[5])),
               SubSeq(stream, BodyBegin(first) + 1, MessageEnd(first)))

ReadMessage ==
  /\ CanReadMessage
  /\ received' = Append(received, Unmarshalled(FirstPart))
  /\ stream' = SubSeq(stream, MessageEnd(FirstPart) + 1, Len(stream))
  /\ UNCHANGED <<building, wire, posted>>

Next == \/ Method \/ Signal \/ Reply \/ Error
        \/ Path \/ Interface \/ Destination \/ Flag \/ Parameter \/ Serialize
        \/ Relay \/ PeerSends \/ ReadMessage

Spec == Init /\ [][Next]_vars

(***************************************************************************)
(* Properties                                                              *)
(***************************************************************************)
ValueOf(fields, code) ==
  IF FieldsOf(fields, code) = <<>> THEN None
  ELSE Some(FieldsOf(fields, code)[1][2].value)

\* What Serialize() makes is, byte for byte, the message the protocol prescribes
\* for these fields: the field array, the padding behind it, the body where it
\* begins and its length.
SerializesAsPeers ==
  wire # <<>> /\ IsMarshalled(wire)
    => wire = EncodeMessage(draft.type, FoldSet(+, 0, draft.flags), Serial,
                            HeaderFields(draft), draft.body)

\* The n-th message that is read is the n-th that was sent, with every field
\* (but the destination) and its body, whatever became of those before it.
ArrivesWhole ==
  \A n \in {k \in DOMAIN received : ~Failed(received[k])} :
    LET h == received[n].header
        p == posted[n]
    IN /\ <<h.type, h.serial, received[n].body>> = <<p.type, p.serial, p.body>>
       /\ h.path = ValueOf(p.fields, F.PATH)
       /\ h.interface = ValueOf(p.fields, F.INTERFACE)
       /\ h.member = ValueOf(p.fields, F.MEMBER)
       /\ h.errorName = ValueOf(p.fields, F.ERROR_NAME)
       /\ h.replySerial = ValueOf(p.fields, F.REPLY_SERIAL)
       /\ h.signature = ValueOf(p.fields, F.SIGNATURE)
       /\ h.sender = ValueOf(p.fields, F.SENDER)

\* A message that Serialize() does not refuse is one that ReadLoop() does not
\* drop, and Get() restores what Parameter() was given, unless a later Parameter()
\* threw: that one has put its signature over the body of the first.
SentIsAccepted ==
  Len(received) = 2 =>
    /\ ~Failed(received[2])
    /\ Given(argument) =>
         LET r == UnmarshalDBusType(The(argument).type, received[2].body,
                                    The(received[2].header.signature))
         IN ~Failed(r) /\ r.val = The(argument).value

\* A reply or an error reaches the caller with the serial of the call.
RepliesCorrelate ==
  Len(received) = 2 /\ posted[2].type \in {M.METHOD_RETURN, M.ERROR} =>
    /\ received[2].header.replySerial = Some(UInt32(posted[1].serial))
    /\ setters = 0 => ValueOf(posted[2].fields, F.DESTINATION)
                        = ValueOf(posted[1].fields, F.SENDER)
=============================================================================
