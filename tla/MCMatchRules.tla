---------------------------- MODULE MCMatchRules ----------------------------
(* A small instance of MatchRules for TLC: the conditions, and the signals as   *)
(* the daemon encodes them and ReadLoop() reads them.                           *)
EXTENDS MatchRules, MessageHeader

LOCAL C == DBusTypeCodes
LOCAL M == DBusMessageType
LOCAL F == HeaderFieldCode

Slash_a   == <<47, 97>>
Slash_a_b == <<47, 97, 47, 98>>
Slash_ab  == <<47, 97, 98>>
a_b       == <<97, 46, 98>>
a_b_c     == <<97, 46, 98, 46, 99>>
Get       == <<71>>
Put       == <<80>>
One       == <<58, 49, 46, 49>>
Two       == <<58, 49, 46, 50>>
Dir_a     == <<47, 97, 47>>
Root      == <<47>>

\* What the classes take for names, and what nobody looks at.
a_no_b    == <<97, 46, 46, 98>>
Nobody    == <<58, 49, 46, 46, 50>>
Quote     == <<39>>
Digit     == <<49>>

\* The first k arguments, as a peer encodes them.
Body(types, values, k) ==
  Encode(MultipleCompleteTypes(SubSeq(types, 1, k)), SubSeq(values, 1, k), <<>>)

Signal(path, member, sender, types, values, names) ==
  [path |-> Some(path), interface |-> Some(a_b), member |-> Some(member),
   sender |-> Some(sender), destination |-> None,
   signature |-> IF types = <<>> THEN None
                 ELSE Some(GetTypeSignature(MultipleCompleteTypes(types))),
   types |-> types, values |-> values, body |-> Body(types, values, Len(types)),
   ends |-> [k \in DOMAIN types |-> Len(Body(types, values, k))], names |-> names]

\* A signal of this connection's bus with some arguments.
With(types, values) == Signal(Slash_a, Get, Two, types, values, <<Two>>)

Path_ == Basic(C.OBJECT_PATH)
Int64 == Basic(C.INT64)
Long  == <<1, 0, 0, 0, 0, 0, 0, 0>>
Code_ == Basic(C.SIGNATURE)

EncodedSignals ==
  << With(<<>>, <<>>),
     Signal(Slash_a_b, Get, Two, <<>>, <<>>, <<Two>>),
     Signal(Slash_ab, Put, One, <<>>, <<>>, <<One>>),
     Signal(Slash_a, Get, Two, <<>>, <<>>, <<Two, a_b>>),
     With(<<Text>>, <<a_b>>), With(<<Text>>, <<a_b_c>>), With(<<Text>>, << <<>> >>),
     With(<<Text>>, <<Root>>), With(<<Text>>, <<Dir_a>>), With(<<Text>>, <<Slash_a>>),
     With(<<Path_>>, <<Slash_a_b>>), With(<<Path_>>, <<Slash_a>>),
     With(<<Byte, Text>>, <<<<1>>, a_b>>),
     With(<<Text, Path_>>, <<a_b, Slash_a_b>>),
     With(<<Code_, Text, Text>>, << <<C.BYTE>>, a_b, Slash_a>>),
     With(<<Vector(Int64), Text>>, << <<>>, a_b>>),
     With(<<Vector(Text), Text>>, << <<a_b, Slash_a>>, Dir_a>>),
     \* arguments that are not plain
     With(<<Text, Map(Text, Variant), Text>>, <<a_b, << <<Get, Create(Byte, <<1>>)>> >>, a_b>>),
     With(<<Map(Text, Text), Text>>, << << <<Get, Put>> >>, a_b>>),
     With(<<Tuple(<<Byte, Text>>), Text>>, << <<<<1>>, Get>>, a_b>>),
     With(<<Tuple(<<Text>>)>>, << <<Get>> >>),
     With(<<Vector(Vector(Text)), Text>>, << << <<Get>> >>, a_b>>),
     With(<<Variant, Text>>, <<Create(Text, Get), a_b>>) >>

\* The header of a signal on the wire.
Fields(s) ==
  <<Field(F.PATH, Basic(C.OBJECT_PATH), The(s.path)), Field(F.INTERFACE, Text, The(s.interface)),
    Field(F.MEMBER, Text, The(s.member)), Field(F.SENDER, Text, The(s.sender))>>
  \o [i \in DOMAIN s.signature |-> Field(F.SIGNATURE, Basic(C.SIGNATURE), s.signature[i])]

HeaderOf(s) ==
  Encode(HeaderType, Header(M.SIGNAL, 0, Len(s.body), 1, Fields(s)), <<>>)

\* UnmarshalDBusHeader() makes of it what a signal is received with.
ASSUME HeadersAreRead ==
  \A n \in DOMAIN EncodedSignals :
    LET s == EncodedSignals[n]
        header == UnmarshalDBusHeader(HeaderOf(s), 1, M.SIGNAL, Len(s.body))
    IN ~Failed(header) /\ \A field \in DOMAIN Received(s).header :
                            header.val[field] = Received(s).header[field]

\* a 1 . : / -
SomeCharacters == {97, 49, Dot, Colon, Slash, Hyphen}

\* TLC evaluates a definition once, and the value of a constant each time.
SomeSignals        == EncodedSignals
SomeTypes          == {M.INVALID, M.METHOD_CALL, M.SIGNAL, M.OPTIONAL}
SomeSenders        == {Two, a_b, a_no_b, Nobody}
SomeInterfaceNames == {a_b, a_b_c, a_no_b}
SomeMemberNames    == {Get, Put, Digit, Quote}
SomeObjectPaths    == {Slash_a, Slash_a_b}
SomeUniqueNames    == {One, Nobody}
SomeIndices        == {0, 1, 2, 63, 64}
SomeArgumentTexts  == {a_b, Slash_a, Dir_a, Quote, <<>>}
SomeNamespaces     == {a_b, a_no_b, Root}
=============================================================================
