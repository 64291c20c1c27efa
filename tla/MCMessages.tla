----------------------------- MODULE MCMessages -----------------------------
(* A small instance of Messages for TLC. *)
EXTENDS Messages

LOCAL C == DBusTypeCodes
LOCAL M == DBusMessageType
LOCAL F == HeaderFieldCode

Slash_a == <<47, 97>>
a_b     == <<97, 46, 98>>
ab_cd   == <<97, 98, 46, 99, 100>>
Longest == <<97, 98, 46, 99, 100, 101>>
Get     == <<71, 101, 116>>
One     == <<58, 49, 46, 49>>
Two     == <<58, 49, 46, 50>>

PathField      == Field(F.PATH, Basic(C.OBJECT_PATH), Slash_a)
MemberField    == Field(F.MEMBER, Text, Get)
SenderField    == Field(F.SENDER, Text, Two)
ForThisOne     == Field(F.DESTINATION, Text, One)
Signed(code)   == Field(F.SIGNATURE, Basic(C.SIGNATURE), <<code>>)
InterfaceField(name) == Field(F.INTERFACE, Text, name)

SomePeerMessages ==
  << \* a call
     Post(M.METHOD_CALL, 7, <<PathField, MemberField, ForThisOne, SenderField>>, <<>>),
     \* a call with arguments, its fields in another order, one of them unknown
     Post(M.METHOD_CALL, 300, <<SenderField, Signed(C.UINT32), Field(10, Word, UInt32(1)),
                                MemberField, InterfaceField(a_b), PathField>>, UInt32(5)),
     \* a signal whose interface has the longest name the protocol allows
     Post(M.SIGNAL, 8, <<PathField, MemberField, InterfaceField(Longest), SenderField,
                         Signed(C.BYTE)>>, <<1>>) >>

SomeArguments ==
  << [type |-> Word, value |-> UInt32(5)],
     [type |-> MultipleCompleteTypes(<<Text, Byte>>), value |-> <<Get, <<1>>>>],
     [type |-> Vector(Text), value |-> <<Get, a_b>>],
     [type |-> Text, value |-> <<97, 0, 98>>] >>

SomeMembers      == {Get, <<>>}
SomePaths        == {Slash_a, <<>>}
SomeInterfaces   == {a_b, ab_cd}
SomeDestinations == {Two, <<>>}
SomeErrorNames   == {a_b}
SomeTexts        == {<<>>, Get}
=============================================================================
