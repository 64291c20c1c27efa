---------------------------- MODULE MCWireFormat ----------------------------
EXTENDS WireFormat

LOCAL C == DBusTypeCodes

y == Basic(C.BYTE)
b == Basic(C.BOOLEAN)
q == Basic(C.UINT16)
u == Basic(C.UINT32)
x == Basic(C.INT64)
s == Basic(C.STRING)
g == Basic(C.SIGNATURE)
o == Basic(C.OBJECT_PATH)
i == [code |-> C.STRING, iface |-> TRUE]
literal == [code |-> C.STRING, raw |-> "literal"]
pointer == [code |-> C.STRING, raw |-> "pointer"]
v == Variant

Byte(n)   == <<n>>
Short(n)  == <<n, 0>>
Word(n)    == <<n, 0, 0, 0>>
Long(n)   == <<n, 0, 0, 0, 0, 0, 0, 0>>
Hi        == <<72, 105>>
Hello     == <<72, 101, 108, 108, 111>>
Root      == <<47>>
Path      == <<47, 97, 47, 98>>
Name      == <<97, 46, 98>>
LongText  == [k \in 1 .. 300 |-> 97]
WithNull  == <<72, 0, 105>>

Item(T, value) == [type |-> T, value |-> value]

us  == Map(u, s)
sus == Map(s, us)

Basics ==
  <<Item(y, Byte(7)), Item(b, TRUE), Item(b, FALSE), Item(q, Short(7)),
   Item(u, Word(7)), Item(x, Long(7)), Item(s, <<>>), Item(s, Hi), Item(s, LongText),
   Item(o, Root), Item(o, Path), Item(g, <<C.UINT32>>), Item(i, Name)>>

Arrays ==
  <<Item(Vector(y), <<Byte(1), Byte(2), Byte(3)>>),
   Item(Vector(x), <<>>), Item(Vector(x), <<Long(1), Long(2)>>),
   Item(Vector(s), <<Hi, <<>>, Hello>>),
   Item(Vector(Vector(q)), << <<Short(1)>>, <<>>, <<Short(2), Short(3)>> >>),
   Item(Vector(Tuple(<<y, s>>)), << <<Byte(1), Hi>>, <<Byte(2), Hello>> >>),
   Item(Vector(Vector(x)), << <<>>, <<Long(1)>> >>)>>

Booleans == <<Item(Vector(b), <<>>), Item(Vector(b), <<TRUE, FALSE>>)>>

Structs ==
  <<Item(Tuple(<<y, x, q>>), <<Byte(1), Long(2), Short(3)>>),
   Item(Tuple(<<s, Tuple(<<y, u>>)>>), <<Hi, <<Byte(1), Word(2)>> >>),
   Item(Tuple(<<y, us>>), <<Byte(1), << <<Word(1), Hi>>, <<Word(2), Hello>> >> >>),
   Item(Tuple(<<y, sus, y>>),
        <<Byte(1), << <<Hi, <<>> >>, <<Hello, << <<Word(1), Hi>> >> >> >>, Byte(2)>>)>>

Maps ==
  <<Item(us, <<>>), Item(us, << <<Word(1), Hi>>, <<Word(2), Hello>> >>),
   Item(Vector(us), << <<>>, << <<Word(1), Hi>> >> >>),
   Item(Vector(us), <<>>)>>

Contents ==
  Basics \o Arrays \o Structs \o Maps \o
  <<Item(v, Create(y, Byte(7))), Item(v, Create(u, Word(7))),
    Item(Tuple(<<y, v>>), <<Byte(1), Create(u, Word(7))>>),
    Item(Vector(v), <<Create(s, Hi), Create(y, Byte(1))>>),
    Item(s, WithNull), Item(literal, Hi), Item(pointer, Hi),
    Item(Map(u, u), << <<Word(1), Word(2)>> >>)>>

Variants ==
  [k \in DOMAIN Contents |-> Item(v, Create(Contents[k].type, Contents[k].value))]

Composed ==
  <<Item(Vector(v), <<Create(u, Word(1)), Create(s, Hi), Create(Tuple(<<y, u>>), <<Byte(1), Word(7)>>)>>),
   Item(Map(s, v), << <<Hi, Create(y, Byte(1))>>, <<Hello, Create(x, Long(2))>> >>),
   Item(Tuple(<<y, Map(s, v)>>), <<Byte(1), << <<Hi, Create(y, Byte(1))>> >> >>),
   Item(Vector(s), <<Hello, Hello, Hello>>),
   Item(Vector(s), <<Hello, Hello, <<72, 105, 33>> >>),
   Item(Vector(u), [k \in 1 .. 8 |-> Word(k)]),
   Item(s, WithNull),
   Item(o, <<>>)>>

\* Every value behind 0 to 7 bytes, and with a byte behind it.
Letter(item, lead) ==
  Item(MultipleCompleteTypes([k \in 1 .. lead |-> y] \o <<item.type, y>>),
       [k \in 1 .. lead |-> Byte(k)] \o <<item.value, Byte(9)>>)

Items == Basics \o Arrays \o Booleans \o Structs \o Maps \o Variants \o Composed

SomeLetters ==
  [k \in 1 .. 8 * Len(Items) |-> Letter(Items[(k - 1) \div 8 + 1], (k - 1) % 8)]

\* The receiver may prefer FastVariant, and std::array to std::vector.
RECURSIVE Fast(_)
Fast(T) ==
  CASE T.code = C.VARIANT -> FastVariant
    [] T.code = C.ARRAY -> [T EXCEPT !.of = Fast(T.of)]
    [] T.code \in {C.STRUCT_BEGIN, Multiple} -> [T EXCEPT !.of = [k \in DOMAIN T.of |-> Fast(T.of[k])]]
    [] T.code = C.DICT_BEGIN -> [T EXCEPT !.val = Fast(T.val)]
    [] OTHER -> T

FixedTo(T, n) ==
  [T EXCEPT !.of = [k \in DOMAIN T.of |->
     IF T.of[k].code = C.ARRAY THEN [T.of[k] EXCEPT !.size = n] ELSE T.of[k]]]

SomeReaders(T) == <<T, Fast(T), FixedTo(T, 2), FixedTo(T, 3)>>
=============================================================================
