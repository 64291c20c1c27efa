---------------------------- MODULE NameGrammar ----------------------------
(***************************************************************************)
(* The validators of DBusNames against the grammar of the protocol, on     *)
(* every string from an alphabet.                                          *)
(***************************************************************************)
EXTENDS DBusNames, FiniteSets

CONSTANTS
  Alphabet,    \* ASCII codes
  MaxTyped     \* how long the strings are

Strings == UNION {[1 .. n -> Alphabet] : n \in 0 .. MaxTyped}

(***************************************************************************)
(* The protocol: elements are what stands between separators.              *)
(***************************************************************************)
Digits == 48 .. 57
Hyphen == 45

\* No element is empty, and there are at least n of them.
HasElements(str, separator, n) ==
  /\ str # <<>>
  /\ \A i \in DOMAIN str : str[i] = separator =>
       i # 1 /\ i # Len(str) /\ str[i - 1] # separator
  /\ Cardinality({i \in DOMAIN str : str[i] = separator}) >= n - 1

BeginsWithDigit(str) ==
  \E i \in DOMAIN str : str[i] \in Digits /\ (i = 1 \/ str[i - 1] = Dot)

Consists(str, others) == \A i \in DOMAIN str : IsPathCharacter(str[i]) \/ str[i] \in others

ProtocolPath(str) ==
  /\ str # <<>> /\ str[1] = Slash
  /\ str = <<Slash>> \/ HasElements(Tail(str), Slash, 1)
  /\ Consists(str, {Slash})

ProtocolInterface(str) ==
  /\ HasElements(str, Dot, 2) /\ Len(str) <= MaxNameLength
  /\ Consists(str, {Dot}) /\ ~BeginsWithDigit(str)

ProtocolMember(str) ==
  /\ str # <<>> /\ Len(str) <= MaxNameLength
  /\ Consists(str, {}) /\ ~BeginsWithDigit(str)

\* A well-known name, or the elements that several begin with.
ProtocolNamespace(str) ==
  /\ HasElements(str, Dot, 1) /\ Len(str) <= MaxNameLength
  /\ Consists(str, {Dot, Hyphen}) /\ ~BeginsWithDigit(str)

ProtocolWellKnownName(str) == ProtocolNamespace(str) /\ HasElements(str, Dot, 2)

ProtocolUniqueName(str) ==
  /\ str # <<>> /\ str[1] = Colon
  /\ HasElements(Tail(str), Dot, 2) /\ Len(str) <= MaxNameLength
  /\ Consists(Tail(str), {Dot, Hyphen})

-----------------------------------------------------------------------------
\* ObjectPath() accepts the paths of the protocol and nothing else.
PathsAreExact(text) == ObjectPath(text) <=> ProtocolPath(text)

\* No name the protocol allows is refused, but for those of full length.
NamesAreAccepted(text) ==
  Len(text) < MaxNameLength =>
    /\ ProtocolInterface(text) => DBusInterfaceName(text) /\ DBusErrorName(text)
    /\ ProtocolWellKnownName(text) => DBusWellKnownName(text)
    /\ ProtocolUniqueName(text) => DBusUniqueConnectionName(text)

\* A name that either class of bus names accepts is not the other's.
KindsAreApart(text) == ~(DBusWellKnownName(text) /\ DBusUniqueConnectionName(text))

Validated(text) == PathsAreExact(text) /\ NamesAreAccepted(text) /\ KindsAreApart(text)
=============================================================================
