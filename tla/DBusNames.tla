------------------------------ MODULE DBusNames ------------------------------
(***************************************************************************)
(* The names and paths a user or a received message may construct          *)
(* (DBusTypes.cpp): a string is a sequence of ASCII codes, and an operator *)
(* is TRUE where the constructor of the class does not throw.              *)
(***************************************************************************)
EXTENDS Integers, Sequences, SequencesExt

CONSTANT MaxNameLength   \* MAX_DBUS_NAME_LENGTH, 255

ASSUME MaxNameLengthAssumption == MaxNameLength \in Nat \ {0}

Dot   == 46
Slash == 47
Colon == 58

IsPathCharacter(c) ==
  c \in (48 .. 57) \union (65 .. 90) \union {95} \union (97 .. 122)

ValidateDBusName(name, wellKnown) ==
  /\ name # <<>>
  /\ wellKnown <=> name[1] # Colon
  /\ name[1] # Dot
  /\ Contains(name, Dot)
  /\ Len(name) < MaxNameLength

ValidateDBusInterfaceName(name) ==
  /\ name # <<>>
  /\ Contains(name, Dot)
  /\ Len(name) < MaxNameLength

\* Mutant: the loop ends with the last character.
ScanPathToLast(scan, path, i) ==
  IF i > Len(path) THEN scan
  ELSE IF path[i] = Slash
  THEN [valid |-> scan.valid /\ i # scan.elementStart, elementStart |-> i + 1]
  ELSE [scan EXCEPT !.valid = scan.valid /\ IsPathCharacter(path[i])]

\* One turn of the loop: at a slash, or past the end, an element must have
\* begun before i; elsewhere the character must be one of an element's.
ScanPath(scan, path, i) ==
  IF i > Len(path) \/ path[i] = Slash
  THEN [valid |-> scan.valid /\ i # scan.elementStart, elementStart |-> i + 1]
  ELSE [scan EXCEPT !.valid = scan.valid /\ IsPathCharacter(path[i])]

ValidateDBusObjectPath(path) ==
  /\ path # <<>>
  /\ path[1] = Slash
  /\ \/ Len(path) = 1
     \/ FoldLeft(LAMBDA scan, i : ScanPath(scan, path, i + 1),
                 [valid |-> TRUE, elementStart |-> 2],
                 [i \in 1 .. Len(path) |-> i]).valid

\* The classes that store a validated string.
DBusUniqueConnectionName(name) == ValidateDBusName(name, FALSE)
DBusWellKnownName(name)        == ValidateDBusName(name, TRUE)
DBusInterfaceName(name)        == ValidateDBusInterfaceName(name)
DBusErrorName(name)            == ValidateDBusInterfaceName(name)
ObjectPath(path)               == ValidateDBusObjectPath(path)
=============================================================================
