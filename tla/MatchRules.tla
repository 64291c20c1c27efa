----------------------------- MODULE MatchRules -----------------------------
(***************************************************************************)
(* A match rule (DBusMatchRule.cpp): the user builds it, AddMatchRule()    *)
(* sends its text to the daemon, the daemon sends a signal, and            *)
(* HandleReadMessage() asks Matches() whether the user's callback is       *)
(* called.  What the daemon does with the text of a rule is the protocol's *)
(* account of match rules.                                                 *)
(*                                                                         *)
(* A signal is a record of what its sender gave it:                        *)
(*   path, interface, member, sender, destination, signature               *)
(*                    the header fields, each an optional                  *)
(*   types, values    its arguments                                        *)
(*   body             the bytes they make, and ends, where each of them    *)
(*                    ends there                                           *)
(*   names            those the name cache has for the sender              *)
(***************************************************************************)
EXTENDS BasicTypes, NameGrammar

CONSTANTS
  Types, Senders, InterfaceNames, MemberNames, ObjectPaths, UniqueNames,
  Indices, ArgumentTexts, Namespaces,   \* what the user calls the builder with
  MaxCalls,                             \* and how often
  Signals                               \* what the daemon may send, a sequence

VARIABLES
  rule,     \* the rule, as far as it is built
  calls,    \* how many calls have changed it
  text,     \* what GetRule() made of it: a sequence of [key, index, value]
  signal,   \* which signal was sent, 0 before
  answer    \* what Matches() answered: "yes", "no" or the fault it ran into

vars == <<rule, calls, text, signal, answer>>

LOCAL C == DBusTypeCodes
LOCAL M == DBusMessageType

\* Strings are characters, an index is a byte; of names and paths there are those
\* that their classes accept, of members and arguments any.
ASSUME BuilderAssumption ==
  /\ Types \subseteq {DBusMessageType[name] : name \in DOMAIN DBusMessageType}
  /\ Indices \subseteq Octet
  /\ ObjectPaths \union ArgumentTexts \union Namespaces \subseteq Seq(Nat)
  /\ \A name \in Senders : DBusWellKnownName(name) \/ DBusUniqueConnectionName(name)
  /\ \A name \in InterfaceNames : DBusInterfaceName(name)
  /\ \A path \in ObjectPaths : ObjectPath(path)
  /\ \A name \in UniqueNames : DBusUniqueConnectionName(name)

(***************************************************************************)
(* The arguments of a signal (WalkSignature).  A walk is where it stands   *)
(* in the body, the index of the next argument, the strings and object     *)
(* paths by index, or a fault: the bytes are taken from the body without   *)
(* asking whether they are there.                                          *)
(***************************************************************************)
Start == [at |-> 0, index |-> 0, strings |-> {}, paths |-> {}]

Slice(n, bytes, at) == IF at + n > Len(bytes) THEN Undefined
                                              ELSE [val |-> Number(SubSeq(bytes, at + 1, at + n))]

\* Where index is already there, the first one stays.
Insert(map, index, value) ==
  IF \E e \in map : e.index = index THEN map ELSE map \union {[index |-> index, value |-> value]}

KeepString(walk, c, str) ==
  IF c = C.STRING
  THEN [walk EXCEPT !.strings = Insert(@, walk.index, str)]
  ELSE IF ObjectPath(str)
  THEN [walk EXCEPT !.paths = Insert(@, walk.index, str)]
  ELSE Malformed

ReadString(walk, c, bytes, end) ==
  LET slice == SubSeq(bytes, walk.at + 1, end)
      str   == Whole(UnmarshalDBusBasicStringlikeType(Text, slice, 0), slice)
  IN IF end > Len(bytes) THEN Undefined
     ELSE IF Failed(str) THEN str
     ELSE KeepString([walk EXCEPT !.at = end], c, str.val)

WalkString(walk, c, bytes, keep, size) ==
  IF Failed(size) THEN size
  ELSE IF keep THEN ReadString(walk, c, bytes, walk.at + size.val + 5)
  ELSE [walk EXCEPT !.at = walk.at + size.val + 5]

\* Mutant: the padding in front of the elements of an array is not skipped.
WalkArrayUnpadded(walk, size, next) == [walk EXCEPT !.at = walk.at + 4 + size]

WalkArray(walk, size, next) ==
  [walk EXCEPT !.at = SkipPadding(walk.at + 4, GetAlignmentOfSignature(next)) + size]

WalkContainer(walk, size, next) ==
  IF Failed(size) THEN size
  ELSE IF GetAlignmentOfSignature(next) = NoAlignment THEN Malformed
  ELSE WalkArray(walk, size.val, next)

\* The bracket that closes the entry that begins at i, or past the end.
DictEnd(sig, i) ==
  LET Depth(j) == Cardinality({k \in i .. j : Code(sig, k) = C.DICT_BEGIN})
                    - Cardinality({k \in i .. j : Code(sig, k) = C.DICT_END})
      ends == {j \in i .. Len(sig) : Depth(j) = 0}
  IN IF ends = {} THEN Len(sig) + 1 ELSE CHOOSE j \in ends : \A k \in ends : j <= k

\* behind[s, at] is the walk along another signature from there, which keeps
\* nothing and leaves the index alone.
WalkWithin(walk, signature, at, behind) ==
  LET inner == behind[signature, at]
  IN IF Failed(inner) THEN inner ELSE [walk EXCEPT !.at = inner.at]

\* The members of a struct from the one at first on, and where the loop leaves
\* the signature: the last of several is not walked, and an only one takes the
\* code behind the bracket with it.
WalkStruct(sig, first, begin, behind) ==
  LET Members[i \in Nat, at \in Nat] ==
        LET member == behind[<<Code(sig, i)>>, at]
            alignment == GetAlignmentOfSignature(Code(sig, i + 2))
        IN IF Code(sig, i) = C.STRUCT_END THEN [at |-> at, i |-> i]
           ELSE IF Failed(member) THEN member
           ELSE IF Code(sig, i + 2) = C.STRUCT_END THEN [at |-> member.at, i |-> i + 1]
           ELSE IF alignment = NoAlignment THEN Malformed
           ELSE Members[i + 1, SkipPadding(member.at, alignment)]
  IN Members[first, begin]

\* The value of a variant, behind its signature.
WalkContents(walk, bytes, behind, end) ==
  LET slice     == SubSeq(bytes, walk.at + 2, end)
      signature == Whole(UnmarshalDBusBasicStringlikeType(Basic(C.SIGNATURE), slice, 0), slice)
  IN IF end > Len(bytes) THEN Undefined
     ELSE IF Failed(signature) \/ signature.val = <<>> THEN Malformed
     ELSE WalkWithin(walk, signature.val, end, behind)

WalkByte(walk, c, bytes, behind, size) ==
  IF Failed(size) THEN size
  ELSE IF c = C.SIGNATURE THEN [walk EXCEPT !.at = walk.at + size.val + 2]
  ELSE WalkContents(walk, bytes, behind, walk.at + size.val + 1)

\* What stands at the i-th code, where w is aligned: the walk behind it, and the
\* last code it took.
WalkArgument(sig, i, bytes, w, keep, behind) ==
  LET c      == sig[i]
      next   == Code(sig, i + 1)
      struct == WalkStruct(sig, i + 1, w.at, behind)
      To(walk, last) == [i |-> last, walk |-> walk]
  IN CASE IsDBusBasicFixedTypeCode(c) ->
            To([w EXCEPT !.at = w.at + GetAlignmentOfSignature(c)], i)
       [] c \in {C.STRING, C.OBJECT_PATH} ->
            To(WalkString(w, c, bytes, keep, Slice(4, bytes, w.at)), i)
       [] c \in {C.SIGNATURE, C.VARIANT} ->
            To(WalkByte(w, c, bytes, behind, Slice(1, bytes, w.at)), i)
       [] c = C.STRUCT_BEGIN ->
            IF Failed(struct) THEN To(struct, i) ELSE To([w EXCEPT !.at = struct.at], struct.i + 1)
       [] c = C.ARRAY /\ next = C.DICT_BEGIN -> To(w, i)
       [] c = C.ARRAY /\ next # C.DICT_BEGIN ->
            To(WalkContainer(w, Slice(4, bytes, w.at), next), i + 1)
       [] c = C.DICT_BEGIN ->
            To(WalkContainer(w, Slice(4, bytes, w.at), c), DictEnd(sig, i))

\* From the last code of an argument to the next argument.
Advance(taken) ==
  IF Failed(taken.walk) THEN taken
  ELSE [i |-> taken.i + 1, walk |-> [taken.walk EXCEPT !.index = (@ + 1) % 256]]

\* One turn of the loop.  There are no more of them behind the signature, or
\* after a fault.
Turn(turn, sig, bytes, keep, behind) ==
  LET alignment == GetAlignmentOfSignature(sig[turn.i])
      aligned   == [turn.walk EXCEPT !.at = SkipPadding(@, alignment)]
  IN CASE Failed(turn.walk) \/ turn.i > Len(sig) -> turn
       [] OTHER ->
            IF alignment = NoAlignment THEN [turn EXCEPT !.walk = Malformed]
            ELSE Advance(WalkArgument(sig, turn.i, bytes, aligned, keep, behind))

\* keep is allowedToAddArgs.
Loop(sig, bytes, walk, keep, behind) ==
  FoldLeft(LAMBDA turn, c : Turn(turn, sig, bytes, keep, behind),
           [i |-> 1, walk |-> walk], sig).walk

WalksBehind(bytes) ==
  LET Behind[s \in Seq(Nat), at \in Nat] ==
        Loop(s, bytes, [Start EXCEPT !.at = at], FALSE, Behind)
  IN Behind

WalkSignature(sig, bytes) == Loop(sig, bytes, Start, TRUE, WalksBehind(bytes))

(***************************************************************************)
(* Matches()                                                               *)
(***************************************************************************)
EndsWithSlash(str) == str # <<>> /\ Last(str) = Slash

\* The elements of a path, each slash one of its own.
SplitString(str) ==
  FoldLeft(LAMBDA split, c :
             IF c = Slash THEN Append(split, <<c>>)
             ELSE IF split = <<>> \/ Last(split) = <<Slash>> THEN Append(split, <<c>>)
             ELSE [split EXCEPT ![Len(split)] = Append(@, c)],
           <<>>, str)

IsPathPrefixed(path, toCheck) ==
  \A i \in DOMAIN path : i \in DOMAIN toCheck /\ toCheck[i] = path[i]

\* back() of an empty string reads the byte in front of it, a zero in the
\* library this is built with.
MatchesPath(name, path) ==
  \/ name = path
  \/ EndsWithSlash(name) /\ IsPathPrefixed(SplitString(name), SplitString(path))
  \/ EndsWithSlash(path) /\ IsPathPrefixed(SplitString(path), SplitString(name))

IsIn(str, whole) ==
  \E i \in 0 .. Len(whole) - Len(str) : SubSeq(whole, i + 1, i + Len(str)) = str

FindArg(map, index) == {e.value : e \in {a \in map : a.index = index}}

\* Mutant: the name of the member is not looked at.
MatchesHeaderNoMember(r, header, wellKnownNames) ==
  /\ \A type \in Range(r.type) : header.type = type
  /\ \A field \in {"sender", "interface", "path"} :
       Given(r[field]) => header[field] = r[field]
  /\ \A i \in DOMAIN wellKnownNames : header.sender = Some(wellKnownNames[i])

MatchesHeader(r, header, wellKnownNames) ==
  /\ \A type \in Range(r.type) : header.type = type
  /\ \A field \in {"member", "sender", "interface", "path"} :
       Given(r[field]) => header[field] = r[field]
  /\ \A i \in DOMAIN wellKnownNames : header.sender = Some(wellKnownNames[i])

\* The destination is compared first, and seen last.
MatchesArguments(r, header, walk) ==
  /\ Given(r.destination) => header.destination = r.destination
  /\ \A i \in DOMAIN r.args : FindArg(walk.strings, r.args[i].index) = {r.args[i].name}
  /\ \A namespace \in Range(r.pathNamespace) :
       Given(header.path) /\ IsIn(namespace, The(header.path))
  /\ \A i \in DOMAIN r.argPaths :
       LET paths   == FindArg(walk.paths, r.argPaths[i].index)
           strings == FindArg(walk.strings, r.argPaths[i].index)
       IN \E path \in IF paths # {} THEN paths ELSE strings :
            MatchesPath(r.argPaths[i].name, path)
  /\ \A namespace \in Range(r.argNamespace) :
       \E str \in FindArg(walk.strings, 0) : IsPrefix(namespace, str)

\* The arguments are not walked over if the header does not match.
MatchesWalked(r, header, wellKnownNames, walk) ==
  IF ~MatchesHeader(r, header, wellKnownNames) THEN "no"
  ELSE IF Failed(walk) THEN walk.fault
  ELSE IF MatchesArguments(r, header, walk) THEN "yes" ELSE "no"

Matches(r, msg, wellKnownNames) ==
  MatchesWalked(r, msg.header, wellKnownNames,
                IF msg.body = <<>> THEN Start
                ELSE WalkSignature(The(msg.header.signature), msg.body))

(***************************************************************************)
(* Building a rule                                                         *)
(***************************************************************************)
Empty ==
  [type |-> None, sender |-> None, interface |-> None, member |-> None, path |-> None,
   pathNamespace |-> None, destination |-> None, args |-> <<>>, argPaths |-> <<>>,
   argNamespace |-> None, eavesdrop |-> None]

Init ==
  /\ rule = Empty
  /\ calls = 0
  /\ text = <<>>
  /\ signal = 0
  /\ answer = ""

\* A call that throws changes nothing.
Build(r) ==
  /\ text = <<>>
  /\ calls < MaxCalls
  /\ calls' = calls + 1
  /\ rule' = r
  /\ UNCHANGED <<text, signal, answer>>

IsMatchable(type) == type \notin {M.INVALID, M.NONE, M.OPTIONAL}

\* Mutant: the last index is one too many.
IsIndexUpTo64(index) == index <= 64

IsIndex(index) == index <= 63

IsAlone(other) == ~Given(other)

Type == \E type \in Types : IsMatchable(type) /\ Build([rule EXCEPT !.type = Some(type)])

Sender == \E name \in Senders : Build([rule EXCEPT !.sender = Some(name)])

Interface == \E name \in InterfaceNames : Build([rule EXCEPT !.interface = Some(name)])

Member == \E name \in MemberNames : Build([rule EXCEPT !.member = Some(name)])

Path == \E path \in ObjectPaths :
  IsAlone(rule.pathNamespace) /\ Build([rule EXCEPT !.path = Some(path)])

PathNamespace == \E path \in ObjectPaths :
  IsAlone(rule.path) /\ Build([rule EXCEPT !.pathNamespace = Some(path)])

Destination == \E name \in UniqueNames : Build([rule EXCEPT !.destination = Some(name)])

Argument == \E index \in Indices, name \in ArgumentTexts :
  IsIndex(index) /\ Build([rule EXCEPT !.args = Append(@, [name |-> name, index |-> index])])

ArgumentPath == \E index \in Indices, name \in ArgumentTexts :
  IsIndex(index) /\ Build([rule EXCEPT !.argPaths = Append(@, [name |-> name, index |-> index])])

ArgumentNamespace == \E name \in Namespaces : Build([rule EXCEPT !.argNamespace = Some(name)])

EavesDrop == \E eavesdrop \in BOOLEAN : Build([rule EXCEPT !.eavesdrop = Some(eavesdrop)])

(***************************************************************************)
(* The text of the rule, and what the daemon makes of it                   *)
(***************************************************************************)
TypeName(type) == <<"method_call", "method_return", "error", "signal">>[type]

Entry(key, option) ==
  [i \in DOMAIN option |-> [key |-> key, index |-> 0, value |-> option[i]]]

ArgEntries(key, args) ==
  [i \in DOMAIN args |-> [key |-> key, index |-> args[i].index, value |-> args[i].name]]

\* The conditions as they are meant: {}='{}' writes a value as it is, and an
\* apostrophe in it is taken for its end (IsQuotable).
RuleText(r) ==
  Entry("type", [i \in DOMAIN r.type |-> TypeName(r.type[i])])
  \o Entry("sender", r.sender) \o Entry("interface", r.interface)
  \o Entry("member", r.member) \o Entry("path", r.path)
  \o Entry("path_namespace", r.pathNamespace) \o Entry("destination", r.destination)
  \o ArgEntries("arg", r.args) \o ArgEntries("argpath", r.argPaths)
  \o Entry("arg0namespace", r.argNamespace) \o Entry("eavesdrop", r.eavesdrop)

\* AddMatchRule() sends the text; an empty one throws.
GetRule ==
  /\ text = <<>>
  /\ RuleText(rule) # <<>>
  /\ text' = RuleText(rule)
  /\ UNCHANGED <<rule, calls, signal, answer>>

ArgKeys  == {"arg", "argpath", "arg0namespace"}
PathKeys == {"path", "path_namespace"}

Apostrophe == 39

\* Between apostrophes the daemon reads this, and a string may hold it.
IsQuotable(value) == Range(value) \cap {0, Apostrophe} = {}

IsBusName(value) == ProtocolWellKnownName(value) \/ ProtocolUniqueName(value)

\* What a key may ask for.
ValidValue(entry) ==
  LET value == entry.value
  IN CASE entry.key \in {"sender", "destination"} -> IsBusName(value)
       [] entry.key = "interface" -> ProtocolInterface(value)
       [] entry.key = "member" -> ProtocolMember(value)
       [] entry.key \in PathKeys -> ProtocolPath(value)
       [] entry.key = "arg0namespace" -> ProtocolNamespace(value) \/ ProtocolUniqueName(value)
       [] entry.key \in {"arg", "argpath"} -> IsQuotable(value)
       [] OTHER -> TRUE

\* Whether AddMatch succeeds, and for the rule that was meant: each key once, no
\* path and namespace together, one condition for each of 64 arguments, and values
\* that their keys allow.  With one apostrophe too many the daemon refuses the
\* text; with two it may read another rule, which is not accepted here either.
DaemonAccepts(entries) ==
  LET keys == {entries[i].key : i \in DOMAIN entries}
      InArgs(i) == entries[i].key \in ArgKeys
  IN /\ \A i, j \in DOMAIN entries :
          /\ i # j /\ entries[i].key = entries[j].key => entries[i].index # entries[j].index
          /\ i # j /\ InArgs(i) /\ InArgs(j) => entries[i].index # entries[j].index
     /\ ~(PathKeys \subseteq keys)
     /\ \A i \in DOMAIN entries : entries[i].index <= 63 /\ ValidValue(entries[i])

\* The argument of an index, if it has one of these types.
Arg(s, index, codes) ==
  IF index + 1 \in DOMAIN s.types /\ s.types[index + 1].code \in codes
  THEN {s.values[index + 1]} ELSE {}

IsWithin(path, namespace) ==
  \/ path = namespace
  \/ IsPrefix(IF EndsWithSlash(namespace) THEN namespace ELSE Append(namespace, Slash), path)

Holds(entry, s) ==
  LET value == entry.value
      strings == Arg(s, entry.index, {C.STRING})
      paths == Arg(s, entry.index, {C.STRING, C.OBJECT_PATH})
  IN CASE entry.key = "type" -> value = "signal"
       [] entry.key = "sender" ->
            value \in Range(s.sender) \union Range(s.names)
       [] entry.key = "interface" -> s.interface = Some(value)
       [] entry.key = "member" -> s.member = Some(value)
       [] entry.key = "path" -> s.path = Some(value)
       [] entry.key = "path_namespace" -> IsWithin(The(s.path), value)
       [] entry.key = "destination" -> s.destination = Some(value)
       [] entry.key = "arg" -> value \in strings
       [] entry.key = "argpath" ->
            \E path \in paths : \/ path = value
                                \/ EndsWithSlash(value) /\ IsPrefix(value, path)
                                \/ EndsWithSlash(path) /\ IsPrefix(path, value)
       [] entry.key = "arg0namespace" ->
            \E str \in strings : str = value \/ IsPrefix(Append(value, Dot), str)
       [] entry.key = "eavesdrop" -> TRUE

DaemonMatches(entries, s) == \A i \in DOMAIN entries : Holds(entries[i], s)

(***************************************************************************)
(* A signal arrives                                                        *)
(***************************************************************************)

\* Arguments that are walked over one by one: basic types and arrays of them.
IsPlain(T) ==
  LET IsBasic(U) == IsDBusBasicFixedType(U) \/ IsDBusBasicStringlikeType(U)
  IN IsBasic(T) \/ (T.code = C.ARRAY /\ IsBasic(T.of))

HasPlainArguments(s) == \A i \in DOMAIN s.types : IsPlain(s.types[i])

\* Where the k-th argument begins in the body, and its code in the signature.
Begin(s, k) == SkipPadding(IF k = 1 THEN 0 ELSE s.ends[k - 1], GetAlignmentOfDBusType(s.types[k]))

CodeAt(s, k) == k + Cardinality({j \in 1 .. k - 1 : s.types[j].code = C.ARRAY})

\* What its sender has put there: the code, and the bytes up to the end.
IsArgument(s, k) ==
  LET T   == s.types[k]
      sig == The(s.signature)
  IN /\ sig[CodeAt(s, k)] = T.code
     /\ s.ends[k] \in Begin(s, k) + 1 .. Len(s.body)
     /\ IsDBusBasicFixedType(T) => s.ends[k] = Begin(s, k) + GetAlignmentOfDBusType(T)
     /\ IsDBusBasicStringlikeType(T) =>
          /\ s.values[k] \in Seq(Octet \ {0})
          /\ T.code = C.OBJECT_PATH => ObjectPath(s.values[k])
          /\ T.code = C.SIGNATURE => Len(s.values[k]) <= MaxOctet
          /\ SubSeq(s.body, Begin(s, k) + 1, s.ends[k])
               = MarshalBasicStringlikeType(T, s.values[k], <<>>)
     /\ T.code = C.ARRAY =>
          /\ sig[CodeAt(s, k) + 1] = T.of.code
          /\ \E size \in 0 .. Len(s.body) :
               /\ s.ends[k] = SkipPadding(Begin(s, k) + 4, GetAlignmentOfDBusType(T.of)) + size
               /\ SubSeq(s.body, Begin(s, k) + 1, Begin(s, k) + 4) = UInt32(size)

\* The arguments one after the other, in a message that is not too long.
IsLaidOut(s) ==
  LET n == Len(s.ends)
  IN /\ s.ends \in Seq(Nat) /\ DOMAIN s.types = 1 .. n
     /\ s.body \in Seq(Octet) /\ Len(s.body) = IF n = 0 THEN 0 ELSE s.ends[n]
     /\ Len(s.body) <= MaxMessage
     /\ n > 0 =>
          /\ Given(s.signature) /\ The(s.signature) \in Seq(Octet)
          /\ Len(The(s.signature)) = CodeAt(s, n + 1) - 1
          /\ Len(The(s.signature)) <= MaxOctet
     /\ \A k \in 1 .. n : IsArgument(s, k)

\* A signal has a path, and the first name of a sender is its unique one.
IsSignal(s) ==
  /\ s.path = Some(The(s.path)) /\ The(s.path) \in Seq(Nat)
  /\ DOMAIN s.names = 1 .. Len(s.names)
  /\ Len(s.names) = 1 => s.sender = Some(s.names[1])
  /\ HasPlainArguments(s) => IsLaidOut(s)

ASSUME SignalsAssumption == \A n \in DOMAIN Signals : IsSignal(Signals[n])

\* What ReadLoop() makes of a signal: the destination is taken from the field of
\* the sender.
Received(s) ==
  [header |-> [type |-> M.SIGNAL, path |-> s.path, interface |-> s.interface,
               member |-> s.member, sender |-> s.sender, destination |-> s.sender,
               signature |-> s.signature],
   body |-> s.body]

\* Signals come whether they match this rule or not: there are other rules, and
\* signals that are sent to this connection alone.
HandleReadMessage ==
  /\ text # <<>> /\ DaemonAccepts(text)
  /\ signal = 0
  /\ signal' \in DOMAIN Signals
  /\ answer' = Matches(rule, Received(Signals[signal']), Signals[signal'].names)
  /\ UNCHANGED <<rule, calls, text>>

Next == \/ Type \/ Sender \/ Interface \/ Member \/ Path \/ PathNamespace \/ Destination
        \/ Argument \/ ArgumentPath \/ ArgumentNamespace \/ EavesDrop
        \/ GetRule \/ HandleReadMessage

Spec == Init /\ [][Next]_vars

(***************************************************************************)
(* Properties                                                              *)
(***************************************************************************)

AsksOnceForEachArgument ==
  LET indices == [i \in DOMAIN rule.args |-> rule.args[i].index]
                   \o [i \in DOMAIN rule.argPaths |-> rule.argPaths[i].index]
                   \o [i \in DOMAIN rule.argNamespace |-> 0]
  IN Cardinality(Range(indices)) = Len(indices)

\* Nobody looks at a member or an argument; the names of senders, interfaces and
\* namespaces may have empty elements, and characters that no name has.
AsksForProperNames ==
  \A i \in DOMAIN text : text[i].key \notin PathKeys => ValidValue(text[i])

\* Whatever order the builder is called in, and whatever it refuses on the way,
\* the text of the rule is one that the daemon takes for this rule, unless two
\* conditions are put on one argument, a member, name or namespace is none of the
\* protocol's, or the text of an argument has an apostrophe.
RulesAreAccepted ==
  text # <<>> /\ AsksOnceForEachArgument /\ AsksForProperNames => DaemonAccepts(text)

\* A signal that the daemon sends because of the rule reaches its callback, if
\* the arguments are plain, the rule asks for no destination and the sender has
\* no name: Matches() finds each argument in the body by its index, and agrees
\* on what it says.
DeliversWhatTheDaemonSends ==
  /\ signal # 0
  /\ HasPlainArguments(Signals[signal])
  /\ ~Given(rule.destination)
  /\ Len(Signals[signal].names) = 1
  /\ DaemonMatches(text, Signals[signal])
  => answer = "yes"

\* No callback is called with a signal the rule does not match, if it asks for
\* no namespace and no destination.
HandlesOnlyWhatMatches ==
  /\ answer = "yes"
  /\ HasPlainArguments(Signals[signal])
  /\ ~Given(rule.destination) /\ ~Given(rule.pathNamespace) /\ ~Given(rule.argNamespace)
  => DaemonMatches(text, Signals[signal])

\* A user has every name and path before the first call, from whatever text.
\* DBusTypes.cpp decides as the protocol does about every path, and about every
\* name that it must not refuse.
ValidatesLikeTheProtocol == calls = 0 => \A str \in Strings : Validated(str)
=============================================================================
