# A verification of CxxBus in TLA+

CxxBus is a D-Bus client library on Boost.Asio coroutines. These modules model
what its connection object does with messages, names and its own lifetime, and
what becomes of a value and a message on the wire; TLC checks them on small
instances and TLAPS proves the central ones for all. Paths
like `DBusConnection.txx:722` are relative to the library's `src/` directory.

## The system

One `DBusConnectionImpl` owns a socket to the dbus-daemon and an `InternalState`
(`DBusConnection.h:109-151`). With `SingleThreaded = true` (`DBusConnection`)
everything runs on the user's `io_context`; with `false`
(`MultithreadedDBusConnection`) on a strand of a thread of its own, with user
callbacks posted back. Either way coroutines interleave only where they await.

| Component | State | Operations | Interacts with |
|---|---|---|---|
| Method calls and reply channels | `serial`, 56 `replyChannels`, `fallbackReplyChannels` | `SendMessageInternal`, the reply branch of `HandleReadMessage` | callers, the read loop, the daemon |
| Connection lifecycle | `connectionReady`, `shouldQuit`, `socket`, `nrOfWaiters`, the channels `connectionCompleted` and `readLoopFinished` | `Create*`, `Connect`, `Close`, `CloseSync`, `HandleConnectionLost`, `ReadLoop`, the destructor | everything |
| Match rule registry | `matchRules`, a list of callbacks per rule | `AddMatchRule`, `RemoveMatchRule` | the daemon, which counts additions; dispatch; `Close` |
| Well-known names of the connection | `wellKnownNames` | `RequestWellKnownName`, `ReleaseWellKnownName` | the daemon; `Close` |
| Name cache | `m_wellKnownNames`: unique name to set of names | `SubscribeToNameChanges`, `OnNameOwnerChanged`, `GetWellKnownNames` | a match rule; rule evaluation |
| Dispatch | `messageFilters`, `objectPathHandlers`, `onIncomingSignal` | the rest of `HandleReadMessage`, registering and removing | the read loop, user callbacks |
| Match rule evaluation | none | `DBusMatchRule::Matches`, `WalkSignature` | dispatch, name cache |
| Marshalling | a buffer, a position in it | `MarshalDBusType`, `UnmarshalDBusType`, `Variant` of `DBus.h` | sending, reading, rule evaluation |
| Message headers | a `DBusMessage` that is being built | its builder and `Serialize`; `ReadLoop`'s framing, `UnmarshalDBusHeader` | marshalling, sending, reading |
| Names, paths, signatures | none | validators of `DBusTypes.cpp`, scanners of `DBusHelpers.cpp` | everything |
| Synchronous interface | the IO thread, promises | `WaitOnAsyncWork`, `*Sync` | the strand |

What is hard in it: replies arrive in any order while slots are shared; a caller
may be cancelled by a timeout around it; a write may fail at any time; the daemon
may leave at any time; a coroutine that was handed a reply runs later than the
read loop that handed it over; check-then-await sequences; one-shot channels with
several receivers; callbacks awaited in the middle of an iteration; callbacks
handed over to another thread. On the wire, padding depends on where a value
stands, the same bytes are walked over by four functions (`UnmarshalDBusType`, the
walk through a variant, `WalkSignature`, `ReadLoop`), and a length is one thing to
the writer and another to the reader. What makes each component correct:

* a reply reaches the caller of its message and nobody else, and none stays behind
  in a channel;
* a connection that says it is ready is one whose replies are read; a lost
  connection is reported once; a close ends, and ends with the socket closed;
* every message queued before the connection is ready is sent, once it is;
* the registry and the daemon agree about the rules and names, but for replies
  under way;
* the name cache is a lagging but ordered copy of the daemon's table;
* a message that is neither reply nor signal is taken by somebody, or its sender
  is told once that nobody took it;
* a value makes the bytes the protocol prescribes and comes back from the bytes of
  any peer; what is refused is refused before it is sent;
* a message is read whole and leaves the stream at the next one; a reply carries
  what its caller needs to know it;
* a rule calls its callback for the signals the daemon would send for it.

`PROJECT.json` lists the hazards line by line, with the properties that cover
them.

## The modules

| Module | What it is |
|---|---|
| `MethodCalls` | abstract: a call is pending, answered once by the peer, and ends with that answer or by giving up |
| `ReplyChannels` | `SendMessageInternal()` and the delivery of replies; implements `MethodCalls` |
| `ReplyChannels_proofs` | its theorems |
| `MCReplyChannels` | its instances for TLC |
| `ConnectionLifecycle` | `Connect()` to `Close()`, the queued messages, the read loop's ends, the loss of the daemon |
| `ConnectionLifecycle_proofs` | its theorems |
| `MCConnectionLifecycle` | its instances for TLC |
| `NameDirectory` | abstract: a copy of the daemon's name table that lags but keeps the order |
| `NameCache` | `DBusNameCache`, the dispatch of its signals; implements `NameDirectory` |
| `NameCache_proofs` | its theorems |
| `MCNameCache` | its instances for TLC |
| `Dispatch` | filters, object path handlers, incoming-message callbacks, the UnknownMethod answer |
| `Dispatch_proofs` | its theorems |
| `MCDispatch` | its instances for TLC |
| `MatchRuleRegistry` | `AddMatchRule()`, `RemoveMatchRule()` and the callbacks for a signal, against the daemon's rules |
| `MatchRuleRegistry_proofs` | its theorems |
| `MCMatchRuleRegistry` | its instance for TLC |
| `OwnNames` | `RequestWellKnownName()`, `ReleaseWellKnownName()`, against the daemon's queues and other clients |
| `OwnNames_proofs` | its theorems |
| `MCOwnNames` | its instances for TLC |
| `SequenceLemmas` | for the proofs: what `Append`, `Tail` and `RemoveAt` do to a queue that holds nobody twice, prefixes, least elements, folds |
| `DBusTypes` | type codes, types, signatures, alignments, padding |
| `DBusNames` | the validators of names and paths |
| `NameGrammar` | the validators against the protocol's grammar |
| `BasicTypes` | numbers and strings on the wire |
| `Marshalling`, `Unmarshalling` | `MarshalDBusType()` and `UnmarshalDBusType()`, with arrays, maps, structs and variants |
| `DBusEncoding` | the reference: how a peer encodes a value |
| `WireFormat` | one value sent by the library or a peer, and received |
| `MCWireFormat` | the values, at every alignment |
| `MessageHeader` | header fields, which messages require them, `UnmarshalDBusHeader()` |
| `Messages` | `DBusMessage`, `Serialize()`, `ReadLoop()` |
| `MCMessages` | what is built and received |
| `MatchRules` | `DBusMatchRule`: builder, text, `WalkSignature()`, `Matches()`, against the daemon |
| `MatchRules_proofs` | its theorems, and those of `NameGrammar` and `BasicTypes` |
| `MCMatchRules` | the conditions, the signals as a peer encodes them, the strings for `NameGrammar` |

```
DBusTypes  DBusNames --- NameGrammar
      \     /                |
     BasicTypes --------- MatchRules
         |                     \
     Marshalling -- DBusEncoding \
         |               |        \
     Unmarshalling       |         \
        |      \        /           \
   WireFormat   MessageHeader --- MCMatchRules
                      |
                  Messages
```

Every operator whose comment starts with "Mutant:" is a wrong version of the
definition after it, used to see that a property notices.

### ReplyChannels

The process is the caller of `SendMessage()`. `Start` is the code up to the write:
it takes a serial, looks at slot `serial % 56` and reserves it, or enters a
channel in the fallback map. `WriteDone` and `WriteFail` end the write;
`Receive` takes the reply from the message's own channel and releases it;
`Cancel` abandons the coroutine at either await, which releases nothing, as in the
code. On the other side `Transmit` and `Answer` are the kernel and the peer, and
`Deliver` is the reply branch of `HandleReadMessage()`: slot first, fallback map
second; a full channel would keep the reply, and the coroutine that handles it
(each message has its own, `:1365`), but not the read loop. A channel holds at most one reply (capacity 1).
Serials are integers modulo `SerialModulus` (2^32 in the code) and wrap to 0.

### ConnectionLifecycle

Each coroutine has a `pc` that says at which `co_await` it is suspended, and the
message it sends or awaits. An action is the code between two awaits. The
executor is a FIFO queue: the coroutine that was handed a reply runs before the
read loop runs again (`delivered`), but calls of the user that were queued
earlier run in between. `ReplyChannels` establishes that a reply reaches its
caller, so sending and answering are one step each. `Faults` selects what the
environment does: leave ("loss", which is also `SimulateConnectionLoss()`),
refuse the authentication ("reject"), answer a request with an ERROR ("refuse"),
cancel a coroutine waiting for the
connection ("cancel"), close before `Connect()` has returned ("early close"). An
ERROR is thrown where the request was made (`:777-789`) and caught nowhere
(`Refused`): out of `Connect()` before `connectionReady` is set, when Hello or
RequestName is refused, out of `Close()` half way, or out of the user's own call.
`names` is a sequence because the code's vector may hold a name twice.

### NameCache

`owner` is the daemon's table; a unique name owns itself while its client is
connected. `signals` is the stream of NameOwnerChanged signals. `co_spawn()` runs
`HandleReadMessage()` inside `ReadLoop()` until it suspends, so a signal is learned
as it is read (`Read`) unless, in the single-threaded connection, the callback of a
rule of the user's awaits something (`ReadSuspends`). By the time such a
`HandleReadMessage()` goes on (`Resume`), `ReadLoop()` has destroyed the message it
has by reference. If the cache's rule was tried before, nothing follows; if it
comes after (`UserRuleFirst`: the user's rule was queued before the handshake
ended), what it is tried on is undefined, and the model chooses between the message
`ReadLoop()`'s frame held last and nothing that matches. The empty set in `cache`
is a missing entry of the map: the code erases an entry that becomes empty.

### Dispatch

A message is its path; what it says does not matter. `HandleReadMessage` is the
code from its arrival to the point where it is finished, waits in a callback
(`"path"`, single-threaded) or has been handed to the user's `io_context`
(`"pathQueued"`, `"incomingQueued"`, multithreaded). `Begin` starts what was handed
over, which looks at its container only then (`LoopOverPathHandlers`,
`LoopOverIncoming`), and `CallNext` is a callback that returns or throws. If all path
handlers are gone by then, nobody sees the message and nobody answers it: it ends as
`"handlersGone"`. The error is sent from two places, the end of `HandleReadMessage()`
and the completion handler on the user's `io_context`; both are `AnswerIf`. The filters are in a hash map: the model inserts each at any
place. The loop over `objectPathHandlers` visits all paths in any order.
`MessageHandled` is what a callback answers; in the completion handler at
`DBusConnection.txx:691` an exception comes with the enumeration's first value,
`YES`, so a throw counts as handled on both kinds of connection.

What is left out because the code has undefined behaviour there: a filter that
suspends (it resumes with a message that is gone, as in `NameCache`), and a
registration while a coroutine is suspended in a loop over that container
(`NobodyIterates`; a message always has a path here, because `UnmarshalDBusHeader()` demands
one of method calls and signals, and the others are replies).

### MatchRuleRegistry

`Send` is a call up to the await, `Read` the rest of it: the read loop hands a
reply to its call, which goes on before the loop reads again, so that the two are
one step, and what a signal finds in `matchRules` is what the replies before it
made of them. Requests and what the daemon sends (`incoming`) each keep their
order. The daemon counts the additions of a rule (`daemonRules`) and may refuse
any (`Refuse`); `RemoveMatchRule()` erases the rule with all its callbacks, which
leaves the daemon sending signals nobody hears when there was more than one
addition. `watchers` is a history variable, which a signal carries as it was when the
daemon sent it. `called` is the callbacks called for the last signal, rule by rule
(`Invoked`); one that throws ends its coroutine, which is that of the whole signal on
one thread, so that later rules are not reached (`Reached`), and of the rule on two.
Which rules a signal matches is chosen freely (`MatchRules` decides it).

### OwnNames

The same split into `Call` and `Read`. `wellKnownNames` is a vector in which a
name may be twice and whose order matters nowhere: the model counts. `owners` is
the daemon's queue of each name, with the flags of `WellKnownNameFlag` as a set;
the code's enumeration cannot be combined, other clients combine as they like.
`Requested` and `Released` are the daemon's rules, external to `src/`. Initially
the name given to the constructor has been asked for by `Connect()` and is listed,
whoever owns it.

### The wire

A byte is a number, a string a sequence of ASCII codes, a number the sequence of
its bytes, an optional a sequence of at most one element. A C++ type is a record
with the code of its outermost constructor (`DBusTypes`), so the `if constexpr`
cascades become CASEs on it. The functions of `DBus.h` append to a buffer or move
`arrPointer`; the operators take the buffer, or the buffer and the position, and
return the new one. An exception while writing leaves the mark `Refused` in the
buffer; reading answers `Malformed` where the code throws and `Undefined` where it
reads what was never written or lies outside of the message. Of a variant both
halves are modelled: what the small buffer of `Variant::Create()` does to a
string, and how `UnmarshalDBusVariant()` finds the end of a value it does not
know, by walking along the signature (`WalkVariant`), and keeps a copy of its bytes.

`Messages` puts a message together call by call as `DBusMessage` does, serialises
it in `CreateDBusMessage`'s order of fields (`HEADER_FIELDS`, then the optional ones;
only the build with unit tests sorts them), lets the daemon pass it on with the
name of its sender, and reads it as `ReadLoop()` does: 16 bytes, the rest of the
fields, padding, the body. `ReadMessage` takes the bytes off the stream also when
the header is refused.

`MatchRules` builds a rule, in any order and with any refusals, turns it to a text
(a sequence of keys and values), and lets a signal arrive. Whoever builds it has
the names and paths that the library's classes accept (`BuilderAssumption`), among
them `a..b`, and any string for a member or an argument. `WalkSignature` and
`Matches` are the library's; `DaemonAccepts` and `DaemonMatches` are the protocol's
account of a rule, the values each key may have included (`ValidValue`). The text is
kept in its parts: an apostrophe in a value, which `GetRule()` does not escape, makes
the daemon refuse the text or read another rule from it, and `DaemonAccepts` says no
to both. `WalkSignature()` is a loop over the codes of the signature,
modelled as a fold of `Turn` over it (a turn behind the last code changes nothing),
which calls itself for what a struct or a variant holds (`WalksBehind`). A signal is a
record of what its sender gave it, its body and where each argument ends there.
`SignalsAssumption` says what a sender can have sent: a path, its unique name first
among its names and, if the arguments are plain, each of them laid out behind the
padding of its type, a string as `MarshalBasicStringlikeType()` writes it, an array as
its size and that many bytes (`IsLaidOut`). What is in an array is left open: the
walk passes it by. TLC evaluates the assumption on signals that `DBusEncoding`
encodes, and in `HeadersAreRead` that `UnmarshalDBusHeader()` makes of each the header
`Received` takes it to have.

The encoder in `DBusEncoding` and the grammar in `NameGrammar` are written from the
protocol, not from this code: they are what the code is compared with. Where the
code is known to leave the protocol, a predicate names the case and the properties
leave it out:

| Predicate | The case |
|---|---|
| `HasSoundVariants` | a variant whose contents need more alignment than their first code (`DBus.h:1136`), whose walk is lost in nested arrays, structs in arrays or maps (`:1174-1194`), or whose string does not survive the small buffer: one with a NUL is cut, a literal or pointer that does not fit is replaced by its own bytes (`:186-210`) |
| `HasSoundMaps` | a map in an array or in an argument list, aligned as its entries instead of as an array (`DBusHelpers.h:227-278`) |
| `HasSoundArrays` | arrays of booleans, four bytes each on the wire: they are copied to a `std::array<bool, N>` of one byte each (`DBus.h:968`); a `std::vector<bool>` does not compile there (`Compiles`), so that only the sending is checked |
| `WithinLimit` | an array of a fixed type of 64 MiB, which the sender does not measure (`DBus.h:599-606`); the empty path of a default-constructed `ObjectPath` |
| `Len(names) = 1` | a sender with a well-known name in the cache, which no rule matches (`DBusMatchRule.cpp:415`) |
| `~Given(rule.destination)` | a rule with a destination: the header's destination is its sender (`IncomingDBusMessage.cpp:185`) |
| `HasPlainArguments` | structs, variants, maps and nested arrays in a signal, where `WalkSignature()` loses its place (`DBusMatchRule.cpp:126-182`) |
| namespaces | `path_namespace` is tested as a substring and `arg0namespace` as a prefix (`:461`, `:507`): more signals match than should |
| `AsksOnceForEachArgument` | two conditions on one argument, which the builder takes and the daemon refuses |
| `AsksForProperNames` | a member or argument nobody looks at (`DBusMatchRule.cpp:271`, `:309`), a name or namespace such as `a..b` that the name classes accept (`DBusTypes.cpp`), an apostrophe in any of them (`:351`): the daemon refuses the rule, or takes another |
| `Given(argument)` | a value `Parameter()` threw for, whose signature stays over the old body (`DBusMessage.h:113`): what is in the body is no longer asked |
| `Len(text) < MaxNameLength` | a name of 255 characters, refused although the protocol, and the comment at `DBusTypes.cpp:48`, allow it |

## What TLC checks

| Run | Bounds | Result |
|---|---|---|
| `replies` | 3 messages, 2 slots, 3 serials | passes: slots are met twice, once through the fallback map; errors, cancellations, reordered replies, a wrapped counter; refinement of `MethodCalls` and, with fairness, every caller is resumed while the daemon is there |
| `lifecycle_faults` | 1 sender, 2 closers, 1 name request, 2 names, all faults | passes: six invariants and the report of a lost connection |
| `lifecycle_calm` | 1 sender, 1 closer, 2 name requests, any request refused | passes: `Connect()` ends, the first queued message is sent unless the handshake is refused, `Close()` ends |
| `lifecycle_two_queued` | 2 senders | violated: the second queued message is never sent (`:517`) |
| `names_cache` | 2 clients, 2 names, 3 pending signals | passes: one owner per name, the right one when nothing is left to learn from; refinement of `NameDirectory`; every change is learned |
| `dispatch` | 2 messages, 2 paths, 2 filters, 1 handler per path, 2 incoming-message callbacks | passes: every message is taken or answered once, but for those whose path handlers are gone; callbacks begin in order, every message comes to its end |
| `dispatch_other_paths` | 1 message, 2 paths | violated: the handlers of another path are called (`:634`) |
| `registry_calls` | 4 calls, 2 rules, 1 callback that throws, 2 signals | passes: each signal calls the callbacks that were in force when it was sent; only rules the daemon has are kept |
| `own_names` | 4 calls for 1 name, 1 other client with 4 kinds of flags | passes: the list and the daemon's queue agree but for replies under way |
| `wire` | 74 values, alone and in variants, behind 0 to 7 bytes and with a byte behind; arrays up to 32 bytes | passes: bytes, values and refusals agree with the protocol's in both directions |
| `messages` | 3 messages of peers, then one built in any way with up to 2 changes | passes: framing, fields, bodies, refusals, replies; a call that throws half way |
| `match_rules` | rules of up to 2 conditions, proper values and improper ones, 23 signals; all strings of up to 6 of the characters `a 1 . : / -` | passes: the daemon takes the rules; its view and `Matches()` agree; paths are decided exactly, names up to their length |

Why the bounds suffice. In `ReplyChannels` interference needs one slot with two
messages that outlive each other and one bystander; three messages over two slots
have both, and the counter wraps on the way. In `ConnectionLifecycle` the shared
one-shot channels have at most two rivals in an interesting situation (two
closers; a closer and the loss handler; two waiters), and one name request or
two is enough to disturb `CloseImpl()`'s copy of the list. In `NameCache` names
are independent but for the clients they share; three pending signals let a name
change hands and back before the first is handled. In `Dispatch` two messages are
enough for one to overtake the other and for a handler to come or go in between,
and two callbacks of a kind for one to stop the other. In `MatchRuleRegistry` four
calls have two additions of a rule meet a removal and an addition after it; a second
rule shows what a throwing callback keeps from others. In `OwnNames` names do not
touch each other; four calls have two requests at a time, a release and a request
after it.

On the wire all alignments divide 8, so a value's padding repeats after 8 bytes
and the byte behind it shows whether the reader stopped where the writer did. What
is nested is one level deeper than any function looks at itself. Three constants
are scaled down to be reached: `MaxArray` (1 << 26 in the code), to 32 in `wire`,
with arrays of 31 and 32 bytes and more; `SmallBuffer` (32) to 4 in `messages`;
`MaxNameLength` (255) to 6 there and in `match_rules`. In `match_rules` two
conditions are enough because `Matches()` treats each alone, but for the exclusion of
path and namespace and two conditions on one argument. The alphabet of `NameGrammar` has one
character of each kind the validators and the grammar tell apart.

Deadlock checking is off where the system really stops: messages and calls are
finite, a caller whose reply never comes waits for ever, which is what the code
does, and a value that was read or refused stays so. Each `.cfg` says which.

Fairness. The executor eventually runs what is ready, so the resumption of a
coroutine, the delivery of an answered reply and the report of a failed read are
weakly fair. A daemon that is there answers (`Answer`, and `link /\ Deliver`);
one that leaves need not. No call of the user is fair, and neither are faults. In
`NameCache` the read loop goes on reading. The await of a channel is fair only when
something is in it, so a lost wakeup shows. In `Dispatch` the user's `io_context`
runs what it was handed (`WF(Begin)`) and each callback ends (`WF(CallNext(m))`):
one that never returns holds up what comes after it, which is its own doing.

## What is proved

`ReplyChannels_proofs`, for every number of slots, every serial modulus and every
set of messages no larger than one period of the counter (`CallsAssumption`: with
more, a serial still in use comes round and the fallback map's `insert` at
`DBusConnection.txx:741` keeps the old entry):

* `TypeCorrect`, `RepliesReachTheirCallers`, `RepliesAreKnown`,
  `RepliesFindRoom`, `ReservationsAreExclusive`, `OnlyTheCallerTakes`: the
  types, the invariants and the action property of `replies`;
* `Refinement`: `ReplyChannels` implements `MethodCalls`.

The invariants are not inductive alone: whether a reply finds an empty channel
depends on which messages hold which channels, and that on the serials being
different. `IInv` adds that the serials of started messages differ and lie before
the counter, that a reserved slot carries the serial of its one holder and a
fallback entry that of a message that uses it, that a reply on the wire or in a
channel answers a message that was sent, and that no message has two replies. The
proof that a step preserves it has a lemma per action.

`NameCache_proofs`, for all clients, names and bounds: `TypeCorrect` without
further assumptions, and, when no rule of the user's is tried before the cache's
(`~UserRuleFirst`; with it the cache may learn from a message that is gone),
`NoNameTwice`, `CacheIsRight` and `Refinement`: `NameCache` implements
`NameDirectory`. `OnNameOwnerChanged()` never compares a signal with what the cache
holds, so that a name is under one client only rests on the signals: `IInv` says
that the first signal on its way about a name takes it from the client it is under
(`Front`), each next one from the client it was given to before (`Linked`), and
that the last one gives it to its owner (`Back`, or `Settled` when there is none).
For the refinement, the mapped tables after a signal is learned are those before
without the first, and a change adds one at the end.

`Dispatch_proofs`, for all paths and bounds, on one thread and on two: `TypeCorrect`,
`MessagesStartInOrder` and `AnsweredOnce`, the invariants of `dispatch`. What they
say of a finished message depends on how it got there, so `IInv` follows it
(`Progresses`): the callbacks it has called and those it has yet to call are all
different; none that stops the others has come before the last; while it waits in
the `io_context` only filters have seen it, and up to its last incoming-message
callback all have refused it. `QueueAgrees` says that the messages in the
`io_context` are those whose stage says so, `InOrder` that they were all read after
those that began, `FiltersDiffer` that no filter has an ID still to be given, and
`ErrorsAreLast` and `RefusedIsAnswered` are the two directions of who gets the
error. Every way `HandleReadMessage()` can begin is an instance of one lemma
(`Arrives`), every later step of a message of another (`Advances`).

`OwnNames_proofs`, for all calls, names and other clients: `TypeCorrect`,
`NamesAreListed` and `NamesAreKnown`, the types and the invariants of `own_names`. That a name is
listed once the replies under way have been read is decided by the last of them
that is about it: `KnownAreToBeListed` says so of a name the daemon knows the
connection for, `ListedStayKnown` of the other direction, for which nobody may
take the connection from the queue (`Waits`). The lemmas on `Requested` and
`Without` say what the daemon's operators do to a queue; a queue never has a client
twice (`OnceInQueues`).

`ConnectionLifecycle_proofs`, for all coroutines, names and faults: `LossIsFinal`,
`LossIsTheDaemons`, `ReadyIsRead`, `RuleIsAgreed` and `LoopEndsFirst`, the invariants
of `lifecycle_faults`, and `TypeCorrect`. They hang on each other: that only one
coroutine gets past `CloseData()` needs that the loop sends one message and that a
receiver is in the channel once (`Queued`); that a reply may still be on its way to
its coroutine when the socket is closed needs that a loss is handled after the last
reply (`LossHandled`), else the handshake could make a lost connection ready; that
the rule agrees needs that the coroutine a reply was handed to awaits that reply
(`Replied`); and that a closed socket is no loss needs that `shouldQuit` is set
exactly when it is closed (`LoopRuns`). Most actions move one coroutine from one
suspension to another, and are instances of one lemma (`CoroutineRuns`). The lists
of names take no part in this and `IInv` leaves them out; `TypeCorrect` adds them.
`std::ranges::remove` is a fold over the list (`Without`), of which `WithoutType`
proves by induction that it makes a list of names, whatever its length.

`MatchRuleRegistry_proofs`, for all calls, rules and signals: `RulesAreKnown` and
`SignalsReachTheirWatchers`, the two properties of `registry_calls`, and
`TypeCorrect`. The first needs that a rule is in `matchRules` once (`OnceListed`:
`RemoveMatchRule()` erases what `find_if()` finds first) and that the daemon has a
rule whose addition is still under way, or has sent its removal after it
(`InForce`). The second is an action property, and about the callbacks themselves:
`matchRules` lags behind what the daemon counts on by what is still on its way.
`InStep` says that there is a chain (`Leads`) from the callbacks in `matchRules`, by
one reply after the other, to the daemon's `watchers`, and that each signal carries
the link before it. What the daemon sends adds a link at the end (`SendingLeads`),
what the connection reads takes the first (`ReadLeads`), for which it matters that
`AddMatchRule()` and `RemoveMatchRule()` change the list after the reply and not
before (`DBusConnection.txx:943`, `:1012`). A signal is then read at the first link,
which is `matchRules` (`SignalCalls`); where a rule is not reached, the first rule
whose callback throws was. `ListsFollow` states `InStep` of every behaviour.

`MatchRules_proofs` goes from characters to the answer of `Matches()`.

Strings, of any length over any alphabet: `EveryPathIsDecided`, the loop of
`ValidateDBusObjectPath()` accepts the object paths of the protocol and nothing else;
`NoNameIsRefused`, the name classes accept what the protocol allows, up to the length;
`EveryStringIsValidated` and `NamesAreValidated`, what `match_rules` checks of some
strings. The loop is a fold, and its invariant (`Scanned`) relates the start of the
element to the last separator and `valid` to the positions seen (`Good`); at the end
those are the protocol's elements (`GoodElements`). `StringIsRead`: a string, an object
path or a signature comes back from the bytes it was written as, wherever it stands.

The text: `RulesAreAlwaysAccepted`, from `RuleIsAsBuilt`, the invariant of the builder.
That the values of the paths are the protocol's is `EveryPathIsDecided`; those of the
other keys are looked at by nobody, and are the property's `AsksForProperNames`.
That no key and no argument appears twice is proved part by part of the text: two
parts with no key and no argument in common make one (`FineTogether`), and
`AsksOnceForEachArgument`, which counts the indices, says that the parts have none in
common (`OncePerArgument`).

The walk: `ArgumentsAreFound`, for any signal whose arguments are plain and laid out.
The k-th turn of the loop starts at the code of the k-th argument (`CodeAt`: an array
takes two codes) and behind the one before it, and ends behind it with what was kept so
far (`WalkedTo`); each type of argument has a lemma (`StringIsWalked` and so on, for
which a length of four bytes must be read as it was written). The index is counted in
one byte and does not wrap, since a signature has 255 codes at most.

The comparisons: `ElementsAreThePrefix`, comparing the elements of two paths is
comparing their characters, for any path that ends with a slash. A path with the other
in front has its elements in front (`PrefixHasTheElements`), and the elements of a path
spell it (`ElementsSpell`), so that equal elements are equal characters
(`ElementsMakeThePrefix`); both follow the fold character by character (`SplitGoesOn`,
`SpellingGoesOn`).

The answer: `SentIsDelivered` and `HandledIsMatched`, the two properties of
`match_rules` about signals, for any rule and any signals that satisfy the
assumptions. `TextMatches` takes the text apart into the conditions of the rule, each
of which is compared with the part of `Matches()` that decides it; `AnswersAreMatches`
says that an answer is about the rule whose text the daemon had, since nothing changes
a rule behind its text. What the properties leave out (the table above) is left out of
the theorems too.

Induction. The induction theorems of the library take an operator, which no prover
installed can instantiate, so `SequenceLemmas` has what these proofs need: a set of
numbers has a least one (`LeastNumber`), hence a set with 0 and every successor has
all (`UpToN`), hence a fold whose every step keeps to a set ends in it (`FoldEnds`).
A fold over a sequence is, to the prover, the function that CHOOSE picks among those
that satisfy its equation; that there is one is `FoldExists`. `SelectSeq` and
`FlattenSeq` come without a definition the provers can use, so the modules proved
about do without them.

Liveness stays with TLC: `ENABLED` and fairness are out of the prover's reach, and
with them `EveryCallEnds`, `LossReported`, `ConnectEnds`, `FirstQueuedIsSent`,
`CloseReturns`, `CatchesUp` and `EveryMessageIsSettled`. So do nested values and whole
messages on the wire: types are nested, so `Marshalling`, `Unmarshalling`,
`DBusEncoding`, `WireFormat`, `MessageHeader` and `Messages` declare or reach RECURSIVE
operators, about which nothing can be proved. Their invariants (`WritesAsPeers`,
`UnderstandsPeers`, `UnderstandsItself`, `SerializesAsPeers`, `ArrivesWhole`,
`SentIsAccepted`, `RepliesCorrelate`) are only model-checked. The turns of
`WalkSignature()` for structs, maps and variants are taken in `match_rules`, but
neither property about signals goes that far (`HasPlainArguments`).

## What the code does that no run shows

Met while modelling, allowed for by the models, and not among the runs:

* a slot stays taken for a message that was never written (`DBusConnection.txx:753`);
* a name entered twice makes `Close()` throw with the socket open (`:1128`, `:1195`);
* `RemoveMatchRule()` takes off the callbacks of everybody who added the rule, and
  the daemon keeps sending what it was asked for more than once (`:1012`);
* a connection closed between a handshake reply and the resumption of `Connect()`
  says it is ready (`:514`);
* `Close()` after a failed authentication waits for a read loop that was never
  started (`:271`);
* a rule whose callback suspends, tried before the cache's, leaves the cache a
  message that is gone (`:529`);
* a name asked for with `DO_NOT_QUEUE` and refused by the daemon is listed, and the
  next request for it throws that the connection already owns it (`:1163`, `:1130`);
* filters run in the order of a hash map (`:616`), where the documentation says in
  the order they were added;
* an ERROR reply to Hello or RequestName leaves `Connect()` by an exception before
  `:514`: the read loop runs, the connection is never ready, and queued messages wait
  for ever although the daemon is there (`:777`);
* of two calls of `Close()` the second waits for ever (`:271`);
* a `Parameter()` that throws, caught, leaves its signature over the body of the one
  before, and `Serialize()` takes the message (`DBusMessage.h:113`);
* the departures from the protocol listed under "The wire".

## What is not modelled, and the plan

1. Concurrent `async_write`s, whose chunks may alternate on the stream.
2. The multithreaded connection's calls from the user's thread:
   `WaitOnAsyncWork()`, `CloseSync()`, the data races on the containers.

Not modelled: `ParseDBusAddress()` and the authentication's bytes (environment,
system calls), `GetInfo()` and the comparison operators, logging, type names, the
unused helpers (`AwaitableSignal.h`, `InvokeAsyncCallback.h`), tests, benchmarks,
build files and the vendored magic_enum. Of the C++ object lifetimes (the destructor
that spawns `Close()`, the expired `weak_ptr` exits) nothing is modelled. Lengths
are never large enough to overflow 32 bits, and the daemon's own limits (the length
of a rule, the number of rules or names) are not part of `DaemonAccepts`: that it may
refuse for whatever reason is in `ConnectionLifecycle` (any request),
`MatchRuleRegistry` (`AddMatch`) and `OwnNames` (`RequestName`).
