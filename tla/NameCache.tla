------------------------------- MODULE NameCache -------------------------------
(***************************************************************************)
(* DBusNameCache: which names each unique connection name stands for,       *)
(* learned from the daemon's NameOwnerChanged signals                       *)
(* (src/src/DBusNameCache.txx), the order in which HandleReadMessage() has   *)
(* it learn them, and what matching a rule makes of it                      *)
(* (src/src/DBusMatchRule.cpp).                                             *)
(***************************************************************************)
EXTENDS Integers, Sequences, FiniteSetsExt

CONSTANTS
  Conns,         \* unique connection names of the other clients
  Names,         \* well-known names
  None,          \* the empty string: no owner
  MaxPending,    \* bound: signals the daemon has sent and nobody has handled
  UserRuleFirst  \* the user's rule was registered before the cache's; it matches
                 \* the signals too, and its callback may await something

ASSUME NamesAssumption == Conns \cap Names = {} /\ None \notin Conns \cup Names
ASSUME BoundAssumption == MaxPending \in Nat
ASSUME RuleAssumption == UserRuleFirst \in BOOLEAN

\* A unique name is a name too, owned by itself while its client is connected.
BusNames == Conns \cup Names

VARIABLES
  owner,       \* the daemon's table of names
  subscribed,  \* the daemon has the cache's match rule
  signals,     \* NameOwnerChanged signals on their way to the read loop
  suspended,   \* how many HandleReadMessage() await the user's callback
  frame,       \* the message that ReadLoop()'s frame held last
  cache        \* m_wellKnownNames; the empty set stands for no entry

vars == <<owner, subscribed, signals, suspended, frame, cache>>

Signal == [name : BusNames, old : Conns \cup {None}, new : Conns \cup {None}]

TypeOK ==
  /\ owner \in [BusNames -> Conns \cup {None}]
  /\ subscribed \in BOOLEAN
  /\ signals \in Seq(Signal)
  /\ suspended \in Nat
  /\ frame \in Signal \cup {None} /\ (suspended > 0 => frame \in Signal)
  /\ cache \in [Conns -> SUBSET BusNames]

Init ==
  /\ owner = [n \in BusNames |-> None]
  /\ subscribed = FALSE
  /\ signals = <<>>
  /\ suspended = 0
  /\ frame = None
  /\ cache = [c \in Conns |-> {}]
--------------------------------------------------------------------------------
(* The daemon *)

\* A client connects, leaves (once it has lost its well-known names; a unique
\* name that comes back only adds behaviours), gains or loses a name.
MayOwn(n, c) ==
  IF n \in Conns
    THEN c \in {n, None} /\ (c = None => \A m \in Names : owner[m] # n)
    ELSE c # None => owner[c] = c

Change(n, c) ==
  /\ owner[n] # c
  /\ MayOwn(n, c)
  /\ Len(signals) + suspended < MaxPending
  /\ owner' = [owner EXCEPT ![n] = c]
  /\ signals' = IF subscribed
                  THEN Append(signals, [name |-> n, old |-> owner[n], new |-> c])
                  ELSE signals
  /\ UNCHANGED <<subscribed, suspended, frame, cache>>

--------------------------------------------------------------------------------
(* The cache *)

\* AddMatch.  The current owners are not asked for.
SubscribeToNameChanges ==
  /\ ~subscribed
  /\ subscribed' = TRUE
  /\ UNCHANGED <<owner, signals, suspended, frame, cache>>

\* Mutant: the name stays with its old owner.
UpdateKeepsOld(s) ==
  [c \in Conns |-> cache[c] \cup (IF c = s.new THEN {s.name} ELSE {})]

\* Mutant: a name that changes hands only leaves its old owner.
UpdateElse(s) ==
  [c \in Conns |-> (IF c = s.old THEN cache[c] \ {s.name} ELSE cache[c])
                     \cup (IF c = s.new /\ s.old = None THEN {s.name} ELSE {})]

\* OnNameOwnerChanged(): move the name from its old owner to the new one.
Update(s) ==
  [c \in Conns |-> (IF c = s.old THEN cache[c] \ {s.name} ELSE cache[c])
                     \cup (IF c = s.new THEN {s.name} ELSE {})]

\* Mutant: AddMatchRule() puts a rule before the others.
RuleInFront == TRUE

\* The user's rule is tried before the cache's.
UserRuleIsFirst == UserRuleFirst

\* HandleReadMessage() runs inside co_spawn() until it suspends, here to its end.
Read ==
  /\ signals # <<>>
  /\ signals' = Tail(signals)
  /\ frame' = Head(signals)
  /\ cache' = Update(Head(signals))
  /\ UNCHANGED <<owner, subscribed, suspended>>

\* The user's callback suspends it (in the single-threaded connection).
\* ReadLoop() goes on and destroys the message, which HandleReadMessage() has
\* by reference.
ReadSuspends ==
  /\ signals # <<>>
  /\ signals' = Tail(signals)
  /\ frame' = Head(signals)
  /\ suspended' = suspended + 1
  /\ cache' = IF UserRuleIsFirst THEN cache ELSE Update(Head(signals))
  /\ UNCHANGED <<owner, subscribed>>

\* The callback returns.  If the cache's rule is next, it is tried on what is
\* left in the frame: the message read last, or nothing that matches.
Resume ==
  /\ suspended > 0
  /\ suspended' = suspended - 1
  /\ \/ UNCHANGED cache
     \/ UserRuleIsFirst /\ cache' = Update(frame)
  /\ UNCHANGED <<owner, subscribed, signals, frame>>

\* The names a rule may know the sender c by.
GetWellKnownNames(c) == {c} \cup cache[c]
--------------------------------------------------------------------------------
Next ==
  \/ \E n \in BusNames, c \in Conns \cup {None} : Change(n, c)
  \/ SubscribeToNameChanges
  \/ Read
  \/ ReadSuspends
  \/ Resume

Spec == Init /\ [][Next]_vars

\* The read loop goes on reading.
FairSpec == Spec /\ WF_vars(Read \/ ReadSuspends)
--------------------------------------------------------------------------------
\* A name is under one unique name at most, whichever signals are on the way:
\* OnNameOwnerChanged() takes it from the old owner the signal names.
OneOwner ==
  \A c, d \in Conns : c # d => cache[c] \cap cache[d] = {}

\* When no signal is left to learn from, each name listed is listed with its
\* owner: the cache did not miss or misplace a change ("Returns a list of
\* well-known names associated with the given unique connection name",
\* DBusNameCache.h).
ListsTheOwner ==
  signals = <<>> /\ suspended = 0 =>
    \A c \in Conns : \A n \in cache[c] : owner[n] = c

\* The owner the cache has for a name once it has learned from the first k
\* signals on their way.
Believed(n) ==
  IF \E c \in Conns : n \in cache[c]
    THEN CHOOSE c \in Conns : n \in cache[c]
    ELSE None

After(k) ==
  [n \in BusNames |->
    LET changes == {i \in 1..k : signals[i].name = n}
    IN  IF changes = {} THEN Believed(n) ELSE signals[Max(changes)].new]

Directory ==
  INSTANCE NameDirectory
  WITH views <- [k \in 1..Len(signals) + 1 |-> After(k - 1)]

\* The cache shows the daemon's changes up to some moment, all of them and in
\* their order, and never goes back.
ImplementsNameDirectory == Directory!Spec

\* Every owner that the daemon tells of is listed with the name in the end, if
\* only until the next signal.
CatchesUp ==
  \A n \in BusNames, c \in Conns :
    (\E i \in DOMAIN signals : signals[i].name = n /\ signals[i].new = c)
      ~> n \in GetWellKnownNames(c)
================================================================================
