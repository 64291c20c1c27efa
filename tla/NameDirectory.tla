----------------------------- MODULE NameDirectory -----------------------------
(***************************************************************************)
(* What a copy of the dbus-daemon's name table promises: it always shows    *)
(* the changes the daemon has told of up to some moment, and that moment    *)
(* only moves forward.  NameCache implements it.                            *)
(***************************************************************************)
EXTENDS Integers, Sequences

CONSTANTS BusNames, Conns, None

VARIABLES
  owner,       \* the daemon's table
  subscribed,  \* it tells of the changes
  views        \* the tables told of, from the one the copy shows to the last

vars == <<owner, subscribed, views>>

Init ==
  /\ owner = [n \in BusNames |-> None]
  /\ subscribed = FALSE
  /\ views = << [n \in BusNames |-> None] >>

Subscribe ==
  /\ subscribed' = TRUE
  /\ UNCHANGED <<owner, views>>

Change(n, c) ==
  /\ owner[n] # c
  /\ owner' = [owner EXCEPT ![n] = c]
  /\ views' = IF subscribed
                THEN Append(views, [views[Len(views)] EXCEPT ![n] = c])
                ELSE views
  /\ UNCHANGED subscribed

Learn ==
  /\ Len(views) > 1
  /\ views' = Tail(views)
  /\ UNCHANGED <<owner, subscribed>>

Next ==
  \/ Subscribe
  \/ \E n \in BusNames, c \in Conns \cup {None} : Change(n, c)
  \/ Learn

Spec == Init /\ [][Next]_vars
================================================================================
