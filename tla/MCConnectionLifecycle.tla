------------------------ MODULE MCConnectionLifecycle ------------------------
(* Instances of ConnectionLifecycle for TLC. *)
EXTENDS ConnectionLifecycle

CONSTANTS connect, loss, s1, s2, k1, k2, o1, o2, n1, n2

OneSender == {s1}
TwoSenders == {s1, s2}
OneCloser == {k1}
TwoClosers == {k1, k2}
OneOwner == {o1}
TwoOwners == {o1, o2}
NoOwner == {}
OneName == {n1}
TwoNames == {n1, n2}
NoOwnName == <<>>
OneOwnName == <<n1>>
Calm == {}
Refusals == {"refuse"}
==============================================================================
