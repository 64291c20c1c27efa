------------------------------ MODULE MethodCalls ------------------------------
(***************************************************************************)
(* What CxxBus promises about method calls, whatever the connection does    *)
(* inside: a call is issued, its peer answers it at most once, and the      *)
(* caller gets that answer - as a value or as an exception, according to    *)
(* its kind - or gives up without one.  DBusConnection::SendMessage is the  *)
(* operation; ReplyChannels is shown to implement this specification.       *)
(***************************************************************************)

CONSTANTS Calls,    \* the messages sent on one connection, each sent once
          None      \* no answer

Kinds == {"return", "error"}

VARIABLES status,   \* what the caller of each message sees
          answer    \* the kind of the answer its peer has given

vars == <<status, answer>>

TypeOK ==
  /\ status \in [Calls -> {"idle", "pending", "returned", "raised", "ended"}]
  /\ answer \in [Calls -> Kinds \cup {None}]

Init ==
  /\ status = [c \in Calls |-> "idle"]
  /\ answer = [c \in Calls |-> None]

Issue(c) ==
  /\ status[c] = "idle"
  /\ status' = [status EXCEPT ![c] = "pending"]
  /\ UNCHANGED answer

\* The peer may answer a call whose caller has given up meanwhile.
Answer(c, kind) ==
  /\ status[c] # "idle"
  /\ answer[c] = None
  /\ answer' = [answer EXCEPT ![c] = kind]
  /\ UNCHANGED status

\* The only way to return, or to raise the remote error: the own answer.
Complete(c) ==
  /\ status[c] = "pending"
  /\ \/ answer[c] = "return" /\ status' = [status EXCEPT ![c] = "returned"]
     \/ answer[c] = "error"  /\ status' = [status EXCEPT ![c] = "raised"]
  /\ UNCHANGED answer

\* Without an answer: a one-way message, a local exception, a cancellation.
End(c) ==
  /\ status[c] \in {"idle", "pending"}
  /\ status' = [status EXCEPT ![c] = "ended"]
  /\ UNCHANGED answer

Next ==
  \E c \in Calls :
    \/ Issue(c)
    \/ \E kind \in Kinds : Answer(c, kind)
    \/ Complete(c)
    \/ End(c)

Spec == Init /\ [][Next]_vars
================================================================================
