------------------------ MODULE OrderedNotifications ------------------------
(* What the notification queue promises the rest of the server, with no      *)
(* queue in it: document notifications take effect one at a time, in the     *)
(* order the client sent them, and a request sees every notification sent    *)
(* before it and waits for none sent after it.                               *)
EXTENDS Naturals

CONSTANT Messages       \* the numbers of one session's messages, in the order sent

VARIABLES kind,         \* what each message is, once it was read
          state         \* how far its handling got

vars == <<kind, state>>

\* The notifications the client sent before message m.
Earlier(m) == {k \in Messages : k < m /\ kind[k] = "notification"}

Settled(m) == state[m] = "settled"

Init ==
    /\ kind = [m \in Messages |-> "unread"]
    /\ state = [m \in Messages |-> "pending"]

\* The client's next message is read.
Read(m) ==
    /\ kind[m] = "unread"
    /\ \A k \in Messages : k < m => kind[k] # "unread"
    /\ \E t \in {"notification", "request"} : kind' = [kind EXCEPT ![m] = t]
    /\ UNCHANGED state

\* A handler starts once every notification sent before its message is settled.
Start(m) ==
    /\ kind[m] # "unread"
    /\ state[m] = "pending"
    /\ \A k \in Earlier(m) : Settled(k)
    /\ state' = [state EXCEPT ![m] = "running"]
    /\ UNCHANGED kind

\* A handler ends, or panics, or its message is given up before it started.
Settle(m) ==
    /\ kind[m] # "unread"
    /\ state[m] \in {"pending", "running"}
    /\ state' = [state EXCEPT ![m] = "settled"]
    /\ UNCHANGED kind

Next == \E m \in Messages : Read(m) \/ Start(m) \/ Settle(m)

Spec == Init /\ [][Next]_vars
=============================================================================
