----------------------------- MODULE EventQueue -----------------------------
(***************************************************************************)
(* What a ring promises to the thread that logs into it and to the backend *)
(* that drains it: a loss-free, duplicate-free first-in first-out channel. *)
(* sent is the history of the events the thread has committed, received    *)
(* the history of those the backend has taken out.                         *)
(***************************************************************************)
EXTENDS Naturals, Sequences

CONSTANT Event          \* everything an event record can carry

VARIABLES sent, received
vars == <<sent, received>>

Init == sent = <<>> /\ received = <<>>

\* The thread publishes one more event.
Send == /\ \E e \in Event : sent' = Append(sent, e)
        /\ UNCHANGED received

\* The backend takes the oldest event it has not taken yet.
Receive == /\ Len(received) < Len(sent)
           /\ received' = Append(received, sent[Len(received) + 1])
           /\ UNCHANGED sent

Next == Send \/ Receive

SafeSpec == Init /\ [][Next]_vars
=============================================================================
