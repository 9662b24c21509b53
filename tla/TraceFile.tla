------------------------------ MODULE TraceFile ------------------------------
(***************************************************************************)
(* What the logging pipeline promises its reader, the offline analyzer:    *)
(* the trace file is a merge of the threads' events that keeps, for every  *)
(* thread, the order in which that thread logged them, and every event's   *)
(* text stands there in one piece.  Nothing is said of the order of events *)
(* of different threads.                                                   *)
(***************************************************************************)
EXTENDS Naturals, Sequences

CONSTANT Threads

VARIABLES
  logged,   \* the number of events each thread has logged so far
  queue,    \* of each thread, the events on their way to the file
  file      \* the texts of the events written
vars == <<logged, queue, file>>

\* The text of an event, in the two parts it may be cut into.
Text(e) == <<<<e, 1>>, <<e, 2>>>>

Init == /\ logged = [t \in Threads |-> 0]
        /\ queue = [t \in Threads |-> <<>>]
        /\ file = <<>>

\* Thread t logs its next event.
Log(t) == /\ logged' = [logged EXCEPT ![t] = @ + 1]
          /\ queue' = [queue EXCEPT ![t] = Append(@, <<t, logged[t] + 1>>)]
          /\ UNCHANGED file

\* The oldest event of thread t reaches the file.
Write(t) == /\ queue[t] # <<>>
            /\ file' = file \o Text(Head(queue[t]))
            /\ queue' = [queue EXCEPT ![t] = Tail(@)]
            /\ UNCHANGED logged

Next == \E t \in Threads : Log(t) \/ Write(t)

Spec == Init /\ [][Next]_vars
=============================================================================
