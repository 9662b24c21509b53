------------------------------ MODULE ForkChild ------------------------------
(***************************************************************************)
(* fork in a program whose threads log.  The child has one thread, the one *)
(* that called fork, a copy of the parent's memory as it was at that       *)
(* moment, and the parent's file: what the child's FILE has in its buffer  *)
(* goes to the same file at the same offset.  The atfork handler           *)
(* (lib_init.cpp) is to leave the child without log and without rings.     *)
(*                                                                         *)
(* The handler is one step: the child has no other thread, and of what the *)
(* handler does the parent sees nothing but the write of fclose.           *)
(***************************************************************************)
EXTENDS Pipeline

CONSTANT ChildCalls     \* bound: lock functions the child calls

ASSUME ChildAssumption == ChildCalls \in Nat

VARIABLE child
\* at      "none", in the handler ("forked"), in the program ("running"), in a
\*         wrapper ("call"), its thread has returned ("ended"), or it has used
\*         memory that was freed and may do anything ("undefined")
\* forker  the thread that called fork
\* list    g_registry_head ...            live   the rings that were allocated
\* freed   the rings deleted, in order    marked the rings marked dead
\* buf     the stdio buffer               enabled, fp, locked  g_log_enabled, g_fp,
\*         g_registry_mu                  calls, logged  calls made, events in its ring
\* before  history: the events that had left their rings when it was forked
forkVars == <<vars, child>>

NoChild == [at |-> "none", forker |-> Main, list |-> <<>>, live |-> {},
            freed |-> <<>>, marked |-> {}, buf |-> <<>>, enabled |-> FALSE,
            fp |-> "none", locked |-> FALSE, calls |-> 0, logged |-> 0,
            before |-> {}]

ForkInit == Init /\ child = NoChild
-----------------------------------------------------------------------------
(* What the child finds.                                                   *)

LeftRings == {e \in Committed : e \notin Elements(ring[e[1]])}
Allocated == {t \in Threads : ringState[t] = "live"}

\* The list may lack a ring: one that is allocated and not yet pushed, or one
\* that scan_all_rings_once has unlinked and is about to delete.
Reclaiming == spc = "reclaim" /\ cursor <= Len(registry) /\ Drained(Current)
\* Fault: the scan deletes the ring first and unlinks it afterwards.
MemoriesDeletedFirst ==
  {<<registry, Allocated>>} \cup
  (IF Reclaiming THEN {<<registry, Allocated \ {Current}>>} ELSE {})
Memories ==
  {<<registry, Allocated>>} \cup
  (IF Reclaiming THEN {<<Unlink(cursor), Allocated>>} ELSE {})

\* Thread t is in application code, and not within log_init or log_close.
MayFork(t) == /\ tpc[t] = "idle" /\ ~dead[t]
              /\ mpc # "init" /\ (t = Main => mpc \in {"running", "closed"})

\* Thread t calls fork.
Fork(t) ==
  /\ child.at = "none" /\ MayFork(t)
  /\ \E mem \in Memories :
       child' = [NoChild EXCEPT !.at = "forked", !.forker = t, !.list = mem[1],
                   !.live = mem[2], !.buf = fbuf, !.enabled = enabled,
                   !.fp = file, !.locked = regOwner # NoOwner, !.before = LeftRings]
  /\ UNCHANGED vars
-----------------------------------------------------------------------------
(* The child.                                                              *)

\* Fault: the rings are drained into the file before they are deleted.
FcloseDrains ==
  disk' = disk \o (child.buf \o IF ring[child.forker] = <<>> THEN <<>>
                                 ELSE Text(Head(ring[child.forker])))
\* fclose writes what is in the buffer, wherever the parent's file ends by now.
Fclose == disk' = disk \o child.buf

\* Fault: logging stays enabled in the child, and the lock as it was found.
ResetRingsOnly ==
  [child EXCEPT !.at = "running", !.list = <<>>, !.freed = child.list,
                !.buf = <<>>, !.fp = "none"]
\* What log_close_fast_for_fork_child leaves: logging disabled, every ring of
\* the list deleted, a fresh lock, and the file closed.
Reset ==
  [child EXCEPT !.at = "running", !.list = <<>>, !.freed = child.list,
                !.buf = <<>>, !.fp = "none", !.locked = FALSE, !.enabled = FALSE]

\* atfork_child.  t_ring is cleared as well: the child would log into a new ring.
AtforkChild ==
  /\ child.at = "forked" /\ child.fp # "closed"
  /\ IF ~child.enabled /\ child.fp = "none"
     THEN child' = [child EXCEPT !.at = "running"] /\ UNCHANGED disk
     ELSE /\ child' = Reset
          /\ IF child.fp = "open" THEN Fclose ELSE UNCHANGED disk
  /\ UNCHANGED <<enabled, file, fbuf, mpc, shutdown, flush, scanVars, bpc,
                 threadVars, signals, owed>>

\* The parent was between fclose and g_fp = nullptr: the FILE that the handler closes
\* has been closed and freed.
CloseTwice ==
  /\ child.at = "forked" /\ child.fp = "closed"
  /\ child' = [Reset EXCEPT !.at = "undefined"]
  /\ UNCHANGED vars

\* The program calls a lock function in the child.
ChildCall ==
  /\ child.at = "running" /\ child.calls < ChildCalls
  /\ child' = [child EXCEPT !.at = "call", !.calls = @ + 1]
  /\ UNCHANGED vars

\* log_event returns at once; if it did log, it would need the registry lock for
\* its new ring, and room in a ring that nobody drains.
ChildLog ==
  /\ child.at = "call"
  /\ IF child.enabled
     THEN /\ ~child.locked /\ child.logged < RingCap
          /\ child' = [child EXCEPT !.at = "running", !.logged = @ + 1]
     ELSE child' = [child EXCEPT !.at = "running"]
  /\ UNCHANGED vars

\* The thread that forked ends, by pthread_exit or by returning from its function,
\* and the destructor of its key marks the ring the key still points to: the one
\* it had in the parent.
ChildThreadEnd ==
  /\ child.at = "running"
  /\ child' = [child EXCEPT !.at = "ended",
                 !.marked = {child.forker} \cap (child.live \cup Elements(child.freed))]
  /\ UNCHANGED vars
-----------------------------------------------------------------------------
ChildStep == AtforkChild \/ CloseTwice \/ ChildCall \/ ChildLog \/ ChildThreadEnd
ForkNext == \/ Next /\ UNCHANGED child
            \/ \E t \in Threads : Fork(t)
            \/ ChildStep

\* The child's thread runs; what the parent does is of no importance to it.
ForkSpec == /\ ForkInit /\ [][ForkNext]_forkVars
            /\ WF_forkVars(AtforkChild \/ CloseTwice \/ ChildLog)
-----------------------------------------------------------------------------
(* Correctness.                                                            *)

\* backend_fork_child_reset walks a list that was copied in the middle of
\* anything: it deletes no ring twice and none that is not allocated.
ChildMemorySafe ==
  Distinct(child.freed) /\ Elements(child.freed) \subseteq child.live

\* What the child's fclose does to the trace.  The copy of the buffer goes behind
\* whatever the parent has written by then, and that may end in the middle of an
\* event's text; the parent writes the rest of it behind the copy.  That event is torn:
\* no other is, no event that had left its ring by the time of the fork, and none as
\* long as the child has not closed its file.  Nothing is added that is not in the
\* parent's trace; and before every event stand all earlier ones of its thread, so that
\* read for the first occurrences it is in order.
Torn(s) == LeftRings \ Whole(s)
InOrder(s) ==
  \A e \in Event, j \in 1..Len(s) : TextAt(s, e, j) =>
    \A k \in 1..(e[2] - 1) : LET d == <<e[1], k>> IN
      d \in Torn(s) \/ \E i \in 1..(j - 1) : TextAt(s, d, i)
TraceSurvives == LET s == disk \o fbuf IN
  /\ \A i \in 1..Len(s) : s[i][1] \in LeftRings
  /\ \A d, e \in Torn(s) : d = e
  /\ Torn(s) \cap child.before = {}
  /\ child.at \in {"none", "forked"} => Torn(s) = {}
  /\ InOrder(s)

\* The child gets out of the handler and out of every wrapper it calls, unless the
\* handler closed a file twice.
ChildReturns ==
  child.at \in {"forked", "call"} ~> child.at \in {"running", "ended", "undefined"}

\* A comment says that when a thread ends its ring is marked and left to the
\* backend, and another that after a fork, with all rings deleted, it is enough to
\* clear t_ring: the thread that forked marks no deleted ring when it ends.
MarksNoDeletedRing == child.marked \cap Elements(child.freed) = {}

\* A test says that the child writes nothing into the trace of the parent, which
\* would leave every event in it once.
ParentEventsOnce == Distinct(disk)
=============================================================================
