------------------------------ MODULE Pipeline ------------------------------
(***************************************************************************)
(* The asynchronous logging pipeline: the application's threads, each with *)
(* its ring (event_log.cpp, thread_state.cpp), the registry of rings and   *)
(* the backend thread that drains them into the trace file (backend.cpp),  *)
(* the signal handler that asks for a flush and the exit handler that      *)
(* closes the log (lib_init.cpp).                                          *)
(*                                                                         *)
(* A ring is a bounded queue of events here; ThreadRing shows that this is *)
(* what its bytes amount to.  A step is one access to state that another   *)
(* thread may change; what runs under g_registry_mu is split at the points *)
(* where the threads, which do not take that lock to log, can interfere.   *)
(***************************************************************************)
EXTENDS Naturals, Sequences, FiniteSets

CONSTANTS
  Threads,      \* the application's threads
  Main,         \* the one that ends the program: it runs log_close
  Backend,      \* the backend thread
  NoOwner,      \* nobody holds g_registry_mu
  RingCap,      \* events a ring has room for
  BufCap,       \* parts of texts the stdio buffer of the trace file has room for
  MaxEvents,    \* bound: events a thread logs
  MaxSignals,   \* bound: flush signals delivered
  LateLogging   \* may a thread log after its ring's TLS destructor has run?

ASSUME ThreadAssumption == /\ Main \in Threads /\ IsFiniteSet(Threads)
                           /\ Backend \notin Threads
                           /\ NoOwner \notin Threads \cup {Backend}
ASSUME CapAssumption    == RingCap \in Nat \ {0} /\ BufCap \in Nat \ {0, 1}
ASSUME LimitAssumption  == MaxEvents \in Nat /\ MaxSignals \in Nat
ASSUME LateAssumption   == LateLogging \in BOOLEAN

VARIABLES
  \* event_log.cpp
  enabled,      \* g_log_enabled
  file,         \* g_fp: "none" (a null pointer), "open", or "closed" by fclose
  fbuf, disk,   \* texts in the stdio buffer, texts in the file itself
  mpc,          \* where Main is in log_init / log_close
  \* backend.cpp
  shutdown,     \* g_shutdown_request
  flush,        \* g_flush_request
  registry,     \* the list from g_registry_head on
  regOwner,     \* who holds g_registry_mu
  bpc,          \* where backend_main is
  spc,          \* where the scan of the rings is
  cursor,       \* how far along the registry it is
  didWork,      \* did_work
  \* thread_state.cpp and the rings
  tpc,          \* where each thread is in log_event
  ring,         \* the events in each thread's ring
  ringState,    \* "none", "live" or "freed"
  dead,         \* producer_dead
  \* history
  committed,    \* the number of events each thread has committed
  signals,      \* the number of signals so far
  owed          \* what the end of this round has to flush, and the end of log_close

fileVars   == <<file, fbuf, disk>>
scanVars   == <<registry, regOwner, spc, cursor, didWork>>
threadVars == <<tpc, ring, ringState, dead, committed>>
vars == <<enabled, fileVars, mpc, shutdown, flush, scanVars, bpc, threadVars,
          signals, owed>>

Event == Threads \X (1..MaxEvents)
Committed == {e \in Event : e[2] <= committed[e[1]]}

Elements(s) == {s[i] : i \in 1..Len(s)}

\* The lines of an event: what stands in front of the place where a full buffer may
\* be written out, and what stands behind it and ends with the end of a line.
Text(e) == <<<<e, 1>>, <<e, 2>>>>
Part == Event \X {1, 2}
\* In s the text of e stands at place i, in one piece and at the beginning of a line.
TextAt(s, e, i) ==
  /\ i \in 1..Len(s) /\ i + 1 \in 1..Len(s)
  /\ s[i] = <<e, 1>> /\ s[i + 1] = <<e, 2>>
  /\ i > 1 => s[i - 1][2] = 2
\* The events that can be read in s.
Whole(s) == {e \in Event : \E i \in 1..Len(s) : TextAt(s, e, i)}
OnDisk == Whole(disk)
\* No element comes twice.
Distinct(s) == \A i, j \in 1..Len(s) : s[i] = s[j] => i = j

Init ==
  /\ enabled = FALSE /\ file = "none" /\ fbuf = <<>> /\ disk = <<>>
  /\ mpc = "init" /\ shutdown = FALSE /\ flush = FALSE
  /\ registry = <<>> /\ regOwner = NoOwner
  /\ bpc = "off" /\ spc = "rest" /\ cursor = 1 /\ didWork = FALSE
  /\ tpc = [t \in Threads |-> "idle"]
  /\ ring = [t \in Threads |-> <<>>]
  /\ ringState = [t \in Threads |-> "none"]
  /\ dead = [t \in Threads |-> FALSE]
  /\ committed = [t \in Threads |-> 0]
  /\ signals = 0
  /\ owed = [flush |-> {}, close |-> {}]
-----------------------------------------------------------------------------
(* Logging an event.                                                       *)

\* Thread t is past the destructor of its ring.
Exited(t) == ringState[t] # "none" /\ dead[t]

\* log_event finds logging enabled; the first time it has no ring yet.
LogEvent(t) ==
  /\ tpc[t] = "idle" /\ enabled /\ committed[t] < MaxEvents
  /\ Exited(t) => LateLogging
  /\ t = Main => mpc = "running"
  /\ tpc' = [tpc EXCEPT ![t] = IF ringState[t] = "none" THEN "alloc" ELSE "reserve"]
  /\ UNCHANGED <<enabled, fileVars, mpc, shutdown, flush, scanVars, bpc,
                 ring, ringState, dead, committed, signals, owed>>

\* current_ring makes the ring, or cannot and the event is silently dropped.
Allocate(t) ==
  /\ tpc[t] = "alloc"
  /\ \/ /\ tpc' = [tpc EXCEPT ![t] = "register"]
        /\ ringState' = [ringState EXCEPT ![t] = "live"]
     \/ /\ tpc' = [tpc EXCEPT ![t] = "idle"]
        /\ UNCHANGED ringState
  /\ UNCHANGED <<enabled, fileVars, mpc, shutdown, flush, scanVars, bpc,
                 ring, dead, committed, signals, owed>>

\* Fault: the ring takes the place of the list instead of its head.
PushOnly(t) == <<t>>
\* A ring becomes the head of the list.
Push(t) == <<t>> \o registry

\* backend_register_ring.
Register(t) ==
  /\ tpc[t] = "register" /\ regOwner = NoOwner
  /\ registry' = Push(t)
  /\ tpc' = [tpc EXCEPT ![t] = "reserve"]
  /\ UNCHANGED <<enabled, fileVars, mpc, shutdown, flush, regOwner, spc, cursor,
                 didWork, bpc, ring, ringState, dead, committed, signals, owed>>

\* Fault: a full ring has room for one more.
RoomInFull(t) == Len(ring[t]) <= RingCap
Room(t) == Len(ring[t]) < RingCap

\* reserve finds room; without any, the thread spins.
Reserve(t) ==
  /\ tpc[t] = "reserve" /\ Room(t)
  /\ tpc' = [tpc EXCEPT ![t] = "commit"]
  /\ UNCHANGED <<enabled, fileVars, mpc, shutdown, flush, scanVars, bpc,
                 ring, ringState, dead, committed, signals, owed>>

\* The event is filled in and committed.
Commit(t) ==
  /\ tpc[t] = "commit"
  /\ ring' = [ring EXCEPT ![t] = Append(@, <<t, committed[t] + 1>>)]
  /\ committed' = [committed EXCEPT ![t] = @ + 1]
  /\ tpc' = [tpc EXCEPT ![t] = "idle"]
  /\ UNCHANGED <<enabled, fileVars, mpc, shutdown, flush, scanVars, bpc,
                 ringState, dead, signals, owed>>

\* A thread with a ring ends: the TLS destructor marks its ring dead.
ThreadExit(t) ==
  /\ t # Main /\ tpc[t] = "idle" /\ ringState[t] = "live" /\ ~dead[t]
  /\ dead' = [dead EXCEPT ![t] = TRUE]
  /\ UNCHANGED <<enabled, fileVars, mpc, shutdown, flush, scanVars, bpc,
                 tpc, ring, ringState, committed, signals, owed>>
-----------------------------------------------------------------------------
(* scan_all_rings_once, run by s: the backend, or Main after joining it.   *)

ScanLock(s) ==
  /\ spc = "lock" /\ regOwner = NoOwner
  /\ regOwner' = s /\ cursor' = 1 /\ didWork' = FALSE /\ spc' = "drain"
  /\ owed' = [owed EXCEPT !.flush = IF flush THEN Committed ELSE {}]
  /\ UNCHANGED <<enabled, fileVars, mpc, shutdown, flush, registry, bpc,
                 threadVars, signals>>

\* The stdio buffer has room for a text.
HasRoom == Len(fbuf) + 2 <= BufCap
\* Fault: a full stdio buffer is overwritten.
FwriteOverwrites(e) ==
  fbuf' = (IF HasRoom THEN fbuf \o Text(e) ELSE Text(e)) /\ UNCHANGED disk
\* fwrite of what process_one_event has put together.  Text that does not fit fills the
\* buffer, which is written out, and the rest begins the next: the file may end
\* anywhere in it, or in front of it if the buffer was full already.
Fwrite(e) ==
  IF HasRoom
  THEN fbuf' = fbuf \o Text(e) /\ UNCHANGED disk
  ELSE \E n \in 0..1 : /\ disk' = disk \o fbuf \o SubSeq(Text(e), 1, n)
                       /\ fbuf' = SubSeq(Text(e), n + 1, 2)

AtRing(s) == regOwner = s /\ cursor <= Len(registry)
Current == registry[cursor]

\* consume_event on the ring of t.
Take(t) == [ring EXCEPT ![t] = Tail(@)]

\* process_one_event finds an event and writes it.
ScanEvent(s) ==
  /\ spc = "drain" /\ AtRing(s) /\ ring[Current] # <<>>
  /\ Fwrite(Head(ring[Current]))
  /\ ring' = Take(Current)
  /\ didWork' = TRUE
  /\ UNCHANGED <<enabled, file, mpc, shutdown, flush, registry, regOwner, spc,
                 cursor, bpc, tpc, ringState, dead, committed, signals, owed>>

\* process_one_event finds the ring empty.
ScanEmpty(s) ==
  /\ spc = "drain" /\ AtRing(s) /\ ring[Current] = <<>>
  /\ spc' = "dead"
  /\ UNCHANGED <<enabled, fileVars, mpc, shutdown, flush, registry, regOwner,
                 cursor, didWork, bpc, threadVars, signals, owed>>

\* Fault: a ring whose thread has ended never counts as dead.
ProducerDeadNever(t) == FALSE
\* Fault: an empty ring is enough.
ProducerDeadAlways(t) == TRUE
\* producer_dead of the ring of t.
ProducerDead(t) == dead[t]

\* The thread of the ring is alive: on to the next ring.  If it has ended,
\* readable() is to be looked at once more.
ScanDead(s) ==
  /\ spc = "dead" /\ AtRing(s)
  /\ IF ProducerDead(Current)
     THEN spc' = "reclaim" /\ UNCHANGED cursor
     ELSE spc' = "drain" /\ cursor' = cursor + 1
  /\ UNCHANGED <<enabled, fileVars, mpc, shutdown, flush, registry, regOwner,
                 didWork, bpc, threadVars, signals, owed>>

\* Fault: what was seen empty before the thread ended is taken for empty.
DrainedAssumed(t) == TRUE
\* readable() = 0, asked after producer_dead.
Drained(t) == ring[t] = <<>>

\* Fault: the ring is deleted but stays in the list.
UnlinkNot(i) == registry
\* The registry without its i-th ring.
Unlink(i) == SubSeq(registry, 1, i - 1) \o SubSeq(registry, i + 1, Len(registry))

\* A dead and empty ring is unlinked and deleted.
ScanReclaim(s) ==
  /\ spc = "reclaim" /\ AtRing(s)
  /\ spc' = "drain"
  /\ IF Drained(Current)
     THEN /\ registry' = Unlink(cursor)
          /\ ringState' = [ringState EXCEPT ![Current] = "freed"]
          /\ ring' = [ring EXCEPT ![Current] = <<>>]
          /\ UNCHANGED cursor
     ELSE /\ cursor' = cursor + 1
          /\ UNCHANGED <<registry, ringState, ring>>
  /\ UNCHANGED <<enabled, fileVars, mpc, shutdown, flush, regOwner, didWork, bpc,
                 tpc, dead, committed, signals, owed>>

\* The end of the list.
ScanUnlock(s) ==
  /\ spc = "drain" /\ regOwner = s /\ cursor > Len(registry)
  /\ regOwner' = NoOwner /\ spc' = "done"
  /\ UNCHANGED <<enabled, fileVars, mpc, shutdown, flush, registry, cursor,
                 didWork, bpc, threadVars, signals, owed>>

Scan(s) == \/ ScanLock(s) \/ ScanEvent(s) \/ ScanEmpty(s) \/ ScanDead(s)
           \/ ScanReclaim(s) \/ ScanUnlock(s)
-----------------------------------------------------------------------------
(* backend_main.                                                           *)

\* Fault: the request is taken down but nothing is written.
FflushNot == UNCHANGED <<disk, fbuf>>
Fflush == disk' = disk \o fbuf /\ fbuf' = <<>>

\* Fault: requests are overlooked.
FlushDueNever == FALSE
FlushDue == flush

\* After a round: serve a flush request.
BackendFlush ==
  /\ bpc = "round" /\ spc = "done"
  /\ bpc' = "check"
  /\ IF FlushDue THEN flush' = FALSE /\ Fflush ELSE UNCHANGED <<flush, fbuf, disk>>
  /\ UNCHANGED <<enabled, file, mpc, shutdown, scanVars, threadVars, signals, owed>>

\* Then look for a shutdown request; without one, another round, after a
\* sleep if this one found nothing.
BackendCheck ==
  /\ bpc = "check"
  /\ bpc' = (IF shutdown THEN "drain" ELSE "round") /\ spc' = "lock"
  /\ UNCHANGED <<enabled, fileVars, mpc, shutdown, flush, registry, regOwner,
                 cursor, didWork, threadVars, signals, owed>>

\* while (scan_all_rings_once(fp)) {}
Again == didWork

\* The last rounds, until one finds nothing.
BackendDrain ==
  /\ bpc = "drain" /\ spc = "done"
  /\ IF Again THEN spc' = "lock" /\ UNCHANGED bpc
              ELSE spc' = "rest" /\ bpc' = "exited"
  /\ UNCHANGED <<enabled, fileVars, mpc, shutdown, flush, registry, regOwner,
                 cursor, didWork, threadVars, signals, owed>>

\* The signal handler sets the flag and returns.
SignalFlush ==
  /\ signals < MaxSignals /\ mpc # "init"
  /\ signals' = signals + 1 /\ flush' = TRUE
  /\ UNCHANGED <<enabled, fileVars, mpc, shutdown, scanVars, bpc, threadVars, owed>>
-----------------------------------------------------------------------------
(* log_init and log_close, both run by Main.                               *)

\* The trace file is opened and the backend started, or one of them fails
\* and logging stays disabled.
LogInit ==
  /\ mpc = "init" /\ mpc' = "running"
  /\ \/ file' = "open" /\ enabled' = TRUE /\ bpc' = "round" /\ spc' = "lock"
     \/ UNCHANGED <<file, enabled, bpc, spc>>
  /\ UNCHANGED <<fbuf, disk, shutdown, flush, registry, regOwner, cursor, didWork,
                 threadVars, signals, owed>>

\* The program ends.  Logging is disabled first.
LogClose ==
  /\ mpc = "running" /\ tpc[Main] = "idle"
  /\ IF enabled
     THEN /\ enabled' = FALSE /\ mpc' = "request"
          /\ owed' = [owed EXCEPT !.close = Committed]
     ELSE mpc' = "closed" /\ UNCHANGED <<enabled, owed>>
  /\ UNCHANGED <<fileVars, shutdown, flush, scanVars, bpc, threadVars, signals>>

\* Fault: the request is forgotten.
RequestShutdownNot == shutdown' = shutdown
\* backend_request_shutdown.
RequestShutdown == shutdown' = TRUE

CloseRequest ==
  /\ mpc = "request" /\ mpc' = "join"
  /\ RequestShutdown
  /\ UNCHANGED <<enabled, fileVars, flush, scanVars, bpc, threadVars, signals, owed>>

\* pthread_join returns when backend_main has.
Joined == bpc = "exited"

CloseJoin ==
  /\ mpc = "join" /\ Joined
  /\ mpc' = "final" /\ spc' = "lock"
  /\ UNCHANGED <<enabled, fileVars, shutdown, flush, registry, regOwner, cursor,
                 didWork, bpc, threadVars, signals, owed>>

\* backend_final_drain, then fflush.
CloseFlush ==
  /\ mpc = "final" /\ spc = "done"
  /\ IF Again
     THEN spc' = "lock" /\ UNCHANGED <<fileVars, mpc>>
     ELSE spc' = "rest" /\ mpc' = "fclose" /\ Fflush /\ UNCHANGED file
  /\ UNCHANGED <<enabled, shutdown, flush, registry, regOwner, cursor, didWork,
                 bpc, threadVars, signals, owed>>

\* Fault: the file is closed before the final drain.
CloseFileFirst ==
  /\ mpc \in {"final", "fclose"} /\ file = "open"
  /\ file' = "closed" /\ mpc' = IF mpc = "fclose" THEN "clear" ELSE mpc
  /\ UNCHANGED <<enabled, fbuf, disk, shutdown, flush, scanVars, bpc, threadVars,
                 signals, owed>>
\* fclose: fflush has left it nothing to write.
CloseFile ==
  /\ mpc = "fclose" /\ mpc' = "clear" /\ file' = "closed"
  /\ UNCHANGED <<enabled, fbuf, disk, shutdown, flush, scanVars, bpc, threadVars,
                 signals, owed>>

\* g_fp = nullptr.
ClearFile ==
  /\ mpc = "clear" /\ mpc' = "closed" /\ file' = "none"
  /\ UNCHANGED <<enabled, fbuf, disk, shutdown, flush, scanVars, bpc, threadVars,
                 signals, owed>>
-----------------------------------------------------------------------------
ThreadStep(t) == LogEvent(t) \/ Allocate(t) \/ Register(t) \/ Reserve(t)
                 \/ Commit(t) \/ ThreadExit(t)
BackendStep == bpc \in {"round", "check", "drain"} /\
                 (Scan(Backend) \/ BackendFlush \/ BackendCheck \/ BackendDrain)
MainStep == LogInit \/ LogClose \/ CloseRequest \/ CloseJoin \/ CloseFlush
            \/ CloseFile \/ ClearFile \/ (mpc = "final" /\ Scan(Main))

\* Everything has come to rest.
Finished == /\ mpc = "closed" /\ \A t \in Threads : tpc[t] = "idle"
            /\ UNCHANGED vars

Next == (\E t \in Threads : ThreadStep(t)) \/ BackendStep \/ SignalFlush
        \/ MainStep \/ Finished

\* The scheduler runs every thread that can run.  A thread inside log_event
\* gets through it, and the registry lock is not withheld from a thread for
\* ever: the backend sleeps between rounds.  Nobody has to log, to send a
\* signal, to end a thread or the program.
Fairness ==
  /\ \A t \in Threads : /\ WF_vars(Allocate(t) \/ Reserve(t) \/ Commit(t))
                        /\ SF_vars(Register(t))
  /\ WF_vars(BackendStep)
  /\ WF_vars(MainStep /\ mpc \notin {"init", "running"})

Spec == Init /\ [][Next]_vars /\ Fairness
-----------------------------------------------------------------------------
(* Correctness.                                                            *)

InFile == {"none", "open", "closed"}
LogTypes ==
  /\ enabled \in BOOLEAN /\ file \in InFile
  /\ fbuf \in Seq(Part) /\ Len(fbuf) <= BufCap /\ disk \in Seq(Part)
  /\ mpc \in {"init", "running", "request", "join", "final", "fclose", "clear", "closed"}
  /\ shutdown \in BOOLEAN /\ flush \in BOOLEAN
  /\ signals \in 0..MaxSignals
  /\ owed \in [flush : SUBSET Event, close : SUBSET Event]
ScanTypes ==
  /\ registry \in Seq(Threads) /\ regOwner \in {Main, Backend, NoOwner}
  /\ bpc \in {"off", "round", "check", "drain", "exited"}
  /\ spc \in {"rest", "lock", "drain", "dead", "reclaim", "done"}
  /\ cursor \in 1..(Len(registry) + 1) /\ didWork \in BOOLEAN
ThreadTypes ==
  /\ tpc \in [Threads -> {"idle", "alloc", "register", "reserve", "commit"}]
  /\ ring \in [Threads -> Seq(Event)] /\ \A t \in Threads : Len(ring[t]) <= RingCap
  /\ ringState \in [Threads -> {"none", "live", "freed"}]
  /\ dead \in [Threads -> BOOLEAN]
  /\ committed \in [Threads -> 0..MaxEvents]
TypeOK == LogTypes /\ ScanTypes /\ ThreadTypes

\* The registry lists, once each, exactly the rings that exist and have been
\* registered: the scan never visits a deleted ring and misses none.
RegistrySound ==
  /\ Distinct(registry)
  /\ Elements(registry) =
       {t \in Threads : ringState[t] = "live" /\ tpc[t] # "register"}

\* A thread between reserve and commit writes to a ring that still exists.
NoUseAfterReclaim ==
  \A t \in Threads : tpc[t] \in {"reserve", "commit"} => ringState[t] = "live"

\* Nobody writes to the trace file before it is opened or after it is closed.
ScansOpenFile == regOwner # NoOwner => file = "open"

\* When the file has been closed, every event committed before log_close
\* disabled logging is in it, and can be read there.
CloseComplete == mpc = "closed" => owed.close \subseteq OnDisk

\* The file merges the texts of the threads' events, each thread's in its own order:
\* nothing is lost, duplicated or reordered on the way through ring, stdio
\* buffer and file, whatever rings are reclaimed in the meantime.
Trace == INSTANCE TraceFile
           WITH logged <- committed, queue <- ring, file <- disk \o fbuf
KeepsThreadOrder == Trace!Spec

\* A flush that was asked for before a round began brings to disk all that was
\* committed by then, whole.  (One asked for during the round is served at its end too,
\* and may miss events of rings the scan had passed.)
FlushCovers == [][flush /\ ~flush' => owed.flush \subseteq OnDisk']_vars

\* log_close returns.
CloseFinishes == mpc = "request" ~> mpc = "closed"

\* A thread that logs gets out of log_event again, even one that finds its
\* ring full while the log is being closed: it holds an application lock.
NoStuckProducer == \A t \in Threads : tpc[t] # "idle" ~> tpc[t] = "idle"

\* The ring of a thread that has ended is deleted, unless the backend has
\* ended before.
DeadRingReclaimed ==
  \A t \in Threads : dead[t] ~> ringState[t] = "freed" \/ bpc = "exited"

\* A flush request is served, unless the log is being closed.
FlushServed == flush ~> ~flush \/ bpc \in {"off", "drain", "exited"}
=============================================================================
