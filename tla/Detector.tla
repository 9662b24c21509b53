------------------------------ MODULE Detector ------------------------------
(***************************************************************************)
(* The detector end to end: threads of a program call the wrapped lock     *)
(* functions (interpose_*.cpp), each logs its events in order, the events  *)
(* of all threads are merged into the trace and the analyzer replays it.   *)
(*                                                                         *)
(* Between a thread and the analyzer is a queue of the thread's events and *)
(* any of the queues may be next: that is TraceFile, which Pipeline        *)
(* implements.  The analyzer reads the trace when the program is over, in  *)
(* the order in which it was written; the model replays an event when it   *)
(* is written.                                                             *)
(*                                                                         *)
(* Every wrapper that takes a lock calls the real function and then logs;  *)
(* unlock and destroy log first.  The program is correct in its use of the *)
(* functions: it unlocks what it holds and destroys what nobody uses.      *)
(***************************************************************************)
EXTENDS LockGraph, Sequences

CONSTANTS
  LockType,     \* "mutex", "recursive", "spin" or "rwlock" for each lock
  Users,        \* the threads that use each lock
  Dynamic,      \* the locks the program initialises and destroys
  MaxCalls,     \* bound: calls of all threads together
  MaxQueue,     \* bound: events of a thread not yet in the trace
  NoCall        \* what a thread outside every wrapper is about

ASSUME LockAssumption ==
  /\ LockType \in [Locks -> {"mutex", "recursive", "spin", "rwlock"}]
  /\ Users \in [Locks -> SUBSET Threads]
  /\ Dynamic \subseteq Locks
ASSUME BoundAssumption == MaxCalls \in Nat /\ MaxQueue \in Nat \ {0}

VARIABLES
  \* the program
  pc,           \* where each thread is in a wrapper
  arg,          \* the event of the call it is in
  holds,        \* how many times each thread holds each lock
  reading,      \* is the rwlock held for reading?
  exists,       \* "absent", "live" or, in init or destroy, "changing"
  calls,        \* the number of calls made
  \* the trace
  queue,        \* the events of each thread still to be replayed
  \* history
  life,         \* which life of its address the lock is in
  asked         \* every sight of a lock being asked for while others were held

program == <<pc, arg, holds, reading, exists, calls, life, asked>>
vars == <<graph, program, queue>>

Sighting == [from : LockId, to : LockId, from_kind : LockKind, to_kind : LockKind,
             taken : BOOLEAN]

Init ==
  /\ GraphInit
  /\ pc = [t \in Threads |-> "idle"]
  /\ arg = [t \in Threads |-> NoCall]
  /\ holds = [t \in Threads |-> [l \in Locks |-> 0]]
  /\ reading = [l \in Locks |-> FALSE]
  /\ exists = [l \in Locks |-> IF l \in Dynamic THEN "absent" ELSE "live"]
  /\ calls = 0
  /\ queue = [t \in Threads |-> <<>>]
  /\ life = [l \in Locks |-> IF l \in Dynamic THEN 0 ELSE 1]
  /\ asked = {}
-----------------------------------------------------------------------------
(* The locks themselves.                                                   *)

Held(t) == {l \in Locks : holds[t][l] > 0}
Free(l) == \A t \in Threads : holds[t][l] = 0

\* The kind under which a lock that is held is known.
HeldKind(l) ==
  CASE LockType[l] = "spin" -> "SPIN"
    [] LockType[l] = "rwlock" -> IF reading[l] THEN "RWLOCK_RD" ELSE "RWLOCK_WR"
    [] OTHER -> "MUTEX"

\* Thread t is given lock l at once.
Grants(t, l, k) ==
  \/ Free(l)
  \/ LockType[l] = "recursive" /\ holds[t][l] > 0
  \/ k = "RWLOCK_RD" /\ reading[l]

\* The call fails with EDEADLK: t holds the rwlock for writing.
Refuses(t, l) == LockType[l] = "rwlock" /\ holds[t][l] > 0 /\ ~reading[l]

Take(t, l, k) ==
  /\ holds' = [holds EXCEPT ![t][l] = @ + 1]
  /\ reading' = [reading EXCEPT ![l] = k = "RWLOCK_RD"]
Drop(t, l) ==
  /\ holds' = [holds EXCEPT ![t][l] = @ - 1]
  /\ reading' = [reading EXCEPT ![l] = @ /\ \E u \in Threads : holds'[u][l] > 0]

\* What there is to be seen when t asks for l, holding others.
Seen(t, l, k, got) ==
  {[from |-> <<h, life[h]>>, to |-> <<l, life[l]>>,
    from_kind |-> HeldKind(h), to_kind |-> k, taken |-> got] : h \in Held(t) \ {l}}
-----------------------------------------------------------------------------
(* The wrappers.                                                           *)

\* DL_EV: the event goes to the thread's own ring.
Log(t, e) ==
  /\ Len(queue[t]) < MaxQueue
  /\ queue' = [queue EXCEPT ![t] = Append(@, e)]

\* Thread t begins a call about lock l.
Calls(t, l, e, at) ==
  /\ pc[t] = "idle" /\ calls < MaxCalls /\ t \in Users[l]
  /\ calls' = calls + 1
  /\ arg' = [arg EXCEPT ![t] = e]
  /\ pc' = [pc EXCEPT ![t] = at]

\* Thread t gets on with its call, or returns from it.
Goes(t, from, to) ==
  /\ pc[t] = from
  /\ pc' = [pc EXCEPT ![t] = to]
  /\ UNCHANGED calls
Returns(t, from) ==
  /\ Goes(t, from, "idle")
  /\ arg' = [arg EXCEPT ![t] = NoCall]

Ev(o, l, k, rc0) == [op |-> o, addr |-> l, kind |-> k, ok |-> rc0]

\* How the wrappers of each kind of lock log a lock that was taken.
MutexKinds(l)  == IF LockType[l] \in {"mutex", "recursive"} THEN {"MUTEX"} ELSE {}
RwlockKinds(l) == IF LockType[l] = "rwlock" THEN {"RWLOCK_RD", "RWLOCK_WR"} ELSE {}
SpinKinds(l)   == IF LockType[l] = "spin" THEN {"SPIN"} ELSE {}
Kinds(l) == MutexKinds(l) \cup RwlockKinds(l) \cup SpinKinds(l)

\* Lock, trylock or timedlock is called.
Ask(t) ==
  /\ \E l \in Locks : \E k \in Kinds(l), o \in {"LOCK_POST", "TRYLOCK_POST"} :
       exists[l] = "live" /\ Calls(t, l, Ev(o, l, k, TRUE), "asking")
  /\ UNCHANGED <<graph, holds, reading, exists, queue, life, asked>>

\* The real function returns 0.  A lock taken again gives no new sight.
Get(t) ==
  LET l == arg[t].addr   k == arg[t].kind IN
  /\ Goes(t, "asking", "posting") /\ Grants(t, l, k)
  /\ Take(t, l, k)
  /\ asked' = asked \cup (IF holds[t][l] > 0 THEN {} ELSE Seen(t, l, k, TRUE))
  /\ UNCHANGED <<graph, arg, exists, queue, life>>

\* The real function fails: try or timed when the lock is not to be had, lock
\* when it refuses.  Only the first two are taken for a sight of the lock.
Fail(t) ==
  LET l == arg[t].addr   k == arg[t].kind IN
  /\ Goes(t, "asking", "posting") /\ ~Grants(t, l, k)
  /\ arg[t].op = "LOCK_POST" => Refuses(t, l)
  /\ arg' = [arg EXCEPT ![t].ok = FALSE]
  /\ asked' = asked \cup (IF arg[t].op = "LOCK_POST" THEN {} ELSE Seen(t, l, k, FALSE))
  /\ UNCHANGED <<graph, holds, reading, exists, queue, life>>

\* What the real function returned is logged.
Post(t) ==
  /\ Returns(t, "posting")
  /\ Log(t, arg[t])
  /\ exists' = (IF arg[t].op = "INIT" THEN [exists EXCEPT ![arg[t].addr] = "live"]
                ELSE exists)
  /\ UNCHANGED <<graph, holds, reading, life, asked>>

\* unlock logs the event and goes on to the real function.
Unlock(t) ==
  \E l \in Held(t) :
    /\ Calls(t, l, Ev("UNLOCK", l, HeldKind(l), TRUE), "unlocking")
    /\ Log(t, Ev("UNLOCK", l, HeldKind(l), TRUE))
    /\ UNCHANGED <<graph, holds, reading, exists, life, asked>>

RealUnlock(t) ==
  /\ Returns(t, "unlocking")
  /\ Drop(t, arg[t].addr)
  /\ UNCHANGED <<graph, exists, queue, life, asked>>

\* cond_wait or cond_timedwait lets go of the mutex ...
CondWait(t) ==
  \E l \in Held(t) :
    /\ MutexKinds(l) # {} /\ holds[t][l] = 1
    /\ Calls(t, l, Ev("COND_WAIT_POST", l, "MUTEX", TRUE), "waiting")
    /\ Drop(t, l)
    /\ UNCHANGED <<graph, exists, queue, life, asked>>

\* ... and has it again when it returns, signalled or not.
CondWake(t) ==
  LET l == arg[t].addr IN
  /\ Goes(t, "waiting", "posting") /\ Grants(t, l, "MUTEX")
  /\ Take(t, l, "MUTEX")
  /\ asked' = asked \cup Seen(t, l, "MUTEX", TRUE)
  /\ UNCHANGED <<graph, arg, exists, queue, life>>

\* init returns: the address has a new lock; others may use it once it is
\* logged and the wrapper has returned.
InitLock(t) ==
  \E l \in Dynamic : \E k \in Kinds(l) \ {"RWLOCK_RD"} :
    /\ exists[l] = "absent" /\ Calls(t, l, Ev("INIT", l, k, TRUE), "posting")
    /\ exists' = [exists EXCEPT ![l] = "changing"]
    /\ life' = [life EXCEPT ![l] = @ + 1]
    /\ UNCHANGED <<graph, holds, reading, queue, asked>>

\* destroy logs the event and goes on to the real function; nobody holds the
\* lock or is about to.
Destroy(t) ==
  \E l \in Dynamic : \E k \in Kinds(l) \ {"RWLOCK_RD"} :
    /\ exists[l] = "live" /\ Free(l)
    /\ \A u \in Threads : pc[u] \in {"asking", "waiting"} => arg[u].addr # l
    /\ Calls(t, l, Ev("DESTROY", l, k, TRUE), "destroying")
    /\ Log(t, Ev("DESTROY", l, k, TRUE))
    /\ exists' = [exists EXCEPT ![l] = "changing"]
    /\ UNCHANGED <<graph, holds, reading, life, asked>>

RealDestroy(t) ==
  /\ Returns(t, "destroying")
  /\ exists' = [exists EXCEPT ![arg[t].addr] = "absent"]
  /\ UNCHANGED <<graph, holds, reading, queue, life, asked>>

\* The next event of t is written to the trace and replayed from it.
Deliver(t) ==
  /\ queue[t] # <<>>
  /\ Replay(t, Head(queue[t]))
  /\ queue' = [queue EXCEPT ![t] = Tail(@)]
  /\ UNCHANGED program

Next == \E t \in Threads :
  \/ Ask(t) \/ Get(t) \/ Fail(t) \/ Post(t) \/ Unlock(t) \/ RealUnlock(t)
  \/ CondWait(t) \/ CondWake(t) \/ InitLock(t) \/ Destroy(t) \/ RealDestroy(t)
  \/ Deliver(t)

Spec == Init /\ [][Next]_vars
-----------------------------------------------------------------------------
(* Correctness.                                                            *)

TypeOK ==
  /\ GraphTypeOK
  /\ pc \in [Threads -> {"idle", "asking", "posting", "unlocking", "waiting",
                         "destroying"}]
  /\ arg \in [Threads -> Event \cup {NoCall}]
  /\ holds \in [Threads -> [Locks -> Nat]]
  /\ reading \in [Locks -> BOOLEAN]
  /\ exists \in [Locks -> {"absent", "live", "changing"}]
  /\ calls \in 0..MaxCalls
  /\ queue \in [Threads -> Seq(Event)] /\ \A t \in Threads : Len(queue[t]) <= MaxQueue
  /\ life \in [Locks -> Nat]
  /\ asked \subseteq Sighting

\* Everything thread t has done is in the trace.
Caught(t) == pc[t] \in {"idle", "asking"} /\ queue[t] = <<>>
AllCaught == \A t \in Threads : Caught(t)

\* Whenever the analyzer has seen all a thread did, its stack for the thread
\* lists the locks the thread holds: each under the life of its address it was
\* taken in, with its kind and the number of times it is held.  Failed calls,
\* locks taken again, waits and unlocking in any order leave nothing behind.
StackMirrorsHeld ==
  \A t \in Threads : Caught(t) =>
    stacks[t] = {[id |-> <<l, life[l]>>, kind |-> HeldKind(l), hold_count |-> holds[t][l]] :
                 l \in Held(t)}

\* Whatever the order in which the threads' events reach the trace, an edge is
\* a sight of the program: some thread did ask for the one while it held the other.
EdgesAreSights ==
  \A key \in DOMAIN edges : \E s \in asked :
    /\ key = <<s.from, s.to>>
    /\ edges[key] = [from_kind |-> s.from_kind, to_kind |-> s.to_kind]

\* When the trace is complete there is an edge for every sight of two locks
\* that still exist: no order of the events makes the analyzer miss one.
SightsAreEdges ==
  AllCaught =>
    \A s \in asked :
      (exists[s.from[1]] = "live" /\ s.from[2] = life[s.from[1]]
       /\ exists[s.to[1]] = "live" /\ s.to[2] = life[s.to[1]])
      => <<s.from, s.to>> \in DOMAIN edges

\* A lock that has been destroyed is in no edge: what is reported about an
\* address is about locks that were there at the same time.
DeadLocksForgotten ==
  \A key \in DOMAIN edges : meta[key[1]] /\ meta[key[2]]
-----------------------------------------------------------------------------
(* What the documentation says and the code does not do.                   *)

\* types.py: (addr, gen) tells the lives of an address apart.
ReuseTold ==
  \A t \in Threads : Caught(t) =>
    {n.id : n \in stacks[t]} = {<<l, life[l]>> : l \in Held(t)}

\* Two sights of the same two locks, the other way round, that can deadlock:
\* neither lock is only read by both.
CanDeadlock(s, r) ==
  /\ s.taken /\ r.taken /\ s.from = r.to /\ s.to = r.from
  /\ "RWLOCK_WR" \in {s.from_kind, r.to_kind}
  /\ "RWLOCK_WR" \in {s.to_kind, r.from_kind}
\* report.py: the cycles left out are those of read locks alone, which hardly
\* ever deadlock.
WriteCycleReported ==
  AllCaught => \A s, r \in asked :
    CanDeadlock(s, r) => \E C \in Reported : C = {<<s.from, s.to>>, <<r.from, r.to>>}
=============================================================================
