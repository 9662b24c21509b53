----------------------------- MODULE LockGraph -----------------------------
(***************************************************************************)
(* The analyzer's dependency graph (graph.py): what replaying one event of *)
(* the trace does to it, and which cycles of it are reported (report.py).  *)
(*                                                                         *)
(* A lock is identified by its address and a generation, which counts the  *)
(* INIT events seen for the address.  The stack of a thread is a set of    *)
(* nodes: on_acquire and on_unlock search the whole of it, so that its     *)
(* order tells nothing apart.  Of LockMeta only "alive" is kept, of        *)
(* EdgeInfo the two kinds; backtraces are left out.                        *)
(***************************************************************************)
EXTENDS Naturals, FiniteSets

CONSTANTS
  Threads,
  Locks         \* the addresses of the program's locks

VARIABLES
  addr_gen,     \* the generation of each address, 0 for none
  meta,         \* the known lock identities, each with its "alive" flag
  edges,        \* the lock-order edges, each with the kinds of its first sighting
  stacks        \* the locks each thread holds

graph == <<addr_gen, meta, edges, stacks>>

LockKind == {"MUTEX", "SPIN", "RWLOCK_RD", "RWLOCK_WR"}
LockId   == Locks \X (Nat \ {0})
LockNode == [id : LockId, kind : LockKind, hold_count : Nat \ {0}]
EdgeInfo == [from_kind : LockKind, to_kind : LockKind]
EvOp == {"INIT", "DESTROY", "LOCK_POST", "TRYLOCK_POST", "UNLOCK", "COND_WAIT_POST"}
\* The trylock and timedlock events are one, and the RDLOCK and WRLOCK events
\* are LOCK events of the kinds RWLOCK_RD and RWLOCK_WR.  rc = 0 is "ok".
Event == [op : EvOp, addr : Locks, kind : LockKind, ok : BOOLEAN]

GraphInit ==
  /\ addr_gen = [a \in Locks |-> 0]
  /\ meta = [id \in {} |-> TRUE]
  /\ edges = [key \in {} |-> [from_kind |-> "MUTEX", to_kind |-> "MUTEX"]]
  /\ stacks = [t \in Threads |-> {}]
-----------------------------------------------------------------------------
\* Fault: every use of an address is filed under its first generation.
EnsureGenFirst(a) == 1
\* _ensure_gen: an address without INIT gets generation 1 when first used.
EnsureGen(a) == IF addr_gen[a] = 0 THEN 1 ELSE addr_gen[a]
Id(a) == <<a, EnsureGen(a)>>

\* The identity gets its metadata unless it has them.
Known(id) == [i \in DOMAIN meta \cup {id} |-> IF i \in DOMAIN meta THEN meta[i] ELSE TRUE]

Holding(stk, id) == \E n \in stk : n.id = id
Others(stk, id) == {n \in stk : n.id # id}
Count(stk, id) == (CHOOSE n \in stk : n.id = id).hold_count
Recount(stk, id, c) == {IF n.id = id THEN [n EXCEPT !.hold_count = c] ELSE n : n \in stk}

\* Fault: a lock among those held ends the search for edges.
BuildEdgesUnlessHeld(stk, id, k) ==
  IF Holding(stk, id) THEN edges
  ELSE [key \in DOMAIN edges \cup {<<n.id, id>> : n \in stk} |->
          IF key \in DOMAIN edges THEN edges[key]
          ELSE [from_kind |-> (CHOOSE n \in stk : n.id = key[1]).kind, to_kind |-> k]]
\* _build_edges_to: an edge from every other lock held, unless it is there.
BuildEdgesTo(stk, id, k) ==
  [key \in DOMAIN edges \cup {<<n.id, id>> : n \in Others(stk, id)} |->
     IF key \in DOMAIN edges THEN edges[key]
     ELSE [from_kind |-> (CHOOSE n \in stk : n.id = key[1]).kind, to_kind |-> k]]

\* A lock taken again counts up, another one is pushed.
Push(stk, id, k) ==
  IF Holding(stk, id)
  THEN Recount(stk, id, Count(stk, id) + 1)
  ELSE stk \cup {[id |-> id, kind |-> k, hold_count |-> 1]}

\* Fault: the last hold is counted down to zero.
PopToZero(stk, id) ==
  IF Holding(stk, id) THEN Recount(stk, id, Count(stk, id) - 1) ELSE stk
\* The lock counts down or leaves the stack; one that is not there is ignored.
Pop(stk, id) ==
  IF Holding(stk, id) /\ Count(stk, id) > 1
  THEN Recount(stk, id, Count(stk, id) - 1)
  ELSE Others(stk, id)
-----------------------------------------------------------------------------
\* Fault: the generation of a known address stays.
OnInitKnown(a) ==
  /\ addr_gen' = [addr_gen EXCEPT ![a] = 1]
  /\ meta' = [id \in DOMAIN meta \cup {<<a, 1>>} |-> id = <<a, 1>> \/ meta[id]]
  /\ UNCHANGED <<edges, stacks>>
\* on_init: a new generation, alive.
OnInit(a) ==
  /\ addr_gen' = [addr_gen EXCEPT ![a] = @ + 1]
  /\ meta' = [id \in DOMAIN meta \cup {<<a, addr_gen[a] + 1>>} |->
                IF id = <<a, addr_gen[a] + 1>> THEN TRUE ELSE meta[id]]
  /\ UNCHANGED <<edges, stacks>>

\* Fault: only the edges that leave the lock are dropped.
KeptOneSided(id) == {key \in DOMAIN edges : key[1] # id}
\* The edges that do not touch the lock.
Kept(id) == {key \in DOMAIN edges : key[1] # id /\ key[2] # id}

OnDestroy(a) ==
  LET id == <<a, addr_gen[a]>> IN
  /\ IF addr_gen[a] = 0
     THEN UNCHANGED <<meta, edges>>
     ELSE /\ meta' = [i \in DOMAIN meta |-> meta[i] /\ i # id]
          /\ edges' = [key \in Kept(id) |-> edges[key]]
  /\ UNCHANGED <<addr_gen, stacks>>

\* The lock of address a is seen in use.
Touch(a) ==
  /\ addr_gen' = [addr_gen EXCEPT ![a] = EnsureGen(a)]
  /\ meta' = Known(Id(a))

\* A lock already held gets no edges.
Acquire(t, stk, a, k) ==
  /\ Touch(a)
  /\ edges' = (IF Holding(stk, Id(a)) THEN edges ELSE BuildEdgesTo(stk, Id(a), k))
  /\ stacks' = [stacks EXCEPT ![t] = Push(stk, Id(a), k)]

OnAcquire(t, a, k) == Acquire(t, stacks[t], a, k)

OnAcquireAttempt(t, a, k) ==
  /\ Touch(a)
  /\ edges' = BuildEdgesTo(stacks[t], Id(a), k)
  /\ UNCHANGED stacks

\* The stack of t without one hold of a.
Unlocked(t, a) ==
  IF addr_gen[a] = 0 THEN stacks[t] ELSE Pop(stacks[t], <<a, addr_gen[a]>>)

OnUnlock(t, a) ==
  /\ stacks' = [stacks EXCEPT ![t] = Unlocked(t, a)]
  /\ UNCHANGED <<addr_gen, meta, edges>>

\* The wait released the mutex and took it again.
OnCondPost(t, a) == Acquire(t, Unlocked(t, a), a, "MUTEX")

\* replay, for one event of thread t.
Replay(t, e) ==
  \/ e.op = "INIT" /\ OnInit(e.addr)
  \/ e.op = "DESTROY" /\ OnDestroy(e.addr)
  \/ e.op = "LOCK_POST" /\ e.ok /\ OnAcquire(t, e.addr, e.kind)
  \/ e.op = "LOCK_POST" /\ ~e.ok /\ UNCHANGED graph
  \/ e.op = "TRYLOCK_POST" /\ e.ok /\ OnAcquire(t, e.addr, e.kind)
  \/ e.op = "TRYLOCK_POST" /\ ~e.ok /\ OnAcquireAttempt(t, e.addr, e.kind)
  \/ e.op = "UNLOCK" /\ OnUnlock(t, e.addr)
  \/ e.op = "COND_WAIT_POST" /\ OnCondPost(t, e.addr)
-----------------------------------------------------------------------------
\* A set of edges is a simple cycle: one edge into and one out of each of its
\* locks, and no part of it closed in itself.
IsCycle(C) ==
  /\ C # {}
  /\ \A x, y \in C : (x[1] = y[1] \/ x[2] = y[2]) => x = y
  /\ \A D \in SUBSET C : {x[1] : x \in D} = {x[2] : x \in D} <=> D \in {{}, C}

\* What find_cycles enumerates, below its limit per component.
Cycles == {C \in SUBSET DOMAIN edges : IsCycle(C)}

ReadRead(info) == info.from_kind = "RWLOCK_RD" /\ info.to_kind = "RWLOCK_RD"
\* report, without --rwlock-strict: cycles of read locks alone are left out.
Reported == {C \in Cycles : \E key \in C : ~ReadRead(edges[key])}

GraphTypeOK ==
  /\ addr_gen \in [Locks -> Nat]
  /\ DOMAIN meta \subseteq LockId /\ \A id \in DOMAIN meta : meta[id] \in BOOLEAN
  /\ DOMAIN edges \subseteq LockId \X LockId
  /\ \A key \in DOMAIN edges : edges[key] \in EdgeInfo
  /\ stacks \in [Threads -> SUBSET LockNode]
=============================================================================
