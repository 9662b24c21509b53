--------------------------- MODULE DetectorProofs ---------------------------
(***************************************************************************)
(* Proofs about Detector: its types, and that the analyzer's view of the   *)
(* program is right, for any number of threads, locks and calls and any    *)
(* length of the queues.                                                   *)
(***************************************************************************)
EXTENDS Detector, SequenceTheorems, TLAPS

-----------------------------------------------------------------------------
(* Types.                                                                  *)

LEMMA CountOf ==
  ASSUME NEW stk, NEW id, Holding(stk, id)
  PROVE  \E n \in stk : n.id = id /\ Count(stk, id) = n.hold_count
  BY Zenon DEF Holding, Count

LEMMA CountType ==
  ASSUME NEW stk \in SUBSET LockNode, NEW id, Holding(stk, id)
  PROVE  Count(stk, id) \in Nat \ {0}
  <1>1. PICK n \in stk : n.id = id /\ Count(stk, id) = n.hold_count
    BY CountOf
  <1> QED BY <1>1 DEF LockNode

LEMMA RecountType ==
  ASSUME NEW stk \in SUBSET LockNode, NEW id, NEW c \in Nat \ {0}
  PROVE  Recount(stk, id, c) \in SUBSET LockNode
  <1>1. ASSUME NEW n \in stk PROVE [n EXCEPT !.hold_count = c] \in LockNode
    BY DEF LockNode
  <1> QED BY <1>1 DEF Recount

LEMMA PushType ==
  ASSUME NEW stk \in SUBSET LockNode, NEW id \in LockId, NEW k \in LockKind
  PROVE  Push(stk, id, k) \in SUBSET LockNode
  <1>1. CASE Holding(stk, id)
    <2>1. Count(stk, id) + 1 \in Nat \ {0}
      BY <1>1, CountType
    <2> QED BY <1>1, <2>1, RecountType DEF Push
  <1>2. CASE ~Holding(stk, id)
    <2>1. [id |-> id, kind |-> k, hold_count |-> 1] \in LockNode
      BY DEF LockNode
    <2> QED BY <1>2, <2>1 DEF Push
  <1> QED BY <1>1, <1>2

LEMMA PopType ==
  ASSUME NEW stk \in SUBSET LockNode, NEW id
  PROVE  Pop(stk, id) \in SUBSET LockNode
  <1>1. CASE Holding(stk, id) /\ Count(stk, id) > 1
    <2>1. Count(stk, id) - 1 \in Nat \ {0}
      BY <1>1, CountType
    <2> QED BY <1>1, <2>1, RecountType DEF Pop
  <1>2. CASE ~(Holding(stk, id) /\ Count(stk, id) > 1)
    BY <1>2 DEF Pop, Others
  <1> QED BY <1>1, <1>2

\* The edges that a lock of kind k gets from those in stk.
EdgesType(E) == /\ DOMAIN E \subseteq LockId \X LockId
                /\ \A key \in DOMAIN E : E[key] \in EdgeInfo
LEMMA BuildType ==
  ASSUME NEW stk \in SUBSET LockNode, NEW id \in LockId, NEW k \in LockKind, EdgesType(edges)
  PROVE  EdgesType(BuildEdgesTo(stk, id, k))
  <1> DEFINE new == {<<n.id, id>> : n \in Others(stk, id)}
             from(key) == CHOOSE n \in stk : n.id = key[1]
             B == BuildEdgesTo(stk, id, k)
  <1>1. DOMAIN B = DOMAIN edges \cup new
    BY DEF BuildEdgesTo
  <1>2. new \subseteq LockId \X LockId
    BY DEF Others, LockNode
  <1>3. ASSUME NEW key \in new PROVE from(key) \in LockNode
    <2>1. \E n \in stk : n.id = key[1]
      BY DEF Others
    <2> QED BY <2>1
  <1>4. ASSUME NEW key \in DOMAIN B PROVE B[key] \in EdgeInfo
    <2>1. CASE key \in DOMAIN edges
      <3>1. B[key] = edges[key]
        BY <1>4, <2>1 DEF BuildEdgesTo
      <3> QED BY <2>1, <3>1 DEF EdgesType
    <2>2. CASE key \notin DOMAIN edges
      <3>1. B[key] = [from_kind |-> from(key).kind, to_kind |-> k]
        BY <1>4, <2>2 DEF BuildEdgesTo
      <3>2. from(key).kind \in LockKind
        BY <1>1, <1>3, <1>4, <2>2 DEF LockNode
      <3> HIDE DEF from
      <3> QED BY <3>1, <3>2 DEF EdgeInfo
    <2> QED BY <2>1, <2>2
  <1> HIDE DEF B, new
  <1> QED BY <1>1, <1>2, <1>4 DEF EdgesType, B

\* Touch gives the address a generation and its lock metadata.
LEMMA TouchType ==
  ASSUME GraphTypeOK, NEW a \in Locks
  PROVE  /\ Id(a) \in LockId /\ EnsureGen(a) \in Nat \ {0}
         /\ Touch(a) => /\ addr_gen' \in [Locks -> Nat]
                        /\ DOMAIN meta' \subseteq LockId
                        /\ \A id \in DOMAIN meta' : meta'[id] \in BOOLEAN
  <1>1. EnsureGen(a) \in Nat \ {0}
    BY DEF EnsureGen, GraphTypeOK
  <1>2. Id(a) \in LockId
    BY <1>1 DEF Id, LockId
  <1>3. ASSUME Touch(a) PROVE addr_gen' \in [Locks -> Nat]
    BY <1>1, <1>3 DEF Touch, GraphTypeOK
  <1>4. ASSUME Touch(a)
        PROVE  /\ DOMAIN meta' \subseteq LockId
               /\ \A id \in DOMAIN meta' : meta'[id] \in BOOLEAN
    <2>1. PICK c : c = Id(a)
      OBVIOUS
    <2>2. meta' = [i \in DOMAIN meta \cup {c} |-> IF i \in DOMAIN meta THEN meta[i] ELSE TRUE]
      BY <1>4, <2>1 DEF Touch, Known
    <2>3. /\ DOMAIN meta' = DOMAIN meta \cup {c}
          /\ \A i \in DOMAIN meta' : meta'[i] = IF i \in DOMAIN meta THEN meta[i] ELSE TRUE
      BY <2>2
    <2> QED BY <1>2, <2>1, <2>3 DEF GraphTypeOK
  <1> QED BY <1>1, <1>2, <1>3, <1>4

\* Replaying an event keeps the types of the graph.
LEMMA AcquireType ==
  ASSUME GraphTypeOK, NEW t \in Threads, NEW stk \in SUBSET LockNode, NEW a \in Locks,
         NEW k \in LockKind, Acquire(t, stk, a, k)
  PROVE  GraphTypeOK'
  <1>1. Id(a) \in LockId /\ Touch(a)
    BY TouchType DEF Acquire
  <1>2. EdgesType(edges)
    BY DEF GraphTypeOK, EdgesType
  <1>3. EdgesType(edges')
    BY <1>1, <1>2, BuildType DEF Acquire
  <1>4. Push(stk, Id(a), k) \in SUBSET LockNode
    BY <1>1, PushType
  <1>5. stacks' \in [Threads -> SUBSET LockNode]
    BY <1>4 DEF Acquire, GraphTypeOK
  <1> QED BY <1>1, <1>3, <1>5, TouchType DEF GraphTypeOK, EdgesType

LEMMA ReplayType ==
  ASSUME GraphTypeOK, NEW t \in Threads, NEW e \in Event, Replay(t, e)
  PROVE  GraphTypeOK'
  <1> DEFINE a == e.addr
             k == e.kind
  <1>1. a \in Locks /\ k \in LockKind /\ stacks[t] \in SUBSET LockNode
    BY DEF Event, GraphTypeOK
  <1>2. EdgesType(edges)
    BY DEF GraphTypeOK, EdgesType
  <1>3. Unlocked(t, a) \in SUBSET LockNode
    BY <1>1, PopType DEF Unlocked
  <1> HIDE DEF a, k
  <1>4. CASE OnInit(a)
    <2>1. addr_gen[a] + 1 \in Nat \ {0}
      BY <1>1 DEF GraphTypeOK
    <2>2. PICK c : c = <<a, addr_gen[a] + 1>>
      OBVIOUS
    <2>3. c \in LockId
      BY <1>1, <2>1, <2>2 DEF LockId
    <2>4. meta' = [id \in DOMAIN meta \cup {c} |-> IF id = c THEN TRUE ELSE meta[id]]
      BY <1>4, <2>2 DEF OnInit
    <2>5. /\ DOMAIN meta' = DOMAIN meta \cup {c}
          /\ \A id \in DOMAIN meta' : meta'[id] = IF id = c THEN TRUE ELSE meta[id]
      BY <2>4
    <2>6. addr_gen' \in [Locks -> Nat]
      BY <1>1, <1>4, <2>1 DEF OnInit, GraphTypeOK
    <2> QED BY <1>4, <2>3, <2>5, <2>6 DEF OnInit, GraphTypeOK
  <1>5. CASE OnDestroy(a)
    <2>1. CASE addr_gen[a] = 0
      BY <1>5, <2>1 DEF OnDestroy, GraphTypeOK
    <2>2. CASE addr_gen[a] # 0
      <3>1. PICK id : id = <<a, addr_gen[a]>>
        OBVIOUS
      <3>2. /\ meta' = [i \in DOMAIN meta |-> meta[i] /\ i # id]
            /\ edges' = [key \in Kept(id) |-> edges[key]]
            /\ UNCHANGED <<addr_gen, stacks>>
        BY <1>5, <2>2, <3>1 DEF OnDestroy
      <3>3. /\ DOMAIN meta' = DOMAIN meta
            /\ \A i \in DOMAIN meta : meta'[i] = (meta[i] /\ i # id)
        BY <3>2
      <3>4. /\ DOMAIN meta' \subseteq LockId
            /\ \A i \in DOMAIN meta' : meta'[i] \in BOOLEAN
        BY <3>3 DEF GraphTypeOK
      <3>5. EdgesType(edges')
        BY <1>2, <3>2 DEF EdgesType, Kept
      <3> QED BY <3>2, <3>4, <3>5 DEF GraphTypeOK, EdgesType
    <2> QED BY <2>1, <2>2
  <1>6. CASE UNCHANGED graph
    BY <1>6 DEF graph, GraphTypeOK
  <1>7. CASE OnAcquire(t, a, k)
    BY <1>1, <1>7, AcquireType DEF OnAcquire
  <1>8. CASE OnAcquireAttempt(t, a, k)
    <2>1. Id(a) \in LockId /\ Touch(a)
      BY <1>1, <1>8, TouchType DEF OnAcquireAttempt
    <2>2. EdgesType(edges')
      BY <1>1, <1>2, <1>8, <2>1, BuildType DEF OnAcquireAttempt
    <2> QED BY <1>1, <1>8, <2>1, <2>2, TouchType DEF OnAcquireAttempt, GraphTypeOK, EdgesType
  <1>9. CASE OnUnlock(t, a)
    BY <1>3, <1>9 DEF OnUnlock, GraphTypeOK
  <1>10. CASE OnCondPost(t, a)
    BY <1>1, <1>3, <1>10, AcquireType DEF OnCondPost, LockKind
  <1> QED BY <1>4, <1>5, <1>6, <1>7, <1>8, <1>9, <1>10 DEF Replay, a, k
-----------------------------------------------------------------------------
\* A thread in a call is about an event, and unlocks what it holds.  What is
\* held or asked for has been initialised.
CallOk(t) == /\ pc[t] # "idle" => arg[t] \in Event /\ life[arg[t].addr] >= 1
             /\ pc[t] = "unlocking" => holds[t][arg[t].addr] > 0
             /\ \A l \in Locks : holds[t][l] > 0 => life[l] >= 1
Born == \A l \in Locks : exists[l] # "absent" => life[l] >= 1
TypeInv == TypeOK /\ Born /\ \A t \in Threads : CallOk(t)

LEMMA InitType == Init => TypeInv
  <1> SUFFICES ASSUME Init PROVE TypeInv
    OBVIOUS
  <1>1. GraphTypeOK
    BY DEF Init, GraphInit, GraphTypeOK
  <1>2. <<>> \in Seq(Event) /\ Len(<<>>) = 0
    BY EmptySeq
  <1>3. queue \in [Threads -> Seq(Event)] /\ \A t \in Threads : Len(queue[t]) <= MaxQueue
    BY <1>2, BoundAssumption DEF Init
  <1>4. calls \in 0..MaxCalls
    BY BoundAssumption DEF Init
  <1>5. TypeOK
    BY <1>1, <1>3, <1>4 DEF Init, TypeOK
  <1>6. \A t \in Threads : CallOk(t)
    BY DEF Init, CallOk
  <1>7. Born
    BY DEF Init, Born
  <1> QED BY <1>5, <1>6, <1>7 DEF TypeInv

LEMMA EvType ==
  ASSUME NEW o \in EvOp, NEW l \in Locks, NEW k \in LockKind
  PROVE  /\ Ev(o, l, k, TRUE) \in Event
         /\ Ev(o, l, k, TRUE).op = o /\ Ev(o, l, k, TRUE).addr = l
         /\ Ev(o, l, k, TRUE).kind = k /\ Ev(o, l, k, TRUE).ok
  BY DEF Ev, Event

LEMMA KindTypes ==
  ASSUME NEW l \in Locks
  PROVE  /\ HeldKind(l) \in LockKind /\ Kinds(l) \subseteq LockKind
         /\ MutexKinds(l) # {} => HeldKind(l) = "MUTEX" /\ LockType[l] \in {"mutex", "recursive"}
         /\ LockType[l] = "recursive" => MutexKinds(l) # {}
         /\ Kinds(l) = MutexKinds(l) \cup RwlockKinds(l) \cup SpinKinds(l)
         /\ LockType[l] \in {"mutex", "recursive", "spin", "rwlock"}
  BY LockAssumption DEF HeldKind, Kinds, MutexKinds, RwlockKinds, SpinKinds, LockKind

\* The queue of a thread after one more event.
LEMMA LogType ==
  ASSUME TypeOK, NEW t \in Threads, NEW e \in Event, Log(t, e)
  PROVE  /\ queue' \in [Threads -> Seq(Event)]
         /\ \A u \in Threads : Len(queue'[u]) <= MaxQueue
         /\ \A u \in Threads \ {t} : queue'[u] = queue[u]
         /\ queue'[t] = Append(queue[t], e)
         /\ Len(queue'[t]) = Len(queue[t]) + 1 /\ Len(queue[t]) \in Nat
         /\ \A i \in 1..Len(queue[t]) : queue'[t][i] = queue[t][i]
         /\ queue'[t][Len(queue[t]) + 1] = e
  <1>1. queue \in [Threads -> Seq(Event)] /\ queue[t] \in Seq(Event) /\ Len(queue[t]) \in Nat
    <2>1. queue \in [Threads -> Seq(Event)] /\ queue[t] \in Seq(Event)
      BY DEF TypeOK
    <2> QED BY <2>1, LenProperties
  <1>2. PICK q : q = Append(queue[t], e)
    OBVIOUS
  <1>3. /\ q \in Seq(Event) /\ Len(q) = Len(queue[t]) + 1
        /\ \A i \in 1..Len(queue[t]) : q[i] = queue[t][i]
        /\ q[Len(queue[t]) + 1] = e
    BY <1>1, <1>2, AppendProperties
  <1>4. queue' = [queue EXCEPT ![t] = q] /\ Len(queue[t]) < MaxQueue
    BY <1>2 DEF Log
  <1>5. queue' \in [Threads -> Seq(Event)] /\ queue'[t] = q
    BY <1>1, <1>3, <1>4
  <1>6. \A u \in Threads \ {t} : queue'[u] = queue[u]
    BY <1>1, <1>4
  <1>7. \A u \in Threads : Len(queue'[u]) <= MaxQueue
    <2> TAKE u \in Threads
    <2>1. CASE u = t
      BY <2>1, <1>1, <1>3, <1>4, <1>5, BoundAssumption
    <2>2. CASE u # t
      BY <2>2, <1>6 DEF TypeOK
    <2> QED BY <2>1, <2>2
  <1> QED BY <1>1, <1>2, <1>3, <1>5, <1>6, <1>7

\* The queue of a thread without its first event.
LEMMA DeliverType ==
  ASSUME TypeOK, NEW t \in Threads, Deliver(t)
  PROVE  /\ queue' \in [Threads -> Seq(Event)]
         /\ \A u \in Threads : Len(queue'[u]) <= MaxQueue
         /\ \A u \in Threads \ {t} : queue'[u] = queue[u]
         /\ Len(queue[t]) \in Nat /\ Len(queue[t]) > 0
         /\ Len(queue'[t]) = Len(queue[t]) - 1
         /\ queue[t][1] \in Event /\ Head(queue[t]) = queue[t][1]
         /\ \A i \in 1..Len(queue'[t]) : queue'[t][i] = queue[t][i + 1]
  <1>1. /\ queue \in [Threads -> Seq(Event)] /\ queue[t] \in Seq(Event)
        /\ Len(queue[t]) \in Nat /\ queue[t] # <<>>
    <2>1. queue \in [Threads -> Seq(Event)] /\ queue[t] \in Seq(Event)
      BY DEF TypeOK
    <2> QED BY <2>1, LenProperties DEF Deliver
  <1>2. PICK q : q = Tail(queue[t])
    OBVIOUS
  <1>3. /\ Head(queue[t]) \in Event /\ q \in Seq(Event) /\ Len(q) = Len(queue[t]) - 1
        /\ \A i \in 1..Len(q) : q[i] = queue[t][i + 1]
    BY <1>1, <1>2, HeadTailProperties
  <1>4. Len(queue[t]) > 0 /\ Head(queue[t]) = queue[t][1]
    BY <1>1, EmptySeq, LenProperties
  <1>5. queue' = [queue EXCEPT ![t] = q]
    BY <1>2 DEF Deliver
  <1>6. queue' \in [Threads -> Seq(Event)] /\ queue'[t] = q
    BY <1>1, <1>3, <1>5
  <1>7. \A u \in Threads \ {t} : queue'[u] = queue[u]
    BY <1>1, <1>5
  <1>8. \A u \in Threads : Len(queue'[u]) <= MaxQueue
    <2> TAKE u \in Threads
    <2>1. CASE u = t
      <3>1. Len(queue[t]) <= MaxQueue
        BY DEF TypeOK
      <3> QED BY <2>1, <3>1, <1>1, <1>3, <1>6, BoundAssumption
    <2>2. CASE u # t
      BY <2>2, <1>7 DEF TypeOK
    <2> QED BY <2>1, <2>2
  <1> QED BY <1>1, <1>3, <1>4, <1>6, <1>7, <1>8
-----------------------------------------------------------------------------
(* What the parts of an action do to the program.                          *)

Pc == {"idle", "asking", "posting", "unlocking", "waiting", "destroying"}

LEMMA CallsType ==
  ASSUME TypeOK, NEW t \in Threads, NEW l \in Locks, NEW e \in Event, NEW at \in Pc,
         Calls(t, l, e, at)
  PROVE  /\ pc' \in [Threads -> Pc] /\ arg' \in [Threads -> Event \cup {NoCall}]
         /\ calls' \in 0..MaxCalls /\ pc[t] = "idle" /\ t \in Users[l]
         /\ pc'[t] = at /\ arg'[t] = e
         /\ \A u \in Threads \ {t} : pc'[u] = pc[u] /\ arg'[u] = arg[u]
  <1>1. pc \in [Threads -> Pc] /\ arg \in [Threads -> Event \cup {NoCall}]
    BY DEF TypeOK, Pc
  <1>2. calls' \in 0..MaxCalls
    BY BoundAssumption DEF TypeOK, Calls
  <1> QED BY <1>1, <1>2 DEF Calls

LEMMA GoesType ==
  ASSUME TypeOK, NEW t \in Threads, NEW from \in Pc, NEW to \in Pc, Goes(t, from, to)
  PROVE  /\ pc' \in [Threads -> Pc] /\ calls' \in 0..MaxCalls
         /\ pc[t] = from /\ pc'[t] = to
         /\ \A u \in Threads \ {t} : pc'[u] = pc[u]
  <1>1. pc \in [Threads -> Pc]
    BY DEF TypeOK, Pc
  <1> QED BY <1>1 DEF Goes, TypeOK

LEMMA ReturnsType ==
  ASSUME TypeOK, NEW t \in Threads, NEW from \in Pc, Returns(t, from)
  PROVE  /\ pc' \in [Threads -> Pc] /\ calls' \in 0..MaxCalls
         /\ arg' \in [Threads -> Event \cup {NoCall}]
         /\ pc[t] = from /\ pc'[t] = "idle"
         /\ \A u \in Threads \ {t} : pc'[u] = pc[u] /\ arg'[u] = arg[u]
  <1>1. Goes(t, from, "idle") /\ "idle" \in Pc
    BY DEF Returns, Pc
  <1>2. /\ pc' \in [Threads -> Pc] /\ calls' \in 0..MaxCalls
        /\ pc[t] = from /\ pc'[t] = "idle"
        /\ \A u \in Threads \ {t} : pc'[u] = pc[u]
    BY <1>1, GoesType
  <1>3. /\ arg' \in [Threads -> Event \cup {NoCall}]
        /\ \A u \in Threads \ {t} : arg'[u] = arg[u]
    BY DEF Returns, TypeOK
  <1> QED BY <1>2, <1>3

LEMMA TakeType ==
  ASSUME TypeOK, NEW t \in Threads, NEW l \in Locks, NEW k, Take(t, l, k)
  PROVE  /\ holds' \in [Threads -> [Locks -> Nat]] /\ reading' \in [Locks -> BOOLEAN]
         /\ holds'[t][l] = holds[t][l] + 1
         /\ \A u \in Threads, m \in Locks :
              u # t \/ m # l => holds'[u][m] = holds[u][m]
         /\ reading'[l] = (k = "RWLOCK_RD")
         /\ \A m \in Locks \ {l} : reading'[m] = reading[m]
  <1>1. holds \in [Threads -> [Locks -> Nat]] /\ reading \in [Locks -> BOOLEAN]
    BY DEF TypeOK
  <1>2. holds[t][l] + 1 \in Nat
    BY <1>1
  <1>3. holds' = [holds EXCEPT ![t] = [holds[t] EXCEPT ![l] = holds[t][l] + 1]]
    BY DEF Take
  <1>4. [holds[t] EXCEPT ![l] = holds[t][l] + 1] \in [Locks -> Nat]
    BY <1>1, <1>2
  <1>5. /\ holds' \in [Threads -> [Locks -> Nat]] /\ holds'[t][l] = holds[t][l] + 1
        /\ \A u \in Threads, m \in Locks : u # t \/ m # l => holds'[u][m] = holds[u][m]
    BY <1>1, <1>3, <1>4
  <1>6. /\ reading' \in [Locks -> BOOLEAN] /\ reading'[l] = (k = "RWLOCK_RD")
        /\ \A m \in Locks \ {l} : reading'[m] = reading[m]
    BY <1>1 DEF Take
  <1> QED BY <1>5, <1>6

LEMMA DropType ==
  ASSUME TypeOK, NEW t \in Threads, NEW l \in Locks, holds[t][l] > 0, Drop(t, l)
  PROVE  /\ holds' \in [Threads -> [Locks -> Nat]] /\ reading' \in [Locks -> BOOLEAN]
         /\ holds'[t][l] = holds[t][l] - 1
         /\ \A u \in Threads, m \in Locks :
              u # t \/ m # l => holds'[u][m] = holds[u][m]
         /\ reading'[l] = (reading[l] /\ \E u \in Threads : holds'[u][l] > 0)
         /\ \A m \in Locks \ {l} : reading'[m] = reading[m]
  <1>1. holds \in [Threads -> [Locks -> Nat]] /\ reading \in [Locks -> BOOLEAN]
    BY DEF TypeOK
  <1>2. holds[t][l] - 1 \in Nat
    BY <1>1
  <1>3. holds' = [holds EXCEPT ![t] = [holds[t] EXCEPT ![l] = holds[t][l] - 1]]
    BY DEF Drop
  <1>4. [holds[t] EXCEPT ![l] = holds[t][l] - 1] \in [Locks -> Nat]
    BY <1>1, <1>2
  <1>5. /\ holds' \in [Threads -> [Locks -> Nat]] /\ holds'[t][l] = holds[t][l] - 1
        /\ \A u \in Threads, m \in Locks : u # t \/ m # l => holds'[u][m] = holds[u][m]
    BY <1>1, <1>3, <1>4
  <1>6. PICK still \in BOOLEAN : still = (reading[l] /\ \E u \in Threads : holds'[u][l] > 0)
    OBVIOUS
  <1>7. reading' = [reading EXCEPT ![l] = still]
    BY <1>6 DEF Drop
  <1>8. /\ reading' \in [Locks -> BOOLEAN] /\ reading'[l] = still
        /\ \A m \in Locks \ {l} : reading'[m] = reading[m]
    BY <1>1, <1>7
  <1> QED BY <1>5, <1>6, <1>8

LEMMA SeenType ==
  ASSUME TypeOK, NEW t \in Threads, \A m \in Locks : holds[t][m] > 0 => life[m] >= 1,
         NEW l \in Locks, life[l] >= 1, NEW k \in LockKind
  PROVE  Seen(t, l, k, TRUE) \subseteq Sighting /\ Seen(t, l, k, FALSE) \subseteq Sighting
  <1>1. life \in [Locks -> Nat]
    BY DEF TypeOK
  <1>2. <<l, life[l]>> \in LockId
    BY <1>1 DEF LockId
  <1>3. ASSUME NEW h \in Held(t) \ {l}, NEW got \in BOOLEAN
        PROVE  [from |-> <<h, life[h]>>, to |-> <<l, life[l]>>,
                from_kind |-> HeldKind(h), to_kind |-> k, taken |-> got] \in Sighting
    <2>1. h \in Locks /\ life[h] \in Nat /\ life[h] >= 1
      BY <1>1 DEF Held
    <2>2. <<h, life[h]>> \in LockId /\ HeldKind(h) \in LockKind
      BY <2>1, KindTypes DEF LockId
    <2> QED BY <1>2, <2>2 DEF Sighting
  <1> QED BY <1>3 DEF Seen
-----------------------------------------------------------------------------
(* Every step keeps the types.                                             *)

LEMMA CallOkKept ==
  ASSUME TypeOK, NEW u \in Threads, CallOk(u), pc'[u] = pc[u], arg'[u] = arg[u],
         \A l \in Locks : holds'[u][l] = holds[u][l],
         life' \in [Locks -> Nat], \A l \in Locks : life'[l] >= life[l]
  PROVE  CallOk(u)'
  <1>1. pc[u] # "idle" => arg[u] \in Event /\ arg[u].addr \in Locks
    BY DEF CallOk, Event
  <1>2. life \in [Locks -> Nat]
    BY DEF TypeOK
  <1>3. \A l \in Locks : life[l] >= 1 => life'[l] >= 1
    BY <1>2
  <1>4. pc[u] = "unlocking" => holds'[u][arg[u].addr] > 0
    BY <1>1 DEF CallOk
  <1> QED BY <1>1, <1>3, <1>4 DEF CallOk

\* What a step of t owes, if it leaves the graph, the queues and the lives alone.
LEMMA CallOkAll ==
  ASSUME TypeInv, NEW t \in Threads, CallOk(t)',
         life' \in [Locks -> Nat], \A l \in Locks : life'[l] >= life[l],
         \A u \in Threads \ {t} : /\ pc'[u] = pc[u] /\ arg'[u] = arg[u]
                                  /\ \A l \in Locks : holds'[u][l] = holds[u][l]
  PROVE  \A u \in Threads : CallOk(u)'
  <1> SUFFICES ASSUME NEW u \in Threads, u # t PROVE CallOk(u)'
    OBVIOUS
  <1>1. TypeOK /\ CallOk(u) /\ pc'[u] = pc[u] /\ arg'[u] = arg[u]
        /\ \A l \in Locks : holds'[u][l] = holds[u][l]
    BY DEF TypeInv
  <1> QED BY <1>1, CallOkKept

LEMMA SameLives ==
  ASSUME TypeOK, UNCHANGED life
  PROVE  life' \in [Locks -> Nat] /\ \A l \in Locks : life'[l] >= life[l]
  BY DEF TypeOK

LEMMA AskType ==
  ASSUME TypeInv, NEW t \in Threads, Ask(t)
  PROVE  TypeInv'
  <1>0. TypeOK /\ CallOk(t) /\ Born
    BY DEF TypeInv
  <1>1. PICK l \in Locks : \E k \in Kinds(l), o \in {"LOCK_POST", "TRYLOCK_POST"} :
          exists[l] = "live" /\ Calls(t, l, Ev(o, l, k, TRUE), "asking")
    BY DEF Ask
  <1>7. PICK k \in Kinds(l), o \in {"LOCK_POST", "TRYLOCK_POST"} :
          exists[l] = "live" /\ Calls(t, l, Ev(o, l, k, TRUE), "asking")
    BY <1>1
  <1>2. PICK e \in Event : e = Ev(o, l, k, TRUE) /\ e.addr = l
    <2>1. o \in EvOp /\ k \in LockKind
      BY <1>7, KindTypes DEF EvOp
    <2>2. Ev(o, l, k, TRUE) \in Event /\ Ev(o, l, k, TRUE).addr = l
      <3>1. l \in Locks /\ o \in EvOp /\ k \in LockKind
        BY <1>1, <2>1
      <3> HIDE <1>1, <2>1
      <3> QED BY <3>1, EvType
    <2> QED BY <2>2
  <1>3. Calls(t, l, e, "asking") /\ "asking" \in Pc
    BY <1>7, <1>2 DEF Pc
  <1>4. UNCHANGED <<graph, holds, reading, exists, queue, life, asked>>
    BY DEF Ask
  <1>5. TypeOK'
    BY <1>0, <1>3, <1>4, CallsType DEF TypeOK, GraphTypeOK, graph, Pc
  <1>6. CallOk(t)'
    <2>1. life[l] >= 1
      BY <1>0, <1>7 DEF Born
    <2>2. pc'[t] = "asking" /\ arg'[t] = e
      BY <1>0, <1>3, CallsType
    <2> QED BY <1>0, <1>2, <1>4, <2>1, <2>2 DEF CallOk
  <1> QED BY <1>0, <1>3, <1>4, <1>5, <1>6, CallsType, SameLives, CallOkAll DEF TypeInv, Born

\* Thread t takes the lock its call is about.
LEMMA TakesType ==
  ASSUME TypeInv, NEW t \in Threads, NEW from \in Pc \ {"idle"}, NEW k, NEW S,
         Goes(t, from, "posting"), Take(t, arg[t].addr, k), S \subseteq Sighting,
         asked' = asked \cup S, UNCHANGED <<graph, arg, exists, queue, life>>
  PROVE  TypeInv'
  <1>0. TypeOK /\ CallOk(t) /\ Born
    BY DEF TypeInv
  <1>1. "posting" \in Pc /\ pc[t] = from /\ pc[t] # "idle" /\ pc'[t] = "posting"
    BY <1>0, GoesType DEF Pc
  <1>2. arg[t] \in Event /\ arg[t].addr \in Locks
    BY <1>0, <1>1 DEF CallOk, Event
  <1>3. TypeOK'
    BY <1>0, <1>1, <1>2, GoesType, TakeType DEF TypeOK, GraphTypeOK, graph, Pc
  <1>4. CallOk(t)'
    <2>1. ASSUME NEW m \in Locks, holds'[t][m] > 0 PROVE life[m] >= 1
      BY <1>0, <1>1, <1>2, <2>1, TakeType DEF CallOk
    <2> QED BY <1>0, <1>1, <2>1 DEF CallOk
  <1>5. \A u \in Threads \ {t} : /\ pc'[u] = pc[u] /\ arg'[u] = arg[u]
                                 /\ \A l \in Locks : holds'[u][l] = holds[u][l]
    BY <1>0, <1>1, <1>2, GoesType, TakeType
  <1> QED BY <1>0, <1>3, <1>4, <1>5, SameLives, CallOkAll DEF TypeInv, Born

\* What is seen in a call.
LEMMA CallArg ==
  ASSUME TypeInv, NEW t \in Threads, pc[t] # "idle"
  PROVE  arg[t].addr \in Locks /\ arg[t].kind \in LockKind /\ arg[t] \in Event
  BY DEF TypeInv, CallOk, Event

LEMMA CallSeen ==
  ASSUME TypeInv, NEW t \in Threads, pc[t] # "idle", NEW k \in LockKind
  PROVE  /\ Seen(t, arg[t].addr, k, TRUE) \subseteq Sighting
         /\ Seen(t, arg[t].addr, k, FALSE) \subseteq Sighting
  <1>1. arg[t] \in Event /\ TypeOK /\ CallOk(t)
    BY DEF TypeInv, CallOk
  <1>2. arg[t].addr \in Locks /\ arg[t].kind \in LockKind /\ life[arg[t].addr] >= 1
    BY <1>1 DEF Event, CallOk
  <1> QED BY <1>1, <1>2, SeenType DEF CallOk

LEMMA GetType ==
  ASSUME TypeInv, NEW t \in Threads, Get(t)
  PROVE  TypeInv'
  <1>1. /\ Goes(t, "asking", "posting") /\ Take(t, arg[t].addr, arg[t].kind)
        /\ UNCHANGED <<graph, arg, exists, queue, life>>
    BY DEF Get
  <1>2. pc[t] # "idle" /\ "asking" \in Pc \ {"idle"}
    BY <1>1 DEF Goes, Pc
  <1>3. Seen(t, arg[t].addr, arg[t].kind, TRUE) \subseteq Sighting
    <2>1. arg[t].kind \in LockKind
      BY <1>2, CallArg
    <2> QED BY <1>2, <2>1, CallSeen
  <1>4. PICK S : S \subseteq Sighting /\ asked' = asked \cup S
    <2>1. PICK S : S = IF holds[t][arg[t].addr] > 0 THEN {}
                       ELSE Seen(t, arg[t].addr, arg[t].kind, TRUE)
      OBVIOUS
    <2>2. asked' = asked \cup S /\ S \subseteq Sighting
      BY <1>3, <2>1 DEF Get
    <2> QED BY <2>2
  <1> QED BY <1>1, <1>2, <1>4, TakesType

LEMMA CondWakeType ==
  ASSUME TypeInv, NEW t \in Threads, CondWake(t)
  PROVE  TypeInv'
  <1>1. /\ Goes(t, "waiting", "posting") /\ Take(t, arg[t].addr, "MUTEX")
        /\ asked' = asked \cup Seen(t, arg[t].addr, "MUTEX", TRUE)
        /\ UNCHANGED <<graph, arg, exists, queue, life>>
    BY DEF CondWake
  <1>2. pc[t] # "idle" /\ "waiting" \in Pc \ {"idle"}
    BY <1>1 DEF Goes, Pc
  <1>3. Seen(t, arg[t].addr, "MUTEX", TRUE) \subseteq Sighting
    BY <1>2, CallSeen DEF LockKind
  <1> QED BY <1>1, <1>2, <1>3, TakesType

LEMMA FailType ==
  ASSUME TypeInv, NEW t \in Threads, Fail(t)
  PROVE  TypeInv'
  <1>0. TypeOK /\ CallOk(t) /\ Born
    BY DEF TypeInv
  <1>1. /\ Goes(t, "asking", "posting") /\ "asking" \in Pc /\ "posting" \in Pc
        /\ UNCHANGED <<graph, holds, reading, exists, queue, life>>
    BY DEF Fail, Pc
  <1>2. pc[t] = "asking" /\ pc[t] # "idle" /\ pc'[t] = "posting"
    BY <1>0, <1>1, GoesType
  <1>3. /\ Seen(t, arg[t].addr, arg[t].kind, FALSE) \subseteq Sighting
        /\ arg[t] \in Event /\ arg[t].addr \in Locks
    <2>1. arg[t] \in Event /\ arg[t].addr \in Locks /\ arg[t].kind \in LockKind
      BY <1>2, CallArg
    <2> QED BY <1>2, <2>1, CallSeen
  <1>4. asked' \subseteq Sighting
    BY <1>0, <1>3 DEF Fail, TypeOK
  <1>5. PICK e \in Event : e = [arg[t] EXCEPT !.ok = FALSE] /\ e.addr = arg[t].addr
    <2>1. [arg[t] EXCEPT !.ok = FALSE] \in Event
      BY <1>3 DEF Event
    <2>2. [arg[t] EXCEPT !.ok = FALSE].addr = arg[t].addr
      BY <1>3 DEF Event
    <2> QED BY <2>1, <2>2
  <1>6. /\ arg' = [arg EXCEPT ![t] = e] /\ arg \in [Threads -> Event \cup {NoCall}]
        /\ arg' \in [Threads -> Event \cup {NoCall}]
    BY <1>0, <1>5 DEF Fail, TypeOK
  <1>7. arg'[t] = e /\ \A u \in Threads \ {t} : arg'[u] = arg[u]
    BY <1>6
  <1>8. TypeOK'
    BY <1>0, <1>1, <1>4, <1>6, GoesType DEF TypeOK, GraphTypeOK, graph, Pc
  <1>9. CallOk(t)'
    BY <1>0, <1>1, <1>2, <1>5, <1>7 DEF CallOk
  <1> QED BY <1>0, <1>1, <1>7, <1>8, <1>9, GoesType, SameLives, CallOkAll DEF TypeInv, Born

LEMMA PostType ==
  ASSUME TypeInv, NEW t \in Threads, Post(t)
  PROVE  TypeInv'
  <1>0. TypeOK /\ CallOk(t) /\ Born
    BY DEF TypeInv
  <1>1. /\ Returns(t, "posting") /\ "posting" \in Pc /\ Log(t, arg[t])
        /\ UNCHANGED <<graph, holds, reading, life, asked>>
    BY DEF Post, Pc
  <1>2. pc[t] # "idle" /\ pc'[t] = "idle"
    BY <1>0, <1>1, ReturnsType
  <1>3. arg[t] \in Event /\ arg[t].addr \in Locks /\ life[arg[t].addr] >= 1
    BY <1>0, <1>2, CallArg DEF CallOk, TypeInv
  <1>4. exists' \in [Locks -> {"absent", "live", "changing"}]
    BY <1>0 DEF Post, TypeOK
  <1>5. \A m \in Locks : m # arg[t].addr => exists'[m] = exists[m]
    BY <1>0, <1>3 DEF Post, TypeOK
  <1>6. Born'
    BY <1>0, <1>1, <1>3, <1>5 DEF Born
  <1>7. /\ queue' \in [Threads -> Seq(Event)]
        /\ \A u \in Threads : Len(queue'[u]) <= MaxQueue
    BY <1>0, <1>1, <1>3, LogType
  <1>8. TypeOK'
    BY <1>0, <1>1, <1>4, <1>7, ReturnsType DEF TypeOK, GraphTypeOK, graph, Pc
  <1>9. CallOk(t)'
    BY <1>0, <1>1, <1>2 DEF CallOk
  <1> QED BY <1>0, <1>1, <1>6, <1>8, <1>9, ReturnsType, SameLives, CallOkAll DEF TypeInv

LEMMA UnlockType ==
  ASSUME TypeInv, NEW t \in Threads, Unlock(t)
  PROVE  TypeInv'
  <1>0. TypeOK /\ CallOk(t) /\ Born
    BY DEF TypeInv
  <1>1. PICK l \in Held(t) :
          /\ Calls(t, l, Ev("UNLOCK", l, HeldKind(l), TRUE), "unlocking")
          /\ Log(t, Ev("UNLOCK", l, HeldKind(l), TRUE))
          /\ UNCHANGED <<graph, holds, reading, exists, life, asked>>
    BY DEF Unlock
  <1>2. l \in Locks /\ holds[t][l] > 0
    BY <1>1 DEF Held
  <1>3. PICK e \in Event : e = Ev("UNLOCK", l, HeldKind(l), TRUE) /\ e.addr = l
    <2>1. "UNLOCK" \in EvOp /\ HeldKind(l) \in LockKind
      BY <1>2, KindTypes DEF EvOp
    <2>2. Ev("UNLOCK", l, HeldKind(l), TRUE) \in Event
          /\ Ev("UNLOCK", l, HeldKind(l), TRUE).addr = l
      BY <1>2, <2>1, EvType
    <2> QED BY <2>2
  <1>4. Calls(t, l, e, "unlocking") /\ "unlocking" \in Pc /\ Log(t, e)
    BY <1>1, <1>3 DEF Pc
  <1>5. /\ queue' \in [Threads -> Seq(Event)]
        /\ \A u \in Threads : Len(queue'[u]) <= MaxQueue
    BY <1>0, <1>4, LogType
  <1>6. TypeOK'
    BY <1>0, <1>1, <1>2, <1>4, <1>5, CallsType DEF TypeOK, GraphTypeOK, graph, Pc
  <1>7. pc'[t] = "unlocking" /\ arg'[t] = e
    BY <1>0, <1>2, <1>4, CallsType
  <1>8. CallOk(t)'
    BY <1>0, <1>1, <1>2, <1>3, <1>7 DEF CallOk
  <1> QED BY <1>0, <1>1, <1>2, <1>4, <1>6, <1>8, CallsType, SameLives, CallOkAll DEF TypeInv, Born

LEMMA RealUnlockType ==
  ASSUME TypeInv, NEW t \in Threads, RealUnlock(t)
  PROVE  TypeInv'
  <1>0. TypeOK /\ CallOk(t) /\ Born
    BY DEF TypeInv
  <1>1. /\ Returns(t, "unlocking") /\ "unlocking" \in Pc /\ Drop(t, arg[t].addr)
        /\ UNCHANGED <<graph, exists, queue, life, asked>>
    BY DEF RealUnlock, Pc
  <1>2. pc[t] = "unlocking" /\ pc[t] # "idle" /\ pc'[t] = "idle"
    BY <1>0, <1>1, ReturnsType
  <1>3. arg[t].addr \in Locks /\ holds[t][arg[t].addr] > 0
    BY <1>0, <1>2, CallArg DEF CallOk
  <1>4. TypeOK'
    BY <1>0, <1>1, <1>3, ReturnsType, DropType DEF TypeOK, GraphTypeOK, graph, Pc
  <1>5. CallOk(t)'
    <2>1. ASSUME NEW m \in Locks, holds'[t][m] > 0 PROVE life[m] >= 1
      BY <1>0, <1>1, <1>3, <2>1, DropType DEF CallOk
    <2> QED BY <1>1, <1>2, <2>1 DEF CallOk
  <1>6. \A u \in Threads \ {t} : /\ pc'[u] = pc[u] /\ arg'[u] = arg[u]
                                 /\ \A l \in Locks : holds'[u][l] = holds[u][l]
    BY <1>0, <1>1, <1>3, ReturnsType, DropType
  <1> QED BY <1>0, <1>1, <1>4, <1>5, <1>6, SameLives, CallOkAll DEF TypeInv, Born

LEMMA CondWaitType ==
  ASSUME TypeInv, NEW t \in Threads, CondWait(t)
  PROVE  TypeInv'
  <1>0. TypeOK /\ CallOk(t) /\ Born
    BY DEF TypeInv
  <1>1. PICK l \in Held(t) :
          /\ Calls(t, l, Ev("COND_WAIT_POST", l, "MUTEX", TRUE), "waiting")
          /\ Drop(t, l)
          /\ UNCHANGED <<graph, exists, queue, life, asked>>
    BY DEF CondWait
  <1>2. l \in Locks /\ holds[t][l] > 0
    BY <1>1 DEF Held
  <1>3. PICK e \in Event : e = Ev("COND_WAIT_POST", l, "MUTEX", TRUE) /\ e.addr = l
    <2>1. "COND_WAIT_POST" \in EvOp /\ "MUTEX" \in LockKind
      BY DEF EvOp, LockKind
    <2>2. Ev("COND_WAIT_POST", l, "MUTEX", TRUE) \in Event
          /\ Ev("COND_WAIT_POST", l, "MUTEX", TRUE).addr = l
      BY <1>2, <2>1, EvType
    <2> QED BY <2>2
  <1>4. Calls(t, l, e, "waiting") /\ "waiting" \in Pc
    BY <1>1, <1>3 DEF Pc
  <1>5. TypeOK'
    BY <1>0, <1>1, <1>2, <1>4, CallsType, DropType DEF TypeOK, GraphTypeOK, graph, Pc
  <1>6. pc'[t] = "waiting" /\ arg'[t] = e
    BY <1>0, <1>2, <1>4, CallsType
  <1>7. CallOk(t)'
    <2>1. ASSUME NEW m \in Locks, holds'[t][m] > 0 PROVE life[m] >= 1
      BY <1>0, <1>1, <1>2, <2>1, DropType DEF CallOk
    <2>2. life[l] >= 1
      BY <1>0, <1>2 DEF CallOk
    <2> QED BY <1>1, <1>3, <1>6, <2>1, <2>2 DEF CallOk
  <1>8. \A u \in Threads \ {t} : /\ pc'[u] = pc[u] /\ arg'[u] = arg[u]
                                 /\ \A m \in Locks : holds'[u][m] = holds[u][m]
    BY <1>0, <1>1, <1>2, <1>4, CallsType, DropType
  <1> QED BY <1>0, <1>1, <1>5, <1>7, <1>8, SameLives, CallOkAll DEF TypeInv, Born

LEMMA InitLockType ==
  ASSUME TypeInv, NEW t \in Threads, InitLock(t)
  PROVE  TypeInv'
  <1>0. TypeOK /\ CallOk(t) /\ Born
    BY DEF TypeInv
  <1>1. PICK l \in Dynamic : \E k \in Kinds(l) \ {"RWLOCK_RD"} :
          /\ Calls(t, l, Ev("INIT", l, k, TRUE), "posting")
          /\ exists' = [exists EXCEPT ![l] = "changing"]
          /\ life' = [life EXCEPT ![l] = @ + 1]
          /\ UNCHANGED <<graph, holds, reading, queue, asked>>
    BY DEF InitLock
  <1>2. PICK k \in Kinds(l) : Calls(t, l, Ev("INIT", l, k, TRUE), "posting")
    BY <1>1
  <1>3. l \in Locks /\ k \in LockKind /\ "INIT" \in EvOp
    BY <1>1, KindTypes, LockAssumption DEF EvOp
  <1>4. PICK e \in Event : e = Ev("INIT", l, k, TRUE) /\ e.addr = l
    <2>1. Ev("INIT", l, k, TRUE) \in Event /\ Ev("INIT", l, k, TRUE).addr = l
      BY <1>3, EvType
    <2> QED BY <2>1
  <1>5. Calls(t, l, e, "posting") /\ "posting" \in Pc
    BY <1>2, <1>4 DEF Pc
  <1>6. /\ life' \in [Locks -> Nat] /\ \A m \in Locks : life'[m] >= life[m]
        /\ life'[l] >= 1
    BY <1>0, <1>1, <1>3 DEF TypeOK
  <1>7. /\ exists' \in [Locks -> {"absent", "live", "changing"}]
        /\ \A m \in Locks : m # l => exists'[m] = exists[m]
    BY <1>0, <1>1, <1>3 DEF TypeOK
  <1>8. TypeOK'
    BY <1>0, <1>1, <1>5, <1>6, <1>7, CallsType, <1>3 DEF TypeOK, GraphTypeOK, graph, Pc
  <1>9. Born'
    <2>1. life \in [Locks -> Nat]
      BY <1>0 DEF TypeOK
    <2> QED BY <1>0, <1>6, <1>7, <2>1 DEF Born
  <1>10. CallOk(t)'
    <2>1. pc'[t] = "posting" /\ arg'[t] = e
      BY <1>0, <1>3, <1>5, CallsType
    <2>2. \A m \in Locks : holds'[t][m] > 0 => life'[m] >= 1
      BY <1>0, <1>1, <1>6 DEF CallOk, TypeOK
    <2> QED BY <1>4, <1>6, <2>1, <2>2 DEF CallOk
  <1> QED BY <1>0, <1>1, <1>3, <1>5, <1>6, <1>8, <1>9, <1>10, CallsType, CallOkAll DEF TypeInv

LEMMA DestroyType ==
  ASSUME TypeInv, NEW t \in Threads, Destroy(t)
  PROVE  TypeInv'
  <1>0. TypeOK /\ CallOk(t) /\ Born
    BY DEF TypeInv
  <1>1. PICK l \in Dynamic : \E k \in Kinds(l) \ {"RWLOCK_RD"} :
          /\ exists[l] = "live"
          /\ Calls(t, l, Ev("DESTROY", l, k, TRUE), "destroying")
          /\ Log(t, Ev("DESTROY", l, k, TRUE))
          /\ exists' = [exists EXCEPT ![l] = "changing"]
          /\ UNCHANGED <<graph, holds, reading, life, asked>>
    BY DEF Destroy
  <1>2. PICK k \in Kinds(l) : /\ Calls(t, l, Ev("DESTROY", l, k, TRUE), "destroying")
                              /\ Log(t, Ev("DESTROY", l, k, TRUE))
    BY <1>1
  <1>3. l \in Locks /\ k \in LockKind /\ "DESTROY" \in EvOp
    BY <1>1, KindTypes, LockAssumption DEF EvOp
  <1>4. PICK e \in Event : e = Ev("DESTROY", l, k, TRUE) /\ e.addr = l
    <2>1. Ev("DESTROY", l, k, TRUE) \in Event /\ Ev("DESTROY", l, k, TRUE).addr = l
      BY <1>3, EvType
    <2> QED BY <2>1
  <1>5. Calls(t, l, e, "destroying") /\ "destroying" \in Pc /\ Log(t, e)
    BY <1>2, <1>4 DEF Pc
  <1>6. /\ exists' \in [Locks -> {"absent", "live", "changing"}]
        /\ \A m \in Locks : m # l => exists'[m] = exists[m]
    BY <1>0, <1>1, <1>3 DEF TypeOK
  <1>7. /\ queue' \in [Threads -> Seq(Event)]
        /\ \A u \in Threads : Len(queue'[u]) <= MaxQueue
    BY <1>0, <1>5, LogType
  <1>8. TypeOK'
    BY <1>0, <1>1, <1>3, <1>5, <1>6, <1>7, CallsType DEF TypeOK, GraphTypeOK, graph, Pc
  <1>9. Born' /\ life[l] >= 1
    BY <1>0, <1>1, <1>3, <1>6 DEF Born
  <1>10. CallOk(t)'
    <2>1. pc'[t] = "destroying" /\ arg'[t] = e
      BY <1>0, <1>3, <1>5, CallsType
    <2> QED BY <1>0, <1>1, <1>4, <1>9, <2>1 DEF CallOk
  <1> QED BY <1>0, <1>1, <1>3, <1>5, <1>8, <1>9, <1>10, CallsType, SameLives, CallOkAll DEF TypeInv

LEMMA RealDestroyType ==
  ASSUME TypeInv, NEW t \in Threads, RealDestroy(t)
  PROVE  TypeInv'
  <1>0. TypeOK /\ CallOk(t) /\ Born
    BY DEF TypeInv
  <1>1. /\ Returns(t, "destroying") /\ "destroying" \in Pc
        /\ exists' = [exists EXCEPT ![arg[t].addr] = "absent"]
        /\ UNCHANGED <<graph, holds, reading, queue, life, asked>>
    BY DEF RealDestroy, Pc
  <1>2. pc'[t] = "idle" /\ pc[t] # "idle"
    BY <1>0, <1>1, ReturnsType
  <1>3. exists' \in [Locks -> {"absent", "live", "changing"}]
        /\ \A m \in Locks : exists'[m] # "absent" => exists[m] # "absent"
    BY <1>0, <1>1 DEF TypeOK
  <1>4. TypeOK'
    BY <1>0, <1>1, <1>3, ReturnsType DEF TypeOK, GraphTypeOK, graph, Pc
  <1>5. Born' /\ CallOk(t)'
    BY <1>0, <1>1, <1>2, <1>3 DEF Born, CallOk
  <1> QED BY <1>0, <1>1, <1>4, <1>5, ReturnsType, SameLives, CallOkAll DEF TypeInv

LEMMA DeliverKeepsType ==
  ASSUME TypeInv, NEW t \in Threads, Deliver(t)
  PROVE  TypeInv'
  <1>0. TypeOK
    BY DEF TypeInv
  <1>1. UNCHANGED program /\ Replay(t, queue[t][1]) /\ queue[t][1] \in Event
    BY <1>0, DeliverType DEF Deliver
  <1>2. GraphTypeOK'
    BY <1>0, <1>1, ReplayType DEF TypeOK
  <1>3. TypeOK'
    BY <1>0, <1>1, <1>2, DeliverType DEF TypeOK, program
  <1> QED BY <1>1, <1>3 DEF TypeInv, program, Born, CallOk

LEMMA StepType == TypeInv /\ [Next]_vars => TypeInv'
  <1>1. ASSUME TypeInv, UNCHANGED vars PROVE TypeInv'
    BY <1>1 DEF TypeInv, TypeOK, GraphTypeOK, Born, CallOk, vars, program, graph
  <1>2. ASSUME TypeInv, NEW t \in Threads,
               \/ Ask(t) \/ Get(t) \/ Fail(t) \/ Post(t) \/ Unlock(t) \/ RealUnlock(t)
               \/ CondWait(t) \/ CondWake(t) \/ InitLock(t) \/ Destroy(t) \/ RealDestroy(t)
               \/ Deliver(t)
        PROVE  TypeInv'
    BY <1>2, AskType, GetType, FailType, PostType, UnlockType, RealUnlockType, CondWaitType,
       CondWakeType, InitLockType, DestroyType, RealDestroyType, DeliverKeepsType
  <1> QED BY <1>1, <1>2 DEF Next

\* The state is what it is declared to be: no lock is held less than not at all,
\* no node of a stack has a hold count of zero, and every event is about a lock
\* that has been initialised.
THEOREM DetectorTypes == Spec => []TypeOK
  <1>1. TypeInv => TypeOK
    BY DEF TypeInv
  <1> QED BY InitType, StepType, <1>1, PTL DEF Spec
-----------------------------------------------------------------------------
(* Views.  A thread's events are logged in order and replayed in order, so *)
(* that the analyzer is always at a point the thread has gone through.  A  *)
(* view is such a point: how often the thread held each lock, the kind it  *)
(* held it under, the life of each address and whether the lock was there. *)
(* A thread has one view before each event of its queue and one after the  *)
(* last: the analyzer is at the first, the program at the last.            *)

View == [cnt : [Locks -> Nat], kind : [Locks -> LockKind], gen : [Locks -> Nat],
         alive : [Locks -> BOOLEAN]]

Takes(e) == e.op \in {"LOCK_POST", "TRYLOCK_POST"} /\ e.ok
CntAfter(V, e) ==
  IF Takes(e) THEN V.cnt[e.addr] + 1
  ELSE IF e.op = "UNLOCK" THEN V.cnt[e.addr] - 1 ELSE V.cnt[e.addr]
KindAfter(V, e) ==
  IF (Takes(e) /\ V.cnt[e.addr] = 0) \/ e.op = "COND_WAIT_POST" THEN e.kind
  ELSE V.kind[e.addr]
GenAfter(V, e) == IF e.op = "INIT" THEN V.gen[e.addr] + 1 ELSE V.gen[e.addr]
AliveAfter(V, e) == e.op = "INIT" \/ (e.op # "DESTROY" /\ V.alive[e.addr])
\* The view after event e.
After(V, e) ==
  [cnt |-> [V.cnt EXCEPT ![e.addr] = CntAfter(V, e)],
   kind |-> [V.kind EXCEPT ![e.addr] = KindAfter(V, e)],
   gen |-> [V.gen EXCEPT ![e.addr] = GenAfter(V, e)],
   alive |-> [V.alive EXCEPT ![e.addr] = AliveAfter(V, e)]]

\* The nodes of the locks held at a view.
Node(V, l) == [id |-> <<l, V.gen[l]>>, kind |-> V.kind[l], hold_count |-> V.cnt[l]]
NodesOf(V) == {Node(V, l) : l \in {m \in Locks : V.cnt[m] > 0}}

\* V and W are the same but for lock l.
AlikeBut(V, W, l) ==
  \A h \in Locks \ {l} : /\ W.cnt[h] = V.cnt[h] /\ W.kind[h] = V.kind[h]
                         /\ W.gen[h] = V.gen[h] /\ W.alive[h] = V.alive[h]

LEMMA AfterIs ==
  ASSUME NEW V \in View, NEW e \in Event, e.op = "UNLOCK" => V.cnt[e.addr] >= 1
  PROVE  /\ After(V, e) \in View /\ AlikeBut(V, After(V, e), e.addr)
         /\ After(V, e).cnt[e.addr] = CntAfter(V, e)
         /\ After(V, e).kind[e.addr] = KindAfter(V, e)
         /\ After(V, e).gen[e.addr] = GenAfter(V, e)
         /\ After(V, e).alive[e.addr] = AliveAfter(V, e)
  <1> DEFINE l == e.addr
  <1>1. /\ l \in Locks /\ e.kind \in LockKind
        /\ V.cnt \in [Locks -> Nat] /\ V.kind \in [Locks -> LockKind]
        /\ V.gen \in [Locks -> Nat] /\ V.alive \in [Locks -> BOOLEAN]
    BY DEF Event, View
  <1>2. CntAfter(V, e) \in Nat
    <2>1. V.cnt[l] \in Nat
      BY <1>1
    <2>2. CASE e.op = "UNLOCK"
      <3>1. V.cnt[l] - 1 \in Nat
        BY <2>1, <2>2
      <3> QED BY <2>1, <2>2, <3>1 DEF CntAfter, Takes
    <2>3. CASE e.op # "UNLOCK"
      BY <2>1, <2>3 DEF CntAfter, Takes
    <2> QED BY <2>2, <2>3
  <1>3. KindAfter(V, e) \in LockKind /\ GenAfter(V, e) \in Nat /\ AliveAfter(V, e) \in BOOLEAN
    BY <1>1 DEF KindAfter, GenAfter, AliveAfter
  <1>4. PICK c \in Nat, k \in LockKind, g \in Nat, a \in BOOLEAN :
          /\ c = CntAfter(V, e) /\ k = KindAfter(V, e) /\ g = GenAfter(V, e)
          /\ a = AliveAfter(V, e)
    BY <1>2, <1>3
  <1>5. /\ [V.cnt EXCEPT ![l] = c] \in [Locks -> Nat]
        /\ [V.kind EXCEPT ![l] = k] \in [Locks -> LockKind]
        /\ [V.gen EXCEPT ![l] = g] \in [Locks -> Nat]
        /\ [V.alive EXCEPT ![l] = a] \in [Locks -> BOOLEAN]
    BY <1>1
  <1>6. PICK W : W = [cnt |-> [V.cnt EXCEPT ![l] = c], kind |-> [V.kind EXCEPT ![l] = k],
                      gen |-> [V.gen EXCEPT ![l] = g], alive |-> [V.alive EXCEPT ![l] = a]]
    OBVIOUS
  <1>7. /\ W.cnt = [V.cnt EXCEPT ![l] = c] /\ W.kind = [V.kind EXCEPT ![l] = k]
        /\ W.gen = [V.gen EXCEPT ![l] = g] /\ W.alive = [V.alive EXCEPT ![l] = a]
    BY <1>6
  <1>8. W \in View
    BY <1>5, <1>6 DEF View
  <1>9. W = After(V, e)
    BY <1>4, <1>6 DEF After
  <1>10. W.cnt[l] = c /\ W.kind[l] = k /\ W.gen[l] = g /\ W.alive[l] = a
    BY <1>1, <1>7
  <1>11. AlikeBut(V, W, l)
    BY <1>1, <1>7 DEF AlikeBut
  <1> QED BY <1>4, <1>8, <1>9, <1>10, <1>11

LEMMA NodeIs ==
  ASSUME NEW V, NEW n \in NodesOf(V)
  PROVE  \E h \in Locks : V.cnt[h] > 0 /\ n = Node(V, h) /\ n.id = <<h, V.gen[h]>>
                          /\ n.kind = V.kind[h] /\ n.hold_count = V.cnt[h]
  BY DEF NodesOf, Node

LEMMA NodeOfLock ==
  ASSUME NEW V, NEW l \in Locks
  PROVE  /\ V.cnt[l] > 0 => Node(V, l) \in NodesOf(V)
         /\ Node(V, l).id = <<l, V.gen[l]>> /\ Node(V, l).kind = V.kind[l]
         /\ Node(V, l).hold_count = V.cnt[l]
         /\ \A n \in NodesOf(V) : n.id[1] = l => n = Node(V, l) /\ V.cnt[l] > 0
         /\ Holding(NodesOf(V), <<l, V.gen[l]>>) <=> V.cnt[l] > 0
         /\ V.cnt[l] > 0 => Count(NodesOf(V), <<l, V.gen[l]>>) = V.cnt[l]
  <1>1. /\ Node(V, l).id = <<l, V.gen[l]>> /\ Node(V, l).kind = V.kind[l]
        /\ Node(V, l).hold_count = V.cnt[l]
    BY DEF Node
  <1>2. V.cnt[l] > 0 => Node(V, l) \in NodesOf(V)
    BY DEF NodesOf
  <1>3. ASSUME NEW n \in NodesOf(V), n.id[1] = l
        PROVE  n = Node(V, l) /\ V.cnt[l] > 0
    BY <1>3, NodeIs
  <1>4. \A n \in NodesOf(V) : n.id = <<l, V.gen[l]>> => n = Node(V, l) /\ V.cnt[l] > 0
    BY <1>3
  <1>5. Holding(NodesOf(V), <<l, V.gen[l]>>) <=> V.cnt[l] > 0
    BY <1>1, <1>2, <1>4 DEF Holding
  <1>6. ASSUME V.cnt[l] > 0 PROVE Count(NodesOf(V), <<l, V.gen[l]>>) = V.cnt[l]
    <2>1. PICK n \in NodesOf(V) : n.id = <<l, V.gen[l]>>
                                  /\ Count(NodesOf(V), <<l, V.gen[l]>>) = n.hold_count
      BY <1>5, <1>6, CountOf
    <2> QED BY <1>1, <1>4, <2>1
  <1> QED BY <1>1, <1>2, <1>3, <1>5, <1>6

\* What is in the stack of a view, as one may ask for it.
LEMMA InNodes ==
  ASSUME NEW V, NEW n
  PROVE  n \in NodesOf(V) <=> \E h \in Locks : V.cnt[h] > 0 /\ n = Node(V, h)
  BY DEF NodesOf

LEMMA NodeIds ==
  ASSUME NEW V, NEW l, NEW h
  PROVE  Node(V, h).id = <<l, V.gen[l]>> <=> h = l
  BY DEF Node

LEMMA AlikeNodes ==
  ASSUME NEW V, NEW W, NEW l \in Locks, AlikeBut(V, W, l)
  PROVE  \A h \in Locks \ {l} : Node(W, h) = Node(V, h) /\ W.cnt[h] = V.cnt[h]
  BY DEF AlikeBut, Node

\* The lock is not in either stack: the stacks are the same.
LEMMA SameNodes ==
  ASSUME NEW V, NEW W, NEW l \in Locks, AlikeBut(V, W, l), Node(V, l) = Node(W, l),
         W.cnt[l] = V.cnt[l]
  PROVE  NodesOf(W) = NodesOf(V)
  <1>1. \A h \in Locks : Node(W, h) = Node(V, h) /\ W.cnt[h] = V.cnt[h]
    BY AlikeNodes
  <1> QED BY <1>1 DEF NodesOf

LEMMA NoNode ==
  ASSUME NEW V \in View, NEW W \in View, NEW l \in Locks, AlikeBut(V, W, l),
         V.cnt[l] = 0, W.cnt[l] = 0
  PROVE  NodesOf(W) = NodesOf(V)
  <1>1. \A h \in Locks : (V.cnt[h] > 0 <=> W.cnt[h] > 0)
                         /\ (V.cnt[h] > 0 => Node(W, h) = Node(V, h))
    BY AlikeNodes
  <1> QED BY <1>1 DEF NodesOf

LEMMA OthersNodes ==
  ASSUME NEW V, NEW l \in Locks, NEW n
  PROVE  n \in Others(NodesOf(V), <<l, V.gen[l]>>) <=>
           \E h \in Locks \ {l} : V.cnt[h] > 0 /\ n = Node(V, h)
  <1>1. ASSUME NEW h \in Locks PROVE Node(V, h).id # <<l, V.gen[l]>> <=> h # l
    BY NodeIds
  <1> QED BY <1>1, InNodes DEF Others

\* A hold count changes.
LEMMA RecountNodes ==
  ASSUME NEW V \in View, NEW W \in View, NEW l \in Locks, AlikeBut(V, W, l),
         V.cnt[l] > 0, W.cnt[l] > 0, W.gen[l] = V.gen[l], W.kind[l] = V.kind[l]
  PROVE  Recount(NodesOf(V), <<l, V.gen[l]>>, W.cnt[l]) = NodesOf(W)
  <1> DEFINE id == <<l, V.gen[l]>>
             c == W.cnt[l]
             Upd(n) == IF n.id = id THEN [n EXCEPT !.hold_count = c] ELSE n
             R == Recount(NodesOf(V), id, c)
  <1>1. [Node(V, l) EXCEPT !.hold_count = c] = Node(W, l)
    BY DEF Node
  <1>2. \A h \in Locks : Node(V, h).id = id <=> h = l
    BY NodeIds
  <1>3. \A m : m \in R <=> \E n \in NodesOf(V) : m = Upd(n)
    BY DEF Recount
  <1>5. \A h \in Locks : (V.cnt[h] > 0 <=> W.cnt[h] > 0) /\ Upd(Node(V, h)) = Node(W, h)
    <2> TAKE h \in Locks
    <2>1. CASE h = l
      BY <1>1, <1>2, <2>1
    <2>2. CASE h # l
      BY <1>2, <2>2, AlikeNodes
    <2> QED BY <2>1, <2>2
  <1> HIDE DEF R, Upd
  <1>6. \A m : m \in R <=> \E h \in Locks : W.cnt[h] > 0 /\ m = Node(W, h)
    <2> TAKE m
    <2>1. ASSUME m \in R PROVE \E h \in Locks : W.cnt[h] > 0 /\ m = Node(W, h)
      <3>1. PICK n \in NodesOf(V) : m = Upd(n)
        BY <1>3, <2>1
      <3>2. PICK h \in Locks : V.cnt[h] > 0 /\ n = Node(V, h)
        BY <3>1, InNodes
      <3>3. W.cnt[h] > 0 /\ m = Node(W, h)
        BY <1>5, <3>1, <3>2
      <3> QED BY <3>3
    <2>2. ASSUME NEW h \in Locks, W.cnt[h] > 0, m = Node(W, h) PROVE m \in R
      <3>1. V.cnt[h] > 0 /\ m = Upd(Node(V, h))
        BY <1>5, <2>2
      <3>2. Node(V, h) \in NodesOf(V)
        BY <3>1, InNodes
      <3> QED BY <1>3, <3>1, <3>2
    <2> QED BY <2>1, <2>2
  <1>7. \A m : m \in R <=> m \in NodesOf(W)
    BY <1>6, InNodes
  <1>8. R = NodesOf(W)
    BY <1>7
  <1> QED BY <1>8 DEF R

LEMMA PushNodes ==
  ASSUME NEW V \in View, NEW W \in View, NEW l \in Locks, NEW k, AlikeBut(V, W, l),
         W.cnt[l] = V.cnt[l] + 1, W.gen[l] = V.gen[l],
         W.kind[l] = IF V.cnt[l] = 0 THEN k ELSE V.kind[l]
  PROVE  Push(NodesOf(V), <<l, V.gen[l]>>, k) = NodesOf(W)
  <1>1. V.cnt[l] \in Nat
    BY DEF View
  <1>2. CASE V.cnt[l] > 0
    <2>1. W.cnt[l] > 0 /\ W.kind[l] = V.kind[l]
      BY <1>1, <1>2
    <2>2. Push(NodesOf(V), <<l, V.gen[l]>>, k) = Recount(NodesOf(V), <<l, V.gen[l]>>, W.cnt[l])
      BY <1>2, NodeOfLock DEF Push
    <2> QED BY <1>2, <2>1, <2>2, RecountNodes
  <1>3. CASE V.cnt[l] = 0
    <2>1. W.cnt[l] = 1 /\ W.kind[l] = k /\ Node(W, l) = [id |-> <<l, V.gen[l]>>, kind |-> k,
                                                         hold_count |-> 1]
      BY <1>3 DEF Node
    <2>2. Push(NodesOf(V), <<l, V.gen[l]>>, k) = NodesOf(V) \cup {Node(W, l)}
      BY <1>3, <2>1, NodeOfLock DEF Push
    <2>3. \A h \in Locks : W.cnt[h] > 0 <=> h = l \/ V.cnt[h] > 0
      BY <1>3, <2>1, AlikeNodes
    <2>4. \A n : n \in NodesOf(W) <=> n \in NodesOf(V) \cup {Node(W, l)}
      <3> TAKE n
      <3>1. ASSUME n \in NodesOf(W) PROVE n \in NodesOf(V) \cup {Node(W, l)}
        <4>1. PICK h \in Locks : W.cnt[h] > 0 /\ n = Node(W, h)
          BY <3>1, InNodes
        <4> QED BY <2>3, <4>1, AlikeNodes, InNodes
      <3>2. ASSUME n \in NodesOf(V) PROVE n \in NodesOf(W)
        <4>1. PICK h \in Locks : V.cnt[h] > 0 /\ n = Node(V, h)
          BY <3>2, InNodes
        <4>2. h # l
          BY <1>3, <4>1
        <4>3. W.cnt[h] > 0 /\ n = Node(W, h)
          BY <4>1, <4>2, AlikeNodes
        <4> QED BY <4>3, InNodes
      <3>3. Node(W, l) \in NodesOf(W)
        BY <2>1, InNodes
      <3> QED BY <3>1, <3>2, <3>3
    <2> QED BY <2>2, <2>4
  <1> QED BY <1>1, <1>2, <1>3

LEMMA PopNodes ==
  ASSUME NEW V \in View, NEW W \in View, NEW l \in Locks, AlikeBut(V, W, l),
         V.cnt[l] >= 1, W.cnt[l] = V.cnt[l] - 1, W.gen[l] = V.gen[l], W.kind[l] = V.kind[l]
  PROVE  Pop(NodesOf(V), <<l, V.gen[l]>>) = NodesOf(W)
  <1>1. V.cnt[l] \in Nat /\ Count(NodesOf(V), <<l, V.gen[l]>>) = V.cnt[l]
        /\ Holding(NodesOf(V), <<l, V.gen[l]>>)
    BY NodeOfLock DEF View
  <1>2. CASE V.cnt[l] > 1
    <2>1. V.cnt[l] > 0 /\ W.cnt[l] > 0
      BY <1>1, <1>2
    <2>2. Pop(NodesOf(V), <<l, V.gen[l]>>) = Recount(NodesOf(V), <<l, V.gen[l]>>, W.cnt[l])
      BY <1>1, <1>2 DEF Pop
    <2> QED BY <2>1, <2>2, RecountNodes
  <1>3. CASE V.cnt[l] = 1
    <2>1. W.cnt[l] = 0 /\ Pop(NodesOf(V), <<l, V.gen[l]>>) = Others(NodesOf(V), <<l, V.gen[l]>>)
      BY <1>1, <1>3 DEF Pop
    <2>2. \A n : n \in NodesOf(W) <=> n \in Others(NodesOf(V), <<l, V.gen[l]>>)
      <3> TAKE n
      <3>1. n \in NodesOf(W) <=> \E h \in Locks \ {l} : W.cnt[h] > 0 /\ n = Node(W, h)
        BY <2>1, InNodes
      <3>2. n \in NodesOf(W) <=> \E h \in Locks \ {l} : V.cnt[h] > 0 /\ n = Node(V, h)
        BY <3>1, AlikeNodes
      <3> QED BY <3>2, OthersNodes
    <2> QED BY <2>1, <2>2
  <1> QED BY <1>1, <1>2, <1>3
-----------------------------------------------------------------------------
(* What an event does, at a view.                                          *)

\* Event e may come at view V of thread t.
Fits(t, V, e) ==
  /\ t \in Users[e.addr]
  /\ e.op \in {"INIT", "DESTROY"} =>
       e.addr \in Dynamic /\ V.cnt[e.addr] = 0 /\ (V.alive[e.addr] <=> e.op = "DESTROY")
  /\ e.op \in {"LOCK_POST", "TRYLOCK_POST", "COND_WAIT_POST"} => V.alive[e.addr]
  /\ e.op = "UNLOCK" => V.cnt[e.addr] >= 1
  /\ e.op = "COND_WAIT_POST" => V.cnt[e.addr] = 1 /\ e.kind = "MUTEX"

\* The replay of e looks for edges, and makes the one from lock h.
Looks(V, e) == \/ Takes(e) /\ V.cnt[e.addr] = 0
               \/ e.op = "TRYLOCK_POST" /\ ~e.ok
               \/ e.op = "COND_WAIT_POST"
Makes(V, e, h) == Looks(V, e) /\ h \in Locks \ {e.addr} /\ V.cnt[h] > 0
EdgeOf(V, e, h) == << <<h, V.gen[h]>>, <<e.addr, V.gen[e.addr]>> >>
KindsOf(V, e, h) == [from_kind |-> V.kind[h], to_kind |-> e.kind]

\* A view of thread t that makes sense: what is held is there and used by t.
ViewOk(t, V) ==
  \A l \in Locks :
    /\ V.cnt[l] > 0 => V.alive[l] /\ t \in Users[l]
    /\ V.alive[l] /\ t \in Users[l] => V.gen[l] >= 1
    /\ l \notin Dynamic => V.gen[l] = 1 /\ V.alive[l]
    /\ l \in Dynamic /\ t \in Users[l] => V.gen[l] <= life[l]

\* The analyzer is at view V of thread t.
GensAt(t, V) ==
  \A l \in Locks : t \in Users[l] =>
    /\ l \in Dynamic => addr_gen[l] = V.gen[l]
    /\ V.alive[l] => EnsureGen(l) = V.gen[l]
    /\ V.alive[l] /\ <<l, V.gen[l]>> \in DOMAIN meta => meta[<<l, V.gen[l]>>]
    /\ V.cnt[l] > 0 => addr_gen[l] = V.gen[l] /\ <<l, V.gen[l]>> \in DOMAIN meta
Analyzed(t, V) == stacks[t] = NodesOf(V) /\ GensAt(t, V)

\* A dynamic lock is used by one thread.  Without that a thread could hold a
\* lock whose INIT event another thread has logged and the trace not yet has.
OneUser == \A l \in Dynamic : \A t, u \in Users[l] : t = u

\* What Touch does to generations and metadata.
LEMMA TouchDoes ==
  ASSUME GraphTypeOK, NEW a \in Locks, Touch(a)
  PROVE  /\ addr_gen'[a] = EnsureGen(a) /\ EnsureGen(a) # 0
         /\ \A l \in Locks \ {a} : addr_gen'[l] = addr_gen[l]
         /\ \A l \in Locks : EnsureGen(l)' = EnsureGen(l)
         /\ \A id : id \in DOMAIN meta' <=> id \in DOMAIN meta \/ id = <<a, EnsureGen(a)>>
         /\ \A id \in DOMAIN meta : meta'[id] = meta[id]
         /\ <<a, EnsureGen(a)>> \notin DOMAIN meta => meta'[<<a, EnsureGen(a)>>]
  <1>1. EnsureGen(a) \in Nat \ {0} /\ addr_gen \in [Locks -> Nat]
    BY TouchType DEF GraphTypeOK
  <1>2. /\ addr_gen'[a] = EnsureGen(a)
        /\ \A l \in Locks \ {a} : addr_gen'[l] = addr_gen[l]
    BY <1>1 DEF Touch
  <1>3. \A l \in Locks : EnsureGen(l)' = EnsureGen(l)
    <2> TAKE l \in Locks
    <2>1. CASE l = a
      BY <1>1, <1>2, <2>1 DEF EnsureGen
    <2>2. CASE l # a
      BY <1>2, <2>2 DEF EnsureGen
    <2> QED BY <2>1, <2>2
  <1>4. PICK c : c = <<a, EnsureGen(a)>>
    OBVIOUS
  <1>5. meta' = [i \in DOMAIN meta \cup {c} |-> IF i \in DOMAIN meta THEN meta[i] ELSE TRUE]
    BY <1>4 DEF Touch, Known, Id
  <1>6. /\ \A id : id \in DOMAIN meta' <=> id \in DOMAIN meta \/ id = c
        /\ \A id \in DOMAIN meta : meta'[id] = meta[id]
        /\ c \notin DOMAIN meta => meta'[c]
    BY <1>5
  <1> QED BY <1>1, <1>2, <1>3, <1>4, <1>6

LEMMA TouchGens ==
  ASSUME GraphTypeOK, NEW a \in Locks, Touch(a), NEW u, NEW V, NEW W, AlikeBut(V, W, a),
         GensAt(u, V), W.gen[a] = V.gen[a],
         u \in Users[a] => V.alive[a] /\ W.alive[a]
  PROVE  GensAt(u, W)'
  <1>1. ASSUME NEW l \in Locks, u \in Users[l]
        PROVE  /\ l \in Dynamic => addr_gen'[l] = W.gen[l]
               /\ W.alive[l] => EnsureGen(l)' = W.gen[l]
               /\ W.alive[l] /\ <<l, W.gen[l]>> \in DOMAIN meta' => meta'[<<l, W.gen[l]>>]
               /\ W.cnt[l] > 0 => addr_gen'[l] = W.gen[l] /\ <<l, W.gen[l]>> \in DOMAIN meta'
    <2>0. /\ l \in Dynamic => addr_gen[l] = V.gen[l]
          /\ V.alive[l] => EnsureGen(l) = V.gen[l]
          /\ V.alive[l] /\ <<l, V.gen[l]>> \in DOMAIN meta => meta[<<l, V.gen[l]>>]
          /\ V.cnt[l] > 0 => addr_gen[l] = V.gen[l] /\ <<l, V.gen[l]>> \in DOMAIN meta
      BY <1>1 DEF GensAt
    <2>1. CASE l = a
      BY <1>1, <2>0, <2>1, TouchDoes
    <2>2. CASE l # a
      <3>1. \A g : <<l, g>> \in DOMAIN meta' <=> <<l, g>> \in DOMAIN meta
        BY <2>2, TouchDoes
      <3>2. /\ W.cnt[l] = V.cnt[l] /\ W.gen[l] = V.gen[l] /\ W.alive[l] = V.alive[l]
            /\ addr_gen'[l] = addr_gen[l] /\ EnsureGen(l)' = EnsureGen(l)
        BY <2>2, TouchDoes DEF AlikeBut
      <3>3. \A g : <<l, g>> \in DOMAIN meta => meta'[<<l, g>>] = meta[<<l, g>>]
        BY TouchDoes
      <3> QED BY <2>0, <3>1, <3>2, <3>3
    <2> QED BY <2>1, <2>2
  <1> QED BY <1>1 DEF GensAt

\* Two views with the same lives, of which the second may hold one more lock.
LEMMA GensAlike ==
  ASSUME NEW t, NEW V, NEW W, NEW a \in Locks, AlikeBut(V, W, a), GensAt(t, V),
         W.gen[a] = V.gen[a], W.alive[a] = V.alive[a],
         t \in Users[a] /\ W.cnt[a] > 0 =>
           addr_gen[a] = V.gen[a] /\ <<a, V.gen[a]>> \in DOMAIN meta
  PROVE  GensAt(t, W)
  <1>1. ASSUME NEW l \in Locks, t \in Users[l], l # a
        PROVE  /\ l \in Dynamic => addr_gen[l] = W.gen[l]
               /\ W.alive[l] => EnsureGen(l) = W.gen[l]
               /\ W.alive[l] /\ <<l, W.gen[l]>> \in DOMAIN meta => meta[<<l, W.gen[l]>>]
               /\ W.cnt[l] > 0 => addr_gen[l] = W.gen[l] /\ <<l, W.gen[l]>> \in DOMAIN meta
    BY <1>1 DEF AlikeBut, GensAt
  <1>2. t \in Users[a] =>
               /\ a \in Dynamic => addr_gen[a] = W.gen[a]
               /\ W.alive[a] => EnsureGen(a) = W.gen[a]
               /\ W.alive[a] /\ <<a, W.gen[a]>> \in DOMAIN meta => meta[<<a, W.gen[a]>>]
               /\ W.cnt[a] > 0 => addr_gen[a] = W.gen[a] /\ <<a, W.gen[a]>> \in DOMAIN meta
    BY DEF GensAt
  <1> QED BY <1>1, <1>2 DEF GensAt

LEMMA InitDoes ==
  ASSUME GraphTypeOK, NEW a \in Locks, OnInit(a)
  PROVE  /\ addr_gen'[a] = addr_gen[a] + 1 /\ addr_gen[a] \in Nat
         /\ EnsureGen(a)' = addr_gen[a] + 1
         /\ \A l \in Locks \ {a} : addr_gen'[l] = addr_gen[l] /\ EnsureGen(l)' = EnsureGen(l)
         /\ \A id : id \in DOMAIN meta' <=> id \in DOMAIN meta \/ id = <<a, addr_gen[a] + 1>>
         /\ \A id \in DOMAIN meta : id # <<a, addr_gen[a] + 1>> => meta'[id] = meta[id]
         /\ meta'[<<a, addr_gen[a] + 1>>]
  <1>1. addr_gen \in [Locks -> Nat]
    BY DEF GraphTypeOK
  <1>2. /\ addr_gen'[a] = addr_gen[a] + 1 /\ addr_gen[a] \in Nat
        /\ \A l \in Locks \ {a} : addr_gen'[l] = addr_gen[l]
    BY <1>1 DEF OnInit
  <1>3. EnsureGen(a)' = addr_gen[a] + 1
    BY <1>2 DEF EnsureGen
  <1>4. \A l \in Locks \ {a} : EnsureGen(l)' = EnsureGen(l)
    BY <1>2 DEF EnsureGen
  <1>5. PICK c : c = <<a, addr_gen[a] + 1>>
    OBVIOUS
  <1>6. meta' = [id \in DOMAIN meta \cup {c} |-> IF id = c THEN TRUE ELSE meta[id]]
    BY <1>5 DEF OnInit
  <1>7. /\ \A id : id \in DOMAIN meta' <=> id \in DOMAIN meta \/ id = c
        /\ \A id \in DOMAIN meta : id # c => meta'[id] = meta[id]
        /\ meta'[c]
    BY <1>6
  <1> QED BY <1>2, <1>3, <1>4, <1>5, <1>7

LEMMA DestroyDoes ==
  ASSUME GraphTypeOK, NEW a \in Locks, OnDestroy(a)
  PROVE  /\ addr_gen' = addr_gen /\ stacks' = stacks
         /\ \A l \in Locks : EnsureGen(l)' = EnsureGen(l)
         /\ DOMAIN meta' = DOMAIN meta
         /\ \A id \in DOMAIN meta : id # <<a, addr_gen[a]>> => meta'[id] = meta[id]
         /\ \A key : key \in DOMAIN edges' => key \in DOMAIN edges /\ edges'[key] = edges[key]
         /\ addr_gen[a] # 0 => \A key : key \in DOMAIN edges' <=>
              /\ key \in DOMAIN edges
              /\ key[1] # <<a, addr_gen[a]>> /\ key[2] # <<a, addr_gen[a]>>
  <1>1. addr_gen' = addr_gen /\ stacks' = stacks
    BY DEF OnDestroy
  <1>2. \A l \in Locks : EnsureGen(l)' = EnsureGen(l)
    BY <1>1 DEF EnsureGen
  <1>3. CASE addr_gen[a] = 0
    <2>1. meta' = meta /\ edges' = edges
      BY <1>3 DEF OnDestroy
    <2> QED BY <1>1, <1>2, <1>3, <2>1
  <1>4. CASE addr_gen[a] # 0
    <2>1. PICK id : id = <<a, addr_gen[a]>>
      OBVIOUS
    <2>2. /\ meta' = [i \in DOMAIN meta |-> meta[i] /\ i # id]
          /\ edges' = [key \in Kept(id) |-> edges[key]]
      BY <1>4, <2>1 DEF OnDestroy
    <2>3. \A i \in DOMAIN meta : i # id => meta'[i] = meta[i]
      BY <2>2 DEF GraphTypeOK
    <2>4. /\ DOMAIN meta' = DOMAIN meta
          /\ DOMAIN edges' = Kept(id) /\ \A key \in Kept(id) : edges'[key] = edges[key]
      BY <2>2
    <2>5. /\ \A key : key \in DOMAIN edges' <=>
                        key \in DOMAIN edges /\ key[1] # id /\ key[2] # id
          /\ \A key : key \in DOMAIN edges' => key \in DOMAIN edges /\ edges'[key] = edges[key]
      BY <2>4 DEF Kept
    <2> QED BY <1>1, <1>2, <2>1, <2>3, <2>4, <2>5
  <1> QED BY <1>3, <1>4

LEMMA InitGens ==
  ASSUME GraphTypeOK, NEW a \in Locks, OnInit(a), NEW u, NEW V, NEW W, AlikeBut(V, W, a),
         GensAt(u, V),
         u \in Users[a] => /\ W.gen[a] = V.gen[a] + 1 /\ W.alive[a] /\ W.cnt[a] = 0
                           /\ a \in Dynamic
  PROVE  GensAt(u, W)'
  <1>1. ASSUME NEW l \in Locks, u \in Users[l]
        PROVE  /\ l \in Dynamic => addr_gen'[l] = W.gen[l]
               /\ W.alive[l] => EnsureGen(l)' = W.gen[l]
               /\ W.alive[l] /\ <<l, W.gen[l]>> \in DOMAIN meta' => meta'[<<l, W.gen[l]>>]
               /\ W.cnt[l] > 0 => addr_gen'[l] = W.gen[l] /\ <<l, W.gen[l]>> \in DOMAIN meta'
    <2>1. CASE l = a
      <3>1. addr_gen[a] = V.gen[a]
        BY <1>1, <2>1 DEF GensAt
      <3> QED BY <1>1, <2>1, <3>1, InitDoes
    <2>2. CASE l # a
      <3>1. \A g : /\ <<l, g>> \in DOMAIN meta' <=> <<l, g>> \in DOMAIN meta
                   /\ <<l, g>> \in DOMAIN meta => meta'[<<l, g>>] = meta[<<l, g>>]
        BY <2>2, InitDoes
      <3>2. /\ W.cnt[l] = V.cnt[l] /\ W.gen[l] = V.gen[l] /\ W.alive[l] = V.alive[l]
            /\ addr_gen'[l] = addr_gen[l] /\ EnsureGen(l)' = EnsureGen(l)
        <4>1. \A m \in Locks \ {a} : addr_gen'[m] = addr_gen[m] /\ EnsureGen(m)' = EnsureGen(m)
          BY InitDoes
        <4> QED BY <2>2, <4>1 DEF AlikeBut
      <3>3. /\ l \in Dynamic => addr_gen[l] = V.gen[l]
            /\ V.alive[l] => EnsureGen(l) = V.gen[l]
            /\ V.alive[l] /\ <<l, V.gen[l]>> \in DOMAIN meta => meta[<<l, V.gen[l]>>]
            /\ V.cnt[l] > 0 => addr_gen[l] = V.gen[l] /\ <<l, V.gen[l]>> \in DOMAIN meta
        BY <1>1 DEF GensAt
      <3> QED BY <3>1, <3>2, <3>3
    <2> QED BY <2>1, <2>2
  <1> QED BY <1>1 DEF GensAt

LEMMA DestroyGens ==
  ASSUME GraphTypeOK, NEW a \in Locks, OnDestroy(a), NEW u, NEW V, NEW W, AlikeBut(V, W, a),
         GensAt(u, V),
         u \in Users[a] => W.gen[a] = V.gen[a] /\ ~W.alive[a] /\ W.cnt[a] = 0
  PROVE  GensAt(u, W)'
  <1>1. ASSUME NEW l \in Locks, u \in Users[l]
        PROVE  /\ l \in Dynamic => addr_gen'[l] = W.gen[l]
               /\ W.alive[l] => EnsureGen(l)' = W.gen[l]
               /\ W.alive[l] /\ <<l, W.gen[l]>> \in DOMAIN meta' => meta'[<<l, W.gen[l]>>]
               /\ W.cnt[l] > 0 => addr_gen'[l] = W.gen[l] /\ <<l, W.gen[l]>> \in DOMAIN meta'
    <2>1. CASE l = a
      BY <1>1, <2>1, DestroyDoes DEF GensAt
    <2>2. CASE l # a
      <3>1. \A g : /\ <<l, g>> \in DOMAIN meta' <=> <<l, g>> \in DOMAIN meta
                   /\ <<l, g>> \in DOMAIN meta => meta'[<<l, g>>] = meta[<<l, g>>]
        BY <2>2, DestroyDoes
      <3>2. /\ W.cnt[l] = V.cnt[l] /\ W.gen[l] = V.gen[l] /\ W.alive[l] = V.alive[l]
            /\ addr_gen'[l] = addr_gen[l] /\ EnsureGen(l)' = EnsureGen(l)
        BY <2>2, DestroyDoes DEF AlikeBut
      <3>3. /\ l \in Dynamic => addr_gen[l] = V.gen[l]
            /\ V.alive[l] => EnsureGen(l) = V.gen[l]
            /\ V.alive[l] /\ <<l, V.gen[l]>> \in DOMAIN meta => meta[<<l, V.gen[l]>>]
            /\ V.cnt[l] > 0 => addr_gen[l] = V.gen[l] /\ <<l, V.gen[l]>> \in DOMAIN meta
        BY <1>1 DEF GensAt
      <3> QED BY <3>1, <3>2, <3>3
    <2> QED BY <2>1, <2>2
  <1> QED BY <1>1 DEF GensAt

LEMMA ReplayCases ==
  ASSUME NEW t \in Threads, NEW e \in Event, Replay(t, e)
  PROVE  /\ e.op \in EvOp /\ e.addr \in Locks /\ e.kind \in LockKind
         /\ e.op = "INIT" => OnInit(e.addr)
         /\ e.op = "DESTROY" => OnDestroy(e.addr)
         /\ Takes(e) => OnAcquire(t, e.addr, e.kind)
         /\ e.op = "LOCK_POST" /\ ~e.ok => UNCHANGED graph
         /\ e.op = "TRYLOCK_POST" /\ ~e.ok => OnAcquireAttempt(t, e.addr, e.kind)
         /\ e.op = "UNLOCK" => OnUnlock(t, e.addr)
         /\ e.op = "COND_WAIT_POST" => OnCondPost(t, e.addr)
  BY DEF Replay, Event, EvOp, Takes

\* Everything but the lock itself is as before.
LEMMA ReplayGens ==
  ASSUME GraphTypeOK, NEW t \in Threads, NEW e \in Event, NEW V \in View, ViewOk(t, V),
         Fits(t, V, e), GensAt(t, V), Replay(t, e)
  PROVE  GensAt(t, After(V, e))'
  <1> DEFINE a == e.addr
  <1>1. PICK W : W = After(V, e)
    OBVIOUS
  <1>2. /\ W \in View /\ AlikeBut(V, W, a) /\ a \in Locks
        /\ W.cnt[a] = CntAfter(V, e) /\ W.gen[a] = GenAfter(V, e)
        /\ W.alive[a] = AliveAfter(V, e)
    BY <1>1, AfterIs, ReplayCases DEF Fits
  <1>3. t \in Users[a]
    BY DEF Fits
  <1>4. CASE e.op = "INIT"
    <2>1. W.gen[a] = V.gen[a] + 1 /\ W.alive[a] /\ W.cnt[a] = 0 /\ a \in Dynamic
      BY <1>2, <1>4 DEF Fits, CntAfter, GenAfter, AliveAfter, Takes
    <2>2. OnInit(a)
      BY <1>4, ReplayCases
    <2> QED BY <1>1, <1>2, <2>1, <2>2, InitGens
  <1>5. CASE e.op = "DESTROY"
    <2>1. W.gen[a] = V.gen[a] /\ ~W.alive[a] /\ W.cnt[a] = 0
      BY <1>2, <1>5 DEF Fits, CntAfter, GenAfter, AliveAfter, Takes
    <2>2. OnDestroy(a)
      BY <1>5, ReplayCases
    <2> QED BY <1>1, <1>2, <2>1, <2>2, DestroyGens
  <1>6. CASE e.op \in {"LOCK_POST", "TRYLOCK_POST", "COND_WAIT_POST"}
    <2>1. W.gen[a] = V.gen[a] /\ W.alive[a] /\ V.alive[a]
      BY <1>2, <1>6 DEF Fits, GenAfter, AliveAfter
    <2>2. CASE Touch(a)
      BY <1>1, <1>2, <2>1, <2>2, TouchGens
    <2>3. CASE UNCHANGED graph /\ ~Takes(e)
      <3>1. W.cnt[a] = V.cnt[a]
        BY <1>2, <1>6, <2>3 DEF CntAfter
      <3>2. GensAt(t, W)
        <4>1. W.cnt[a] > 0 => addr_gen[a] = V.gen[a] /\ <<a, V.gen[a]>> \in DOMAIN meta
          BY <1>2, <1>3, <3>1 DEF GensAt
        <4> QED BY <1>2, <2>1, <4>1, GensAlike
      <3> QED BY <1>1, <2>3, <3>2 DEF graph, GensAt, EnsureGen
    <2> QED BY <1>6, <2>2, <2>3, ReplayCases
            DEF Takes, OnAcquire, Acquire, OnAcquireAttempt, OnCondPost
  <1>7. CASE e.op = "UNLOCK"
    <2>1. /\ W.gen[a] = V.gen[a] /\ W.alive[a] = V.alive[a] /\ V.cnt[a] >= 1
          /\ OnUnlock(t, a)
      BY <1>2, <1>7, ReplayCases DEF Fits, GenAfter, AliveAfter, View
    <2>2. addr_gen[a] = V.gen[a] /\ <<a, V.gen[a]>> \in DOMAIN meta
      BY <1>2, <1>3, <2>1 DEF GensAt, View
    <2>3. GensAt(t, W)
      BY <1>2, <2>1, <2>2, GensAlike
    <2> QED BY <1>1, <2>1, <2>3 DEF OnUnlock, GensAt, EnsureGen
  <1> QED BY <1>4, <1>5, <1>6, <1>7, ReplayCases DEF EvOp

\* ... and for the other threads, which do not use the lock if it is dynamic.
LEMMA ReplayOthersGens ==
  ASSUME GraphTypeOK, OneUser, NEW t \in Threads, NEW e \in Event, NEW V \in View,
         Fits(t, V, e), Replay(t, e), NEW u \in Threads \ {t}, NEW X \in View,
         ViewOk(u, X), GensAt(u, X)
  PROVE  GensAt(u, X)'
  <1> DEFINE a == e.addr
  <1>1. a \in Locks /\ t \in Users[a] /\ AlikeBut(X, X, a)
    BY ReplayCases DEF Fits, AlikeBut
  <1>2. u \in Users[a] => a \notin Dynamic /\ X.alive[a]
    BY <1>1 DEF OneUser, ViewOk
  <1>3. CASE e.op = "INIT"
    <2>1. OnInit(a) /\ a \in Dynamic
      BY <1>3, ReplayCases DEF Fits
    <2> QED BY <1>1, <1>2, <2>1, InitGens
  <1>4. CASE e.op = "DESTROY"
    <2>1. OnDestroy(a) /\ a \in Dynamic
      BY <1>4, ReplayCases DEF Fits
    <2> QED BY <1>1, <1>2, <2>1, DestroyGens
  <1>5. CASE Touch(a)
    BY <1>1, <1>2, <1>5, TouchGens
  <1>6. CASE UNCHANGED <<addr_gen, meta>>
    BY <1>6 DEF GensAt, EnsureGen
  <1>7. \/ e.op = "INIT" \/ e.op = "DESTROY" \/ Touch(a) \/ UNCHANGED <<addr_gen, meta>>
    BY ReplayCases DEF EvOp, Takes, OnAcquire, Acquire, OnAcquireAttempt, OnCondPost,
                       OnUnlock, graph
  <1> QED BY <1>3, <1>4, <1>5, <1>6, <1>7

\* A view with one hold of lock a less.
Less(V, a) == [cnt |-> [V.cnt EXCEPT ![a] = V.cnt[a] - 1], kind |-> V.kind,
               gen |-> V.gen, alive |-> V.alive]

LEMMA LessIs ==
  ASSUME NEW V \in View, NEW a \in Locks, V.cnt[a] >= 1
  PROVE  /\ Less(V, a) \in View /\ AlikeBut(V, Less(V, a), a)
         /\ Less(V, a).cnt[a] = V.cnt[a] - 1 /\ Less(V, a).kind[a] = V.kind[a]
         /\ Less(V, a).gen[a] = V.gen[a]
  <1>1. V.cnt \in [Locks -> Nat] /\ V.cnt[a] \in Nat
    BY DEF View
  <1>2. PICK c \in Nat : c = V.cnt[a] - 1
    BY <1>1
  <1>3. PICK f : f = [V.cnt EXCEPT ![a] = c]
    OBVIOUS
  <1>4. f \in [Locks -> Nat] /\ f[a] = c /\ \A h \in Locks \ {a} : f[h] = V.cnt[h]
    BY <1>1, <1>2, <1>3
  <1>5. PICK W : W = Less(V, a)
    OBVIOUS
  <1>6. /\ W = [cnt |-> f, kind |-> V.kind, gen |-> V.gen, alive |-> V.alive]
        /\ W.cnt = f /\ W.kind = V.kind /\ W.gen = V.gen /\ W.alive = V.alive
    BY <1>2, <1>3, <1>5 DEF Less
  <1>7. W \in View
    BY <1>4, <1>6 DEF View
  <1> QED BY <1>2, <1>4, <1>5, <1>6, <1>7 DEF AlikeBut

\* The identity under which the analyzer knows a lock that is there.
LEMMA IdAt ==
  ASSUME NEW t, NEW V, NEW a \in Locks, t \in Users[a], GensAt(t, V)
  PROVE  /\ V.alive[a] => Id(a) = <<a, V.gen[a]>>
         /\ V.cnt[a] > 0 => addr_gen[a] = V.gen[a]
  BY DEF GensAt, Id

LEMMA UnlockedNodes ==
  ASSUME NEW t \in Threads, NEW V \in View, NEW W \in View, NEW a \in Locks, ViewOk(t, V),
         t \in Users[a], Analyzed(t, V), AlikeBut(V, W, a), V.cnt[a] >= 1,
         W.cnt[a] = V.cnt[a] - 1, W.gen[a] = V.gen[a], W.kind[a] = V.kind[a]
  PROVE  Unlocked(t, a) = NodesOf(W)
  <1>1. V.cnt[a] > 0 /\ V.gen[a] \in Nat
    BY DEF View
  <1>2. addr_gen[a] = V.gen[a] /\ V.gen[a] >= 1
    BY <1>1 DEF Analyzed, GensAt, ViewOk
  <1>3. addr_gen[a] # 0
    BY <1>1, <1>2
  <1> QED BY <1>2, <1>3, PopNodes DEF Unlocked, Analyzed

LEMMA AcquiredNodes ==
  ASSUME GraphTypeOK, NEW t \in Threads, NEW V \in View, NEW W \in View, NEW a \in Locks,
         NEW k, NEW stk, stk = NodesOf(V), AlikeBut(V, W, a), Id(a) = <<a, V.gen[a]>>,
         W.cnt[a] = V.cnt[a] + 1, W.gen[a] = V.gen[a],
         W.kind[a] = IF V.cnt[a] = 0 THEN k ELSE V.kind[a],
         Acquire(t, stk, a, k)
  PROVE  stacks'[t] = NodesOf(W) /\ \A u \in Threads \ {t} : stacks'[u] = stacks[u]
  <1>1. Push(stk, Id(a), k) = NodesOf(W)
    BY PushNodes
  <1>2. stacks' = [stacks EXCEPT ![t] = NodesOf(W)]
    BY <1>1 DEF Acquire
  <1> QED BY <1>2 DEF GraphTypeOK

\* The stack of the thread is that of the next view.
LEMMA ReplayStacks ==
  ASSUME GraphTypeOK, NEW t \in Threads, NEW e \in Event, NEW V \in View, ViewOk(t, V),
         Fits(t, V, e), Analyzed(t, V), Replay(t, e)
  PROVE  /\ stacks'[t] = NodesOf(After(V, e))
         /\ \A u \in Threads \ {t} : stacks'[u] = stacks[u]
  <1> DEFINE a == e.addr
  <1>1. PICK W : W = After(V, e)
    OBVIOUS
  <1>2. /\ W \in View /\ AlikeBut(V, W, a) /\ a \in Locks
        /\ W.cnt[a] = CntAfter(V, e) /\ W.gen[a] = GenAfter(V, e)
        /\ W.kind[a] = KindAfter(V, e)
    BY <1>1, AfterIs, ReplayCases DEF Fits
  <1>3. /\ t \in Users[a] /\ stacks[t] = NodesOf(V) /\ GensAt(t, V)
        /\ V.cnt[a] \in Nat /\ stacks \in [Threads -> SUBSET LockNode]
    BY <1>2 DEF Fits, Analyzed, View, GraphTypeOK
  <1>4. CASE e.op \in {"INIT", "DESTROY"}
    <2>1. V.cnt[a] = 0 /\ W.cnt[a] = 0
      BY <1>2, <1>4 DEF Fits, CntAfter, Takes
    <2>2. NodesOf(W) = NodesOf(V)
      BY <1>2, <2>1, NoNode
    <2>3. stacks' = stacks
      BY <1>4, ReplayCases DEF OnInit, OnDestroy
    <2> QED BY <1>1, <1>3, <2>2, <2>3
  <1>5. CASE Takes(e)
    <2>1. /\ V.alive[a] /\ W.cnt[a] = V.cnt[a] + 1 /\ W.gen[a] = V.gen[a]
          /\ W.kind[a] = IF V.cnt[a] = 0 THEN e.kind ELSE V.kind[a]
      BY <1>2, <1>5 DEF Fits, CntAfter, GenAfter, KindAfter, Takes
    <2>2. Id(a) = <<a, V.gen[a]>>
      BY <1>2, <1>3, <2>1 DEF GensAt, Id
    <2>3. Acquire(t, stacks[t], a, e.kind)
      BY <1>5, ReplayCases DEF OnAcquire
    <2> QED BY <1>1, <1>2, <1>3, <2>1, <2>2, <2>3, AcquiredNodes
  <1>6. CASE ~Takes(e) /\ e.op \in {"LOCK_POST", "TRYLOCK_POST"}
    <2>1. /\ W.cnt[a] = V.cnt[a] /\ W.gen[a] = V.gen[a] /\ W.kind[a] = V.kind[a]
      BY <1>2, <1>6 DEF CntAfter, GenAfter, KindAfter
    <2>2. NodesOf(W) = NodesOf(V)
      <3>1. Node(V, a) = Node(W, a)
        BY <2>1 DEF Node
      <3> QED BY <1>2, <2>1, <3>1, SameNodes
    <2>3. stacks' = stacks
      BY <1>6, ReplayCases DEF Takes, OnAcquireAttempt, graph
    <2> QED BY <1>1, <1>3, <2>2, <2>3
  <1>7. CASE e.op = "UNLOCK"
    <2>1. /\ W.cnt[a] = V.cnt[a] - 1 /\ W.gen[a] = V.gen[a] /\ W.kind[a] = V.kind[a]
          /\ V.cnt[a] >= 1
      BY <1>2, <1>7 DEF Fits, CntAfter, GenAfter, KindAfter, Takes
    <2>2. Unlocked(t, a) = NodesOf(W)
      BY <1>2, <1>3, <2>1, UnlockedNodes DEF Analyzed
    <2>3. stacks' = [stacks EXCEPT ![t] = NodesOf(W)]
      BY <1>7, <2>2, ReplayCases DEF OnUnlock
    <2> QED BY <1>1, <1>3, <2>3
  <1>8. CASE e.op = "COND_WAIT_POST"
    <2>1. /\ V.alive[a] /\ V.cnt[a] = 1 /\ W.cnt[a] = 1 /\ W.gen[a] = V.gen[a]
          /\ W.kind[a] = "MUTEX"
      BY <1>2, <1>8 DEF Fits, CntAfter, GenAfter, KindAfter, Takes
    <2>2. PICK U \in View : /\ AlikeBut(V, U, a) /\ U.cnt[a] = 0 /\ U.gen[a] = V.gen[a]
                            /\ U.kind[a] = V.kind[a]
      <3>1. V.cnt[a] >= 1 /\ V.cnt[a] - 1 = 0
        BY <2>1
      <3> QED BY <1>2, <3>1, LessIs
    <2>3. Unlocked(t, a) = NodesOf(U)
      <3>1. V.cnt[a] >= 1 /\ U.cnt[a] = V.cnt[a] - 1
        BY <2>1, <2>2
      <3> QED BY <1>2, <1>3, <2>2, <3>1, UnlockedNodes DEF Analyzed
    <2>4. AlikeBut(U, W, a)
      BY <1>2, <2>2 DEF AlikeBut
    <2>5. Id(a) = <<a, U.gen[a]>>
      <3>1. Id(a) = <<a, V.gen[a]>>
        BY <1>2, <1>3, <2>1, IdAt
      <3> QED BY <2>2, <3>1
    <2>6. Acquire(t, Unlocked(t, a), a, "MUTEX")
      BY <1>8, ReplayCases DEF OnCondPost
    <2>7. /\ W.cnt[a] = U.cnt[a] + 1 /\ W.gen[a] = U.gen[a]
          /\ W.kind[a] = IF U.cnt[a] = 0 THEN "MUTEX" ELSE U.kind[a]
      BY <2>1, <2>2
    <2> QED BY <1>1, <1>2, <2>2, <2>3, <2>4, <2>5, <2>6, <2>7, AcquiredNodes
  <1> QED BY <1>4, <1>5, <1>6, <1>7, <1>8, ReplayCases DEF EvOp
-----------------------------------------------------------------------------
(* The edges an event makes.                                               *)

\* E is the edges with those from the locks of view V to lock l, asked for as k.
Grown(V, l, k, E) ==
  /\ \A key \in DOMAIN edges : key \in DOMAIN E /\ E[key] = edges[key]
  /\ \A h \in Locks \ {l} : V.cnt[h] > 0 => << <<h, V.gen[h]>>, <<l, V.gen[l]>> >> \in DOMAIN E
  /\ \A key \in DOMAIN E \ DOMAIN edges :
       \E h \in Locks \ {l} : /\ V.cnt[h] > 0 /\ key = << <<h, V.gen[h]>>, <<l, V.gen[l]>> >>
                              /\ E[key] = [from_kind |-> V.kind[h], to_kind |-> k]

LEMMA BuildDoes ==
  ASSUME NEW V, NEW l \in Locks, NEW k
  PROVE  Grown(V, l, k, BuildEdgesTo(NodesOf(V), <<l, V.gen[l]>>, k))
  <1> DEFINE id == <<l, V.gen[l]>>
             stk == NodesOf(V)
             E == BuildEdgesTo(stk, id, k)
             Key(h) == << <<h, V.gen[h]>>, id >>
             new == {<<n.id, id>> : n \in Others(stk, id)}
             from(key) == CHOOSE n \in stk : n.id = key[1]
  <1>1. /\ DOMAIN E = DOMAIN edges \cup new
        /\ \A key \in DOMAIN edges : E[key] = edges[key]
        /\ \A key \in new \ DOMAIN edges : E[key] = [from_kind |-> from(key).kind, to_kind |-> k]
    BY DEF BuildEdgesTo
  <1>2. ASSUME NEW h \in Locks \ {l}, V.cnt[h] > 0 PROVE Key(h) \in new
    <2>1. Node(V, h) \in Others(stk, id)
      BY <1>2, OthersNodes
    <2>2. Node(V, h).id = <<h, V.gen[h]>>
      BY DEF Node
    <2> QED BY <2>1, <2>2
  <1>3. ASSUME NEW key \in new
        PROVE  \E h \in Locks \ {l} : V.cnt[h] > 0 /\ key = Key(h) /\ from(key).kind = V.kind[h]
    <2>1. PICK n \in Others(stk, id) : key = <<n.id, id>>
      OBVIOUS
    <2>2. PICK h \in Locks \ {l} : V.cnt[h] > 0 /\ n = Node(V, h)
      BY <2>1, OthersNodes
    <2>3. n.id = <<h, V.gen[h]>> /\ n \in stk
      BY <2>1, <2>2 DEF Node, Others
    <2>4. key[1] = <<h, V.gen[h]>> /\ key = Key(h)
      BY <2>1, <2>3
    <2>5. from(key) \in stk /\ from(key).id = <<h, V.gen[h]>>
      <3>1. \E m \in stk : m.id = key[1]
        BY <2>3, <2>4
      <3>2. from(key) \in stk /\ from(key).id = key[1]
        BY <3>1
      <3> QED BY <2>4, <3>2
    <2>6. from(key) = Node(V, h)
      <3> HIDE DEF from
      <3>1. from(key).id[1] = h
        BY <2>5
      <3> QED BY <2>5, <3>1, NodeOfLock
    <2>7. from(key).kind = V.kind[h]
      <3> HIDE DEF from
      <3> QED BY <2>6 DEF Node
    <2> QED BY <2>2, <2>4, <2>7
  <1> HIDE DEF new, E, stk, from
  <1>4. \A key \in DOMAIN edges : key \in DOMAIN E /\ E[key] = edges[key]
    BY <1>1
  <1>5. \A h \in Locks \ {l} : V.cnt[h] > 0 => Key(h) \in DOMAIN E
    BY <1>1, <1>2
  <1>6. ASSUME NEW key \in DOMAIN E \ DOMAIN edges
        PROVE  \E h \in Locks \ {l} : /\ V.cnt[h] > 0 /\ key = Key(h)
                                      /\ E[key] = [from_kind |-> V.kind[h], to_kind |-> k]
    <2>1. key \in new /\ E[key] = [from_kind |-> from(key).kind, to_kind |-> k]
      BY <1>1
    <2>2. PICK h \in Locks \ {l} : V.cnt[h] > 0 /\ key = Key(h) /\ from(key).kind = V.kind[h]
      BY <1>3, <2>1
    <2> QED BY <2>1, <2>2
  <1> HIDE DEF Key
  <1> QED BY <1>4, <1>5, <1>6 DEF E, stk, Grown, Key

\* The edges after an event that makes those from the locks in M.
EdgesGrow(V, e) ==
  /\ \A key \in DOMAIN edges : key \in DOMAIN edges' /\ edges'[key] = edges[key]
  /\ \A h \in Locks : Makes(V, e, h) => EdgeOf(V, e, h) \in DOMAIN edges'
  /\ \A key \in DOMAIN edges' \ DOMAIN edges :
       \E h \in Locks : /\ Makes(V, e, h) /\ key = EdgeOf(V, e, h)
                        /\ edges'[key] = KindsOf(V, e, h)

LEMMA BuildGrows ==
  ASSUME NEW V, NEW e \in Event, NEW U, e.addr \in Locks, Looks(V, e),
         AlikeBut(V, U, e.addr), U.gen[e.addr] = V.gen[e.addr],
         edges' = BuildEdgesTo(NodesOf(U), <<e.addr, V.gen[e.addr]>>, e.kind)
  PROVE  EdgesGrow(V, e)
  <1> DEFINE l == e.addr
  <1>0. edges' = BuildEdgesTo(NodesOf(U), <<l, U.gen[l]>>, e.kind)
    OBVIOUS
  <1>1. Grown(U, l, e.kind, edges')
    BY <1>0, BuildDoes
  <1>2. ASSUME NEW h \in Locks, Makes(V, e, h) PROVE EdgeOf(V, e, h) \in DOMAIN edges'
    <2>1. h \in Locks \ {l} /\ U.cnt[h] > 0 /\ U.gen[h] = V.gen[h]
      BY <1>2 DEF Makes, AlikeBut
    <2> QED BY <1>1, <2>1 DEF EdgeOf, Grown
  <1>3. ASSUME NEW key \in DOMAIN edges' \ DOMAIN edges
        PROVE  \E h \in Locks : /\ Makes(V, e, h) /\ key = EdgeOf(V, e, h)
                                /\ edges'[key] = KindsOf(V, e, h)
    <2>1. PICK h \in Locks \ {l} :
               /\ U.cnt[h] > 0 /\ key = << <<h, U.gen[h]>>, <<l, U.gen[l]>> >>
               /\ edges'[key] = [from_kind |-> U.kind[h], to_kind |-> e.kind]
      BY <1>1 DEF Grown
    <2>2. V.cnt[h] > 0 /\ V.gen[h] = U.gen[h] /\ V.kind[h] = U.kind[h]
      BY <2>1 DEF AlikeBut
    <2>3. Makes(V, e, h)
      BY <2>1, <2>2 DEF Makes
    <2> QED BY <2>1, <2>2, <2>3 DEF EdgeOf, KindsOf
  <1> QED BY <1>1, <1>2, <1>3 DEF EdgesGrow, Grown

LEMMA ReplayEdges ==
  ASSUME GraphTypeOK, NEW t \in Threads, NEW e \in Event, NEW V \in View, ViewOk(t, V),
         Fits(t, V, e), Analyzed(t, V), Replay(t, e), e.op # "DESTROY"
  PROVE  EdgesGrow(V, e)
  <1> DEFINE a == e.addr
             id == <<a, V.gen[a]>>
  <1>1. a \in Locks /\ t \in Users[a] /\ GensAt(t, V) /\ stacks[t] = NodesOf(V)
        /\ AlikeBut(V, V, a) /\ V.cnt[a] \in Nat
    BY ReplayCases DEF Fits, Analyzed, AlikeBut, View
  <1>2. V.alive[a] => Id(a) = id
    BY <1>1 DEF GensAt, Id
  <1>3. Holding(NodesOf(V), id) <=> V.cnt[a] > 0
    BY <1>1, NodeOfLock
  <1>4. CASE edges' = edges /\ ~Looks(V, e)
    BY <1>4 DEF EdgesGrow, Makes
  <1>5. CASE Takes(e)
    <2>1. /\ edges' = (IF Holding(NodesOf(V), id) THEN edges
                       ELSE BuildEdgesTo(NodesOf(V), id, e.kind))
      BY <1>1, <1>2, <1>5, ReplayCases DEF OnAcquire, Acquire, Fits, Takes
    <2>2. CASE V.cnt[a] > 0
      BY <1>3, <1>4, <1>5, <2>1, <2>2 DEF Looks, Takes
    <2>3. CASE V.cnt[a] = 0
      <3>1. edges' = BuildEdgesTo(NodesOf(V), id, e.kind) /\ Looks(V, e)
        BY <1>3, <1>5, <2>1, <2>3 DEF Looks
      <3> QED BY <1>1, <3>1, BuildGrows
    <2> QED BY <1>1, <2>2, <2>3
  <1>6. CASE e.op = "TRYLOCK_POST" /\ ~e.ok
    <2>1. edges' = BuildEdgesTo(NodesOf(V), id, e.kind) /\ Looks(V, e)
      BY <1>1, <1>2, <1>6, ReplayCases DEF OnAcquireAttempt, Fits, Looks
    <2> QED BY <1>1, <2>1, BuildGrows
  <1>7. CASE e.op = "COND_WAIT_POST"
    <2>1. V.alive[a] /\ V.cnt[a] = 1 /\ e.kind = "MUTEX" /\ V.cnt[a] >= 1 /\ V.cnt[a] - 1 = 0
      BY <1>7 DEF Fits
    <2>2. PICK U \in View : /\ AlikeBut(V, U, a) /\ U.cnt[a] = 0 /\ U.gen[a] = V.gen[a]
                            /\ U.kind[a] = V.kind[a]
      BY <1>1, <2>1, LessIs
    <2>3. Unlocked(t, a) = NodesOf(U)
      <3>1. U.cnt[a] = V.cnt[a] - 1
        BY <2>1, <2>2
      <3> QED BY <1>1, <2>1, <2>2, <3>1, UnlockedNodes
    <2>4. ~Holding(NodesOf(U), id)
      BY <1>1, <2>2, NodeOfLock
    <2>5. edges' = BuildEdgesTo(NodesOf(U), id, e.kind) /\ Looks(V, e)
      BY <1>2, <1>7, <2>1, <2>3, <2>4, ReplayCases DEF OnCondPost, Acquire, Looks
    <2> QED BY <1>1, <2>2, <2>5, BuildGrows
  <1>8. \/ edges' = edges /\ ~Looks(V, e)
        \/ Takes(e)
        \/ (e.op = "TRYLOCK_POST" /\ ~e.ok)
        \/ e.op = "COND_WAIT_POST"
    BY ReplayCases DEF EvOp, Takes, Looks, OnInit, OnUnlock, graph
  <1> QED BY <1>4, <1>5, <1>6, <1>7, <1>8
-----------------------------------------------------------------------------
(* The program.                                                            *)

\* The lock of this identity is there.
Current(id) == exists[id[1]] = "live" /\ id[2] = life[id[1]]

\* What is known of a call.
Asking(t, l) ==
  /\ arg[t].op \in {"LOCK_POST", "TRYLOCK_POST"} /\ arg[t].ok
  /\ arg[t].kind \in Kinds(l) /\ exists[l] = "live"
Got(t, l) ==
  /\ arg[t].op \in {"LOCK_POST", "TRYLOCK_POST"} /\ arg[t].kind \in Kinds(l)
  /\ exists[l] = "live"
  /\ arg[t].ok => holds[t][l] > 0 /\ HeldKind(l) = arg[t].kind
Woken(t, l) ==
  /\ arg[t].op = "COND_WAIT_POST" /\ arg[t].kind = "MUTEX" /\ exists[l] = "live"
  /\ MutexKinds(l) # {} /\ holds[t][l] = 1
Made(t, l) ==
  /\ arg[t].op = "INIT" /\ l \in Dynamic /\ exists[l] = "changing" /\ life[l] > 0
  /\ \A s \in asked : s.from # <<l, life[l]>> /\ s.to # <<l, life[l]>>
Waiting(t, l) ==
  /\ arg[t].op = "COND_WAIT_POST" /\ arg[t].kind = "MUTEX" /\ exists[l] = "live"
  /\ MutexKinds(l) # {} /\ holds[t][l] = 0
CallInv(t) ==
  LET l == arg[t].addr IN
  /\ pc[t] # "idle" => l \in Locks /\ t \in Users[l]
  /\ pc[t] = "asking" => Asking(t, l)
  /\ pc[t] = "posting" => Got(t, l) \/ Woken(t, l) \/ Made(t, l)
  /\ pc[t] = "unlocking" => arg[t].op = "UNLOCK" /\ holds[t][l] > 0
  /\ pc[t] = "waiting" => Waiting(t, l)
  /\ pc[t] = "destroying" => arg[t].op = "DESTROY" /\ l \in Dynamic /\ exists[l] = "changing"

HoldsInv == \A t \in Threads, l \in Locks : holds[t][l] > 0 => exists[l] = "live" /\ t \in Users[l]
StaticInv == \A l \in Locks \ Dynamic : exists[l] = "live" /\ life[l] = 1
AskedInv == \A s \in asked : s.from[2] <= life[s.from[1]] /\ s.to[2] <= life[s.to[1]]
ProgramInv == (\A t \in Threads : CallInv(t)) /\ HoldsInv /\ StaticInv /\ AskedInv

\* Only thread t moves.
Alone(t) ==
  \A u \in Threads \ {t} : /\ pc'[u] = pc[u] /\ arg'[u] = arg[u]
                           /\ \A l \in Locks : holds'[u][l] = holds[u][l]
\* What a step of thread t leaves to the others.
Aside(t) ==
  /\ Alone(t)
  /\ \A u \in Threads, l \in Locks :
       holds[u][l] > 0 /\ holds'[u][l] > 0 => HeldKind(l)' = HeldKind(l)
  /\ \A l \in Locks : \/ life'[l] = life[l] /\ exists'[l] = exists[l]
                      \/ l \in Dynamic /\ t \in Users[l] /\ life'[l] >= life[l]
  /\ asked \subseteq asked' /\ \A s \in asked' \ asked : Current(s.from) /\ Current(s.to)

LEMMA KeptKinds ==
  ASSUME UNCHANGED reading, NEW l
  PROVE  HeldKind(l)' = HeldKind(l)
  BY DEF HeldKind

\* A lock is known under one kind for as long as anyone holds it.
LEMMA TakeKinds ==
  ASSUME TypeOK, NEW t \in Threads, NEW l \in Locks, NEW k \in Kinds(l), Take(t, l, k),
         Grants(t, l, k)
  PROVE  /\ HeldKind(l)' = k
         /\ \A u \in Threads, m \in Locks : holds[u][m] > 0 => HeldKind(m)' = HeldKind(m)
  <1>1. /\ reading'[l] = (k = "RWLOCK_RD")
        /\ \A m \in Locks \ {l} : reading'[m] = reading[m]
    BY TakeType
  <1>2. HeldKind(l)' = k
    BY <1>1, LockAssumption DEF HeldKind, Kinds, MutexKinds, RwlockKinds, SpinKinds
  <1>3. ASSUME NEW u \in Threads, holds[u][l] > 0 PROVE HeldKind(l)' = HeldKind(l)
    <2>1. holds[u][l] # 0
      BY <1>3 DEF TypeOK
    <2>2. LockType[l] = "recursive" \/ (k = "RWLOCK_RD" /\ reading[l])
      BY <2>1 DEF Grants, Free
    <2> QED BY <1>1, <2>2 DEF HeldKind
  <1>4. \A m \in Locks \ {l} : HeldKind(m)' = HeldKind(m)
    BY <1>1 DEF HeldKind
  <1> QED BY <1>2, <1>3, <1>4

LEMMA DropKinds ==
  ASSUME TypeOK, NEW t \in Threads, NEW l \in Locks, holds[t][l] > 0, Drop(t, l),
         NEW u \in Threads, NEW m \in Locks, holds'[u][m] > 0
  PROVE  HeldKind(m)' = HeldKind(m)
  <1>1. /\ reading'[l] = (reading[l] /\ \E w \in Threads : holds'[w][l] > 0)
        /\ \A h \in Locks \ {l} : reading'[h] = reading[h]
    BY DropType
  <1>2. reading'[m] <=> reading[m]
    BY <1>1
  <1> QED BY <1>2 DEF HeldKind

\* The sights of thread t.
LEMMA SeenCurrent ==
  ASSUME ProgramInv, NEW t \in Threads, NEW l \in Locks, exists[l] = "live", NEW k,
         NEW got, NEW s \in Seen(t, l, k, got)
  PROVE  Current(s.from) /\ Current(s.to)
  <1>1. PICK h \in Held(t) \ {l} : s.from = <<h, life[h]>> /\ s.to = <<l, life[l]>>
    BY DEF Seen
  <1>2. exists[h] = "live"
    BY <1>1 DEF Held, ProgramInv, HoldsInv
  <1> QED BY <1>1, <1>2 DEF Current

\* Another thread's call goes on undisturbed.
LEMMA AsideCall ==
  ASSUME TypeInv, ProgramInv, OneUser, NEW t \in Threads, Aside(t), NEW u \in Threads \ {t}
  PROVE  CallInv(u)'
  <1> DEFINE l == arg[u].addr
  <1>1. CallInv(u) /\ pc'[u] = pc[u] /\ arg'[u] = arg[u]
        /\ \A m \in Locks : holds'[u][m] = holds[u][m]
    BY DEF Aside, Alone, ProgramInv
  <1>2. CASE pc[u] = "idle"
    BY <1>1, <1>2 DEF CallInv
  <1>3. CASE pc[u] # "idle"
    <2>1. l \in Locks /\ u \in Users[l]
      BY <1>1, <1>3 DEF CallInv
    <2>2. life'[l] = life[l] /\ exists'[l] = exists[l]
      BY <2>1 DEF Aside, OneUser
    <2>3. holds[u][l] > 0 => HeldKind(l)' = HeldKind(l)
      BY <1>1, <2>1 DEF Aside
    <2>4. exists[l] = "changing" =>
            \A s \in asked' : s \in asked \/ (s.from # <<l, life[l]>> /\ s.to # <<l, life[l]>>)
      BY DEF Aside, Current
    <2>5. Asking(u, l) => Asking(u, l)'
      BY <1>1, <2>2 DEF Asking
    <2>6. Got(u, l) => Got(u, l)'
      BY <1>1, <2>1, <2>2, <2>3 DEF Got
    <2>7. Woken(u, l) => Woken(u, l)'
      BY <1>1, <2>1, <2>2 DEF Woken
    <2>8. Made(u, l) => Made(u, l)'
      BY <1>1, <2>2, <2>4 DEF Made
    <2>9. Waiting(u, l) => Waiting(u, l)'
      BY <1>1, <2>1, <2>2 DEF Waiting
    <2> QED BY <1>1, <2>1, <2>2, <2>5, <2>6, <2>7, <2>8, <2>9 DEF CallInv
  <1> QED BY <1>2, <1>3

\* A step of thread t that does what it should.
Proper(t) ==
  /\ Aside(t) /\ CallInv(t)'
  /\ \A l \in Locks : holds'[t][l] > 0 => exists'[l] = "live" /\ t \in Users[l]

LEMMA ProperProgram ==
  ASSUME TypeInv, TypeInv', ProgramInv, OneUser, NEW t \in Threads, Proper(t)
  PROVE  ProgramInv'
  <1>1. Aside(t)
    BY DEF Proper
  <1>2. \A u \in Threads : CallInv(u)'
    BY <1>1, AsideCall DEF Proper
  <1>3. HoldsInv'
    <2>1. ASSUME NEW u \in Threads, NEW l \in Locks, holds'[u][l] > 0
          PROVE  exists'[l] = "live" /\ u \in Users[l]
      <3>1. CASE u = t
        BY <2>1, <3>1 DEF Proper
      <3>2. CASE u # t
        <4>1. exists[l] = "live" /\ u \in Users[l]
          BY <1>1, <2>1, <3>2 DEF Aside, Alone, ProgramInv, HoldsInv
        <4> QED BY <1>1, <3>2, <4>1 DEF Aside, OneUser
      <3> QED BY <3>1, <3>2
    <2> QED BY <2>1 DEF HoldsInv
  <1>4. StaticInv'
    BY <1>1 DEF Aside, StaticInv, ProgramInv
  <1>5. AskedInv'
    <2>1. \A l \in Locks : life[l] \in Nat /\ life'[l] \in Nat /\ life'[l] >= life[l]
      BY <1>1 DEF Aside, TypeInv, TypeOK
    <2>2. ASSUME NEW s \in asked' PROVE s.from[2] <= life'[s.from[1]] /\ s.to[2] <= life'[s.to[1]]
      <3>1. /\ s.from[1] \in Locks /\ s.to[1] \in Locks
            /\ s.from[2] \in Nat /\ s.to[2] \in Nat
        BY <2>2 DEF TypeInv, TypeOK, Sighting, LockId
      <3>2. CASE s \in asked
        BY <2>1, <3>1, <3>2 DEF ProgramInv, AskedInv
      <3>3. CASE s \notin asked
        BY <1>1, <2>1, <3>1, <3>3 DEF Aside, Current
      <3> QED BY <3>2, <3>3
    <2> QED BY <2>2 DEF AskedInv
  <1> QED BY <1>2, <1>3, <1>4, <1>5 DEF ProgramInv
-----------------------------------------------------------------------------
(* What each step does to the program.                                     *)

LEMMA AskDoes ==
  ASSUME TypeInv, NEW t \in Threads, Ask(t)
  PROVE  /\ Alone(t) /\ pc[t] = "idle" /\ pc'[t] = "asking"
         /\ arg'[t].addr \in Locks /\ t \in Users[arg'[t].addr]
         /\ arg'[t].op \in {"LOCK_POST", "TRYLOCK_POST"} /\ arg'[t].ok
         /\ arg'[t].kind \in Kinds(arg'[t].addr) /\ exists[arg'[t].addr] = "live"
         /\ UNCHANGED <<graph, holds, reading, exists, queue, life, asked>>
  <1>1. PICK l \in Locks : \E k \in Kinds(l), o \in {"LOCK_POST", "TRYLOCK_POST"} :
          exists[l] = "live" /\ Calls(t, l, Ev(o, l, k, TRUE), "asking")
    BY DEF Ask
  <1>2. PICK k \in Kinds(l), o \in {"LOCK_POST", "TRYLOCK_POST"} :
          exists[l] = "live" /\ Calls(t, l, Ev(o, l, k, TRUE), "asking")
    BY <1>1
  <1>3. PICK e \in Event : /\ e = Ev(o, l, k, TRUE) /\ e.addr = l /\ e.op = o /\ e.kind = k
                           /\ e.ok
    <2>1. l \in Locks /\ o \in EvOp /\ k \in LockKind
      BY <1>2, KindTypes DEF EvOp
    <2> HIDE <1>1
    <2>2. Ev(o, l, k, TRUE) \in Event
      BY <2>1, EvType
    <2> QED BY <2>2 DEF Ev
  <1>4. Calls(t, l, e, "asking") /\ "asking" \in Pc /\ TypeOK
    BY <1>2, <1>3 DEF Pc, TypeInv
  <1>5. UNCHANGED <<graph, holds, reading, exists, queue, life, asked>>
    BY DEF Ask
  <1>6. /\ pc[t] = "idle" /\ pc'[t] = "asking" /\ arg'[t] = e /\ t \in Users[l]
        /\ \A u \in Threads \ {t} : pc'[u] = pc[u] /\ arg'[u] = arg[u]
    BY <1>1, <1>4, CallsType
  <1>7. Alone(t)
    BY <1>1, <1>5, <1>6 DEF Alone
  <1> QED BY <1>2, <1>3, <1>4, <1>5, <1>6, <1>7

LEMMA UnlockDoes ==
  ASSUME TypeInv, NEW t \in Threads, Unlock(t)
  PROVE  /\ Alone(t) /\ pc[t] = "idle" /\ pc'[t] = "unlocking"
         /\ arg'[t] \in Event /\ arg'[t].addr \in Locks /\ t \in Users[arg'[t].addr]
         /\ arg'[t].op = "UNLOCK" /\ holds[t][arg'[t].addr] > 0 /\ Log(t, arg'[t])
         /\ UNCHANGED <<graph, holds, reading, exists, life, asked>>
  <1>1. PICK l \in Held(t) :
          /\ Calls(t, l, Ev("UNLOCK", l, HeldKind(l), TRUE), "unlocking")
          /\ Log(t, Ev("UNLOCK", l, HeldKind(l), TRUE))
          /\ UNCHANGED <<graph, holds, reading, exists, life, asked>>
    BY DEF Unlock
  <1>2. l \in Locks /\ holds[t][l] > 0
    BY <1>1 DEF Held
  <1>3. PICK e \in Event : e = Ev("UNLOCK", l, HeldKind(l), TRUE) /\ e.addr = l /\ e.op = "UNLOCK"
    <2>1. "UNLOCK" \in EvOp /\ HeldKind(l) \in LockKind
      BY <1>2, KindTypes DEF EvOp
    <2>2. Ev("UNLOCK", l, HeldKind(l), TRUE) \in Event
      BY <1>2, <2>1, EvType
    <2> QED BY <2>2 DEF Ev
  <1>4. Calls(t, l, e, "unlocking") /\ "unlocking" \in Pc /\ Log(t, e) /\ TypeOK
    BY <1>1, <1>3 DEF Pc, TypeInv
  <1>5. /\ pc[t] = "idle" /\ pc'[t] = "unlocking" /\ arg'[t] = e /\ t \in Users[l]
        /\ \A u \in Threads \ {t} : pc'[u] = pc[u] /\ arg'[u] = arg[u]
    BY <1>2, <1>4, CallsType
  <1>6. Alone(t)
    BY <1>1, <1>5 DEF Alone
  <1> QED BY <1>1, <1>2, <1>3, <1>4, <1>5, <1>6

LEMMA CondWaitDoes ==
  ASSUME TypeInv, NEW t \in Threads, CondWait(t)
  PROVE  /\ Alone(t) /\ pc[t] = "idle" /\ pc'[t] = "waiting"
         /\ arg'[t].addr \in Locks /\ t \in Users[arg'[t].addr]
         /\ arg'[t].op = "COND_WAIT_POST" /\ arg'[t].kind = "MUTEX"
         /\ MutexKinds(arg'[t].addr) # {} /\ holds[t][arg'[t].addr] = 1
         /\ Drop(t, arg'[t].addr)
         /\ UNCHANGED <<graph, exists, queue, life, asked>>
  <1>1. PICK l \in Held(t) :
          /\ MutexKinds(l) # {} /\ holds[t][l] = 1
          /\ Calls(t, l, Ev("COND_WAIT_POST", l, "MUTEX", TRUE), "waiting")
          /\ Drop(t, l)
          /\ UNCHANGED <<graph, exists, queue, life, asked>>
    BY DEF CondWait
  <1>2. l \in Locks /\ holds[t][l] > 0
    BY <1>1 DEF Held
  <1>3. PICK e \in Event : /\ e = Ev("COND_WAIT_POST", l, "MUTEX", TRUE) /\ e.addr = l
                           /\ e.op = "COND_WAIT_POST" /\ e.kind = "MUTEX"
    <2>1. "COND_WAIT_POST" \in EvOp /\ "MUTEX" \in LockKind
      BY DEF EvOp, LockKind
    <2>2. Ev("COND_WAIT_POST", l, "MUTEX", TRUE) \in Event
      BY <1>2, <2>1, EvType
    <2> QED BY <2>2 DEF Ev
  <1>4. Calls(t, l, e, "waiting") /\ "waiting" \in Pc /\ TypeOK
    BY <1>1, <1>3 DEF Pc, TypeInv
  <1>5. /\ pc[t] = "idle" /\ pc'[t] = "waiting" /\ arg'[t] = e /\ t \in Users[l]
        /\ \A u \in Threads \ {t} : pc'[u] = pc[u] /\ arg'[u] = arg[u]
    BY <1>2, <1>4, CallsType
  <1>6. Alone(t)
    BY <1>1, <1>2, <1>4, <1>5, DropType DEF Alone
  <1> QED BY <1>1, <1>2, <1>3, <1>5, <1>6

LEMMA InitLockDoes ==
  ASSUME TypeInv, NEW t \in Threads, InitLock(t)
  PROVE  /\ Alone(t) /\ pc[t] = "idle" /\ pc'[t] = "posting"
         /\ arg'[t].addr \in Dynamic /\ t \in Users[arg'[t].addr] /\ arg'[t].op = "INIT"
         /\ exists[arg'[t].addr] = "absent" /\ exists'[arg'[t].addr] = "changing"
         /\ life'[arg'[t].addr] = life[arg'[t].addr] + 1
         /\ \A m \in Locks \ {arg'[t].addr} : exists'[m] = exists[m] /\ life'[m] = life[m]
         /\ UNCHANGED <<graph, holds, reading, queue, asked>>
  <1>1. PICK l \in Dynamic : \E k \in Kinds(l) \ {"RWLOCK_RD"} :
          /\ exists[l] = "absent" /\ Calls(t, l, Ev("INIT", l, k, TRUE), "posting")
          /\ exists' = [exists EXCEPT ![l] = "changing"]
          /\ life' = [life EXCEPT ![l] = @ + 1]
          /\ UNCHANGED <<graph, holds, reading, queue, asked>>
    BY DEF InitLock
  <1>2. PICK k \in Kinds(l) : Calls(t, l, Ev("INIT", l, k, TRUE), "posting")
    BY <1>1
  <1>3. l \in Locks /\ k \in LockKind /\ "INIT" \in EvOp
    BY <1>1, KindTypes, LockAssumption DEF EvOp
  <1>4. PICK e \in Event : e = Ev("INIT", l, k, TRUE) /\ e.addr = l /\ e.op = "INIT"
    <2>1. Ev("INIT", l, k, TRUE) \in Event
      BY <1>3, EvType
    <2> QED BY <2>1 DEF Ev
  <1>5. Calls(t, l, e, "posting") /\ "posting" \in Pc /\ TypeOK
    BY <1>2, <1>4 DEF Pc, TypeInv
  <1>6. /\ exists[l] = "absent" /\ exists'[l] = "changing" /\ life'[l] = life[l] + 1
        /\ \A m \in Locks \ {l} : exists'[m] = exists[m] /\ life'[m] = life[m]
    BY <1>1, <1>3, <1>5 DEF TypeOK
  <1>7. /\ pc[t] = "idle" /\ pc'[t] = "posting" /\ arg'[t] = e /\ t \in Users[l]
        /\ \A u \in Threads \ {t} : pc'[u] = pc[u] /\ arg'[u] = arg[u]
    BY <1>3, <1>5, CallsType
  <1>8. Alone(t)
    BY <1>1, <1>7 DEF Alone
  <1> QED BY <1>1, <1>3, <1>4, <1>5, <1>6, <1>7, <1>8

LEMMA DestroyDoesProgram ==
  ASSUME TypeInv, NEW t \in Threads, Destroy(t)
  PROVE  /\ Alone(t) /\ pc[t] = "idle" /\ pc'[t] = "destroying"
         /\ arg'[t] \in Event /\ arg'[t].addr \in Dynamic /\ t \in Users[arg'[t].addr]
         /\ arg'[t].op = "DESTROY" /\ Log(t, arg'[t])
         /\ exists[arg'[t].addr] = "live" /\ exists'[arg'[t].addr] = "changing"
         /\ Free(arg'[t].addr)
         /\ \A m \in Locks \ {arg'[t].addr} : exists'[m] = exists[m]
         /\ UNCHANGED <<graph, holds, reading, life, asked>>
  <1>1. PICK l \in Dynamic : \E k \in Kinds(l) \ {"RWLOCK_RD"} :
          /\ exists[l] = "live" /\ Free(l)
          /\ Calls(t, l, Ev("DESTROY", l, k, TRUE), "destroying")
          /\ Log(t, Ev("DESTROY", l, k, TRUE))
          /\ exists' = [exists EXCEPT ![l] = "changing"]
          /\ UNCHANGED <<graph, holds, reading, life, asked>>
    BY DEF Destroy
  <1>2. PICK k \in Kinds(l) : /\ Calls(t, l, Ev("DESTROY", l, k, TRUE), "destroying")
                              /\ Log(t, Ev("DESTROY", l, k, TRUE))
    BY <1>1
  <1>3. l \in Locks /\ k \in LockKind /\ "DESTROY" \in EvOp
    BY <1>1, KindTypes, LockAssumption DEF EvOp
  <1>4. PICK e \in Event : e = Ev("DESTROY", l, k, TRUE) /\ e.addr = l /\ e.op = "DESTROY"
    <2>1. Ev("DESTROY", l, k, TRUE) \in Event
      BY <1>3, EvType
    <2> QED BY <2>1 DEF Ev
  <1>5. /\ Calls(t, l, e, "destroying") /\ "destroying" \in Pc /\ TypeOK /\ Log(t, e)
        /\ exists[l] = "live" /\ Free(l)
    BY <1>1, <1>2, <1>4 DEF Pc, TypeInv
  <1>6. exists'[l] = "changing" /\ \A m \in Locks \ {l} : exists'[m] = exists[m]
    BY <1>1, <1>3, <1>5 DEF TypeOK
  <1>7. /\ pc[t] = "idle" /\ pc'[t] = "destroying" /\ arg'[t] = e /\ t \in Users[l]
        /\ \A u \in Threads \ {t} : pc'[u] = pc[u] /\ arg'[u] = arg[u]
    BY <1>3, <1>5, CallsType
  <1>8. Alone(t)
    BY <1>1, <1>7 DEF Alone
  <1> QED BY <1>1, <1>3, <1>4, <1>5, <1>6, <1>7, <1>8

\* The real function gives thread t the lock of its call.
TakesLock(t, k) ==
  LET l == arg[t].addr IN
  /\ Alone(t) /\ pc'[t] = "posting" /\ l \in Locks /\ t \in Users[l] /\ exists[l] = "live"
  /\ k \in Kinds(l) /\ Take(t, l, k) /\ Grants(t, l, k)
  /\ UNCHANGED <<graph, arg, exists, queue, life>>

LEMMA GetDoes ==
  ASSUME TypeInv, ProgramInv, NEW t \in Threads, Get(t)
  PROVE  /\ pc[t] = "asking" /\ TakesLock(t, arg[t].kind)
         /\ arg[t].op \in {"LOCK_POST", "TRYLOCK_POST"} /\ arg[t].ok
         /\ asked' = asked \cup (IF holds[t][arg[t].addr] > 0 THEN {}
                                 ELSE Seen(t, arg[t].addr, arg[t].kind, TRUE))
  <1> DEFINE l == arg[t].addr
  <1>1. /\ Goes(t, "asking", "posting") /\ "asking" \in Pc /\ "posting" \in Pc
        /\ Grants(t, l, arg[t].kind) /\ Take(t, l, arg[t].kind) /\ TypeOK
        /\ UNCHANGED <<graph, arg, exists, queue, life>>
    BY DEF Get, TypeInv, Pc
  <1>2. /\ pc[t] = "asking" /\ pc'[t] = "posting"
        /\ \A u \in Threads \ {t} : pc'[u] = pc[u]
    BY <1>1, GoesType
  <1>3. l \in Locks /\ t \in Users[l] /\ Asking(t, l)
    BY <1>2 DEF ProgramInv, CallInv
  <1>4. Alone(t)
    BY <1>1, <1>2, <1>3, TakeType DEF Alone
  <1>5. TakesLock(t, arg[t].kind)
    BY <1>1, <1>2, <1>3, <1>4 DEF TakesLock, Asking
  <1> QED BY <1>2, <1>3, <1>5 DEF Asking, Get

LEMMA CondWakeDoes ==
  ASSUME TypeInv, ProgramInv, NEW t \in Threads, CondWake(t)
  PROVE  /\ pc[t] = "waiting" /\ TakesLock(t, "MUTEX") /\ Waiting(t, arg[t].addr)
         /\ asked' = asked \cup Seen(t, arg[t].addr, "MUTEX", TRUE)
  <1> DEFINE l == arg[t].addr
  <1>1. /\ Goes(t, "waiting", "posting") /\ "waiting" \in Pc /\ "posting" \in Pc
        /\ Grants(t, l, "MUTEX") /\ Take(t, l, "MUTEX") /\ TypeOK
        /\ asked' = asked \cup Seen(t, arg[t].addr, "MUTEX", TRUE)
        /\ UNCHANGED <<graph, arg, exists, queue, life>>
    BY DEF CondWake, TypeInv, Pc
  <1>2. /\ pc[t] = "waiting" /\ pc'[t] = "posting"
        /\ \A u \in Threads \ {t} : pc'[u] = pc[u]
    BY <1>1, GoesType
  <1>3. l \in Locks /\ t \in Users[l] /\ Waiting(t, l)
    BY <1>2 DEF ProgramInv, CallInv
  <1>4. Alone(t)
    BY <1>1, <1>2, <1>3, TakeType DEF Alone
  <1>5. "MUTEX" \in Kinds(l)
    BY <1>3 DEF Waiting, Kinds, MutexKinds
  <1>6. TakesLock(t, "MUTEX")
    BY <1>1, <1>2, <1>3, <1>4, <1>5 DEF TakesLock, Waiting
  <1> QED BY <1>1, <1>2, <1>3, <1>6

LEMMA FailDoes ==
  ASSUME TypeInv, ProgramInv, NEW t \in Threads, Fail(t)
  PROVE  /\ Alone(t) /\ pc[t] = "asking" /\ pc'[t] = "posting" /\ Asking(t, arg[t].addr)
         /\ arg[t].addr \in Locks /\ t \in Users[arg[t].addr]
         /\ arg'[t].addr = arg[t].addr /\ arg'[t].op = arg[t].op /\ arg'[t].kind = arg[t].kind
         /\ ~arg'[t].ok
         /\ asked' = asked \cup (IF arg[t].op = "LOCK_POST" THEN {}
                                 ELSE Seen(t, arg[t].addr, arg[t].kind, FALSE))
         /\ UNCHANGED <<graph, holds, reading, exists, queue, life>>
  <1> DEFINE l == arg[t].addr
  <1>1. /\ Goes(t, "asking", "posting") /\ "asking" \in Pc /\ "posting" \in Pc /\ TypeOK
        /\ arg' = [arg EXCEPT ![t].ok = FALSE]
        /\ asked' = asked \cup (IF arg[t].op = "LOCK_POST" THEN {}
                                ELSE Seen(t, arg[t].addr, arg[t].kind, FALSE))
        /\ UNCHANGED <<graph, holds, reading, exists, queue, life>>
    BY DEF Fail, TypeInv, Pc
  <1>2. /\ pc[t] = "asking" /\ pc'[t] = "posting" /\ pc[t] # "idle"
        /\ \A u \in Threads \ {t} : pc'[u] = pc[u]
    BY <1>1, GoesType
  <1>3. l \in Locks /\ t \in Users[l] /\ Asking(t, l)
    BY <1>2 DEF ProgramInv, CallInv
  <1>4. arg[t] \in Event
    BY <1>2, CallArg
  <1>5. PICK e : e = [arg[t] EXCEPT !.ok = FALSE]
    OBVIOUS
  <1>6. e.addr = l /\ e.op = arg[t].op /\ e.kind = arg[t].kind /\ ~e.ok
    BY <1>4, <1>5 DEF Event
  <1>7. arg'[t] = e /\ \A u \in Threads \ {t} : arg'[u] = arg[u]
    BY <1>1, <1>5 DEF TypeOK
  <1>8. Alone(t)
    BY <1>1, <1>2, <1>7 DEF Alone
  <1> QED BY <1>1, <1>2, <1>3, <1>6, <1>7, <1>8

LEMMA PostDoes ==
  ASSUME TypeInv, ProgramInv, NEW t \in Threads, Post(t)
  PROVE  /\ Alone(t) /\ pc[t] = "posting" /\ pc'[t] = "idle" /\ Log(t, arg[t])
         /\ arg[t] \in Event /\ arg[t].addr \in Locks /\ t \in Users[arg[t].addr]
         /\ \A m \in Locks :
              exists'[m] = IF m = arg[t].addr /\ arg[t].op = "INIT" THEN "live" ELSE exists[m]
         /\ UNCHANGED <<graph, holds, reading, life, asked>>
  <1>1. /\ Returns(t, "posting") /\ "posting" \in Pc /\ Log(t, arg[t]) /\ TypeOK
        /\ UNCHANGED <<graph, holds, reading, life, asked>>
    BY DEF Post, TypeInv, Pc
  <1>2. /\ pc[t] = "posting" /\ pc'[t] = "idle" /\ pc[t] # "idle"
        /\ \A u \in Threads \ {t} : pc'[u] = pc[u] /\ arg'[u] = arg[u]
    BY <1>1, ReturnsType
  <1>3. arg[t] \in Event /\ arg[t].addr \in Locks /\ t \in Users[arg[t].addr]
    BY <1>2, CallArg DEF ProgramInv, CallInv
  <1>4. \A m \in Locks :
          exists'[m] = IF m = arg[t].addr /\ arg[t].op = "INIT" THEN "live" ELSE exists[m]
    BY <1>1, <1>3 DEF Post, TypeOK
  <1>5. Alone(t)
    BY <1>1, <1>2 DEF Alone
  <1> QED BY <1>1, <1>2, <1>3, <1>4, <1>5

LEMMA RealUnlockDoes ==
  ASSUME TypeInv, ProgramInv, NEW t \in Threads, RealUnlock(t)
  PROVE  /\ Alone(t) /\ pc[t] = "unlocking" /\ pc'[t] = "idle" /\ Drop(t, arg[t].addr)
         /\ arg[t].addr \in Locks /\ holds[t][arg[t].addr] > 0
         /\ UNCHANGED <<graph, exists, queue, life, asked>>
  <1>1. /\ Returns(t, "unlocking") /\ "unlocking" \in Pc /\ Drop(t, arg[t].addr) /\ TypeOK
        /\ UNCHANGED <<graph, exists, queue, life, asked>>
    BY DEF RealUnlock, TypeInv, Pc
  <1>2. /\ pc[t] = "unlocking" /\ pc'[t] = "idle"
        /\ \A u \in Threads \ {t} : pc'[u] = pc[u] /\ arg'[u] = arg[u]
    BY <1>1, ReturnsType
  <1>3. arg[t].addr \in Locks /\ holds[t][arg[t].addr] > 0
    BY <1>2 DEF ProgramInv, CallInv
  <1>4. Alone(t)
    BY <1>1, <1>2, <1>3, DropType DEF Alone
  <1> QED BY <1>1, <1>2, <1>3, <1>4

LEMMA RealDestroyDoes ==
  ASSUME TypeInv, ProgramInv, NEW t \in Threads, RealDestroy(t)
  PROVE  /\ Alone(t) /\ pc[t] = "destroying" /\ pc'[t] = "idle"
         /\ arg[t].addr \in Dynamic /\ t \in Users[arg[t].addr]
         /\ exists[arg[t].addr] = "changing" /\ exists'[arg[t].addr] = "absent"
         /\ \A m \in Locks \ {arg[t].addr} : exists'[m] = exists[m]
         /\ UNCHANGED <<graph, holds, reading, queue, life, asked>>
  <1>1. /\ Returns(t, "destroying") /\ "destroying" \in Pc /\ TypeOK
        /\ exists' = [exists EXCEPT ![arg[t].addr] = "absent"]
        /\ UNCHANGED <<graph, holds, reading, queue, life, asked>>
    BY DEF RealDestroy, TypeInv, Pc
  <1>2. /\ pc[t] = "destroying" /\ pc'[t] = "idle"
        /\ \A u \in Threads \ {t} : pc'[u] = pc[u] /\ arg'[u] = arg[u]
    BY <1>1, ReturnsType
  <1>3. /\ arg[t].addr \in Locks /\ arg[t].addr \in Dynamic /\ t \in Users[arg[t].addr]
        /\ exists[arg[t].addr] = "changing"
    BY <1>2 DEF ProgramInv, CallInv
  <1>4. Alone(t)
    BY <1>1, <1>2 DEF Alone
  <1> QED BY <1>1, <1>2, <1>3, <1>4 DEF TypeOK
-----------------------------------------------------------------------------
(* Every step does what it should.                                         *)

\* A step that leaves locks, lives and sights alone.
LEMMA QuietAside ==
  ASSUME NEW t \in Threads, Alone(t), UNCHANGED <<reading, exists, life, asked>>
  PROVE  Aside(t)
  BY KeptKinds DEF Aside

LEMMA AskProper ==
  ASSUME TypeInv, ProgramInv, NEW t \in Threads, Ask(t)
  PROVE  Proper(t)
  <1> USE AskDoes
  <1>1. Aside(t)
    BY QuietAside
  <1>2. CallInv(t)'
    BY DEF CallInv, Asking
  <1> QED BY <1>1, <1>2 DEF Proper, ProgramInv, HoldsInv

LEMMA UnlockProper ==
  ASSUME TypeInv, ProgramInv, NEW t \in Threads, Unlock(t)
  PROVE  Proper(t)
  <1> USE UnlockDoes
  <1>1. Aside(t)
    BY QuietAside
  <1>2. CallInv(t)'
    BY DEF CallInv
  <1> QED BY <1>1, <1>2 DEF Proper, ProgramInv, HoldsInv

LEMMA FailProper ==
  ASSUME TypeInv, ProgramInv, NEW t \in Threads, Fail(t)
  PROVE  Proper(t)
  <1> USE FailDoes
  <1>1. \A s \in asked' \ asked : Current(s.from) /\ Current(s.to)
    BY SeenCurrent DEF Asking
  <1>2. Aside(t)
    BY <1>1, KeptKinds DEF Aside
  <1>3. Got(t, arg[t].addr)'
    <2>1. /\ arg[t].op \in {"LOCK_POST", "TRYLOCK_POST"} /\ arg[t].kind \in Kinds(arg[t].addr)
          /\ exists[arg[t].addr] = "live"
      BY DEF Asking
    <2>2. arg'[t].kind \in Kinds(arg'[t].addr)
      BY <2>1
    <2>3. ~arg'[t].ok /\ arg'[t].op = arg[t].op /\ exists'[arg'[t].addr] = "live"
      BY <2>1
    <2> HIDE FailDoes
    <2> QED BY <2>1, <2>2, <2>3 DEF Got, Kinds, MutexKinds, RwlockKinds, SpinKinds
  <1>4. CallInv(t)'
    BY <1>3 DEF CallInv
  <1> QED BY <1>2, <1>4 DEF Proper, ProgramInv, HoldsInv

LEMMA PostProper ==
  ASSUME TypeInv, ProgramInv, NEW t \in Threads, Post(t)
  PROVE  Proper(t)
  <1> USE PostDoes
  <1>1. \A l \in Locks : exists'[l] # exists[l] => l \in Dynamic /\ t \in Users[l]
    <2> SUFFICES ASSUME NEW l \in Locks, exists'[l] # exists[l] PROVE l \in Dynamic
      OBVIOUS
    <2>1. l = arg[t].addr /\ arg[t].op = "INIT"
      OBVIOUS
    <2> QED BY <2>1 DEF ProgramInv, CallInv, Got, Woken, Made
  <1>2. \A l \in Locks : life'[l] = life[l] /\ life'[l] >= life[l]
    BY DEF TypeInv, TypeOK
  <1>3. Aside(t)
    BY <1>1, <1>2, KeptKinds DEF Aside
  <1>4. CallInv(t)'
    BY DEF CallInv
  <1> QED BY <1>3, <1>4 DEF Proper, ProgramInv, HoldsInv

LEMMA RealUnlockProper ==
  ASSUME TypeInv, ProgramInv, NEW t \in Threads, RealUnlock(t)
  PROVE  Proper(t)
  <1>1. TypeOK /\ CallInv(t)'
    BY RealUnlockDoes DEF TypeInv, CallInv
  <1>2. \A u \in Threads, m \in Locks : holds'[u][m] > 0 => HeldKind(m)' = HeldKind(m)
    BY <1>1, RealUnlockDoes, DropKinds
  <1>3. Aside(t)
    BY <1>2, RealUnlockDoes DEF Aside
  <1>4. \A m \in Locks : holds'[t][m] > 0 => holds[t][m] > 0
    BY <1>1, RealUnlockDoes, DropType
  <1> QED BY <1>1, <1>3, <1>4, RealUnlockDoes DEF Proper, ProgramInv, HoldsInv

LEMMA CondWaitProper ==
  ASSUME TypeInv, ProgramInv, NEW t \in Threads, CondWait(t)
  PROVE  Proper(t)
  <1> DEFINE l == arg'[t].addr
  <1>1. TypeOK /\ l \in Locks /\ holds[t][l] > 0 /\ Drop(t, l)
    BY CondWaitDoes DEF TypeInv
  <1>2. /\ holds'[t][l] = 0
        /\ \A m \in Locks : holds'[t][m] > 0 => holds[t][m] > 0
    BY <1>1, CondWaitDoes, DropType
  <1>3. \A u \in Threads, m \in Locks : holds'[u][m] > 0 => HeldKind(m)' = HeldKind(m)
    BY <1>1, DropKinds
  <1>4. Aside(t)
    BY <1>3, CondWaitDoes DEF Aside
  <1>5. Waiting(t, arg[t].addr)'
    BY <1>1, <1>2, CondWaitDoes DEF Waiting, ProgramInv, HoldsInv, MutexKinds
  <1>6. CallInv(t)'
    BY <1>5, CondWaitDoes DEF CallInv
  <1> QED BY <1>2, <1>4, <1>6, CondWaitDoes DEF Proper, ProgramInv, HoldsInv

LEMMA TakesProper ==
  ASSUME TypeInv, ProgramInv, NEW t \in Threads, NEW k, TakesLock(t, k), NEW got,
         NEW S, S \subseteq Seen(t, arg[t].addr, k, got), asked' = asked \cup S,
         \/ arg[t].op \in {"LOCK_POST", "TRYLOCK_POST"} /\ arg[t].kind = k
         \/ Waiting(t, arg[t].addr) /\ k = "MUTEX"
  PROVE  Proper(t)
  <1> DEFINE l == arg[t].addr
  <1>1. /\ TypeOK /\ l \in Locks /\ k \in Kinds(l) /\ Take(t, l, k) /\ Grants(t, l, k)
        /\ Alone(t) /\ UNCHANGED <<arg, exists, life>> /\ exists[l] = "live"
        /\ t \in Users[l] /\ pc'[t] = "posting"
    BY DEF TypeInv, TakesLock
  <1>2. /\ HeldKind(l)' = k
        /\ \A u \in Threads, m \in Locks : holds[u][m] > 0 => HeldKind(m)' = HeldKind(m)
    BY <1>1, TakeKinds
  <1>3. /\ holds'[t][l] = holds[t][l] + 1 /\ holds[t][l] \in Nat
        /\ \A m \in Locks \ {l} : holds'[t][m] = holds[t][m]
    BY <1>1, TakeType DEF TypeOK
  <1>4. \A s \in asked' \ asked : Current(s.from) /\ Current(s.to)
    BY <1>1, SeenCurrent
  <1>5. Aside(t)
    BY <1>1, <1>2, <1>4 DEF Aside
  <1>6. Got(t, l)' \/ Woken(t, l)'
    <2>1. CASE arg[t].op \in {"LOCK_POST", "TRYLOCK_POST"} /\ arg[t].kind = k
      <3>1. Got(t, l)'
        BY <1>1, <1>2, <1>3, <2>1 DEF Got, Kinds, MutexKinds, RwlockKinds, SpinKinds
      <3> QED BY <3>1
    <2>2. CASE Waiting(t, l)
      <3>1. Woken(t, l)'
        BY <1>1, <1>3, <2>2 DEF Woken, Waiting, MutexKinds
      <3> QED BY <3>1
    <2> QED BY <2>1, <2>2
  <1>7. CallInv(t)'
    BY <1>1, <1>6 DEF CallInv
  <1>8. \A m \in Locks : holds'[t][m] > 0 => exists'[m] = "live" /\ t \in Users[m]
    BY <1>1, <1>3 DEF ProgramInv, HoldsInv
  <1> QED BY <1>5, <1>7, <1>8 DEF Proper

LEMMA GetProper ==
  ASSUME TypeInv, ProgramInv, NEW t \in Threads, Get(t)
  PROVE  Proper(t)
  <1>1. PICK S : S = IF holds[t][arg[t].addr] > 0 THEN {}
                     ELSE Seen(t, arg[t].addr, arg[t].kind, TRUE)
    OBVIOUS
  <1>2. S \subseteq Seen(t, arg[t].addr, arg[t].kind, TRUE) /\ asked' = asked \cup S
    BY <1>1, GetDoes
  <1>3. TakesLock(t, arg[t].kind) /\ arg[t].op \in {"LOCK_POST", "TRYLOCK_POST"}
    BY GetDoes
  <1> QED BY <1>2, <1>3, TakesProper

LEMMA CondWakeProper ==
  ASSUME TypeInv, ProgramInv, NEW t \in Threads, CondWake(t)
  PROVE  Proper(t)
  <1>1. /\ TakesLock(t, "MUTEX") /\ Waiting(t, arg[t].addr)
        /\ asked' = asked \cup Seen(t, arg[t].addr, "MUTEX", TRUE)
    BY CondWakeDoes
  <1> QED BY <1>1, TakesProper

LEMMA InitLockProper ==
  ASSUME TypeInv, ProgramInv, NEW t \in Threads, InitLock(t)
  PROVE  Proper(t)
  <1> DEFINE l == arg'[t].addr
  <1>1. /\ l \in Dynamic /\ l \in Locks /\ t \in Users[l] /\ life[l] \in Nat
        /\ life'[l] = life[l] + 1
    BY InitLockDoes, LockAssumption DEF TypeInv, TypeOK
  <1>2. Aside(t)
    BY <1>1, InitLockDoes, KeptKinds DEF Aside
  <1>3. \A s \in asked : s.from # <<l, life'[l]>> /\ s.to # <<l, life'[l]>>
    <2> SUFFICES ASSUME NEW s \in asked PROVE s.from # <<l, life'[l]>> /\ s.to # <<l, life'[l]>>
      OBVIOUS
    <2>1. s.from[2] <= life[s.from[1]] /\ s.to[2] <= life[s.to[1]]
      BY DEF ProgramInv, AskedInv
    <2>2. s.from[1] = l => s.from[2] # life'[l]
      <3>1. s.from[1] = l => s.from[2] <= life[l]
        BY <2>1
      <3>2. s.from[2] \in Nat
        BY DEF TypeInv, TypeOK, Sighting, LockId
      <3> QED BY <1>1, <3>1, <3>2
    <2>3. s.to[1] = l => s.to[2] # life'[l]
      <3>1. s.to[1] = l => s.to[2] <= life[l]
        BY <2>1
      <3>2. s.to[2] \in Nat
        BY DEF TypeInv, TypeOK, Sighting, LockId
      <3> QED BY <1>1, <3>1, <3>2
    <2> QED BY <2>2, <2>3
  <1>4. Made(t, arg[t].addr)'
    BY <1>1, <1>3, InitLockDoes DEF Made
  <1>5. CallInv(t)'
    BY <1>1, <1>4, InitLockDoes DEF CallInv
  <1>6. ASSUME NEW m \in Locks, holds'[t][m] > 0 PROVE exists'[m] = "live" /\ t \in Users[m]
    <2>1. exists[m] = "live" /\ t \in Users[m]
      BY <1>6, InitLockDoes DEF ProgramInv, HoldsInv
    <2>2. exists[l] = "absent" /\ \A h \in Locks \ {l} : exists'[h] = exists[h]
      BY InitLockDoes
    <2> QED BY <2>1, <2>2
  <1> QED BY <1>2, <1>5, <1>6 DEF Proper

LEMMA DestroyProper ==
  ASSUME TypeInv, ProgramInv, NEW t \in Threads, Destroy(t)
  PROVE  Proper(t)
  <1> DEFINE l == arg'[t].addr
  <1>1. /\ l \in Dynamic /\ l \in Locks /\ t \in Users[l] /\ Free(l)
        /\ \A m \in Locks \ {l} : exists'[m] = exists[m]
    BY DestroyDoesProgram, LockAssumption
  <1>2. \A m \in Locks : life'[m] = life[m] /\ life'[m] >= life[m]
    BY DestroyDoesProgram DEF TypeInv, TypeOK
  <1>3. Aside(t)
    BY <1>1, <1>2, DestroyDoesProgram, KeptKinds DEF Aside
  <1>4. CallInv(t)'
    BY <1>1, DestroyDoesProgram DEF CallInv
  <1>5. ASSUME NEW m \in Locks, holds'[t][m] > 0 PROVE exists'[m] = "live" /\ t \in Users[m]
    <2>1. exists[m] = "live" /\ t \in Users[m] /\ m # l
      BY <1>1, <1>5, DestroyDoesProgram DEF ProgramInv, HoldsInv, Free
    <2> QED BY <1>1, <2>1
  <1> QED BY <1>3, <1>4, <1>5 DEF Proper

LEMMA RealDestroyProper ==
  ASSUME TypeInv, ProgramInv, NEW t \in Threads, RealDestroy(t)
  PROVE  Proper(t)
  <1> DEFINE l == arg[t].addr
  <1>1. \A m \in Locks : life'[m] = life[m] /\ life'[m] >= life[m]
    BY RealDestroyDoes DEF TypeInv, TypeOK
  <1>2. Aside(t)
    BY <1>1, RealDestroyDoes, KeptKinds DEF Aside
  <1>3. CallInv(t)'
    BY RealDestroyDoes DEF CallInv
  <1>4. ASSUME NEW m \in Locks, holds'[t][m] > 0 PROVE exists'[m] = "live" /\ t \in Users[m]
    <2>1. exists[m] = "live" /\ t \in Users[m]
      BY <1>4, RealDestroyDoes DEF ProgramInv, HoldsInv
    <2>2. exists[l] = "changing" /\ \A h \in Locks \ {l} : exists'[h] = exists[h]
      BY RealDestroyDoes
    <2> QED BY <2>1, <2>2
  <1> QED BY <1>2, <1>3, <1>4 DEF Proper

\* A step that is the program's.
Moves(t) ==
  \/ Ask(t) \/ Get(t) \/ Fail(t) \/ Post(t) \/ Unlock(t) \/ RealUnlock(t)
  \/ CondWait(t) \/ CondWake(t) \/ InitLock(t) \/ Destroy(t) \/ RealDestroy(t)

LEMMA MovesProper ==
  ASSUME TypeInv, ProgramInv, NEW t \in Threads, Moves(t)
  PROVE  Proper(t) /\ UNCHANGED graph
  <1>1. Proper(t)
    BY AskProper, GetProper, FailProper, PostProper, UnlockProper, RealUnlockProper,
       CondWaitProper, CondWakeProper, InitLockProper, DestroyProper, RealDestroyProper
       DEF Moves
  <1>2. UNCHANGED graph
    BY DEF Moves, Ask, Get, Fail, Post, Unlock, RealUnlock, CondWait, CondWake, InitLock,
           Destroy, RealDestroy
  <1> QED BY <1>1, <1>2
-----------------------------------------------------------------------------
(* The threads.  v is the views of thread t: v[i] is the one before event  *)
(* number i of its queue.                                                  *)

SightOf(s, key, info) ==
  key = <<s.from, s.to>> /\ info = [from_kind |-> s.from_kind, to_kind |-> s.to_kind]
\* Every edge that e makes was seen by the program.
Witnessed(V, e) ==
  \A h \in Locks : Makes(V, e, h) =>
     \E s \in asked : SightOf(s, EdgeOf(V, e, h), KindsOf(V, e, h))

About(t, at, l) == pc[t] = at /\ arg[t].addr = l
\* Life g of the lock is over.
Gone(t, l, g) == g < life[l] \/ exists[l] = "absent" \/ About(t, "destroying", l)

Viewed(t, v) == \A i \in 1..(Len(queue[t]) + 1) : ViewOk(t, v[i])
\* Event e is number i of the queue.
Fitted(t, v, i, e) ==
  /\ Fits(t, v[i], e) /\ v[i + 1] = After(v[i], e) /\ Witnessed(v[i], e)
  /\ e.op = "DESTROY" => Gone(t, e.addr, v[i].gen[e.addr])
Queued(t, v) ==
  \A i \in 1..Len(queue[t]), e \in Event : e = queue[t][i] => Fitted(t, v, i, e)

\* What the events of thread t say of its locks, once they are all logged.
Posting(t, ops, l) == About(t, "posting", l) /\ arg[t].op \in ops
HoldsSeen(t, l) ==
  IF (Posting(t, {"LOCK_POST", "TRYLOCK_POST"}, l) /\ arg[t].ok) \/ About(t, "unlocking", l)
  THEN holds[t][l] - 1
  ELSE IF About(t, "waiting", l) THEN holds[t][l] + 1 ELSE holds[t][l]
LifeSeen(t, l) == IF Posting(t, {"INIT"}, l) THEN life[l] - 1 ELSE life[l]
At(t, V, l) ==
  /\ V.cnt[l] = HoldsSeen(t, l)
  /\ V.cnt[l] > 0 => V.kind[l] = HeldKind(l)
  /\ l \in Dynamic /\ t \in Users[l] =>
       (V.alive[l] <=> exists[l] = "live") /\ V.gen[l] = LifeSeen(t, l)
Programmed(t, V) ==
  /\ \A l \in Locks : At(t, V, l)
  /\ pc[t] = "posting" => Witnessed(V, arg[t])

\* V is the view after the last event of the queue.
IsLast(t, v, V) == V = v[Len(queue[t]) + 1]
ThreadInv(t, v) ==
  /\ Viewed(t, v) /\ Analyzed(t, v[1]) /\ Queued(t, v)
  /\ \A V \in View : IsLast(t, v, V) => Programmed(t, V)

\* A lock that the call is not about.
LEMMA SeenElsewhere ==
  ASSUME NEW t, NEW l, pc[t] = "idle" \/ arg[t].addr # l
  PROVE  HoldsSeen(t, l) = holds[t][l] /\ LifeSeen(t, l) = life[l]
  BY DEF HoldsSeen, LifeSeen, Posting, About

LEMMA AtElsewhere ==
  ASSUME NEW t \in Threads, NEW V \in View, NEW W \in View, NEW l \in Locks, At(t, V, l),
         pc[t] = "idle" \/ arg[t].addr # l, pc'[t] = "idle" \/ arg'[t].addr # l,
         holds[t][l] > 0 => HeldKind(l)' = HeldKind(l),
         holds'[t][l] = holds[t][l], exists'[l] = exists[l], life'[l] = life[l],
         W.cnt[l] = V.cnt[l], W.kind[l] = V.kind[l], W.gen[l] = V.gen[l],
         W.alive[l] = V.alive[l]
  PROVE  At(t, W, l)'
  <1>1. HoldsSeen(t, l) = holds[t][l] /\ LifeSeen(t, l) = life[l]
    BY SeenElsewhere
  <1>2. HoldsSeen(t, l)' = holds'[t][l] /\ LifeSeen(t, l)' = life'[l]
    BY DEF HoldsSeen, LifeSeen, Posting, About
  <1> QED BY <1>1, <1>2 DEF At

LEMMA WitnessedKept ==
  ASSUME NEW V, NEW e, Witnessed(V, e), asked \subseteq asked'
  PROVE  Witnessed(V, e)'
  BY DEF Witnessed

\* The life that the views of the thread say a lock is in.
LEMMA GenIsLife ==
  ASSUME ProgramInv, NEW t \in Threads, NEW V, ViewOk(t, V), NEW l \in Locks, At(t, V, l),
         t \in Users[l], pc[t] # "posting"
  PROVE  V.gen[l] = life[l]
  <1>1. CASE l \in Dynamic
    BY <1>1 DEF At, LifeSeen, Posting, About
  <1>2. CASE l \notin Dynamic
    BY <1>2 DEF ViewOk, ProgramInv, StaticInv
  <1> QED BY <1>1, <1>2

\* What thread t sees when it asks for a lock is what the event will tell.
LEMMA SeenWitnessed ==
  ASSUME TypeInv, ProgramInv, NEW t \in Threads, NEW V \in View, ViewOk(t, V), Programmed(t, V),
         pc[t] \in {"asking", "waiting"}, NEW e, e = arg'[t],
         e.addr = arg[t].addr, e.kind = arg[t].kind, NEW got,
         Looks(V, e) => Seen(t, arg[t].addr, arg[t].kind, got) \subseteq asked'
  PROVE  Witnessed(V, e)'
  <1> DEFINE l == arg[t].addr
  <1>1. SUFFICES ASSUME NEW h \in Locks, Makes(V, e, h)
                 PROVE  \E s \in asked' : SightOf(s, EdgeOf(V, e, h), KindsOf(V, e, h))
    BY DEF Witnessed
  <1>2. /\ h \in Locks \ {l} /\ V.cnt[h] > 0 /\ Seen(t, l, arg[t].kind, got) \subseteq asked'
        /\ l \in Locks /\ t \in Users[l]
    BY <1>1 DEF Makes, ProgramInv, CallInv
  <1>3. holds[t][h] > 0 /\ V.kind[h] = HeldKind(h)
    BY <1>2, SeenElsewhere DEF Programmed, At
  <1>4. t \in Users[h]
    BY <1>2, <1>3 DEF ProgramInv, HoldsInv
  <1>5. V.gen[h] = life[h] /\ V.gen[l] = life[l]
    BY <1>2, <1>4, GenIsLife DEF Programmed
  <1>6. PICK s : s = [from |-> <<h, life[h]>>, to |-> <<l, life[l]>>,
                      from_kind |-> HeldKind(h), to_kind |-> arg[t].kind, taken |-> got]
    OBVIOUS
  <1>7. s \in asked'
    BY <1>2, <1>3, <1>6 DEF Seen, Held
  <1>8. /\ s.from = <<h, V.gen[h]>> /\ s.to = <<l, V.gen[l]>>
        /\ s.from_kind = V.kind[h] /\ s.to_kind = e.kind
    BY <1>3, <1>5, <1>6
  <1> QED BY <1>7, <1>8 DEF SightOf, EdgeOf, KindsOf

LEMMA MutexStays ==
  ASSUME NEW l, MutexKinds(l) # {}
  PROVE  HeldKind(l)' = HeldKind(l)
  BY DEF MutexKinds, HeldKind

LEMMA AsideProgrammed ==
  ASSUME TypeInv, ProgramInv, OneUser, NEW t \in Threads, Aside(t), NEW u \in Threads \ {t},
         NEW V \in View, Programmed(u, V)
  PROVE  Programmed(u, V)'
  <1>1. /\ pc'[u] = pc[u] /\ arg'[u] = arg[u] /\ asked \subseteq asked'
        /\ \A l \in Locks : holds'[u][l] = holds[u][l]
    BY DEF Aside, Alone
  <1>2. ASSUME NEW l \in Locks PROVE At(u, V, l)'
    <2>1. HoldsSeen(u, l)' = HoldsSeen(u, l)
      BY <1>1 DEF HoldsSeen, Posting, About
    <2>2. At(u, V, l)
      BY DEF Programmed
    <2>3. l \in Dynamic /\ u \in Users[l] => life'[l] = life[l] /\ exists'[l] = exists[l]
      BY DEF Aside, OneUser
    <2>4. V.cnt[l] > 0 => HeldKind(l)' = HeldKind(l)
      <3>1. CASE holds[u][l] > 0
        BY <1>1, <3>1 DEF Aside
      <3>2. CASE ~(holds[u][l] > 0) /\ V.cnt[l] > 0
        <4>1. holds[u][l] = 0
          BY <3>2 DEF TypeInv, TypeOK
        <4>2. About(u, "waiting", l)
          BY <2>2, <3>2, <4>1 DEF At, HoldsSeen
        <4>3. MutexKinds(l) # {}
          BY <4>2 DEF About, ProgramInv, CallInv, Waiting
        <4> QED BY <4>3, MutexStays
      <3> QED BY <3>1, <3>2
    <2>5. LifeSeen(u, l)' = IF Posting(u, {"INIT"}, l) THEN life'[l] - 1 ELSE life'[l]
      BY <1>1 DEF LifeSeen, Posting, About
    <2> QED BY <2>1, <2>2, <2>3, <2>4, <2>5 DEF At, LifeSeen
  <1>3. PICK e : e = arg[u]
    OBVIOUS
  <1>4. pc'[u] = "posting" => Witnessed(V, e)'
    BY <1>1, <1>3, WitnessedKept DEF Programmed
  <1>5. e = arg'[u]
    BY <1>1, <1>3
  <1>6. pc'[u] = "posting" => Witnessed(V, arg[u])'
    BY <1>4, <1>5 DEF Witnessed, Makes, Looks, Takes, EdgeOf, KindsOf, SightOf
  <1> QED BY <1>2, <1>6 DEF Programmed

LEMMA AskProgrammed ==
  ASSUME TypeInv, ProgramInv, NEW t \in Threads, Ask(t), NEW V \in View, Programmed(t, V)
  PROVE  Programmed(t, V)'
  <1>1. /\ pc[t] = "idle" /\ pc'[t] = "asking"
        /\ UNCHANGED <<holds, reading, exists, life>>
    BY AskDoes
  <1>2. ASSUME NEW l \in Locks PROVE At(t, V, l)'
    <2>1. HoldsSeen(t, l) = holds[t][l] /\ LifeSeen(t, l) = life[l]
      BY <1>1, SeenElsewhere
    <2>2. HoldsSeen(t, l)' = holds[t][l] /\ LifeSeen(t, l)' = life[l]
      BY <1>1 DEF HoldsSeen, LifeSeen, Posting, About
    <2> QED BY <1>1, <2>1, <2>2, KeptKinds DEF At, Programmed
  <1> QED BY <1>1, <1>2 DEF Programmed

LEMMA FailProgrammed ==
  ASSUME TypeInv, ProgramInv, NEW t \in Threads, Fail(t), NEW V \in View, ViewOk(t, V),
         Programmed(t, V)
  PROVE  Programmed(t, V)'
  <1>1. /\ pc[t] = "asking" /\ pc'[t] = "posting" /\ ~arg'[t].ok
        /\ arg'[t].addr = arg[t].addr /\ arg'[t].op = arg[t].op /\ arg'[t].kind = arg[t].kind
        /\ arg[t].op \in {"LOCK_POST", "TRYLOCK_POST"}
        /\ UNCHANGED <<holds, reading, exists, life>>
    BY FailDoes DEF Asking
  <1>2. ASSUME NEW l \in Locks PROVE At(t, V, l)'
    <2>1. HoldsSeen(t, l) = holds[t][l] /\ LifeSeen(t, l) = life[l]
      BY <1>1 DEF HoldsSeen, LifeSeen, Posting, About
    <2>2. HoldsSeen(t, l)' = holds[t][l] /\ LifeSeen(t, l)' = life[l]
      BY <1>1 DEF HoldsSeen, LifeSeen, Posting, About
    <2> QED BY <1>1, <2>1, <2>2, KeptKinds DEF At, Programmed
  <1>3. PICK e : e = arg'[t]
    OBVIOUS
  <1>4. Looks(V, e) => Seen(t, arg[t].addr, arg[t].kind, FALSE) \subseteq asked'
    <2>1. Looks(V, e) => arg[t].op = "TRYLOCK_POST"
      BY <1>1, <1>3 DEF Looks, Takes
    <2> QED BY <2>1, FailDoes
  <1>5. Witnessed(V, e)'
    BY <1>1, <1>3, <1>4, SeenWitnessed
  <1>6. Witnessed(V, arg[t])'
    BY <1>3, <1>5 DEF Witnessed, Makes, Looks, Takes, EdgeOf, KindsOf, SightOf
  <1> QED BY <1>2, <1>6 DEF Programmed

LEMMA TakesProgrammed ==
  ASSUME TypeInv, ProgramInv, NEW t \in Threads, NEW V \in View, ViewOk(t, V),
         Programmed(t, V), NEW k, TakesLock(t, k), arg[t].kind = k, asked \subseteq asked',
         Looks(V, arg[t]) => Seen(t, arg[t].addr, k, TRUE) \subseteq asked',
         \/ /\ pc[t] = "asking" /\ arg[t].op \in {"LOCK_POST", "TRYLOCK_POST"} /\ arg[t].ok
         \/ pc[t] = "waiting" /\ Waiting(t, arg[t].addr)
  PROVE  Programmed(t, V)'
  <1>0. PICK l : l = arg[t].addr
    OBVIOUS
  <1>1. /\ TypeOK /\ l \in Locks /\ k \in Kinds(l) /\ Take(t, l, k) /\ Grants(t, l, k)
        /\ arg' = arg /\ exists' = exists /\ life' = life /\ pc'[t] = "posting"
    BY <1>0 DEF TypeInv, TakesLock
  <1>2. \A m \in Locks : holds[t][m] > 0 => HeldKind(m)' = HeldKind(m)
    BY <1>1, TakeKinds
  <1>3. /\ holds'[t][l] = holds[t][l] + 1 /\ holds[t][l] \in Nat
        /\ \A m \in Locks \ {l} : holds'[t][m] = holds[t][m]
    BY <1>1, TakeType DEF TypeOK
  <1>4. At(t, V, l)'
    <2>1. CASE pc[t] = "asking" /\ arg[t].op \in {"LOCK_POST", "TRYLOCK_POST"} /\ arg[t].ok
      <3>1. HoldsSeen(t, l) = holds[t][l] /\ LifeSeen(t, l) = life[l]
        BY <1>0, <2>1 DEF HoldsSeen, LifeSeen, Posting, About
      <3>2. HoldsSeen(t, l)' = holds'[t][l] - 1 /\ LifeSeen(t, l)' = life[l]
        BY <1>0, <1>1, <2>1 DEF HoldsSeen, LifeSeen, Posting, About
      <3>3. HoldsSeen(t, l)' = HoldsSeen(t, l)
        BY <1>3, <3>1, <3>2
      <3> QED BY <1>1, <1>2, <3>1, <3>2, <3>3 DEF At, Programmed
    <2>2. CASE pc[t] = "waiting" /\ Waiting(t, l)
      <3>1. HoldsSeen(t, l) = holds[t][l] + 1 /\ LifeSeen(t, l) = life[l]
        BY <1>0, <2>2 DEF HoldsSeen, LifeSeen, Posting, About
      <3>2. HoldsSeen(t, l)' = holds'[t][l] /\ LifeSeen(t, l)' = life[l]
        BY <1>0, <1>1, <2>2 DEF HoldsSeen, LifeSeen, Posting, About, Waiting
      <3>3. HeldKind(l)' = HeldKind(l)
        BY <2>2, MutexStays DEF Waiting
      <3> QED BY <1>1, <1>3, <3>1, <3>2, <3>3 DEF At, Programmed
    <2> QED BY <1>0, <2>1, <2>2
  <1>5. ASSUME NEW m \in Locks \ {l} PROVE At(t, V, m)'
    <2>1. At(t, V, m)
      BY DEF Programmed
    <2>2. holds'[t][m] = holds[t][m] /\ exists'[m] = exists[m] /\ life'[m] = life[m]
          /\ arg[t].addr # m /\ arg'[t].addr # m
      BY <1>0, <1>1, <1>3
    <2> QED BY <1>2, <2>1, <2>2, AtElsewhere
  <1>6. PICK e : e = arg[t]
    OBVIOUS
  <1>7. e = arg'[t]
    BY <1>1, <1>6
  <1>8. Looks(V, e) => Seen(t, arg[t].addr, arg[t].kind, TRUE) \subseteq asked'
    BY <1>6
  <1>9. Witnessed(V, e)'
    <2>1. pc[t] \in {"asking", "waiting"} /\ e.addr = arg[t].addr /\ e.kind = arg[t].kind
      BY <1>6
    <2> QED BY <1>7, <1>8, <2>1, SeenWitnessed
  <1>10. Witnessed(V, arg[t])'
    BY <1>7, <1>9 DEF Witnessed, Makes, Looks, Takes, EdgeOf, KindsOf, SightOf
  <1>11. \A m \in Locks : At(t, V, m)'
    BY <1>4, <1>5
  <1> QED BY <1>10, <1>11 DEF Programmed

LEMMA GetProgrammed ==
  ASSUME TypeInv, ProgramInv, NEW t \in Threads, Get(t), NEW V \in View, ViewOk(t, V),
         Programmed(t, V)
  PROVE  Programmed(t, V)'
  <1> DEFINE l == arg[t].addr
  <1>1. /\ pc[t] = "asking" /\ TakesLock(t, arg[t].kind)
        /\ arg[t].op \in {"LOCK_POST", "TRYLOCK_POST"} /\ arg[t].ok
        /\ asked' = asked \cup (IF holds[t][l] > 0 THEN {}
                                ELSE Seen(t, l, arg[t].kind, TRUE))
    BY GetDoes
  <1>2. Looks(V, arg[t]) => V.cnt[l] = 0
    BY <1>1 DEF Looks
  <1>3. V.cnt[l] = holds[t][l]
    BY <1>1 DEF TakesLock, Programmed, At, HoldsSeen, Posting, About
  <1>4. /\ asked \subseteq asked'
        /\ Looks(V, arg[t]) => Seen(t, l, arg[t].kind, TRUE) \subseteq asked'
    <2>1. CASE holds[t][l] > 0
      <3>1. ~Looks(V, arg[t])
        BY <1>2, <1>3, <2>1
      <3> QED BY <1>1, <3>1
    <2>2. CASE ~(holds[t][l] > 0)
      BY <1>1, <2>2
    <2> QED BY <2>1, <2>2
  <1> QED BY <1>1, <1>4, TakesProgrammed

LEMMA CondWakeProgrammed ==
  ASSUME TypeInv, ProgramInv, NEW t \in Threads, CondWake(t), NEW V \in View, ViewOk(t, V),
         Programmed(t, V)
  PROVE  Programmed(t, V)'
  <1>1. /\ pc[t] = "waiting" /\ TakesLock(t, "MUTEX") /\ Waiting(t, arg[t].addr)
        /\ asked' = asked \cup Seen(t, arg[t].addr, "MUTEX", TRUE)
    BY CondWakeDoes
  <1>2. arg[t].kind = "MUTEX"
    BY <1>1 DEF Waiting
  <1> QED BY <1>1, <1>2, TakesProgrammed

LEMMA RealUnlockProgrammed ==
  ASSUME TypeInv, ProgramInv, NEW t \in Threads, RealUnlock(t), NEW V \in View, Programmed(t, V)
  PROVE  Programmed(t, V)'
  <1> DEFINE l == arg[t].addr
  <1>1. /\ TypeOK /\ pc[t] = "unlocking" /\ pc'[t] = "idle" /\ l \in Locks /\ holds[t][l] > 0
        /\ Drop(t, l) /\ exists' = exists /\ life' = life
    BY RealUnlockDoes DEF TypeInv
  <1>2. \A m \in Locks : holds'[t][m] > 0 => HeldKind(m)' = HeldKind(m)
    BY <1>1, DropKinds
  <1>3. /\ holds'[t][l] = holds[t][l] - 1
        /\ \A m \in Locks \ {l} : holds'[t][m] = holds[t][m]
    BY <1>1, DropType
  <1>4. \A m \in Locks : HoldsSeen(t, m)' = holds'[t][m] /\ LifeSeen(t, m)' = life[m]
    BY <1>1 DEF HoldsSeen, LifeSeen, Posting, About
  <1>5. \A m \in Locks : HoldsSeen(t, m) = holds'[t][m] /\ LifeSeen(t, m) = life[m]
    BY <1>1, <1>3 DEF HoldsSeen, LifeSeen, Posting, About
  <1>6. \A m \in Locks : At(t, V, m)'
    BY <1>1, <1>2, <1>4, <1>5 DEF At, Programmed
  <1> QED BY <1>1, <1>6 DEF Programmed

LEMMA CondWaitProgrammed ==
  ASSUME TypeInv, ProgramInv, NEW t \in Threads, CondWait(t), NEW V \in View, Programmed(t, V)
  PROVE  Programmed(t, V)'
  <1>0. PICK l : l = arg'[t].addr
    OBVIOUS
  <1>1. /\ TypeOK /\ pc[t] = "idle" /\ pc'[t] = "waiting" /\ l \in Locks /\ holds[t][l] = 1
        /\ MutexKinds(l) # {} /\ holds[t][l] > 0 /\ Drop(t, l) /\ exists' = exists /\ life' = life
    BY <1>0, CondWaitDoes DEF TypeInv
  <1>2. \A m \in Locks : holds'[t][m] > 0 => HeldKind(m)' = HeldKind(m)
    BY <1>1, DropKinds
  <1>3. /\ holds'[t][l] = 0 /\ HeldKind(l)' = HeldKind(l)
        /\ \A m \in Locks \ {l} : holds'[t][m] = holds[t][m]
    BY <1>1, DropType, MutexStays
  <1>4. \A m \in Locks : HoldsSeen(t, m) = holds[t][m] /\ LifeSeen(t, m) = life[m]
    BY <1>1, SeenElsewhere
  <1>5. \A m \in Locks : HoldsSeen(t, m)' = holds[t][m] /\ LifeSeen(t, m)' = life[m]
    BY <1>0, <1>1, <1>3 DEF HoldsSeen, LifeSeen, Posting, About
  <1>6. \A m \in Locks : At(t, V, m)'
    BY <1>1, <1>2, <1>3, <1>4, <1>5 DEF At, Programmed
  <1> QED BY <1>1, <1>6 DEF Programmed

LEMMA InitLockProgrammed ==
  ASSUME TypeInv, ProgramInv, NEW t \in Threads, InitLock(t), NEW V \in View, Programmed(t, V)
  PROVE  Programmed(t, V)'
  <1> DEFINE l == arg'[t].addr
  <1>1. /\ pc[t] = "idle" /\ pc'[t] = "posting" /\ arg'[t].op = "INIT" /\ l \in Dynamic
        /\ exists[l] = "absent" /\ exists'[l] = "changing" /\ life'[l] = life[l] + 1
        /\ \A m \in Locks \ {l} : exists'[m] = exists[m] /\ life'[m] = life[m]
        /\ UNCHANGED <<holds, reading>> /\ life[l] \in Nat
    BY InitLockDoes, LockAssumption DEF TypeInv, TypeOK
  <1>2. \A m \in Locks : HoldsSeen(t, m) = holds[t][m] /\ LifeSeen(t, m) = life[m]
    BY <1>1, SeenElsewhere
  <1>3. \A m \in Locks : HoldsSeen(t, m)' = holds[t][m] /\ LifeSeen(t, m)' = life[m]
    BY <1>1 DEF HoldsSeen, LifeSeen, Posting, About
  <1>4. \A m \in Locks : At(t, V, m)'
    BY <1>1, <1>2, <1>3, KeptKinds DEF At, Programmed
  <1>5. Witnessed(V, arg[t])'
    BY <1>1 DEF Witnessed, Makes, Looks, Takes
  <1> QED BY <1>4, <1>5 DEF Programmed

LEMMA RealDestroyProgrammed ==
  ASSUME TypeInv, ProgramInv, NEW t \in Threads, RealDestroy(t), NEW V \in View, Programmed(t, V)
  PROVE  Programmed(t, V)'
  <1> DEFINE l == arg[t].addr
  <1>1. /\ pc[t] = "destroying" /\ pc'[t] = "idle" /\ exists[l] = "changing"
        /\ exists'[l] = "absent" /\ \A m \in Locks \ {l} : exists'[m] = exists[m]
        /\ UNCHANGED <<holds, reading, life>>
    BY RealDestroyDoes
  <1>2. \A m \in Locks : HoldsSeen(t, m) = holds[t][m] /\ LifeSeen(t, m) = life[m]
    BY <1>1 DEF HoldsSeen, LifeSeen, Posting, About
  <1>3. \A m \in Locks : HoldsSeen(t, m)' = holds[t][m] /\ LifeSeen(t, m)' = life[m]
    BY <1>1 DEF HoldsSeen, LifeSeen, Posting, About
  <1>4. \A m \in Locks : At(t, V, m)'
    BY <1>1, <1>2, <1>3, KeptKinds DEF At, Programmed
  <1> QED BY <1>1, <1>4 DEF Programmed
-----------------------------------------------------------------------------
(* The steps that log.                                                     *)

LEMMA AfterOk ==
  ASSUME TypeInv, TypeInv', NEW t \in Threads, NEW e \in Event, NEW V \in View, ViewOk(t, V),
         Fits(t, V, e), \A l \in Locks : life'[l] >= life[l],
         e.op = "INIT" => V.gen[e.addr] + 1 <= life'[e.addr]
  PROVE  After(V, e) \in View /\ ViewOk(t, After(V, e))'
  <1>1. PICK a, W : a = e.addr /\ W = After(V, e)
    OBVIOUS
  <1>2. /\ W \in View /\ AlikeBut(V, W, a) /\ a \in Locks
        /\ W.cnt[a] = CntAfter(V, e) /\ W.gen[a] = GenAfter(V, e)
        /\ W.alive[a] = AliveAfter(V, e)
    BY <1>1, AfterIs DEF Fits, Event
  <1>3. \A l \in Locks : life[l] \in Nat /\ life'[l] \in Nat /\ V.gen[l] \in Nat
    BY DEF TypeInv, TypeOK, View
  <1>4. ASSUME NEW l \in Locks \ {a}
        PROVE  /\ W.cnt[l] > 0 => W.alive[l] /\ t \in Users[l]
               /\ W.alive[l] /\ t \in Users[l] => W.gen[l] >= 1
               /\ l \notin Dynamic => W.gen[l] = 1 /\ W.alive[l]
               /\ l \in Dynamic /\ t \in Users[l] => W.gen[l] <= life'[l]
    <2>1. /\ V.cnt[l] > 0 => V.alive[l] /\ t \in Users[l]
          /\ V.alive[l] /\ t \in Users[l] => V.gen[l] >= 1
          /\ l \notin Dynamic => V.gen[l] = 1 /\ V.alive[l]
          /\ l \in Dynamic /\ t \in Users[l] => V.gen[l] <= life[l]
      BY DEF ViewOk
    <2>2. /\ W.cnt[l] = V.cnt[l] /\ W.gen[l] = V.gen[l] /\ W.alive[l] = V.alive[l]
          /\ life[l] \in Nat /\ life'[l] \in Nat /\ V.gen[l] \in Nat /\ life'[l] >= life[l]
      BY <1>2, <1>3 DEF AlikeBut
    <2> QED BY <2>1, <2>2
  <1>5. /\ V.cnt[a] > 0 => V.alive[a]
        /\ V.alive[a] => V.gen[a] >= 1
        /\ a \notin Dynamic => V.gen[a] = 1 /\ V.alive[a]
        /\ a \in Dynamic => V.gen[a] <= life[a]
        /\ t \in Users[a] /\ e.op \in EvOp
    BY <1>1, <1>2 DEF ViewOk, Fits, Event
  <1>6. W.cnt[a] > 0 => W.alive[a]
    BY <1>1, <1>2, <1>5 DEF CntAfter, AliveAfter, Takes, Fits, View, EvOp
  <1>7. e.op # "INIT" => W.gen[a] = V.gen[a]
    BY <1>1, <1>2 DEF GenAfter
  <1>8. e.op = "INIT" => W.gen[a] = V.gen[a] + 1 /\ a \in Dynamic
    BY <1>1, <1>2 DEF GenAfter, Fits
  <1>9. W.alive[a] => W.gen[a] >= 1
    <2>1. W.alive[a] => e.op = "INIT" \/ V.alive[a]
      BY <1>1, <1>2 DEF AliveAfter
    <2>2. CASE e.op = "INIT"
      BY <1>2, <1>3, <1>8, <2>2
    <2>3. CASE e.op # "INIT"
      BY <1>5, <1>7, <2>1, <2>3
    <2> QED BY <2>2, <2>3
  <1>10. a \notin Dynamic => W.gen[a] = 1 /\ W.alive[a]
    BY <1>1, <1>2, <1>5, <1>7, <1>8 DEF AliveAfter, Fits
  <1>11. a \in Dynamic => W.gen[a] <= life'[a]
    <2>1. life'[a] >= life[a]
      BY <1>2
    <2> QED BY <1>1, <1>2, <1>3, <1>5, <1>7, <1>8, <2>1
  <1>12. ViewOk(t, W)'
    BY <1>4, <1>5, <1>6, <1>9, <1>10, <1>11 DEF ViewOk
  <1> QED BY <1>1, <1>2, <1>12

\* Event e is logged by thread t at view V.
Logs(t, V, e) ==
  /\ Fits(t, V, e) /\ Witnessed(V, e)'
  /\ e.op = "DESTROY" => Gone(t, e.addr, V.gen[e.addr])'
  /\ After(V, e) \in View /\ ViewOk(t, After(V, e))' /\ Programmed(t, After(V, e))'

LEMMA UnlockLogs ==
  ASSUME TypeInv, TypeInv', ProgramInv, NEW t \in Threads, Unlock(t), NEW V \in View,
         ViewOk(t, V), Programmed(t, V)
  PROVE  \E e \in Event : Log(t, e) /\ Logs(t, V, e)
  <1>1. PICK e \in Event : e = arg'[t]
    BY UnlockDoes
  <1>2. PICK a, W : a = e.addr /\ W = After(V, e)
    OBVIOUS
  <1>3. /\ pc[t] = "idle" /\ pc'[t] = "unlocking" /\ a \in Locks /\ t \in Users[a]
        /\ e.op = "UNLOCK" /\ holds[t][a] > 0 /\ Log(t, e)
        /\ UNCHANGED <<holds, reading, exists, life, asked>>
    BY <1>1, <1>2, UnlockDoes
  <1>4. \A m \in Locks : HoldsSeen(t, m) = holds[t][m] /\ LifeSeen(t, m) = life[m]
    BY <1>3, SeenElsewhere
  <1>5. /\ \A m \in Locks : LifeSeen(t, m)' = life[m]
        /\ HoldsSeen(t, a)' = holds[t][a] - 1
        /\ \A m \in Locks \ {a} : HoldsSeen(t, m)' = holds[t][m]
    BY <1>1, <1>2, <1>3 DEF HoldsSeen, LifeSeen, Posting, About
  <1>6. V.cnt[a] >= 1 /\ V.cnt[a] = holds[t][a]
    BY <1>3, <1>4 DEF Programmed, At, TypeInv, TypeOK
  <1>7. Fits(t, V, e)
    BY <1>2, <1>3, <1>6 DEF Fits
  <1>8. /\ W \in View /\ AlikeBut(V, W, a)
        /\ W.cnt[a] = V.cnt[a] - 1 /\ W.gen[a] = V.gen[a] /\ W.kind[a] = V.kind[a]
        /\ W.alive[a] = V.alive[a]
    BY <1>2, <1>3, <1>6, AfterIs DEF CntAfter, GenAfter, KindAfter, AliveAfter, Takes, View
  <1>9. \A m \in Locks : At(t, W, m)'
    <2>1. ASSUME NEW m \in Locks \ {a} PROVE At(t, W, m)'
      BY <1>3, <1>4, <1>5, <1>8, KeptKinds DEF At, Programmed, AlikeBut
    <2>2. At(t, W, a)'
      BY <1>3, <1>4, <1>5, <1>6, <1>8, KeptKinds DEF At, Programmed
    <2> QED BY <2>1, <2>2
  <1>10. Programmed(t, W)'
    BY <1>3, <1>9 DEF Programmed
  <1>11. Witnessed(V, e)'
    BY <1>3 DEF Witnessed, Makes, Looks, Takes
  <1>12. ViewOk(t, W)'
    <2>1. \A l \in Locks : life'[l] >= life[l]
      BY <1>3 DEF TypeInv, TypeOK
    <2> QED BY <1>2, <1>3, <1>7, <2>1, AfterOk
  <1> QED BY <1>2, <1>3, <1>7, <1>8, <1>10, <1>11, <1>12 DEF Logs

LEMMA DestroyLogs ==
  ASSUME TypeInv, TypeInv', ProgramInv, NEW t \in Threads, Destroy(t), NEW V \in View,
         ViewOk(t, V), Programmed(t, V)
  PROVE  \E e \in Event : Log(t, e) /\ Logs(t, V, e)
  <1>1. PICK e \in Event : e = arg'[t]
    BY DestroyDoesProgram
  <1>2. PICK a, W : a = e.addr /\ W = After(V, e)
    OBVIOUS
  <1>3. /\ pc[t] = "idle" /\ pc'[t] = "destroying" /\ a \in Dynamic /\ t \in Users[a]
        /\ e.op = "DESTROY" /\ Log(t, e) /\ Free(a) /\ exists[a] = "live"
        /\ exists'[a] = "changing" /\ \A m \in Locks \ {a} : exists'[m] = exists[m]
        /\ UNCHANGED <<holds, reading, life, asked>> /\ a \in Locks
    BY <1>1, <1>2, DestroyDoesProgram, LockAssumption
  <1>4. \A m \in Locks : HoldsSeen(t, m) = holds[t][m] /\ LifeSeen(t, m) = life[m]
    BY <1>3, SeenElsewhere
  <1>5. \A m \in Locks : HoldsSeen(t, m)' = holds[t][m] /\ LifeSeen(t, m)' = life[m]
    BY <1>1, <1>2, <1>3 DEF HoldsSeen, LifeSeen, Posting, About
  <1>6. V.cnt[a] = 0 /\ V.alive[a]
    BY <1>3, <1>4 DEF Programmed, At, Free
  <1>7. Fits(t, V, e)
    BY <1>2, <1>3, <1>6 DEF Fits
  <1>8. /\ W \in View /\ AlikeBut(V, W, a)
        /\ W.cnt[a] = V.cnt[a] /\ W.gen[a] = V.gen[a] /\ W.kind[a] = V.kind[a]
        /\ ~W.alive[a]
    <2>1. /\ CntAfter(V, e) = V.cnt[a] /\ KindAfter(V, e) = V.kind[a]
          /\ GenAfter(V, e) = V.gen[a] /\ ~AliveAfter(V, e)
      BY <1>2, <1>3 DEF CntAfter, GenAfter, KindAfter, AliveAfter, Takes
    <2>2. PICK X : X = After(V, e)
      OBVIOUS
    <2>3. /\ X \in View /\ AlikeBut(V, X, a) /\ X.cnt[a] = CntAfter(V, e)
          /\ X.kind[a] = KindAfter(V, e) /\ X.gen[a] = GenAfter(V, e)
          /\ X.alive[a] = AliveAfter(V, e)
      BY <1>2, <1>3, <2>2, AfterIs
    <2>4. X = W
      BY <1>2, <2>2
    <2> QED BY <2>1, <2>3, <2>4
  <1>9. \A m \in Locks : At(t, W, m)'
    <2>1. ASSUME NEW m \in Locks \ {a} PROVE At(t, W, m)'
      BY <1>3, <1>4, <1>5, <1>8, KeptKinds DEF At, Programmed, AlikeBut
    <2>2. At(t, W, a)'
      BY <1>3, <1>4, <1>5, <1>6, <1>8, KeptKinds DEF At, Programmed
    <2> QED BY <2>1, <2>2
  <1>10. Programmed(t, W)'
    BY <1>3, <1>9 DEF Programmed
  <1>11. Witnessed(V, e)'
    BY <1>3 DEF Witnessed, Makes, Looks, Takes
  <1>12. ViewOk(t, W)'
    <2>1. \A l \in Locks : life'[l] >= life[l]
      BY <1>3 DEF TypeInv, TypeOK
    <2> QED BY <1>2, <1>3, <1>7, <2>1, AfterOk
  <1>13. Gone(t, e.addr, V.gen[e.addr])'
    BY <1>1, <1>3 DEF Gone, About
  <1> QED BY <1>2, <1>3, <1>7, <1>8, <1>10, <1>11, <1>12, <1>13 DEF Logs

\* The views of a call that has returned: what the event says is what it did.
LEMMA PostLogs ==
  ASSUME TypeInv, TypeInv', ProgramInv, NEW t \in Threads, Post(t), NEW V \in View,
         ViewOk(t, V), Programmed(t, V)
  PROVE  \E e \in Event : Log(t, e) /\ Logs(t, V, e)
  <1>1. PICK e \in Event : e = arg[t]
    BY PostDoes
  <1>2. PICK a, W : a = e.addr /\ W = After(V, e)
    OBVIOUS
  <1>3. /\ pc[t] = "posting" /\ pc'[t] = "idle" /\ a \in Locks /\ t \in Users[a] /\ Log(t, e)
        /\ \A m \in Locks \ {a} : exists'[m] = exists[m]
        /\ exists'[a] = IF e.op = "INIT" THEN "live" ELSE exists[a]
        /\ UNCHANGED <<holds, reading, life, asked>>
    BY <1>1, <1>2, PostDoes
  <1>4. \A m \in Locks \ {a} : HoldsSeen(t, m) = holds[t][m] /\ LifeSeen(t, m) = life[m]
    BY <1>1, <1>2, SeenElsewhere
  <1>5. \A m \in Locks : HoldsSeen(t, m)' = holds[t][m] /\ LifeSeen(t, m)' = life[m]
    BY <1>3 DEF HoldsSeen, LifeSeen, Posting, About
  <1>6. /\ V.cnt[a] = HoldsSeen(t, a)
        /\ V.cnt[a] > 0 => V.kind[a] = HeldKind(a)
        /\ a \in Dynamic => (V.alive[a] <=> exists[a] = "live") /\ V.gen[a] = LifeSeen(t, a)
        /\ a \notin Dynamic => V.alive[a]
        /\ a \notin Dynamic => exists[a] = "live"
    BY <1>3 DEF Programmed, At, ViewOk, ProgramInv, StaticInv
  <1>7. Got(t, a) \/ Woken(t, a) \/ Made(t, a)
    BY <1>1, <1>2, <1>3 DEF ProgramInv, CallInv
  <1>8. V.cnt[a] \in Nat /\ holds[t][a] \in Nat /\ life[a] \in Nat
    BY <1>3 DEF View, TypeInv, TypeOK
  <1>9. /\ HoldsSeen(t, a) = IF e.op \in {"LOCK_POST", "TRYLOCK_POST"} /\ e.ok
                             THEN holds[t][a] - 1 ELSE holds[t][a]
        /\ LifeSeen(t, a) = IF e.op = "INIT" THEN life[a] - 1 ELSE life[a]
    BY <1>1, <1>2, <1>3 DEF HoldsSeen, LifeSeen, Posting, About
  <1> DEFINE Right == /\ Fits(t, V, e) /\ e.op # "DESTROY" /\ W \in View /\ AlikeBut(V, W, a)
                      /\ At(t, W, a)' /\ (e.op = "INIT" => V.gen[a] + 1 <= life[a])
  <1>10. ASSUME Got(t, a) PROVE Right
    <2>1. /\ e.op \in {"LOCK_POST", "TRYLOCK_POST"} /\ exists[a] = "live"
          /\ e.ok => holds[t][a] > 0 /\ HeldKind(a) = e.kind
      BY <1>1, <1>10 DEF Got
    <2>2. Fits(t, V, e)
      BY <1>2, <1>3, <1>6, <2>1 DEF Fits
    <2>3. /\ W \in View /\ AlikeBut(V, W, a) /\ W.gen[a] = V.gen[a]
          /\ W.cnt[a] = IF e.ok THEN V.cnt[a] + 1 ELSE V.cnt[a]
          /\ W.kind[a] = IF e.ok /\ V.cnt[a] = 0 THEN e.kind ELSE V.kind[a]
          /\ W.alive[a] = V.alive[a]
      <3>1. /\ CntAfter(V, e) = IF e.ok THEN V.cnt[a] + 1 ELSE V.cnt[a]
            /\ KindAfter(V, e) = IF e.ok /\ V.cnt[a] = 0 THEN e.kind ELSE V.kind[a]
        BY <1>2, <2>1 DEF CntAfter, KindAfter, Takes
      <3>2. GenAfter(V, e) = V.gen[a] /\ AliveAfter(V, e) = V.alive[a]
        BY <1>2, <1>3, <2>1 DEF GenAfter, AliveAfter, View
      <3>3. e.op # "UNLOCK"
        BY <2>1
      <3> QED BY <1>2, <3>1, <3>2, <3>3, AfterIs
    <2>4. W.cnt[a] = holds[t][a]
      BY <1>6, <1>8, <1>9, <2>1, <2>3
    <2>5. W.cnt[a] > 0 => W.kind[a] = HeldKind(a)
      BY <1>6, <1>8, <2>1, <2>3
    <2>6. At(t, W, a)'
      BY <1>3, <1>5, <1>6, <1>9, <2>1, <2>3, <2>4, <2>5, KeptKinds DEF At
    <2> QED BY <1>2, <1>6, <2>1, <2>2, <2>3, <2>6
  <1>11. ASSUME Woken(t, a) PROVE Right
    <2>1. /\ e.op = "COND_WAIT_POST" /\ e.kind = "MUTEX" /\ exists[a] = "live"
          /\ HeldKind(a) = "MUTEX" /\ holds[t][a] = 1
      BY <1>1, <1>3, <1>11, KindTypes DEF Woken
    <2>2. Fits(t, V, e)
      BY <1>2, <1>3, <1>6, <1>9, <2>1 DEF Fits
    <2>3. /\ W \in View /\ AlikeBut(V, W, a) /\ W.gen[a] = V.gen[a]
          /\ W.cnt[a] = V.cnt[a] /\ W.kind[a] = "MUTEX" /\ W.alive[a] = V.alive[a]
      <3>1. CntAfter(V, e) = V.cnt[a] /\ KindAfter(V, e) = "MUTEX"
        BY <1>2, <2>1 DEF CntAfter, KindAfter, Takes
      <3>2. GenAfter(V, e) = V.gen[a] /\ AliveAfter(V, e) = V.alive[a]
        BY <1>2, <1>3, <2>1 DEF GenAfter, AliveAfter, View
      <3>3. e.op # "UNLOCK"
        BY <2>1
      <3> QED BY <1>2, <3>1, <3>2, <3>3, AfterIs
    <2>4. At(t, W, a)'
      BY <1>3, <1>5, <1>6, <1>9, <2>1, <2>3, KeptKinds DEF At
    <2> QED BY <1>2, <1>6, <2>1, <2>2, <2>3, <2>4
  <1>12. ASSUME Made(t, a) PROVE Right
    <2>1. e.op = "INIT" /\ a \in Dynamic /\ exists[a] = "changing" /\ life[a] > 0
      BY <1>1, <1>12 DEF Made
    <2>2. holds[t][a] = 0
      BY <1>3, <1>8, <2>1 DEF ProgramInv, HoldsInv
    <2>3. Fits(t, V, e)
      BY <1>2, <1>3, <1>6, <1>9, <2>1, <2>2 DEF Fits
    <2>4. /\ W \in View /\ AlikeBut(V, W, a) /\ W.gen[a] = V.gen[a] + 1
          /\ W.cnt[a] = V.cnt[a] /\ W.alive[a]
      BY <1>2, <2>1, AfterIs DEF CntAfter, GenAfter, AliveAfter, Takes, View
    <2>5. W.gen[a] = life[a]
      BY <1>6, <1>8, <1>9, <2>1, <2>4
    <2>6. At(t, W, a)'
      BY <1>3, <1>5, <1>6, <1>9, <2>1, <2>2, <2>4, <2>5, KeptKinds DEF At
    <2> QED BY <1>2, <1>8, <2>1, <2>3, <2>4, <2>5, <2>6
  <1>13. Right
    BY <1>7, <1>10, <1>11, <1>12
  <1>14. \A m \in Locks : At(t, W, m)'
    <2>1. ASSUME NEW m \in Locks \ {a} PROVE At(t, W, m)'
      BY <1>3, <1>4, <1>5, <1>13, KeptKinds DEF At, Programmed, AlikeBut
    <2> QED BY <1>13, <2>1
  <1>15. Programmed(t, W)'
    BY <1>3, <1>14 DEF Programmed
  <1>16. Witnessed(V, e)'
    BY <1>1, <1>3 DEF Witnessed, Programmed
  <1>17. ViewOk(t, W)'
    <2>1. \A l \in Locks : life'[l] >= life[l]
      BY <1>3 DEF TypeInv, TypeOK
    <2>2. e.op = "INIT" => V.gen[e.addr] + 1 <= life'[e.addr]
      BY <1>2, <1>3, <1>13
    <2> QED BY <1>2, <1>13, <2>1, <2>2, AfterOk
  <1> QED BY <1>2, <1>3, <1>13, <1>15, <1>16, <1>17 DEF Logs
-----------------------------------------------------------------------------
(* Every step of the program keeps the threads' views.                     *)

LEMMA GoneKept ==
  ASSUME TypeInv, TypeInv', ProgramInv, OneUser, NEW t \in Threads, Moves(t),
         NEW u \in Threads, NEW l \in Dynamic, u \in Users[l], NEW g \in Nat,
         g <= life[l], Gone(u, l, g)
  PROVE  Gone(u, l, g)'
  <1>1. Aside(t)
    BY MovesProper DEF Proper
  <1>2. l \in Locks /\ life[l] \in Nat /\ life'[l] \in Nat
    BY LockAssumption DEF TypeInv, TypeOK
  <1>3. life'[l] >= life[l]
    BY <1>1, <1>2 DEF Aside
  <1>4. CASE g < life[l]
    BY <1>2, <1>3, <1>4 DEF Gone
  <1>5. CASE u # t
    <2>1. life'[l] = life[l] /\ exists'[l] = exists[l]
      BY <1>1, <1>2, <1>5 DEF Aside, OneUser
    <2>2. pc'[u] = pc[u] /\ arg'[u] = arg[u]
      BY <1>1, <1>5 DEF Aside, Alone
    <2> QED BY <2>1, <2>2 DEF Gone, About
  <1>6. CASE u = t /\ exists[l] = "absent"
    <2>1. exists'[l] = exists[l] \/ life'[l] = life[l] + 1
      <3>1. CASE InitLock(t)
        BY <1>2, <3>1, InitLockDoes
      <3>2. CASE Post(t)
        <4>1. CASE l = arg[t].addr /\ arg[t].op = "INIT"
          <5>1. exists[l] = "changing"
            BY <3>2, <4>1, PostDoes DEF ProgramInv, CallInv, Got, Woken, Made
          <5> QED BY <1>6, <5>1
        <4>2. CASE ~(l = arg[t].addr /\ arg[t].op = "INIT")
          BY <1>2, <3>2, <4>2, PostDoes
        <4> QED BY <4>1, <4>2
      <3>3. CASE Destroy(t)
        BY <1>2, <1>6, <3>3, DestroyDoesProgram
      <3>4. CASE RealDestroy(t)
        BY <1>2, <1>6, <3>4, RealDestroyDoes
      <3>5. CASE UNCHANGED exists
        BY <3>5
      <3> QED BY <3>1, <3>2, <3>3, <3>4, <3>5
              DEF Moves, Ask, Get, Fail, Unlock, RealUnlock, CondWait, CondWake
    <2> QED BY <1>2, <1>6, <2>1 DEF Gone
  <1>7. CASE u = t /\ About(t, "destroying", l)
    <2>1. CASE RealDestroy(t)
      BY <1>7, <2>1, RealDestroyDoes DEF About, Gone
    <2>2. CASE ~RealDestroy(t)
      <3>1. pc[t] # "destroying"
        BY <2>2, AskDoes, GetDoes, FailDoes, PostDoes, UnlockDoes, RealUnlockDoes,
           CondWaitDoes, CondWakeDoes, InitLockDoes, DestroyDoesProgram DEF Moves
      <3> QED BY <1>7, <3>1 DEF About
    <2> QED BY <2>1, <2>2
  <1> QED BY <1>4, <1>5, <1>6, <1>7 DEF Gone

LEMMA FittedKept ==
  ASSUME TypeInv, TypeInv', ProgramInv, OneUser, NEW t \in Threads, Moves(t),
         NEW u \in Threads, NEW v \in [Nat -> View], NEW i \in Nat, NEW e \in Event,
         ViewOk(u, v[i]), Fitted(u, v, i, e)
  PROVE  Fitted(u, v, i, e)'
  <1>1. asked \subseteq asked'
    BY MovesProper DEF Proper, Aside
  <1>2. Witnessed(v[i], e)'
    BY <1>1, WitnessedKept DEF Fitted
  <1>3. ASSUME e.op = "DESTROY" PROVE Gone(u, e.addr, v[i].gen[e.addr])'
    <2>1. PICK l, g : l = e.addr /\ g = v[i].gen[l]
      OBVIOUS
    <2>2. l \in Dynamic /\ u \in Users[l] /\ Gone(u, l, g) /\ l \in Locks
      BY <1>3, <2>1, LockAssumption DEF Fitted, Fits
    <2>3. v[i] \in View
      OBVIOUS
    <2>4. g \in Nat /\ g <= life[l]
      BY <2>1, <2>2, <2>3 DEF ViewOk, View
    <2>5. Gone(u, l, g)'
      BY <2>2, <2>4, GoneKept
    <2> QED BY <2>1, <2>5
  <1> QED BY <1>2, <1>3 DEF Fitted

\* What a step does to the views that were there.
LEMMA ViewsKept ==
  ASSUME TypeInv, TypeInv', ProgramInv, OneUser, NEW t \in Threads, Moves(t),
         NEW u \in Threads, NEW v \in [Nat -> View], ThreadInv(u, v)
  PROVE  /\ \A i \in 1..(Len(queue[u]) + 1) : ViewOk(u, v[i])'
         /\ Analyzed(u, v[1])'
         /\ \A i \in 1..Len(queue[u]), e \in Event : e = queue[u][i] => Fitted(u, v, i, e)'
  <1>1. Aside(t) /\ UNCHANGED graph
    BY MovesProper DEF Proper
  <1>2. \A l \in Locks : life[l] \in Nat /\ life'[l] \in Nat /\ life'[l] >= life[l]
    BY <1>1 DEF Aside, TypeInv, TypeOK
  <1>3. ASSUME NEW i \in 1..(Len(queue[u]) + 1) PROVE ViewOk(u, v[i])'
    <2>1. PICK V \in View : V = v[i]
      <3>1. Len(queue[u]) \in Nat
        BY LenProperties DEF TypeInv, TypeOK
      <3>2. i \in Nat
        BY <3>1
      <3> QED BY <3>2
    <2>2. ViewOk(u, V)
      BY <2>1 DEF ThreadInv, Viewed
    <2>3. \A l \in Locks : V.gen[l] \in Nat /\ (V.gen[l] <= life[l] => V.gen[l] <= life'[l])
      <3>1. V.gen \in [Locks -> Nat]
        BY DEF View
      <3> TAKE l \in Locks
      <3>2. V.gen[l] \in Nat
        BY <3>1
      <3> QED BY <1>2, <3>2
    <2>4. ViewOk(u, V)'
      BY <2>2, <2>3 DEF ViewOk
    <2> QED BY <2>1, <2>4
  <1>4. Analyzed(u, v[1])'
    <2>1. Analyzed(u, v[1])
      BY DEF ThreadInv
    <2> QED BY <1>1, <2>1 DEF Analyzed, GensAt, EnsureGen, graph
  <1>5. ASSUME NEW i \in 1..Len(queue[u]), NEW e \in Event, e = queue[u][i]
        PROVE  Fitted(u, v, i, e)'
    <2>1. Len(queue[u]) \in Nat
      BY LenProperties DEF TypeInv, TypeOK
    <2>2. i \in Nat /\ i \in 1..(Len(queue[u]) + 1)
      BY <2>1
    <2>3. ViewOk(u, v[i]) /\ Fitted(u, v, i, e)
      BY <1>5, <2>2 DEF ThreadInv, Viewed, Queued
    <2> QED BY <2>2, <2>3, FittedKept
  <1> QED BY <1>3, <1>4, <1>5

\* A thread that logs nothing.
LEMMA SameQueue ==
  ASSUME TypeInv, TypeInv', ProgramInv, OneUser, NEW t \in Threads, Moves(t),
         NEW u \in Threads, NEW v \in [Nat -> View], ThreadInv(u, v), queue'[u] = queue[u],
         \A V \in View : ViewOk(u, V) /\ Programmed(u, V) => Programmed(u, V)'
  PROVE  ThreadInv(u, v)'
  <1>1. /\ \A i \in 1..(Len(queue[u]) + 1) : ViewOk(u, v[i])'
        /\ Analyzed(u, v[1])'
        /\ \A i \in 1..Len(queue[u]), e \in Event : e = queue[u][i] => Fitted(u, v, i, e)'
    BY ViewsKept
  <1>2. Viewed(u, v)'
    BY <1>1 DEF Viewed
  <1>3. Queued(u, v)'
    BY <1>1 DEF Queued
  <1>4. ASSUME NEW V \in View, IsLast(u, v, V)' PROVE Programmed(u, V)'
    <2>1. IsLast(u, v, V)
      BY <1>4 DEF IsLast
    <2>2. Len(queue[u]) \in Nat
      BY LenProperties DEF TypeInv, TypeOK
    <2>3. ViewOk(u, V) /\ Programmed(u, V)
      BY <2>1, <2>2 DEF ThreadInv, Viewed, IsLast
    <2> QED BY <2>3
  <1> QED BY <1>1, <1>2, <1>3, <1>4 DEF ThreadInv

\* A thread that logs an event has one view more.
LEMMA LongerQueue ==
  ASSUME TypeInv, TypeInv', ProgramInv, OneUser, NEW t \in Threads, Moves(t),
         NEW v \in [Nat -> View], ThreadInv(t, v), NEW V \in View, IsLast(t, v, V),
         NEW e \in Event, Log(t, e), Logs(t, V, e),
         NEW w, w = [v EXCEPT ![Len(queue[t]) + 2] = After(V, e)]
  PROVE  /\ w \in [Nat -> View] /\ ThreadInv(t, w)'
         /\ \A i \in 1..(Len(queue[t]) + 1) : w[i] = v[i]
  <1>1. PICK n \in Nat : n = Len(queue[t])
    BY LenProperties DEF TypeInv, TypeOK
  <1>2. PICK W \in View : W = After(V, e)
    BY DEF Logs
  <1>3. w = [v EXCEPT ![n + 2] = W] /\ n + 2 \in Nat
    BY <1>1, <1>2
  <1>4. w \in [Nat -> View] /\ w[n + 2] = W /\ \A i \in 1..(n + 1) : w[i] = v[i]
    BY <1>3
  <1>5. /\ Len(queue'[t]) = n + 1
        /\ \A i \in 1..n : queue'[t][i] = queue[t][i]
        /\ queue'[t][n + 1] = e
    BY <1>1, LogType DEF TypeInv
  <1>6. /\ \A i \in 1..(n + 1) : ViewOk(t, v[i])'
        /\ Analyzed(t, v[1])'
        /\ \A i \in 1..n, d \in Event : d = queue[t][i] => Fitted(t, v, i, d)'
    BY <1>1, ViewsKept
  <1>7. Viewed(t, w)'
    <2>1. ASSUME NEW i \in 1..(n + 2) PROVE ViewOk(t, w[i])'
      <3>1. CASE i \in 1..(n + 1)
        <4>1. w[i] = v[i] /\ ViewOk(t, v[i])'
          BY <1>4, <1>6, <3>1
        <4> QED BY <4>1
      <3>2. CASE i = n + 2
        <4>1. w[i] = W /\ ViewOk(t, W)'
          BY <1>2, <1>4, <3>2 DEF Logs
        <4> QED BY <4>1
      <3> QED BY <1>1, <3>1, <3>2
    <2>2. Len(queue'[t]) + 1 = n + 2
      BY <1>1, <1>5
    <2> QED BY <2>1, <2>2 DEF Viewed
  <1>8. Analyzed(t, w[1])'
    <2>1. w[1] = v[1]
      BY <1>1, <1>4
    <2> QED BY <1>6, <2>1
  <1>9. Queued(t, w)'
    <2>1. ASSUME NEW i \in 1..(n + 1), NEW d \in Event, d = queue'[t][i]
          PROVE  Fitted(t, w, i, d)'
      <3>1. CASE i \in 1..n
        <4>1. Fitted(t, v, i, d)'
          BY <1>5, <1>6, <2>1, <3>1
        <4>2. w[i] = v[i] /\ w[i + 1] = v[i + 1]
          BY <1>1, <1>4, <3>1
        <4> QED BY <4>1, <4>2 DEF Fitted
      <3>2. CASE i = n + 1
        <4>1. w[i] = V /\ w[i + 1] = W /\ d = e
          BY <1>1, <1>4, <1>5, <2>1, <3>2 DEF IsLast
        <4> QED BY <1>2, <4>1 DEF Fitted, Logs
      <3> QED BY <1>1, <3>1, <3>2
    <2> QED BY <1>5, <2>1 DEF Queued
  <1>10. ASSUME NEW X \in View, IsLast(t, w, X)' PROVE Programmed(t, X)'
    <2>1. X = W
      BY <1>1, <1>4, <1>5, <1>10 DEF IsLast
    <2> QED BY <1>2, <2>1 DEF Logs
  <1> QED BY <1>1, <1>4, <1>7, <1>8, <1>9, <1>10 DEF ThreadInv

Logging(t) == Post(t) \/ Unlock(t) \/ Destroy(t)

LEMMA MovesQueue ==
  ASSUME TypeInv, ProgramInv, NEW t \in Threads, Moves(t)
  PROVE  /\ ~Logging(t) => queue' = queue
         /\ Logging(t) => \E e \in Event : Log(t, e)
         /\ \A u \in Threads \ {t} : queue'[u] = queue[u]
         /\ Len(queue[t]) \in Nat /\ Len(queue'[t]) \in Nat /\ Len(queue[t]) <= Len(queue'[t])
         /\ \A i \in 1..Len(queue[t]) : queue'[t][i] = queue[t][i]
  <1>1. ~Logging(t) => queue' = queue
    BY DEF Moves, Logging, Ask, Get, Fail, RealUnlock, CondWait, CondWake, InitLock, RealDestroy
  <1>2. Logging(t) => \E e \in Event : Log(t, e)
    BY PostDoes, UnlockDoes, DestroyDoesProgram DEF Logging
  <1>3. Len(queue[t]) \in Nat
    BY LenProperties DEF TypeInv, TypeOK
  <1>4. CASE queue' = queue
    BY <1>1, <1>2, <1>3, <1>4
  <1>5. ASSUME NEW e \in Event, Log(t, e)
        PROVE  /\ \A u \in Threads \ {t} : queue'[u] = queue[u]
               /\ Len(queue'[t]) \in Nat /\ Len(queue[t]) <= Len(queue'[t])
               /\ \A i \in 1..Len(queue[t]) : queue'[t][i] = queue[t][i]
    BY <1>3, <1>5, LogType DEF TypeInv
  <1> QED BY <1>1, <1>2, <1>3, <1>4, <1>5

LEMMA MovesThread ==
  ASSUME TypeInv, TypeInv', ProgramInv, OneUser, NEW t \in Threads, Moves(t),
         NEW v \in [Nat -> View], ThreadInv(t, v)
  PROVE  \E w \in [Nat -> View] : /\ ThreadInv(t, w)'
                                  /\ \A i \in 1..(Len(queue[t]) + 1) : w[i] = v[i]
  <1>1. CASE ~Logging(t)
    <2>1. queue'[t] = queue[t]
      BY <1>1, MovesQueue
    <2>2. ASSUME NEW V \in View, ViewOk(t, V), Programmed(t, V) PROVE Programmed(t, V)'
      BY <1>1, <2>2, AskProgrammed, GetProgrammed, FailProgrammed, RealUnlockProgrammed,
         CondWaitProgrammed, CondWakeProgrammed, InitLockProgrammed, RealDestroyProgrammed
         DEF Moves, Logging
    <2>3. ThreadInv(t, v)'
      BY <2>1, <2>2, SameQueue
    <2> QED BY <2>3
  <1>2. CASE Logging(t)
    <2>1. Len(queue[t]) \in Nat
      BY MovesQueue
    <2>2. PICK V \in View : V = v[Len(queue[t]) + 1]
      BY <2>1
    <2>3. IsLast(t, v, V) /\ ViewOk(t, V) /\ Programmed(t, V)
      BY <2>1, <2>2 DEF ThreadInv, Viewed, IsLast
    <2>4. PICK e \in Event : Log(t, e) /\ Logs(t, V, e)
      BY <1>2, <2>3, PostLogs, UnlockLogs, DestroyLogs DEF Logging
    <2>5. PICK w : w = [v EXCEPT ![Len(queue[t]) + 2] = After(V, e)]
      OBVIOUS
    <2> QED BY <2>3, <2>4, <2>5, LongerQueue
  <1> QED BY <1>1, <1>2

LEMMA MovesOthers ==
  ASSUME TypeInv, TypeInv', ProgramInv, OneUser, NEW t \in Threads, Moves(t),
         NEW u \in Threads \ {t}, NEW v \in [Nat -> View], ThreadInv(u, v)
  PROVE  ThreadInv(u, v)'
  <1>1. Aside(t) /\ queue'[u] = queue[u]
    BY MovesProper, MovesQueue DEF Proper
  <1>2. \A V \in View : Programmed(u, V) => Programmed(u, V)'
    BY <1>1, AsideProgrammed
  <1> QED BY <1>1, <1>2, SameQueue
-----------------------------------------------------------------------------
(* The sights that are still to come.                                      *)

MakesEdge(V, e, key) == \E h \in Locks : Makes(V, e, h) /\ EdgeOf(V, e, h) = key
\* An event that makes the edge is in a queue, or about to be logged.
Coming(key, vw) ==
  \E t \in Threads :
    \/ \E i \in 1..Len(queue[t]), e \in Event : e = queue[t][i] /\ MakesEdge(vw[t][i], e, key)
    \/ /\ pc[t] = "posting"
       /\ \E V \in View, e \in Event : /\ IsLast(t, vw[t], V) /\ e = arg[t]
                                       /\ MakesEdge(V, e, key)
SightInv(vw) ==
  \A s \in asked : Current(s.from) /\ Current(s.to) =>
    <<s.from, s.to>> \in DOMAIN edges \/ Coming(<<s.from, s.to>>, vw)

\* What thread t sees when it asks for a lock, the event will tell.
LEMMA SeenComes ==
  ASSUME TypeInv, ProgramInv, NEW t \in Threads, NEW V \in View, ViewOk(t, V), Programmed(t, V),
         pc[t] \in {"asking", "waiting"}, NEW e, e.addr = arg[t].addr, Looks(V, e),
         NEW k, NEW got, NEW s \in Seen(t, arg[t].addr, k, got)
  PROVE  MakesEdge(V, e, <<s.from, s.to>>)
  <1> DEFINE l == arg[t].addr
  <1>1. PICK h \in Held(t) \ {l} : s.from = <<h, life[h]>> /\ s.to = <<l, life[l]>>
    BY DEF Seen
  <1>2. /\ h \in Locks /\ holds[t][h] > 0 /\ h # l /\ t \in Users[h]
        /\ l \in Locks /\ t \in Users[l]
    BY <1>1 DEF Held, ProgramInv, HoldsInv, CallInv
  <1>3. V.cnt[h] > 0
    BY <1>2, SeenElsewhere DEF Programmed, At
  <1>4. V.gen[h] = life[h] /\ V.gen[l] = life[l]
    BY <1>2, GenIsLife DEF Programmed
  <1>5. Makes(V, e, h)
    BY <1>2, <1>3 DEF Makes
  <1>6. EdgeOf(V, e, h) = <<s.from, s.to>>
    BY <1>1, <1>4 DEF EdgeOf
  <1> QED BY <1>2, <1>5, <1>6 DEF MakesEdge

LEMMA CurrentBefore ==
  ASSUME TypeInv, ProgramInv, NEW t \in Threads, Moves(t), NEW s \in asked,
         NEW id, id = s.from \/ id = s.to, Current(id)'
  PROVE  Current(id)
  <1>1. PICK a, g : id = <<a, g>> /\ a \in Locks /\ g \in Nat
    BY DEF TypeInv, TypeOK, Sighting, LockId
  <1>2. exists'[a] = "live" /\ g = life'[a]
    BY <1>1 DEF Current
  <1>3. exists[a] = "live" /\ life'[a] = life[a]
    <2>1. CASE InitLock(t)
      BY <1>1, <1>2, <2>1, InitLockDoes
    <2>2. CASE Post(t)
      <3>1. life'[a] = life[a]
        BY <2>2, PostDoes
      <3>2. CASE a = arg[t].addr /\ arg[t].op = "INIT"
        <4>1. Made(t, a)
          BY <2>2, <3>2, PostDoes DEF ProgramInv, CallInv, Got, Woken
        <4>2. s.from # <<a, life[a]>> /\ s.to # <<a, life[a]>>
          BY <4>1 DEF Made
        <4> QED BY <1>1, <1>2, <3>1, <4>2
      <3>3. CASE ~(a = arg[t].addr /\ arg[t].op = "INIT")
        BY <1>1, <1>2, <2>2, <3>1, <3>3, PostDoes
      <3> QED BY <3>2, <3>3
    <2>3. CASE Destroy(t)
      BY <1>1, <1>2, <2>3, DestroyDoesProgram
    <2>4. CASE RealDestroy(t)
      BY <1>1, <1>2, <2>4, RealDestroyDoes
    <2>5. CASE UNCHANGED <<exists, life>>
      BY <1>2, <2>5
    <2> QED BY <2>1, <2>2, <2>3, <2>4, <2>5
            DEF Moves, Ask, Get, Fail, Unlock, RealUnlock, CondWait, CondWake
  <1> QED BY <1>1, <1>2, <1>3 DEF Current

\* A new sight comes with the event of the call.
LEMMA NewSight ==
  ASSUME TypeInv, ProgramInv, NEW t \in Threads, Moves(t), NEW s \in asked' \ asked,
         NEW V \in View, ViewOk(t, V), Programmed(t, V)
  PROVE  /\ pc'[t] = "posting" /\ queue' = queue
         /\ \E e \in Event : e = arg'[t] /\ MakesEdge(V, e, <<s.from, s.to>>)
  <1>1. CASE Get(t)
    <2>1. /\ pc[t] = "asking" /\ pc[t] # "idle" /\ TakesLock(t, arg[t].kind)
          /\ arg[t].op \in {"LOCK_POST", "TRYLOCK_POST"} /\ arg[t].ok
          /\ ~(holds[t][arg[t].addr] > 0)
          /\ s \in Seen(t, arg[t].addr, arg[t].kind, TRUE)
      BY <1>1, GetDoes
    <2>2. PICK e \in Event : e = arg[t]
      BY <2>1, CallArg
    <2>3. Looks(V, e)
      <3>1. e.addr \in Locks /\ holds[t][e.addr] = 0
        BY <2>1, <2>2 DEF TypeInv, TypeOK, Event
      <3>2. V.cnt[e.addr] = holds[t][e.addr]
        BY <2>1, <3>1 DEF Programmed, At, HoldsSeen, Posting, About
      <3> QED BY <2>1, <2>2, <3>1, <3>2 DEF Looks, Takes
    <2>4. e = arg'[t] /\ pc'[t] = "posting" /\ queue' = queue
      BY <2>1, <2>2 DEF TakesLock
    <2> QED BY <2>1, <2>2, <2>3, <2>4, SeenComes
  <1>2. CASE CondWake(t)
    <2>1. /\ pc[t] = "waiting" /\ pc[t] # "idle" /\ TakesLock(t, "MUTEX")
          /\ Waiting(t, arg[t].addr) /\ s \in Seen(t, arg[t].addr, "MUTEX", TRUE)
      BY <1>2, CondWakeDoes
    <2>2. PICK e \in Event : e = arg[t]
      BY <2>1, CallArg
    <2>3. Looks(V, e)
      BY <2>1, <2>2 DEF Looks, Waiting
    <2>4. e = arg'[t] /\ pc'[t] = "posting" /\ queue' = queue
      BY <2>1, <2>2 DEF TakesLock
    <2> QED BY <2>1, <2>2, <2>3, <2>4, SeenComes
  <1>3. CASE Fail(t)
    <2>1. /\ pc[t] = "asking" /\ pc[t] # "idle" /\ pc'[t] = "posting" /\ queue' = queue
          /\ arg'[t].addr = arg[t].addr /\ arg'[t].op = "TRYLOCK_POST" /\ ~arg'[t].ok
          /\ s \in Seen(t, arg[t].addr, arg[t].kind, FALSE)
      BY <1>3, FailDoes DEF Asking
    <2>2. PICK e \in Event : e = arg'[t]
      <3>1. arg' = [arg EXCEPT ![t].ok = FALSE]
        BY <1>3 DEF Fail
      <3>2. arg[t] \in Event
        BY <2>1, CallArg
      <3>3. arg'[t] = [arg[t] EXCEPT !.ok = FALSE]
        BY <3>1 DEF TypeInv, TypeOK
      <3> QED BY <3>2, <3>3 DEF Event
    <2>3. Looks(V, e)
      BY <2>1, <2>2 DEF Looks
    <2> QED BY <2>1, <2>2, <2>3, SeenComes
  <1> QED BY <1>1, <1>2, <1>3 DEF Moves, Ask, Post, Unlock, RealUnlock, CondWait, InitLock,
                                   Destroy, RealDestroy

LEMMA SightsKept ==
  ASSUME TypeInv, ProgramInv, NEW t \in Threads, Moves(t), edges' = edges,
         NEW vw \in [Threads -> [Nat -> View]], ThreadInv(t, vw[t]), SightInv(vw),
         NEW w \in [Nat -> View], \A i \in 1..(Len(queue[t]) + 1) : w[i] = vw[t][i],
         NEW ww, ww = [vw EXCEPT ![t] = w]
  PROVE  SightInv(ww)'
  <1>1. /\ ww[t] = w /\ \A u \in Threads \ {t} : ww[u] = vw[u]
        /\ Len(queue[t]) \in Nat
    BY MovesQueue
  <1>2. PICK V \in View : IsLast(t, vw[t], V)
    BY <1>1 DEF IsLast
  <1>3. ViewOk(t, V) /\ Programmed(t, V)
    BY <1>1, <1>2 DEF ThreadInv, Viewed, IsLast
  <1>4. ASSUME NEW s \in asked' \ asked PROVE Coming(<<s.from, s.to>>, ww)'
    <2>1. PICK e \in Event : e = arg'[t] /\ MakesEdge(V, e, <<s.from, s.to>>)
      BY <1>3, NewSight
    <2>2. pc'[t] = "posting" /\ queue' = queue
      BY <1>3, NewSight
    <2>3. IsLast(t, ww[t], V)'
      BY <1>1, <1>2, <2>2 DEF IsLast
    <2> QED BY <2>1, <2>2, <2>3 DEF Coming
  <1>5. ASSUME NEW key, Coming(key, vw) PROVE Coming(key, ww)'
    <2>1. PICK u \in Threads :
            \/ \E i \in 1..Len(queue[u]), e \in Event :
                 e = queue[u][i] /\ MakesEdge(vw[u][i], e, key)
            \/ /\ pc[u] = "posting"
               /\ \E X \in View, e \in Event : /\ IsLast(u, vw[u], X) /\ e = arg[u]
                                               /\ MakesEdge(X, e, key)
      BY <1>5 DEF Coming
    <2>2. CASE \E i \in 1..Len(queue[u]), e \in Event :
                 e = queue[u][i] /\ MakesEdge(vw[u][i], e, key)
      <3>1. PICK i \in 1..Len(queue[u]), e \in Event :
                 e = queue[u][i] /\ MakesEdge(vw[u][i], e, key)
        BY <2>2
      <3>2. i \in 1..Len(queue'[u]) /\ e = queue'[u][i] /\ ww[u][i] = vw[u][i]
        <4>1. CASE u = t
          <5>1. /\ i \in 1..Len(queue'[t]) /\ queue'[t][i] = queue[t][i]
                /\ i \in 1..(Len(queue[t]) + 1)
            BY <3>1, <4>1, MovesQueue
          <5> QED BY <1>1, <3>1, <4>1, <5>1
        <4>2. CASE u # t
          BY <1>1, <3>1, <4>2, MovesQueue
        <4> QED BY <4>1, <4>2
      <3>3. MakesEdge(ww[u][i], e, key)
        BY <3>1, <3>2
      <3> QED BY <3>2, <3>3 DEF Coming
    <2>3. ASSUME pc[u] = "posting", NEW X \in View, NEW e \in Event,
                 IsLast(u, vw[u], X), e = arg[u], MakesEdge(X, e, key)
          PROVE  Coming(key, ww)'
      <3>1. CASE u # t
        <4>1. pc'[u] = pc[u] /\ arg'[u] = arg[u] /\ queue'[u] = queue[u] /\ ww[u] = vw[u]
          BY <1>1, <3>1, MovesProper, MovesQueue DEF Proper, Aside, Alone
        <4>2. IsLast(u, ww[u], X)'
          BY <2>3, <4>1 DEF IsLast
        <4> QED BY <2>3, <4>1, <4>2 DEF Coming
      <3>2. CASE u = t
        <4>1. Post(t)
          BY <2>3, <3>2, AskDoes, GetDoes, FailDoes, UnlockDoes, RealUnlockDoes, CondWaitDoes,
             CondWakeDoes, InitLockDoes, DestroyDoesProgram, RealDestroyDoes DEF Moves
        <4>2. Log(t, e)
          BY <2>3, <3>2, <4>1, PostDoes
        <4>3. /\ Len(queue'[t]) = Len(queue[t]) + 1
              /\ queue'[t][Len(queue[t]) + 1] = e
          BY <4>2, LogType DEF TypeInv
        <4>4. PICK i : i = Len(queue[t]) + 1
          OBVIOUS
        <4>5. i \in 1..Len(queue'[t]) /\ queue'[t][i] = e /\ i \in 1..(Len(queue[t]) + 1)
          BY <1>1, <4>3, <4>4
        <4>6. ww[t][i] = X
          BY <1>1, <2>3, <3>2, <4>4, <4>5 DEF IsLast
        <4>7. MakesEdge(ww[t][i], e, key)
          BY <2>3, <4>6
        <4> QED BY <4>5, <4>7 DEF Coming
      <3> QED BY <3>1, <3>2
    <2> QED BY <2>1, <2>2, <2>3
  <1>6. SUFFICES ASSUME NEW s \in asked', Current(s.from)', Current(s.to)'
                 PROVE  <<s.from, s.to>> \in DOMAIN edges' \/ Coming(<<s.from, s.to>>, ww)'
    BY DEF SightInv
  <1>7. CASE s \in asked
    <2>1. Current(s.from) /\ Current(s.to)
      BY <1>6, <1>7, CurrentBefore
    <2> QED BY <1>5, <1>7, <2>1 DEF SightInv
  <1> QED BY <1>4, <1>6, <1>7
-----------------------------------------------------------------------------
(* Every event that is replayed keeps the edges right.                     *)

AliveId(id) == id \in DOMAIN meta /\ meta[id]
EdgeInv == EdgesAreSights /\ \A key \in DOMAIN edges : AliveId(key[1]) /\ AliveId(key[2])

\* Only destroy makes a lock forgotten.
LEMMA AliveKept ==
  ASSUME GraphTypeOK, NEW t \in Threads, NEW e \in Event, Replay(t, e), e.op # "DESTROY",
         NEW id, AliveId(id)
  PROVE  AliveId(id)'
  <1> DEFINE a == e.addr
  <1>1. a \in Locks /\ e.op \in EvOp
    BY ReplayCases
  <1>2. CASE e.op = "INIT"
    <2>1. OnInit(a)
      BY <1>2, ReplayCases
    <2> QED BY <1>1, <2>1, InitDoes DEF AliveId
  <1>3. CASE Touch(a)
    BY <1>1, <1>3, TouchDoes DEF AliveId
  <1>4. CASE UNCHANGED meta
    BY <1>4 DEF AliveId
  <1>5. e.op = "INIT" \/ Touch(a) \/ UNCHANGED meta
    BY <1>1, ReplayCases DEF EvOp, Takes, OnAcquire, Acquire, OnAcquireAttempt, OnCondPost,
                             OnUnlock, graph
  <1> QED BY <1>2, <1>3, <1>4, <1>5

LEMMA AliveTouched ==
  ASSUME GraphTypeOK, NEW t \in Threads, NEW e \in Event, Replay(t, e), NEW V \in View,
         Fits(t, V, e), GensAt(t, V), Looks(V, e)
  PROVE  AliveId(<<e.addr, V.gen[e.addr]>>)'
  <1>1. PICK a, g : a = e.addr /\ g = V.gen[a]
    OBVIOUS
  <1>2. a \in Locks /\ t \in Users[a] /\ V.alive[a]
    BY <1>1, ReplayCases DEF Fits, Looks, Takes
  <1>3. EnsureGen(a) = g /\ (<<a, g>> \in DOMAIN meta => meta[<<a, g>>])
    BY <1>1, <1>2 DEF GensAt
  <1>4. Touch(a)
    BY <1>1, ReplayCases DEF Looks, Takes, OnAcquire, Acquire, OnAcquireAttempt, OnCondPost
  <1>5. AliveId(<<a, g>>)'
    BY <1>2, <1>3, <1>4, TouchDoes DEF AliveId
  <1> QED BY <1>1, <1>5

LEMMA GrowKeepsEdgeInv ==
  ASSUME GraphTypeOK, EdgeInv, NEW t \in Threads, NEW e \in Event, NEW V \in View, ViewOk(t, V),
         Fits(t, V, e), Analyzed(t, V), Witnessed(V, e), Replay(t, e), e.op # "DESTROY",
         UNCHANGED asked
  PROVE  EdgeInv'
  <1>1. EdgesGrow(V, e)
    BY ReplayEdges
  <1>2. ASSUME NEW key \in DOMAIN edges \cap DOMAIN edges'
        PROVE  /\ \E s \in asked' : SightOf(s, key, edges'[key])
               /\ AliveId(key[1])' /\ AliveId(key[2])'
    <2>1. edges'[key] = edges[key] /\ AliveId(key[1]) /\ AliveId(key[2])
      BY <1>1 DEF EdgesGrow, EdgeInv
    <2>2. \E s \in asked : SightOf(s, key, edges[key])
      BY DEF EdgeInv, EdgesAreSights, SightOf
    <2>3. AliveId(key[1])' /\ AliveId(key[2])'
      BY <2>1, AliveKept
    <2> QED BY <2>1, <2>2, <2>3
  <1>3. ASSUME NEW key \in DOMAIN edges' \ DOMAIN edges
        PROVE  /\ \E s \in asked' : SightOf(s, key, edges'[key])
               /\ AliveId(key[1])' /\ AliveId(key[2])'
    <2>1. PICK h \in Locks : /\ Makes(V, e, h) /\ key = EdgeOf(V, e, h)
                             /\ edges'[key] = KindsOf(V, e, h)
      BY <1>1 DEF EdgesGrow
    <2>2. \E s \in asked' : SightOf(s, key, edges'[key])
      BY <2>1 DEF Witnessed
    <2>3. V.cnt[h] > 0 /\ Looks(V, e)
      BY <2>1 DEF Makes
    <2>4. PICK id : id = <<h, V.gen[h]>>
      OBVIOUS
    <2>5. AliveId(id)
      <3>1. V.alive[h] /\ t \in Users[h]
        BY <2>3 DEF ViewOk
      <3> QED BY <2>3, <2>4, <3>1 DEF Analyzed, GensAt, AliveId
    <2>6. AliveId(id)'
      BY <2>5, AliveKept
    <2>7. PICK to : to = <<e.addr, V.gen[e.addr]>>
      OBVIOUS
    <2>8. AliveId(to)'
      BY <2>3, <2>7, AliveTouched DEF Analyzed
    <2>9. key[1] = id /\ key[2] = to
      BY <2>1, <2>4, <2>7 DEF EdgeOf
    <2> QED BY <2>2, <2>6, <2>8, <2>9
  <1>4. \A key \in DOMAIN edges' : /\ \E s \in asked' : SightOf(s, key, edges'[key])
                                   /\ AliveId(key[1])' /\ AliveId(key[2])'
    BY <1>2, <1>3
  <1>5. EdgesAreSights'
    BY <1>4 DEF EdgesAreSights, SightOf
  <1> QED BY <1>4, <1>5 DEF EdgeInv

LEMMA DestroyKeepsEdgeInv ==
  ASSUME GraphTypeOK, EdgeInv, NEW t \in Threads, NEW e \in Event, NEW V \in View, ViewOk(t, V),
         Fits(t, V, e), Analyzed(t, V), Replay(t, e), e.op = "DESTROY", UNCHANGED asked
  PROVE  /\ EdgeInv'
         /\ \A key \in DOMAIN edges : \/ key \in DOMAIN edges'
                                      \/ key[1] = <<e.addr, V.gen[e.addr]>>
                                      \/ key[2] = <<e.addr, V.gen[e.addr]>>
  <1>1. PICK a, g : a = e.addr /\ g = V.gen[a]
    OBVIOUS
  <1>2. a \in Locks /\ t \in Users[a] /\ a \in Dynamic /\ V.alive[a] /\ OnDestroy(a)
    BY <1>1, ReplayCases DEF Fits
  <1>3. addr_gen[a] = g /\ g >= 1
    BY <1>1, <1>2 DEF Analyzed, GensAt, ViewOk
  <1>4. addr_gen[a] # 0
    BY <1>3
  <1>5. \A key : key \in DOMAIN edges' <=>
           key \in DOMAIN edges /\ key[1] # <<a, g>> /\ key[2] # <<a, g>>
    BY <1>2, <1>3, <1>4, DestroyDoes
  <1>6. \A key \in DOMAIN edges' : key \in DOMAIN edges /\ edges'[key] = edges[key]
    BY <1>2, DestroyDoes
  <1>7. \A id : id # <<a, g>> /\ AliveId(id) => AliveId(id)'
    BY <1>2, <1>3, DestroyDoes DEF AliveId
  <1>8. \A key \in DOMAIN edges' : AliveId(key[1])' /\ AliveId(key[2])'
    BY <1>5, <1>7 DEF EdgeInv
  <1>9. EdgesAreSights'
    BY <1>6 DEF EdgeInv, EdgesAreSights
  <1> QED BY <1>1, <1>5, <1>8, <1>9 DEF EdgeInv
-----------------------------------------------------------------------------
(* Replaying an event takes the thread's first view away.                  *)

\* What is said of the program alone.
LEMMA ProgramSame ==
  ASSUME UNCHANGED program, NEW u
  PROVE  /\ \A V : ViewOk(u, V) => ViewOk(u, V)'
         /\ \A V : Programmed(u, V) => Programmed(u, V)'
         /\ \A v, i, e : Fitted(u, v, i, e) => Fitted(u, v, i, e)'
  <1>1. ASSUME NEW V, ViewOk(u, V) PROVE ViewOk(u, V)'
    BY <1>1 DEF ViewOk, program
  <1>2. \A l : HeldKind(l)' = HeldKind(l)
    BY KeptKinds DEF program
  <1>3. \A l : HoldsSeen(u, l)' = HoldsSeen(u, l) /\ LifeSeen(u, l)' = LifeSeen(u, l)
    BY DEF program, HoldsSeen, LifeSeen, Posting, About
  <1>4. ASSUME NEW V, NEW e, Witnessed(V, e) PROVE Witnessed(V, e)'
    BY <1>4 DEF Witnessed, program
  <1>5. ASSUME NEW V, Programmed(u, V) PROVE Programmed(u, V)'
    <2>1. \A l \in Locks : At(u, V, l)'
      BY <1>2, <1>3, <1>5 DEF Programmed, At, program
    <2>2. PICK e : e = arg[u]
      OBVIOUS
    <2>3. e = arg'[u] /\ pc'[u] = pc[u]
      BY <2>2 DEF program
    <2>4. pc[u] = "posting" => Witnessed(V, e)
      BY <1>5, <2>2 DEF Programmed
    <2>5. pc[u] = "posting" => Witnessed(V, e)'
      BY <1>4, <2>4
    <2>6. pc'[u] = "posting" => Witnessed(V, arg[u])'
      BY <2>3, <2>5 DEF Witnessed, Makes, Looks, Takes, EdgeOf, KindsOf, SightOf
    <2> QED BY <2>1, <2>6 DEF Programmed
  <1>6. ASSUME NEW v, NEW i, NEW e, Fitted(u, v, i, e) PROVE Fitted(u, v, i, e)'
    BY <1>4, <1>6 DEF Fitted, Gone, About, program
  <1> QED BY <1>1, <1>5, <1>6

LEMMA DeliverOthers ==
  ASSUME TypeInv, OneUser, NEW t \in Threads, UNCHANGED program,
         NEW e \in Event, NEW V \in View, Fits(t, V, e), Replay(t, e),
         \A u \in Threads \ {t} : stacks'[u] = stacks[u],
         NEW u \in Threads \ {t}, queue'[u] = queue[u], NEW v \in [Nat -> View],
         ThreadInv(u, v)
  PROVE  ThreadInv(u, v)'
  <1>1. GraphTypeOK /\ Len(queue[u]) \in Nat
    BY LenProperties DEF TypeInv, TypeOK
  <1>2. PICK X \in View : X = v[1]
    OBVIOUS
  <1>3. ViewOk(u, X) /\ Analyzed(u, X)
    BY <1>1, <1>2 DEF ThreadInv, Viewed
  <1>4. GensAt(u, X)'
    BY <1>1, <1>3, ReplayOthersGens DEF Analyzed
  <1>5. Analyzed(u, X)'
    BY <1>3, <1>4 DEF Analyzed
  <1>6. Viewed(u, v)'
    BY ProgramSame DEF ThreadInv, Viewed
  <1>7. Queued(u, v)'
    BY ProgramSame DEF ThreadInv, Queued
  <1>8. \A W \in View : IsLast(u, v, W)' => Programmed(u, W)'
    BY ProgramSame DEF ThreadInv, IsLast
  <1> QED BY <1>2, <1>5, <1>6, <1>7, <1>8 DEF ThreadInv

\* What is known of the next event of thread t.
LEMMA NextFits ==
  ASSUME TypeInv, NEW t \in Threads, Deliver(t), NEW v, ThreadInv(t, v),
         NEW e \in Event, e = queue[t][1], NEW V, V = v[1]
  PROVE  Fitted(t, v, 1, e) /\ ViewOk(t, V) /\ Analyzed(t, V)
  <1>1. PICK n \in Nat : n = Len(queue[t]) /\ n > 0
    BY DeliverType DEF TypeInv
  <1>2. 1 \in 1..n /\ 1 \in 1..(n + 1)
    BY <1>1
  <1>3. 1 \in 1..Len(queue[t]) /\ 1 \in 1..(Len(queue[t]) + 1)
    BY ONLY <1>1, <1>2
  <1> QED BY <1>3 DEF ThreadInv, Viewed, Queued

LEMMA DeliverThread ==
  ASSUME TypeInv, NEW t \in Threads, Deliver(t), NEW v \in [Nat -> View], ThreadInv(t, v),
         NEW w, w = [i \in Nat |-> v[i + 1]]
  PROVE  w \in [Nat -> View] /\ ThreadInv(t, w)'
  <1>1. PICK n \in Nat : n = Len(queue'[t]) /\ Len(queue[t]) = n + 1
    <2>1. /\ Len(queue[t]) \in Nat /\ Len(queue[t]) > 0
          /\ Len(queue'[t]) = Len(queue[t]) - 1
      BY DeliverType DEF TypeInv
    <2> QED BY <2>1
  <1>2. w \in [Nat -> View] /\ \A i \in Nat : w[i] = v[i + 1]
    OBVIOUS
  <1>3. PICK e \in Event : e = queue[t][1]
    BY DeliverType DEF TypeInv
  <1>4. PICK V, W \in View : V = v[1] /\ W = v[2]
    OBVIOUS
  <1>5. Fitted(t, v, 1, e) /\ ViewOk(t, V) /\ Analyzed(t, V)
    BY <1>3, <1>4, NextFits
  <1>6. Fits(t, V, e) /\ W = After(V, e) /\ GraphTypeOK /\ Replay(t, e)
    BY <1>3, <1>4, <1>5, DeliverType DEF Fitted, Deliver, TypeInv, TypeOK
  <1>7. UNCHANGED program
    BY DEF Deliver
  <1>8. Analyzed(t, w[1])'
    <2>1. stacks'[t] = NodesOf(W)
      BY <1>5, <1>6, ReplayStacks
    <2>2. GensAt(t, After(V, e))'
      BY <1>5, <1>6, ReplayGens DEF Analyzed
    <2>3. w[1] = W /\ W = After(V, e)
      <3>1. 1 \in Nat /\ 1 + 1 = 2
        OBVIOUS
      <3>2. w[1] = v[1 + 1]
        BY <1>2, <3>1
      <3> QED BY <1>4, <1>6, <3>1, <3>2
    <2> QED BY <2>1, <2>2, <2>3 DEF Analyzed
  <1>9. Viewed(t, w)'
    <2>1. ASSUME NEW i \in 1..(n + 1) PROVE ViewOk(t, w[i])'
      <3>1. ViewOk(t, v[i + 1]) /\ w[i] = v[i + 1]
        <4>1. i \in Nat /\ i + 1 \in 1..(Len(queue[t]) + 1)
          BY <1>1
        <4> QED BY <1>2, <4>1 DEF ThreadInv, Viewed
      <3> QED BY <1>7, <3>1, ProgramSame
    <2> QED BY <1>1, <2>1 DEF Viewed
  <1>10. Queued(t, w)'
    <2>1. ASSUME NEW i \in 1..n, NEW d \in Event, d = queue'[t][i] PROVE Fitted(t, w, i, d)'
      <3>1. d = queue[t][i + 1] /\ i + 1 \in 1..Len(queue[t])
        BY <1>1, <2>1, DeliverType DEF TypeInv
      <3>2. Fitted(t, v, i + 1, d)
        BY <3>1 DEF ThreadInv, Queued
      <3>3. w[i] = v[i + 1] /\ w[i + 1] = v[(i + 1) + 1]
        <4>1. i \in Nat /\ i + 1 \in Nat
          BY <1>1
        <4> QED BY <1>2, <4>1
      <3>4. Fitted(t, w, i, d)
        BY <3>2, <3>3 DEF Fitted
      <3> QED BY <1>7, <3>4, ProgramSame
    <2> QED BY <1>1, <2>1 DEF Queued
  <1>11. ASSUME NEW X \in View, IsLast(t, w, X)' PROVE Programmed(t, X)'
    <2>1. X = v[Len(queue[t]) + 1]
      BY <1>1, <1>2, <1>11 DEF IsLast
    <2> QED BY <1>7, <2>1, ProgramSame DEF ThreadInv, IsLast
  <1> QED BY <1>2, <1>8, <1>9, <1>10, <1>11 DEF ThreadInv

LEMMA DeliverSights ==
  ASSUME TypeInv, ProgramInv, EdgeInv, NEW t \in Threads, Deliver(t),
         NEW vw \in [Threads -> [Nat -> View]], ThreadInv(t, vw[t]), SightInv(vw),
         NEW ww, ww = [vw EXCEPT ![t] = [i \in Nat |-> vw[t][i + 1]]]
  PROVE  SightInv(ww)'
  <1>1. PICK n \in Nat : n = Len(queue'[t]) /\ Len(queue[t]) = n + 1
    <2>1. /\ Len(queue[t]) \in Nat /\ Len(queue[t]) > 0
          /\ Len(queue'[t]) = Len(queue[t]) - 1
      BY DeliverType DEF TypeInv
    <2> QED BY <2>1
  <1>2. /\ \A i \in Nat : ww[t][i] = vw[t][i + 1]
        /\ \A u \in Threads \ {t} : ww[u] = vw[u] /\ queue'[u] = queue[u]
    BY DeliverType DEF TypeInv
  <1>3. PICK e \in Event : e = queue[t][1]
    BY DeliverType DEF TypeInv
  <1>4. PICK V \in View : V = vw[t][1]
    OBVIOUS
  <1>5. Fitted(t, vw[t], 1, e) /\ ViewOk(t, V) /\ Analyzed(t, V)
    BY <1>3, <1>4, NextFits
  <1>6. Fits(t, V, e) /\ GraphTypeOK /\ Replay(t, e) /\ UNCHANGED program
    BY <1>3, <1>4, <1>5, DeliverType DEF Fitted, Deliver, TypeInv, TypeOK
  <1>7. ASSUME NEW key, MakesEdge(V, e, key) PROVE key \in DOMAIN edges'
    <2>1. e.op # "DESTROY"
      BY <1>7 DEF MakesEdge, Makes, Looks, Takes
    <2>2. EdgesGrow(V, e)
      BY <1>5, <1>6, <2>1, ReplayEdges
    <2> QED BY <1>7, <2>2 DEF MakesEdge, EdgesGrow
  <1>8. ASSUME NEW key, Coming(key, vw) PROVE key \in DOMAIN edges' \/ Coming(key, ww)'
    <2>1. PICK u \in Threads :
            \/ \E i \in 1..Len(queue[u]), d \in Event :
                 d = queue[u][i] /\ MakesEdge(vw[u][i], d, key)
            \/ /\ pc[u] = "posting"
               /\ \E X \in View, d \in Event : /\ IsLast(u, vw[u], X) /\ d = arg[u]
                                               /\ MakesEdge(X, d, key)
      BY <1>8 DEF Coming
    <2>2. ASSUME NEW i \in 1..Len(queue[u]), NEW d \in Event,
                 d = queue[u][i], MakesEdge(vw[u][i], d, key)
          PROVE  key \in DOMAIN edges' \/ Coming(key, ww)'
      <3>1. CASE u # t
        BY <1>2, <2>2, <3>1 DEF Coming
      <3>2. CASE u = t /\ i = 1
        BY <1>3, <1>4, <1>7, <2>2, <3>2
      <3>3. CASE u = t /\ i # 1
        <4>1. PICK j \in 1..n : i = j + 1
          <5>1. i \in 1..(n + 1) /\ i # 1
            BY <1>1, <3>3
          <5>2. i - 1 \in 1..n /\ i = (i - 1) + 1
            BY <5>1
          <5> QED BY <5>2
        <4>2. d = queue'[t][j] /\ ww[t][j] = vw[t][i]
          BY <1>1, <1>2, <2>2, <3>3, <4>1, DeliverType DEF TypeInv
        <4>3. MakesEdge(ww[t][j], d, key)
          BY <2>2, <3>3, <4>2
        <4> QED BY <1>1, <4>2, <4>3 DEF Coming
      <3> QED BY <3>1, <3>2, <3>3
    <2>3. ASSUME pc[u] = "posting", NEW X \in View, NEW d \in Event,
                 IsLast(u, vw[u], X), d = arg[u], MakesEdge(X, d, key)
          PROVE  Coming(key, ww)'
      <3>1. IsLast(u, ww[u], X)'
        <4>1. CASE u # t
          BY <1>2, <2>3, <4>1 DEF IsLast
        <4>2. CASE u = t
          <5>1. n + 1 \in Nat /\ Len(queue'[t]) + 1 = n + 1 /\ Len(queue[t]) + 1 = (n + 1) + 1
            BY <1>1
          <5>2. ww[t][n + 1] = vw[t][(n + 1) + 1]
            BY <1>2, <5>1
          <5> QED BY <2>3, <4>2, <5>1, <5>2 DEF IsLast
        <4> QED BY <4>1, <4>2
      <3>2. pc'[u] = "posting" /\ d = arg'[u]
        BY <1>6, <2>3 DEF program
      <3> QED BY <2>3, <3>1, <3>2 DEF Coming
    <2> QED BY <2>1, <2>2, <2>3
  <1>9. SUFFICES ASSUME NEW s \in asked, Current(s.from), Current(s.to)
                 PROVE  <<s.from, s.to>> \in DOMAIN edges' \/ Coming(<<s.from, s.to>>, ww)'
    BY <1>6 DEF SightInv, Current, program
  <1>10. CASE <<s.from, s.to>> \in DOMAIN edges
    <2>1. CASE e.op # "DESTROY"
      BY <1>5, <1>6, <1>10, <2>1, ReplayEdges DEF EdgesGrow
    <2>2. CASE e.op = "DESTROY"
      <3>1. PICK a, g : a = e.addr /\ g = V.gen[a]
        OBVIOUS
      <3>2. Gone(t, a, g)
        BY <1>4, <1>5, <2>2, <3>1 DEF Fitted
      <3>3. a \in Locks /\ g \in Nat /\ life[a] \in Nat
        BY <3>1 DEF Event, View, TypeInv, TypeOK
      <3>4. ~Current(<<a, g>>)
        <4>1. CASE g < life[a]
          BY <3>3, <4>1 DEF Current
        <4>2. CASE exists[a] = "absent"
          BY <4>2 DEF Current
        <4>3. CASE About(t, "destroying", a)
          BY <4>3 DEF Current, About, ProgramInv, CallInv
        <4> QED BY <3>2, <4>1, <4>2, <4>3 DEF Gone
      <3>5. s.from # <<a, g>> /\ s.to # <<a, g>>
        BY <1>9, <3>4
      <3>6. \A key \in DOMAIN edges : \/ key \in DOMAIN edges'
                                      \/ key[1] = <<a, g>> \/ key[2] = <<a, g>>
        BY <1>5, <1>6, <2>2, <3>1, DestroyKeepsEdgeInv DEF program
      <3> QED BY <1>10, <3>5, <3>6
    <2> QED BY <2>1, <2>2
  <1> QED BY <1>8, <1>9, <1>10 DEF SightInv
-----------------------------------------------------------------------------
(* The inductive invariant: the program is right, the edges are, and there *)
(* are views that explain what every thread and the analyzer have seen.    *)

Told(vw) == (\A t \in Threads : ThreadInv(t, vw[t])) /\ SightInv(vw)
IInv == /\ OneUser /\ TypeInv /\ ProgramInv /\ EdgeInv
        /\ \E vw \in [Threads -> [Nat -> View]] : Told(vw)

\* The view of a thread that has done nothing.
FirstView == [cnt |-> [l \in Locks |-> 0], kind |-> [l \in Locks |-> "MUTEX"],
              gen |-> [l \in Locks |-> IF l \in Dynamic THEN 0 ELSE 1],
              alive |-> [l \in Locks |-> l \notin Dynamic]]

LEMMA InitThread ==
  ASSUME Init, OneUser, NEW t \in Threads, NEW v, v = [i \in Nat |-> FirstView]
  PROVE  v \in [Nat -> View] /\ ThreadInv(t, v)
  <1>1. PICK V : V = FirstView
    OBVIOUS
  <1>2. V \in View /\ \A i \in Nat : v[i] = V
    BY <1>1 DEF FirstView, View, LockKind
  <1>3. \A l \in Locks : /\ V.cnt[l] = 0 /\ V.gen[l] = (IF l \in Dynamic THEN 0 ELSE 1)
                         /\ (V.alive[l] <=> l \notin Dynamic)
    BY <1>1 DEF FirstView
  <1>4. Len(queue[t]) = 0 /\ pc[t] = "idle"
    BY EmptySeq DEF Init
  <1>5. ViewOk(t, V)
    BY <1>3 DEF ViewOk, Init
  <1>6. stacks[t] = {} /\ NodesOf(V) = {}
    BY <1>3 DEF NodesOf, Init, GraphInit
  <1>7. GensAt(t, V)
    BY <1>3 DEF GensAt, Init, GraphInit, EnsureGen
  <1>8. Programmed(t, V)
    <2>1. ASSUME NEW l \in Locks PROVE At(t, V, l)
      BY <1>3, <1>4 DEF Init, At, HoldsSeen, LifeSeen, Posting, About
    <2> QED BY <1>4, <2>1 DEF Programmed
  <1>9. Viewed(t, v)
    <2>1. \A i \in 1..(0 + 1) : i \in Nat
      OBVIOUS
    <2> QED BY <1>2, <1>4, <1>5, <2>1 DEF Viewed
  <1>10. Analyzed(t, v[1])
    BY <1>2, <1>6, <1>7 DEF Analyzed
  <1>11. Queued(t, v)
    <2>1. 1..0 = {}
      OBVIOUS
    <2> QED BY <1>4, <2>1 DEF Queued
  <1>12. ASSUME NEW X \in View, IsLast(t, v, X) PROVE Programmed(t, X)
    <2>1. Len(queue[t]) + 1 \in Nat
      BY <1>4
    <2>2. X = V
      BY <1>2, <1>12, <2>1 DEF IsLast
    <2> QED BY <1>8, <2>2
  <1> QED BY <1>2, <1>9, <1>10, <1>11, <1>12 DEF ThreadInv

LEMMA InitIInv == Init /\ OneUser => IInv
  <1> SUFFICES ASSUME Init, OneUser PROVE IInv
    OBVIOUS
  <1>1. TypeInv
    BY InitType
  <1>2. ProgramInv
    BY DEF ProgramInv, CallInv, HoldsInv, StaticInv, AskedInv, Init
  <1>3. EdgeInv
    BY DEF EdgeInv, EdgesAreSights, Init, GraphInit
  <1>4. PICK v : v = [i \in Nat |-> FirstView]
    OBVIOUS
  <1>5. PICK vw : vw = [t \in Threads |-> v]
    OBVIOUS
  <1>6. \A t \in Threads : v \in [Nat -> View] /\ ThreadInv(t, v)
    BY <1>4, InitThread
  <1>7. vw \in [Threads -> [Nat -> View]] /\ \A t \in Threads : ThreadInv(t, vw[t])
    BY <1>5, <1>6
  <1>8. SightInv(vw)
    BY DEF SightInv, Init
  <1>9. Told(vw)
    BY <1>7, <1>8 DEF Told
  <1> QED BY <1>1, <1>2, <1>3, <1>7, <1>9 DEF IInv

LEMMA MovesIInv ==
  ASSUME IInv, NEW t \in Threads, Moves(t)
  PROVE  IInv'
  <1>1. OneUser /\ TypeInv /\ ProgramInv /\ EdgeInv
    BY DEF IInv
  <1>2. TypeInv'
    BY <1>1, StepType DEF Moves, Next
  <1>3. Proper(t) /\ UNCHANGED graph
    BY <1>1, MovesProper
  <1>4. ProgramInv'
    BY <1>1, <1>2, <1>3, ProperProgram
  <1>5. edges' = edges /\ meta' = meta /\ asked \subseteq asked'
    BY <1>3 DEF Proper, Aside, graph
  <1>6. EdgeInv'
    BY <1>1, <1>5 DEF EdgeInv, EdgesAreSights, AliveId
  <1>7. PICK vw \in [Threads -> [Nat -> View]] : Told(vw)
    BY DEF IInv
  <1>8. PICK v \in [Nat -> View] : v = vw[t]
    OBVIOUS
  <1>9. ThreadInv(t, v)
    BY <1>7, <1>8 DEF Told
  <1>10. PICK w \in [Nat -> View] : /\ ThreadInv(t, w)'
                                    /\ \A i \in 1..(Len(queue[t]) + 1) : w[i] = v[i]
    BY <1>1, <1>2, <1>9, MovesThread
  <1>11. PICK ww : ww = [vw EXCEPT ![t] = w]
    OBVIOUS
  <1>12. ww \in [Threads -> [Nat -> View]] /\ ww[t] = w
         /\ \A u \in Threads \ {t} : ww[u] = vw[u]
    BY <1>11
  <1>13. ASSUME NEW u \in Threads PROVE ThreadInv(u, ww[u])'
    <2>1. CASE u = t
      BY <1>10, <1>12, <2>1
    <2>2. CASE u # t
      <3>1. PICK x \in [Nat -> View] : x = vw[u]
        OBVIOUS
      <3>2. ThreadInv(u, x)
        BY <1>7, <3>1 DEF Told
      <3>3. ThreadInv(u, x)'
        BY <1>1, <1>2, <2>2, <3>2, MovesOthers
      <3> QED BY <1>12, <2>2, <3>1, <3>3
    <2> QED BY <2>1, <2>2
  <1>14. SightInv(ww)'
    <2>1. SightInv(vw) /\ ThreadInv(t, vw[t])
      BY <1>7 DEF Told
    <2>2. \A i \in 1..(Len(queue[t]) + 1) : w[i] = vw[t][i]
      BY <1>8, <1>10
    <2> QED BY <1>1, <1>5, <1>11, <2>1, <2>2, SightsKept
  <1>15. Told(ww)'
    BY <1>13, <1>14 DEF Told
  <1> QED BY <1>1, <1>2, <1>4, <1>6, <1>12, <1>15 DEF IInv, OneUser

LEMMA DeliverIInv ==
  ASSUME IInv, NEW t \in Threads, Deliver(t)
  PROVE  IInv'
  <1>1. OneUser /\ TypeInv /\ ProgramInv /\ EdgeInv /\ GraphTypeOK /\ TypeOK
    BY DEF IInv, TypeInv, TypeOK
  <1>2. TypeInv'
    BY <1>1, StepType DEF Next
  <1>3. UNCHANGED program /\ (\A u \in Threads \ {t} : queue'[u] = queue[u])
    BY <1>1, DeliverType DEF Deliver
  <1>4. ProgramInv'
    <2>1. \A l : HeldKind(l)' = HeldKind(l)
      BY <1>3, KeptKinds DEF program
    <2>2. ASSUME NEW u \in Threads PROVE CallInv(u)'
      <3>1. CallInv(u)
        BY <1>1 DEF ProgramInv
      <3>2. PICK l : l = arg[u].addr
        OBVIOUS
      <3>3. l = arg'[u].addr
        BY <1>3, <3>2 DEF program
      <3> QED BY <1>3, <2>1, <3>1, <3>2, <3>3 DEF CallInv, Asking, Got, Woken, Made, Waiting, program
    <2> QED BY <1>1, <1>3, <2>2 DEF ProgramInv, HoldsInv, StaticInv, AskedInv, program
  <1>5. PICK vw \in [Threads -> [Nat -> View]] : Told(vw)
    BY DEF IInv
  <1>6. PICK v \in [Nat -> View] : v = vw[t]
    OBVIOUS
  <1>7. ThreadInv(t, v) /\ ThreadInv(t, vw[t]) /\ SightInv(vw)
    BY <1>5, <1>6 DEF Told
  <1>8. PICK e \in Event : e = queue[t][1] /\ Replay(t, e)
    BY <1>1, DeliverType DEF Deliver
  <1>9. PICK V \in View : V = v[1]
    OBVIOUS
  <1>10. Fitted(t, v, 1, e) /\ ViewOk(t, V) /\ Analyzed(t, V)
    BY <1>1, <1>7, <1>8, <1>9, NextFits
  <1>11. Fits(t, V, e) /\ Witnessed(V, e) /\ asked' = asked
    BY <1>3, <1>9, <1>10 DEF Fitted, program
  <1>12. EdgeInv'
    BY <1>1, <1>8, <1>10, <1>11, GrowKeepsEdgeInv, DestroyKeepsEdgeInv
  <1>13. \A u \in Threads \ {t} : stacks'[u] = stacks[u]
    BY <1>1, <1>8, <1>10, <1>11, ReplayStacks
  <1>14. PICK w : w = [i \in Nat |-> v[i + 1]]
    OBVIOUS
  <1>15. w \in [Nat -> View] /\ ThreadInv(t, w)'
    BY <1>1, <1>7, <1>14, DeliverThread
  <1>16. PICK ww : ww = [vw EXCEPT ![t] = [i \in Nat |-> vw[t][i + 1]]]
    OBVIOUS
  <1>17. ww \in [Threads -> [Nat -> View]] /\ ww[t] = w
         /\ \A u \in Threads \ {t} : ww[u] = vw[u]
    <2>1. ww = [vw EXCEPT ![t] = w]
      BY <1>6, <1>14, <1>16
    <2> QED BY <1>15, <2>1
  <1>18. ASSUME NEW u \in Threads PROVE ThreadInv(u, ww[u])'
    <2>1. CASE u = t
      BY <1>15, <1>17, <2>1
    <2>2. CASE u # t
      <3>1. PICK x \in [Nat -> View] : x = vw[u]
        OBVIOUS
      <3>2. ThreadInv(u, x)
        BY <1>5, <3>1 DEF Told
      <3>3. ThreadInv(u, x)'
        BY <1>1, <1>3, <1>8, <1>11, <1>13, <2>2, <3>2, DeliverOthers
      <3> QED BY <1>17, <2>2, <3>1, <3>3
    <2> QED BY <2>1, <2>2
  <1>19. SightInv(ww)'
    BY <1>1, <1>7, <1>16, DeliverSights
  <1>20. Told(ww)'
    BY <1>18, <1>19 DEF Told
  <1> QED BY <1>1, <1>2, <1>4, <1>12, <1>17, <1>20 DEF IInv, OneUser

LEMMA SameIInv ==
  ASSUME IInv, UNCHANGED vars
  PROVE  IInv'
  <1>1. UNCHANGED program /\ UNCHANGED graph /\ queue' = queue
    BY DEF vars
  <1>2. OneUser /\ TypeInv' /\ ProgramInv /\ EdgeInv
    BY StepType DEF IInv
  <1>3. \A l : HeldKind(l)' = HeldKind(l)
    BY <1>1, KeptKinds DEF program
  <1>4. ASSUME NEW u \in Threads PROVE CallInv(u)'
    <2>1. CallInv(u)
      BY <1>2 DEF ProgramInv
    <2>2. PICK l : l = arg[u].addr
      OBVIOUS
    <2>3. l = arg'[u].addr
      BY <1>1, <2>2 DEF program
    <2> QED BY <1>1, <1>3, <2>1, <2>2, <2>3 DEF CallInv, Asking, Got, Woken, Made, Waiting, program
  <1>5. ProgramInv'
    BY <1>1, <1>2, <1>4 DEF ProgramInv, HoldsInv, StaticInv, AskedInv, program
  <1>6. EdgeInv'
    BY <1>1, <1>2 DEF EdgeInv, EdgesAreSights, AliveId, graph, program
  <1>7. PICK vw \in [Threads -> [Nat -> View]] : Told(vw)
    BY DEF IInv
  <1>8. ASSUME NEW u \in Threads PROVE ThreadInv(u, vw[u])'
    <2>1. PICK v : v = vw[u]
      OBVIOUS
    <2>2. ThreadInv(u, v)
      BY <1>7, <2>1 DEF Told
    <2>3. \A V : Analyzed(u, V) => Analyzed(u, V)'
      BY <1>1 DEF Analyzed, GensAt, EnsureGen, graph
    <2>4. Viewed(u, v)' /\ Analyzed(u, v[1])'
      BY <1>1, <2>2, <2>3, ProgramSame DEF ThreadInv, Viewed
    <2>5. Queued(u, v)'
      BY <1>1, <2>2, ProgramSame DEF ThreadInv, Queued
    <2>6. \A W \in View : IsLast(u, v, W)' => Programmed(u, W)'
      BY <1>1, <2>2, ProgramSame DEF ThreadInv, IsLast
    <2>7. ThreadInv(u, v)'
      BY <2>4, <2>5, <2>6 DEF ThreadInv
    <2> QED BY <2>1, <2>7
  <1>9. SightInv(vw)'
    <2>1. SightInv(vw)
      BY <1>7 DEF Told
    <2>2. \A key : Coming(key, vw) => Coming(key, vw)'
      BY <1>1 DEF Coming, IsLast, program
    <2> QED BY <1>1, <2>1, <2>2 DEF SightInv, Current, program, graph
  <1>10. Told(vw)'
    BY <1>8, <1>9 DEF Told
  <1> QED BY <1>2, <1>5, <1>6, <1>7, <1>10 DEF IInv, OneUser

LEMMA StepIInv == IInv /\ [Next]_vars => IInv'
  <1>1. ASSUME IInv, NEW t \in Threads, Moves(t) \/ Deliver(t) PROVE IInv'
    BY <1>1, MovesIInv, DeliverIInv
  <1>2. Next => \E t \in Threads : Moves(t) \/ Deliver(t)
    BY DEF Next, Moves
  <1> QED BY <1>1, <1>2, SameIInv

\* The analyzer is at the last view of a thread that has nothing left to tell.
LEMMA CaughtView ==
  ASSUME IInv, NEW t \in Threads, Caught(t)
  PROVE  \E V \in View : ViewOk(t, V) /\ stacks[t] = NodesOf(V) /\ Programmed(t, V)
  <1>1. PICK vw \in [Threads -> [Nat -> View]] : Told(vw)
    BY DEF IInv
  <1>2. PICK v \in [Nat -> View] : v = vw[t]
    OBVIOUS
  <1>3. ThreadInv(t, v)
    BY <1>1, <1>2 DEF Told
  <1>4. Len(queue[t]) = 0 /\ 0 + 1 = 1 /\ 1 \in 1..1
    BY EmptySeq DEF Caught
  <1>5. PICK V \in View : V = v[1]
    OBVIOUS
  <1>6. ViewOk(t, V) /\ IsLast(t, v, V) /\ Analyzed(t, V)
    BY <1>3, <1>4, <1>5 DEF ThreadInv, Viewed, IsLast
  <1> QED BY <1>3, <1>6 DEF ThreadInv, Analyzed

\* Nothing is left to be logged or replayed: no edge is still to come.
LEMMA NothingComes ==
  ASSUME AllCaught, NEW key, NEW vw
  PROVE  ~Coming(key, vw)
  <1>1. ASSUME NEW t \in Threads PROVE 1..Len(queue[t]) = {} /\ pc[t] # "posting"
    <2>1. Len(queue[t]) = 0
      BY EmptySeq DEF AllCaught, Caught
    <2> QED BY <2>1 DEF AllCaught, Caught
  <1> QED BY <1>1 DEF Coming

LEMMA IInvStacks == IInv => StackMirrorsHeld
  <1> SUFFICES ASSUME IInv, NEW t \in Threads, Caught(t)
               PROVE  stacks[t] = {[id |-> <<l, life[l]>>, kind |-> HeldKind(l),
                                    hold_count |-> holds[t][l]] : l \in Held(t)}
    BY DEF StackMirrorsHeld
  <1>1. PICK V \in View : ViewOk(t, V) /\ stacks[t] = NodesOf(V) /\ Programmed(t, V)
    BY CaughtView
  <1>2. ASSUME NEW l \in Locks
        PROVE  /\ V.cnt[l] = holds[t][l]
               /\ V.cnt[l] > 0 => V.kind[l] = HeldKind(l) /\ V.gen[l] = life[l]
    <2>1. At(t, V, l)
      BY <1>1 DEF Programmed
    <2>2. HoldsSeen(t, l) = holds[t][l]
      BY DEF HoldsSeen, Posting, About, Caught
    <2>3. V.cnt[l] > 0 => t \in Users[l]
      BY <1>1 DEF ViewOk
    <2>4. t \in Users[l] => V.gen[l] = life[l]
      BY <1>1, <2>1, GenIsLife DEF IInv, Caught
    <2> QED BY <2>1, <2>2, <2>3, <2>4 DEF At
  <1>3. \A l \in Locks : V.cnt[l] > 0 <=> l \in Held(t)
    BY <1>2 DEF Held
  <1>4. \A l \in Held(t) : Node(V, l) = [id |-> <<l, life[l]>>, kind |-> HeldKind(l),
                                         hold_count |-> holds[t][l]]
    BY <1>2, <1>3 DEF Node, Held
  <1>5. NodesOf(V) = {Node(V, l) : l \in Held(t)}
    <2>1. {m \in Locks : V.cnt[m] > 0} = Held(t)
      BY <1>3 DEF Held
    <2> QED BY <2>1 DEF NodesOf
  <1> QED BY <1>1, <1>4, <1>5

LEMMA IInvSights == IInv => SightsAreEdges
  <1> SUFFICES ASSUME IInv, AllCaught, NEW s \in asked, Current(s.from), Current(s.to)
               PROVE  <<s.from, s.to>> \in DOMAIN edges
    BY DEF SightsAreEdges, Current
  <1>1. PICK vw \in [Threads -> [Nat -> View]] : Told(vw)
    BY DEF IInv
  <1>2. ~Coming(<<s.from, s.to>>, vw)
    BY NothingComes
  <1> QED BY <1>1, <1>2 DEF Told, SightInv

LEMMA AlwaysIInv == OneUser => (Spec => []IInv)
  BY InitIInv, StepIInv, PTL DEF Spec

\* Whenever the analyzer has seen all a thread did, its stack for the thread
\* lists the locks the thread holds, under the lives they were taken in, with
\* kinds and hold counts, however the events of the threads were mixed.
THEOREM StacksRight == OneUser => (Spec => []StackMirrorsHeld)
  BY AlwaysIInv, IInvStacks, PTL

\* Every edge is a sight of the program, with the kinds it was seen under: no
\* order of the events makes the analyzer see a lock held that was not.
THEOREM EdgesRight == OneUser => (Spec => []EdgesAreSights)
  <1>1. IInv => EdgesAreSights
    BY DEF IInv, EdgeInv
  <1> QED BY <1>1, AlwaysIInv, PTL

\* Every sight of two locks that still exist is an edge once the trace is
\* complete: no order of the events makes the analyzer miss one.
THEOREM SightsKnown == OneUser => (Spec => []SightsAreEdges)
  BY AlwaysIInv, IInvSights, PTL

\* A destroyed lock is in no edge: what is reported about an address is about
\* locks that were there at the same time.
THEOREM DeadForgotten == OneUser => (Spec => []DeadLocksForgotten)
  <1>1. IInv => DeadLocksForgotten
    BY DEF IInv, EdgeInv, AliveId, DeadLocksForgotten
  <1> QED BY <1>1, AlwaysIInv, PTL
=============================================================================
