----------------------------- MODULE FindCycles -----------------------------
(***************************************************************************)
(* The cycle search of the analyzer (cycles.py): the strongly connected    *)
(* components of the lock-order graph by the iterative form of Tarjan's    *)
(* algorithm, then in each the simple cycles by depth-first search from    *)
(* each of its locks, up to a limit, and the removal of duplicates.        *)
(*                                                                         *)
(* A step is one turn of the innermost loop it belongs to.  Locks are      *)
(* numbers, in the order of LockId; a cycle is the sequence of its locks.  *)
(***************************************************************************)
EXTENDS Naturals, Sequences, FiniteSets

CONSTANTS
  Nodes,        \* the locks that some edge touches: 1..n, in the order of adj's keys
  Adjacency,    \* the lists of neighbours to be considered
  Limits        \* the values of max_per_scc to be considered

ASSUME NodeAssumption  == Nodes \subseteq Nat \ {0} /\ IsFiniteSet(Nodes)
\* g.edges has every edge once, so that no neighbour comes twice.
ASSUME AdjAssumption   ==
  /\ Adjacency \subseteq [Nodes -> Seq(Nodes)]
  /\ \A a \in Adjacency, v \in Nodes :
       \A i, j \in 1..Len(a[v]) : a[v][i] = a[v][j] => i = j
ASSUME LimitAssumption == Limits \subseteq Nat \ {0}

VARIABLES
  adj,          \* adj, a sequence of neighbours for each lock
  limit,        \* max_per_scc
  phase,        \* "tarjan", "search" or "done"
  \* _tarjan_scc
  idx, low,     \* idx_map, 0 for none, and low
  stk,          \* the locks not yet in a component
  work,         \* the frames <<node, number of neighbours looked at>>
  counter, sccs,
  \* find_cycles
  si, ni,       \* the component, and the start in it, of the search
  path, stack,  \* the path and its frames
  emitted, out

tarjan == <<idx, low, stk, work, counter, sccs>>
search == <<si, ni, path, stack, emitted, out>>
vars == <<adj, limit, phase, tarjan, search>>

Init ==
  /\ adj \in Adjacency /\ limit \in Limits /\ phase = "tarjan"
  /\ idx = [v \in Nodes |-> 0] /\ low = [v \in Nodes |-> 0]
  /\ stk = <<>> /\ work = <<>> /\ counter = 1 /\ sccs = <<>>
  /\ si = 1 /\ ni = 0 /\ path = <<>> /\ stack = <<>> /\ emitted = 0 /\ out = {}

Top(s)    == s[Len(s)]
Popped(s) == SubSeq(s, 1, Len(s) - 1)
Elements(s) == {s[i] : i \in 1..Len(s)}

\* Fault: the frame on top is not written back.
LookedNot(s) == s
\* The frame on top has looked at one more neighbour.
Looked(s) == [s EXCEPT ![Len(s)] = <<@[1], @[2] + 1>>]
HasMore(s) == Top(s)[2] < Len(adj[Top(s)[1]])
NextOf(s)  == adj[Top(s)[1]][Top(s)[2] + 1]
-----------------------------------------------------------------------------
(* _tarjan_scc.                                                            *)

\* A lock is seen for the first time.
Visit(v, frames) ==
  /\ idx' = [idx EXCEPT ![v] = counter]
  /\ low' = [low EXCEPT ![v] = counter]
  /\ counter' = counter + 1
  /\ stk' = Append(stk, v)
  /\ work' = Append(frames, <<v, 0>>)
  /\ UNCHANGED sccs

\* Another start, in the order of the keys.
Start ==
  /\ phase = "tarjan" /\ work = <<>>
  /\ \E v \in Nodes : /\ idx[v] = 0 /\ \A u \in Nodes : u < v => idx[u] # 0
                      /\ Visit(v, work)
  /\ UNCHANGED <<adj, limit, phase, search>>

\* A neighbour not seen before becomes a frame.
Descend ==
  /\ phase = "tarjan" /\ work # <<>> /\ HasMore(work)
  /\ idx[NextOf(work)] = 0
  /\ Visit(NextOf(work), Looked(work))
  /\ UNCHANGED <<adj, limit, phase, search>>

OnStack(w) == w \in Elements(stk)

\* Fault: the low link of the neighbour's index is not taken over.
LowerNot(v, i) == low
\* low[v] is at most i.
Lower(v, i) == [low EXCEPT ![v] = IF i < @ THEN i ELSE @]

\* A neighbour seen before: an edge back into the component in progress, or not.
LookBack ==
  /\ phase = "tarjan" /\ work # <<>> /\ HasMore(work)
  /\ idx[NextOf(work)] # 0
  /\ low' = (IF OnStack(NextOf(work)) THEN Lower(Top(work)[1], idx[NextOf(work)]) ELSE low)
  /\ work' = Looked(work)
  /\ UNCHANGED <<adj, limit, phase, idx, stk, counter, sccs, search>>

\* The locks on stk from v on.
Component(v) ==
  LET i == CHOOSE j \in 1..Len(stk) : stk[j] = v
  IN SubSeq(stk, i, Len(stk))
Reversed(s) == [i \in 1..Len(s) |-> s[Len(s) + 1 - i]]

\* All neighbours seen: back to the parent, and out with the component if v
\* is the root of one.
Leave ==
  /\ phase = "tarjan" /\ work # <<>> /\ ~HasMore(work)
  /\ LET v == Top(work)[1]   rest == Popped(work) IN
       /\ work' = rest
       /\ low' = (IF rest = <<>> THEN low ELSE Lower(Top(rest)[1], low[v]))
       /\ IF low[v] = idx[v]
          THEN /\ sccs' = Append(sccs, Reversed(Component(v)))
               /\ stk' = SubSeq(stk, 1, Len(stk) - Len(Component(v)))
          ELSE UNCHANGED <<sccs, stk>>
  /\ UNCHANGED <<adj, limit, phase, idx, counter, search>>

Sorted ==
  /\ phase = "tarjan" /\ work = <<>> /\ \A v \in Nodes : idx[v] # 0
  /\ phase' = "search"
  /\ UNCHANGED <<adj, limit, tarjan, search>>
-----------------------------------------------------------------------------
(* find_cycles.                                                            *)

Searching == phase = "search" /\ si <= Len(sccs)
Scc == sccs[si]
\* Fault: one cycle more than the limit.
FullLate == emitted > limit
Full == emitted >= limit

\* Fault: what one component emitted counts for the next.
EmittedKept == emitted
EmittedNext == 0

\* On to the next component: this one has a single lock, all its locks have
\* been starts, or the limit has been reached.
NextScc ==
  /\ Searching /\ stack = <<>>
  /\ Len(Scc) < 2 \/ ni = Len(Scc) \/ Full
  /\ si' = si + 1 /\ ni' = 0 /\ emitted' = EmittedNext
  /\ UNCHANGED <<adj, limit, phase, tarjan, path, stack, out>>

\* On to the next start.
NextStart ==
  /\ Searching /\ stack = <<>>
  /\ Len(Scc) >= 2 /\ ni < Len(Scc) /\ ~Full
  /\ ni' = ni + 1
  /\ path' = <<Scc[ni + 1]>> /\ stack' = << <<Scc[ni + 1], 0>> >>
  /\ UNCHANGED <<adj, limit, phase, tarjan, si, emitted, out>>

\* Fault: the rotation starts behind the smallest lock.
CanonBehind(p) ==
  LET i == CHOOSE j \in 1..Len(p) : \A k \in 1..Len(p) : p[j] <= p[k]
  IN SubSeq(p, i + 1, Len(p)) \o SubSeq(p, 1, i)
\* The cycle with its smallest lock first.
Canon(p) ==
  LET i == CHOOSE j \in 1..Len(p) : \A k \in 1..Len(p) : p[j] <= p[k]
  IN SubSeq(p, i, Len(p)) \o SubSeq(p, 1, i - 1)

\* v closes the path to a cycle.
Closes(v) == v = Scc[ni] /\ Len(path) >= 2
\* v is in the component and not on the path.
Fresh(v) == v \in Elements(Scc) /\ v \notin Elements(path)

\* The path has come back to its start.  Duplicates count towards the limit.
Emit ==
  /\ Searching /\ stack # <<>> /\ ~Full /\ HasMore(stack)
  /\ Closes(NextOf(stack))
  /\ out' = out \cup {Canon(path)} /\ emitted' = emitted + 1
  /\ stack' = Looked(stack)
  /\ UNCHANGED <<adj, limit, phase, tarjan, si, ni, path>>

\* The path goes on.
Advance ==
  /\ Searching /\ stack # <<>> /\ ~Full /\ HasMore(stack)
  /\ ~Closes(NextOf(stack)) /\ Fresh(NextOf(stack))
  /\ path' = Append(path, NextOf(stack))
  /\ stack' = Append(Looked(stack), <<NextOf(stack), 0>>)
  /\ UNCHANGED <<adj, limit, phase, tarjan, si, ni, emitted, out>>

\* A neighbour elsewhere or on the path is passed over.
Skip ==
  /\ Searching /\ stack # <<>> /\ ~Full /\ HasMore(stack)
  /\ ~Closes(NextOf(stack)) /\ ~Fresh(NextOf(stack))
  /\ stack' = Looked(stack)
  /\ UNCHANGED <<adj, limit, phase, tarjan, si, ni, path, emitted, out>>

\* No more neighbours: back.
Backtrack ==
  /\ Searching /\ stack # <<>> /\ ~Full /\ ~HasMore(stack)
  /\ path' = Popped(path) /\ stack' = Popped(stack)
  /\ UNCHANGED <<adj, limit, phase, tarjan, si, ni, emitted, out>>

\* The limit has been reached: the search from this start ends.
GiveUp ==
  /\ Searching /\ stack # <<>> /\ Full
  /\ path' = <<>> /\ stack' = <<>>
  /\ UNCHANGED <<adj, limit, phase, tarjan, si, ni, emitted, out>>

Finish ==
  /\ phase = "search" /\ si > Len(sccs)
  /\ phase' = "done"
  /\ UNCHANGED <<adj, limit, tarjan, search>>

Done == phase = "done" /\ UNCHANGED vars

Next == \/ Start \/ Descend \/ LookBack \/ Leave \/ Sorted
        \/ NextScc \/ NextStart \/ Emit \/ Advance \/ Skip \/ Backtrack \/ GiveUp \/ Finish
        \/ Done

\* One thread runs one loop after the other.
Spec == Init /\ [][Next]_vars /\ WF_vars(Next)
-----------------------------------------------------------------------------
(* What the search is to find.                                             *)

Edge(u, v) == v \in Elements(adj[u])
\* v is in every set of locks that holds u and all neighbours of its members.
Reaches(u, v) ==
  \A S \in SUBSET Nodes :
    (u \in S /\ \A x \in S : Elements(adj[x]) \subseteq S) => v \in S
Classes == {{v \in Nodes : Reaches(u, v) /\ Reaches(v, u)} : u \in Nodes}

SimpleCycles ==
  {p \in UNION {[1..n -> Nodes] : n \in 2..Cardinality(Nodes)} :
     /\ \A i, j \in 1..Len(p) : p[i] = p[j] => i = j
     /\ \A i \in 1..Len(p) : p[1] <= p[i] /\ Edge(p[i], p[(i % Len(p)) + 1])}

TypeOK ==
  /\ adj \in Adjacency /\ limit \in Limits /\ phase \in {"tarjan", "search", "done"}
  /\ idx \in [Nodes -> 0..Cardinality(Nodes)] /\ low \in [Nodes -> 0..Cardinality(Nodes)]
  /\ stk \in Seq(Nodes) /\ work \in Seq(Nodes \X Nat)
  /\ counter \in 1..(Cardinality(Nodes) + 1) /\ sccs \in Seq(Seq(Nodes))
  /\ si \in 1..(Len(sccs) + 1) /\ ni \in Nat
  /\ path \in Seq(Nodes) /\ stack \in Seq(Nodes \X Nat)
  /\ emitted \in 0..limit /\ out \subseteq Seq(Nodes)

\* The components are the classes of locks that reach each other, each found
\* once.
SccsAreClasses ==
  phase # "tarjan" =>
    /\ {Elements(sccs[i]) : i \in 1..Len(sccs)} = Classes
    /\ \A i, j \in 1..Len(sccs) : Elements(sccs[i]) = Elements(sccs[j]) => i = j

\* At every step the path is one of the graph, without repetition, and what
\* has been found are cycles of the graph, each in its one canonical form.
FoundAreCycles ==
  /\ out \subseteq SimpleCycles
  /\ \A i, j \in 1..Len(path) : path[i] = path[j] => i = j

\* Every cycle is found unless the limit is reached; and whatever the limit, no
\* component with a cycle in it goes unreported: the exit code of the analyzer
\* tells whether there is a cycle at all.
CyclesFound ==
  phase = "done" =>
    /\ limit >= Cardinality(SimpleCycles) * Cardinality(Nodes) => out = SimpleCycles
    /\ \A C \in Classes : Cardinality(C) > 1 => \E p \in out : Elements(p) \subseteq C

\* The search ends.
Ends == <>(phase = "done")
=============================================================================
