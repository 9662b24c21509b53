-------------------------- MODULE FindCyclesProofs --------------------------
(***************************************************************************)
(* Proofs about FindCycles: the components are those of the graph, what is *)
(* reported is a cycle, and no cycle is missed.                            *)
(***************************************************************************)
EXTENDS FindCycles, SequenceTheorems, FiniteSetTheorems, FunctionTheorems,
  WellFoundedInduction, TLAPS
-----------------------------------------------------------------------------
(* The strongly connected components.                                      *)

\* The locks of the frames, from the first start down to the one in progress.
Gray(i) == work[i][1]
IsGray(v) == \E i \in 1..Len(work) : Gray(i) = v
Seen(v) == idx[v] # 0
\* The lock is in a component.
Settled(v) == Seen(v) /\ ~OnStack(v)

\* The search has gone along this edge.
Used(u, w) ==
  \/ \E i \in 1..Len(work) : u = Gray(i) /\ \E c \in 1..work[i][2] : w = adj[u][c]
  \/ Seen(u) /\ ~IsGray(u) /\ Edge(u, w)

\* u was found from frame i, not from a later one that is still there.
Home(i, u) ==
  /\ OnStack(u) /\ idx[Gray(i)] <= idx[u]
  /\ i < Len(work) => idx[u] < idx[Gray(i + 1)]

Numbered ==
  /\ \A v \in Nodes : idx[v] < counter /\ low[v] <= idx[v]
  /\ \A u, v \in Nodes : idx[u] = idx[v] /\ Seen(u) => u = v
  /\ Cardinality({v \in Nodes : Seen(v)}) = counter - 1
StackInv ==
  /\ \A i \in 1..Len(stk) : Seen(stk[i])
  /\ \A i, j \in 1..Len(stk) : i < j => idx[stk[i]] < idx[stk[j]]
GrayInv ==
  /\ \A i \in 1..Len(work) : OnStack(Gray(i))
  /\ \A i, j \in 1..Len(work) : i < j => idx[Gray(i)] < idx[Gray(j)]
  /\ \A i, j \in 1..Len(work) : i <= j => Reaches(Gray(i), Gray(j))
UsedInv == \A u, w \in Nodes : Used(u, w) => Seen(w)
SettledInv == \A u, w \in Nodes : Settled(u) /\ Edge(u, w) => Settled(w)
\* Every lock on stk is in the class of a frame, or of an earlier one.
HomeInv ==
  /\ \A u \in Nodes : OnStack(u) => \E i \in 1..Len(work) : Home(i, u)
  /\ \A i \in 1..Len(work), u \in Nodes : Home(i, u) => Reaches(Gray(i), u)
  /\ \A u \in Nodes : OnStack(u) =>
       \E i \in 1..Len(work) : idx[Gray(i)] <= idx[u] /\ Reaches(u, Gray(i))
LowInv ==
  /\ \A i \in 1..Len(work) : \E w \in Nodes :
       OnStack(w) /\ idx[w] = low[Gray(i)] /\ Reaches(Gray(i), w)
  /\ \A i \in 1..Len(work), u, w \in Nodes :
       Home(i, u) /\ Used(u, w) /\ OnStack(w) => low[Gray(i)] <= idx[w]

SameClass(u, v) == Reaches(u, v) /\ Reaches(v, u)
\* No lock twice.
Simple(p) == \A i, j \in 1..Len(p) : p[i] = p[j] => i = j
SccInv ==
  /\ \A i \in 1..Len(sccs) : \E u \in Nodes :
       u \in Elements(sccs[i]) /\ \A v \in Nodes : v \in Elements(sccs[i]) <=> SameClass(u, v)
  /\ \A v \in Nodes : Settled(v) <=> \E i \in 1..Len(sccs) : v \in Elements(sccs[i])
  /\ \A i, j \in 1..Len(sccs), v \in Nodes :
       v \in Elements(sccs[i]) /\ v \in Elements(sccs[j]) => i = j
  /\ \A i \in 1..Len(sccs) : Simple(sccs[i])

TarjanType ==
  /\ adj \in Adjacency /\ phase \in {"tarjan", "search", "done"}
  /\ idx \in [Nodes -> Nat] /\ low \in [Nodes -> Nat] /\ counter \in Nat \ {0}
  /\ stk \in Seq(Nodes) /\ work \in Seq(Nodes \X Nat) /\ sccs \in Seq(Seq(Nodes))
  /\ \A i \in 1..Len(work) : work[i][2] <= Len(adj[work[i][1]])
TarjanInv ==
  /\ TarjanType /\ Numbered /\ StackInv /\ GrayInv /\ UsedInv /\ SettledInv
  /\ HomeInv /\ LowInv /\ SccInv
  /\ phase # "tarjan" => work = <<>> /\ \A v \in Nodes : Seen(v)
-----------------------------------------------------------------------------
(* Sequences and reachability.                                             *)

LEMMA AdjIs ==
  ASSUME adj \in Adjacency, NEW v \in Nodes
  PROVE  /\ adj[v] \in Seq(Nodes) /\ Len(adj[v]) \in Nat
         /\ \A c \in 1..Len(adj[v]) : adj[v][c] \in Nodes /\ Edge(v, adj[v][c])
         /\ \A w : Edge(v, w) <=> \E c \in 1..Len(adj[v]) : w = adj[v][c]
         /\ Elements(adj[v]) \subseteq Nodes
  <1>1. adj[v] \in Seq(Nodes)
    BY AdjAssumption
  <1>2. Len(adj[v]) \in Nat /\ \A c \in 1..Len(adj[v]) : adj[v][c] \in Nodes
    BY <1>1, LenProperties, ElementOfSeq
  <1> QED BY <1>1, <1>2 DEF Edge, Elements

LEMMA FrameIs ==
  ASSUME NEW s \in Seq(Nodes \X Nat)
  PROVE  /\ Len(s) \in Nat
         /\ \A i \in 1..Len(s) : s[i] \in Nodes \X Nat /\ s[i][1] \in Nodes /\ s[i][2] \in Nat
         /\ s # <<>> => Len(s) \in 1..Len(s) /\ Top(s) = s[Len(s)] /\ Len(s) >= 1
         /\ s = <<>> => Len(s) = 0
  <1>1. Len(s) \in Nat /\ \A i \in 1..Len(s) : s[i] \in Nodes \X Nat
    BY LenProperties, ElementOfSeq
  <1>2. s # <<>> => Len(s) >= 1
    BY EmptySeq
  <1>3. s = <<>> => Len(s) = 0
    BY EmptySeq
  <1> QED BY <1>1, <1>2, <1>3 DEF Top

LEMMA LookedIs ==
  ASSUME NEW s \in Seq(Nodes \X Nat), s # <<>>
  PROVE  /\ Looked(s) \in Seq(Nodes \X Nat) /\ Len(Looked(s)) = Len(s) /\ Looked(s) # <<>>
         /\ \A i \in 1..Len(s) :
              /\ Looked(s)[i][1] = s[i][1]
              /\ Looked(s)[i][2] = IF i = Len(s) THEN s[i][2] + 1 ELSE s[i][2]
  <1>1. /\ Len(s) \in 1..Len(s) /\ Top(s) = s[Len(s)] /\ Len(s) >= 1
        /\ s[Len(s)][1] \in Nodes /\ s[Len(s)][2] \in Nat
    BY FrameIs
  <1>2. PICK f : f = <<s[Len(s)][1], s[Len(s)][2] + 1>>
    OBVIOUS
  <1>3. f \in Nodes \X Nat /\ f[1] = s[Len(s)][1] /\ f[2] = s[Len(s)][2] + 1
    BY <1>1, <1>2
  <1>4. Looked(s) = [s EXCEPT ![Len(s)] = f]
    BY <1>2 DEF Looked
  <1>5. /\ Looked(s) \in Seq(Nodes \X Nat) /\ Len(Looked(s)) = Len(s)
        /\ \A j \in 1..Len(s) : Looked(s)[j] = IF j = Len(s) THEN f ELSE s[j]
    BY <1>1, <1>3, <1>4, ExceptSeq
  <1>6. Looked(s) # <<>>
    BY <1>1, <1>5, EmptySeq
  <1> QED BY <1>3, <1>5, <1>6

LEMMA PoppedIs ==
  ASSUME NEW S, NEW s \in Seq(S), s # <<>>
  PROVE  /\ Popped(s) \in Seq(S) /\ Len(Popped(s)) = Len(s) - 1 /\ Len(s) - 1 \in Nat
         /\ \A i \in 1..(Len(s) - 1) : Popped(s)[i] = s[i]
  <1>1. PICK n \in Nat : Len(s) = n + 1
    <2>1. Len(s) \in Nat \ {0}
      BY EmptySeq
    <2> QED BY <2>1
  <1>2. \A i \in 1..n : s[i] \in S
    BY <1>1, ElementOfSeq
  <1>3. Popped(s) = SubSeq(s, 1, n)
    BY <1>1 DEF Popped
  <1>4. /\ SubSeq(s, 1, n) \in Seq(S) /\ Len(SubSeq(s, 1, n)) = n
        /\ \A i \in 1..n : SubSeq(s, 1, n)[i] = s[i]
    <2>1. 1 \in Int /\ n \in Int /\ n - 1 + 1 = n /\ (1 <= n \/ n = 0)
      OBVIOUS
    <2>2. \A i \in 1..n : 1 + i - 1 = i
      OBVIOUS
    <2>3. /\ SubSeq(s, 1, n) \in Seq(S)
          /\ Len(SubSeq(s, 1, n)) = IF 1 <= n THEN n - 1 + 1 ELSE 0
          /\ \A i \in 1..(n - 1 + 1) : SubSeq(s, 1, n)[i] = s[1 + i - 1]
      BY <1>2, <2>1, SubSeqProperties
    <2>4. Len(SubSeq(s, 1, n)) = n
      BY <2>1, <2>3
    <2> QED BY <2>1, <2>2, <2>3, <2>4
  <1> QED BY <1>1, <1>3, <1>4

LEMMA InElements ==
  ASSUME NEW s, NEW v
  PROVE  v \in Elements(s) <=> \E i \in 1..Len(s) : s[i] = v
  BY DEF Elements

LEMMA AppendElements ==
  ASSUME NEW s \in Seq(Nodes), NEW v \in Nodes
  PROVE  \A u : u \in Elements(Append(s, v)) <=> u \in Elements(s) \/ u = v
  <1>1. Len(s) \in Nat /\ Len(Append(s, v)) = Len(s) + 1
        /\ (\A i \in 1..Len(s) : Append(s, v)[i] = s[i]) /\ Append(s, v)[Len(s) + 1] = v
    BY LenProperties, AppendProperties
  <1>2. \A i \in 1..(Len(s) + 1) : i \in 1..Len(s) \/ i = Len(s) + 1
    BY <1>1
  <1>3. \A i \in 1..Len(s) : i \in 1..(Len(s) + 1)
    BY <1>1
  <1>4. Len(s) + 1 \in 1..(Len(s) + 1)
    BY <1>1
  <1>5. PICK z : z = Append(s, v)
    OBVIOUS
  <1>6. Len(z) = Len(s) + 1 /\ (\A i \in 1..Len(s) : z[i] = s[i]) /\ z[Len(s) + 1] = v
    BY <1>1, <1>5
  <1>7. ASSUME NEW u PROVE u \in Elements(z) <=> u \in Elements(s) \/ u = v
    <2>1. u \in Elements(z) => u \in Elements(s) \/ u = v
      BY <1>2, <1>6, InElements
    <2>2. u \in Elements(s) => u \in Elements(z)
      BY <1>3, <1>6, InElements
    <2>3. v \in Elements(z)
      BY <1>4, <1>6, InElements
    <2> QED BY <2>1, <2>2, <2>3
  <1> QED BY <1>5, <1>7

\* Reaches is reflexive and transitive, follows the edges and stays in closed sets.
LEMMA ReachesRefl ==
  ASSUME NEW u
  PROVE  Reaches(u, u)
  BY DEF Reaches

LEMMA ReachesTrans ==
  ASSUME NEW u, NEW v, NEW w, Reaches(u, v), Reaches(v, w)
  PROVE  Reaches(u, w)
  BY DEF Reaches

LEMMA ReachesEdge ==
  ASSUME NEW u, NEW v, Edge(u, v)
  PROVE  Reaches(u, v)
  BY DEF Reaches, Edge

LEMMA ReachesClosed ==
  ASSUME adj \in Adjacency, NEW S \in SUBSET Nodes, NEW u \in S, NEW v, Reaches(u, v),
         \A x \in S, y \in Nodes : Edge(x, y) => y \in S
  PROVE  v \in S
  <1>1. \A x \in S : Elements(adj[x]) \subseteq S
    BY AdjIs DEF Edge
  <1> QED BY <1>1 DEF Reaches

LEMMA ReachesSame ==
  ASSUME adj' = adj, NEW u, NEW v
  PROVE  Reaches(u, v)' <=> Reaches(u, v)
  BY DEF Reaches
-----------------------------------------------------------------------------
(* What the invariant says, lock by lock.                                  *)

LEMMA TarjanFacts ==
  ASSUME TarjanInv
  PROVE  /\ adj \in Adjacency /\ counter \in Nat \ {0} /\ Len(work) \in Nat /\ Len(stk) \in Nat
         /\ \A i \in 1..Len(work) :
              /\ Gray(i) \in Nodes /\ OnStack(Gray(i)) /\ Seen(Gray(i))
              /\ work[i][2] \in Nat /\ work[i][2] <= Len(adj[Gray(i)])
         /\ \A u \in Nodes : idx[u] \in Nat /\ low[u] \in Nat
         /\ \A u : OnStack(u) => u \in Nodes /\ Seen(u)
  <1>1. Len(work) \in Nat /\ \A i \in 1..Len(work) : Gray(i) \in Nodes /\ work[i][2] \in Nat
    BY FrameIs DEF TarjanInv, TarjanType, Gray
  <1>2. Len(stk) \in Nat /\ \A i \in 1..Len(stk) : stk[i] \in Nodes
    BY LenProperties, ElementOfSeq DEF TarjanInv, TarjanType
  <1>3. \A u : OnStack(u) => u \in Nodes /\ Seen(u)
    BY <1>2 DEF OnStack, Elements, TarjanInv, StackInv
  <1>4. \A i \in 1..Len(work) : OnStack(Gray(i)) /\ work[i][2] <= Len(adj[Gray(i)])
    BY DEF TarjanInv, GrayInv, TarjanType, Gray
  <1> QED BY <1>1, <1>2, <1>3, <1>4 DEF TarjanInv, TarjanType

LEMMA InitTarjan == Init => TarjanInv
  <1> SUFFICES ASSUME Init PROVE TarjanInv
    OBVIOUS
  <1>1. Len(stk) = 0 /\ Len(work) = 0 /\ Len(sccs) = 0
    BY EmptySeq DEF Init
  <1>2. 1..0 = {}
    OBVIOUS
  <1>3. TarjanType
    <2>1. stk \in Seq(Nodes) /\ work \in Seq(Nodes \X Nat) /\ sccs \in Seq(Seq(Nodes))
      BY EmptySeq DEF Init
    <2> QED BY <1>1, <1>2, <2>1 DEF Init, TarjanType
  <1>4. \A v \in Nodes : ~Seen(v)
    BY DEF Init, Seen
  <1>5. \A v : ~OnStack(v)
    BY <1>1, <1>2, InElements DEF OnStack
  <1>6. Numbered
    <2>1. {v \in Nodes : Seen(v)} = {}
      BY <1>4
    <2>2. Cardinality({v \in Nodes : Seen(v)}) = 0
      BY <2>1, FS_EmptySet
    <2> QED BY <1>4, <2>2 DEF Init, Numbered, Seen
  <1>7. StackInv /\ GrayInv /\ HomeInv /\ LowInv
    BY <1>1, <1>2, <1>5 DEF StackInv, GrayInv, HomeInv, LowInv
  <1>8. UsedInv /\ SettledInv
    <2>1. \A u, w \in Nodes : ~Used(u, w)
      BY <1>1, <1>2, <1>4 DEF Used
    <2> QED BY <1>4, <2>1 DEF UsedInv, SettledInv, Settled
  <1>9. SccInv
    BY <1>1, <1>2, <1>4 DEF SccInv, Settled
  <1> QED BY <1>3, <1>6, <1>7, <1>8, <1>9 DEF TarjanInv, Init
-----------------------------------------------------------------------------
(* A lock is visited.                                                      *)

\* frames are those of work, the last having looked at v.
Comes(v, frames) ==
  /\ phase = "tarjan" /\ UNCHANGED <<adj, phase>>
  /\ idx[v] = 0 /\ frames \in Seq(Nodes \X Nat) /\ Len(frames) = Len(work)
  /\ \A i \in 1..Len(work) :
       /\ frames[i][1] = work[i][1]
       /\ frames[i][2] = IF i = Len(work) THEN work[i][2] + 1 ELSE work[i][2]
  /\ Len(work) > 0 =>
       LET f == work[Len(work)] IN f[2] + 1 <= Len(adj[f[1]]) /\ v = adj[f[1]][f[2] + 1]
  /\ Visit(v, frames)

LEMMA VisitDoes ==
  ASSUME TarjanInv, NEW v \in Nodes, NEW frames, Comes(v, frames), NEW n, n = Len(work)
  PROVE  /\ TarjanType' /\ Len(work') = n + 1
         /\ \A i \in 1..n : /\ Gray(i)' = Gray(i)
                            /\ work'[i][2] = IF i = n THEN work[i][2] + 1 ELSE work[i][2]
         /\ Gray(n + 1)' = v /\ work'[n + 1][2] = 0
         /\ idx'[v] = counter /\ low'[v] = counter /\ counter' = counter + 1
         /\ \A u \in Nodes \ {v} : idx'[u] = idx[u] /\ low'[u] = low[u]
         /\ \A u : OnStack(u)' <=> OnStack(u) \/ u = v
         /\ \A u \in Nodes : Seen(u)' <=> Seen(u) \/ u = v
         /\ \A u \in Nodes : Settled(u)' <=> Settled(u)
         /\ ~OnStack(v) /\ ~Seen(v)
  <1>1. /\ counter \in Nat \ {0} /\ n \in Nat /\ ~Seen(v)
        /\ \A u : OnStack(u) => u \in Nodes /\ Seen(u)
    BY TarjanFacts DEF Comes, Seen
  <1>2. PICK f : f = <<v, 0>>
    OBVIOUS
  <1>3. f \in Nodes \X Nat /\ f[1] = v /\ f[2] = 0
    BY <1>2
  <1>4. work' = Append(frames, f) /\ frames \in Seq(Nodes \X Nat) /\ Len(frames) = n
    BY <1>2 DEF Comes, Visit
  <1>5. /\ work' \in Seq(Nodes \X Nat) /\ Len(work') = n + 1
        /\ (\A i \in 1..n : work'[i] = frames[i]) /\ work'[n + 1] = f
    BY <1>3, <1>4, AppendProperties
  <1>6. \A i \in 1..n : /\ Gray(i)' = Gray(i)
                        /\ work'[i][2] = IF i = n THEN work[i][2] + 1 ELSE work[i][2]
    <2>1. \A i \in 1..n : /\ frames[i][1] = work[i][1]
                          /\ frames[i][2] = IF i = n THEN work[i][2] + 1 ELSE work[i][2]
      BY DEF Comes
    <2>2. \A i \in 1..n : Gray(i)' = Gray(i)
      BY <1>5, <2>1 DEF Gray
    <2> QED BY <1>5, <2>1, <2>2
  <1>7. Gray(n + 1)' = v /\ work'[n + 1][2] = 0
    BY <1>3, <1>5 DEF Gray
  <1>8. /\ idx' = [idx EXCEPT ![v] = counter] /\ low' = [low EXCEPT ![v] = counter]
        /\ counter' = counter + 1 /\ idx \in [Nodes -> Nat] /\ low \in [Nodes -> Nat]
    BY DEF Comes, Visit, TarjanInv, TarjanType
  <1>9. /\ idx' \in [Nodes -> Nat] /\ low' \in [Nodes -> Nat] /\ counter' \in Nat \ {0}
        /\ idx'[v] = counter /\ low'[v] = counter
        /\ \A u \in Nodes \ {v} : idx'[u] = idx[u] /\ low'[u] = low[u]
    BY <1>1, <1>8
  <1>10. stk' = Append(stk, v) /\ stk \in Seq(Nodes) /\ stk' \in Seq(Nodes)
    BY AppendProperties DEF Comes, Visit, TarjanInv, TarjanType
  <1>11. \A u : OnStack(u)' <=> OnStack(u) \/ u = v
    BY <1>10, AppendElements DEF OnStack
  <1>12. \A u \in Nodes : Seen(u)' <=> Seen(u) \/ u = v
    BY <1>1, <1>9 DEF Seen
  <1>13. \A u \in Nodes : Settled(u)' <=> Settled(u)
    BY <1>1, <1>11, <1>12 DEF Settled
  <1>14. TarjanType'
    <2>1. ASSUME NEW i \in 1..(n + 1) PROVE work'[i][2] <= Len(adj[work'[i][1]])
      <3>1. CASE i = n + 1
        <4>1. Len(adj[v]) \in Nat
          BY AdjIs, TarjanFacts
        <4> QED BY <1>7, <3>1, <4>1 DEF Gray
      <3>2. CASE i \in 1..n
        <4>1. work[i][2] <= Len(adj[work[i][1]])
          BY <3>2, TarjanFacts DEF Gray
        <4>2. work'[i][1] = work[i][1]
          BY <1>6, <3>2 DEF Gray
        <4>3. CASE i = n
          <5>1. n > 0
            BY <1>1, <3>2, <4>3
          <5>2. work[n][2] + 1 <= Len(adj[work[n][1]])
            BY <5>1 DEF Comes
          <5> QED BY <1>6, <3>2, <4>2, <4>3, <5>2
        <4>4. CASE i # n
          BY <1>6, <3>2, <4>1, <4>2, <4>4
        <4> QED BY <4>3, <4>4
      <3> QED BY <1>1, <3>1, <3>2
    <2>2. /\ adj' \in Adjacency /\ phase' \in {"tarjan", "search", "done"}
          /\ sccs' \in Seq(Seq(Nodes)) /\ adj' = adj
      BY DEF Comes, Visit, TarjanInv, TarjanType
    <2> QED BY <1>5, <1>9, <1>10, <2>1, <2>2 DEF TarjanType
  <1> QED BY <1>1, <1>5, <1>6, <1>7, <1>8, <1>9, <1>11, <1>12, <1>13, <1>14

LEMMA VisitUsed ==
  ASSUME TarjanInv, NEW v \in Nodes, NEW frames, Comes(v, frames), NEW n, n = Len(work)
  PROVE  /\ \A u, w \in Nodes : Used(u, w)' => Used(u, w) \/ (n > 0 /\ u = Gray(n) /\ w = v)
         /\ \A w \in Nodes : ~Used(v, w)'
         /\ n > 0 => Edge(Gray(n), v)
         /\ \A i \in 1..n, u \in Nodes : Home(i, u)' => Home(i, u) /\ u # v
         /\ \A i \in 1..n, u \in Nodes : Home(i, u) => Home(i, u)'
         /\ \A u \in Nodes : Home(n + 1, u)' <=> u = v
  <1>1. n \in Nat /\ adj' = adj /\ Len(work') = n + 1
    BY TarjanFacts, VisitDoes DEF Comes
  <1>2. \A i \in 1..n : /\ Gray(i)' = Gray(i) /\ Gray(i) \in Nodes /\ Gray(i) # v
                        /\ work'[i][2] = IF i = n THEN work[i][2] + 1 ELSE work[i][2]
                        /\ work[i][2] \in Nat
    <2>1. \A i \in 1..n : Gray(i) \in Nodes /\ Seen(Gray(i)) /\ work[i][2] \in Nat
      BY TarjanFacts
    <2>2. \A i \in 1..n : /\ Gray(i)' = Gray(i)
                          /\ work'[i][2] = IF i = n THEN work[i][2] + 1 ELSE work[i][2]
      BY VisitDoes
    <2>3. ~Seen(v)
      BY VisitDoes
    <2> QED BY <2>1, <2>2, <2>3
  <1>3. Gray(n + 1)' = v /\ 1..work'[n + 1][2] = {}
    BY VisitDoes
  <1>4. n > 0 => /\ work[n][2] + 1 \in 1..Len(adj[Gray(n)]) /\ v = adj[Gray(n)][work[n][2] + 1]
                 /\ Gray(n) \in Nodes
    <2>1. ASSUME n > 0 PROVE n \in 1..n
      BY <1>1, <2>1
    <2>2. ASSUME n > 0 PROVE Len(adj[Gray(n)]) \in Nat
      BY <1>2, <2>1, <2>2, AdjIs, TarjanFacts
    <2> QED BY <1>2, <2>1, <2>2 DEF Comes, Gray
  <1>5. n > 0 => Edge(Gray(n), v)
    BY <1>4, AdjIs, TarjanFacts
  <1>6. \A u \in Nodes : IsGray(u)' <=> IsGray(u) \/ u = v
    <2>1. \A i \in 1..(n + 1) : i \in 1..n \/ i = n + 1
      BY <1>1
    <2>2. (\A i \in 1..n : i \in 1..(n + 1)) /\ n + 1 \in 1..(n + 1)
      BY <1>1
    <2> QED BY <1>1, <1>2, <1>3, <2>1, <2>2 DEF IsGray
  <1>7. ASSUME NEW u \in Nodes, NEW w \in Nodes, Used(u, w)'
        PROVE  u # v /\ (Used(u, w) \/ (n > 0 /\ u = Gray(n) /\ w = v))
    <2>1. ASSUME NEW i \in 1..(n + 1), u = Gray(i)', NEW c \in 1..work'[i][2], w = adj[u][c]
          PROVE  u # v /\ (Used(u, w) \/ (n > 0 /\ u = Gray(n) /\ w = v))
      <3>1. CASE i = n + 1
        BY <1>3, <2>1, <3>1
      <3>2. CASE i \in 1..n
        <4>1. u = Gray(i) /\ u # v
          BY <1>2, <2>1, <3>2
        <4>2. CASE c \in 1..work[i][2]
          BY <1>1, <2>1, <3>2, <4>1, <4>2 DEF Used
        <4>3. CASE c \notin 1..work[i][2]
          <5>1. PICK k \in Nat : k = work[i][2] /\ work'[i][2] = IF i = n THEN k + 1 ELSE k
            BY <1>2, <3>2
          <5>2. i = n /\ c = k + 1
            BY <2>1, <4>3, <5>1
          <5>3. n > 0
            BY <1>1, <3>2
          <5> QED BY <1>4, <2>1, <4>1, <5>1, <5>2, <5>3
        <4> QED BY <4>2, <4>3
      <3> QED BY <1>1, <3>1, <3>2
    <2>2. ASSUME Seen(u)', ~IsGray(u)', Edge(u, w) PROVE u # v /\ Used(u, w)
      BY <1>6, <2>2, VisitDoes DEF Used
    <2>3. \/ \E i \in 1..(n + 1) : u = Gray(i)' /\ \E c \in 1..work'[i][2] : w = adj[u][c]
          \/ Seen(u)' /\ ~IsGray(u)' /\ Edge(u, w)
      BY <1>1, <1>7 DEF Used, Edge
    <2> QED BY <2>1, <2>2, <2>3
  <1>8. ASSUME NEW i \in 1..n, NEW u \in Nodes PROVE Home(i, u)' <=> Home(i, u) /\ u # v
    <2>1. /\ idx[u] \in Nat /\ idx[u] < counter /\ idx[Gray(i)] < counter /\ counter \in Nat
          /\ ~OnStack(v)
      BY <1>2, TarjanFacts, VisitDoes DEF TarjanInv, Numbered
    <2>2. idx'[Gray(i)] = idx[Gray(i)] /\ Gray(i)' = Gray(i)
      BY <1>2, VisitDoes
    <2>3. CASE u = v
      <3>1. i = n \/ (i < n /\ i + 1 \in 1..n)
        BY <1>1
      <3>2. i < n + 1 /\ (i = n => i + 1 = n + 1)
        BY <1>1
      <3>3. CASE i = n
        <4>1. i < Len(work') /\ Gray(i + 1)' = v
          BY <1>1, <1>3, <3>2, <3>3
        <4>2. ~(idx'[v] < idx'[v])
          <5>1. idx'[v] = counter
            BY VisitDoes
          <5>2. ~(counter < counter)
            BY <2>1
          <5> QED BY <5>1, <5>2
        <4>3. ~Home(i, v)'
          BY <4>1, <4>2 DEF Home
        <4> QED BY <2>3, <4>3
      <3>4. CASE i < n /\ i + 1 \in 1..n
        <4>1. Gray(i + 1)' = Gray(i + 1) /\ idx'[Gray(i + 1)] = idx[Gray(i + 1)]
              /\ idx[Gray(i + 1)] < counter /\ idx[Gray(i + 1)] \in Nat
          BY <1>2, <3>4, VisitDoes, TarjanFacts DEF TarjanInv, Numbered
        <4>2. idx'[v] = counter
          BY VisitDoes
        <4>3. ~(idx'[v] < idx'[Gray(i + 1)])
          BY <2>1, <4>1, <4>2
        <4> QED BY <1>1, <2>3, <3>2, <4>1, <4>3 DEF Home, Gray
      <3> QED BY <3>1, <3>3, <3>4
    <2>4. CASE u # v
      <3>1. idx'[u] = idx[u] /\ (OnStack(u)' <=> OnStack(u))
        BY <2>4, VisitDoes
      <3>2. CASE i = n
        <4>1. idx'[v] = counter /\ Gray(i + 1)' = v /\ ~(i < Len(work)) /\ i < Len(work')
          BY <1>1, <1>3, <3>2, VisitDoes
        <4> QED BY <2>1, <2>2, <2>4, <3>1, <4>1 DEF Home, Gray
      <3>3. CASE i # n
        <4>1. i < n /\ i + 1 \in 1..n /\ i < n + 1
          BY <1>1, <3>3
        <4>2. Gray(i + 1)' = Gray(i + 1) /\ idx'[Gray(i + 1)] = idx[Gray(i + 1)]
          BY <1>2, <4>1, VisitDoes
        <4> QED BY <1>1, <2>2, <2>4, <3>1, <4>1, <4>2 DEF Home, Gray
      <3> QED BY <3>2, <3>3
    <2> QED BY <2>3, <2>4
  <1>9. ASSUME NEW u \in Nodes PROVE Home(n + 1, u)' <=> u = v
    <2>1. ~(n + 1 < Len(work')) /\ Gray(n + 1)' = v /\ idx'[v] = counter
      BY <1>1, <1>3, VisitDoes
    <2>2. u # v => idx'[u] = idx[u] /\ ~(counter <= idx[u])
      <3>1. idx[u] \in Nat /\ counter \in Nat /\ idx[u] < counter
        BY TarjanFacts DEF TarjanInv, Numbered
      <3>2. u # v => idx'[u] = idx[u]
        BY VisitDoes
      <3> QED BY <3>1, <3>2
    <2>3. OnStack(v)' /\ counter <= counter
      BY VisitDoes, TarjanFacts
    <2> QED BY <2>1, <2>2, <2>3 DEF Home, Gray
  <1>10. \A i \in 1..n, u \in Nodes : Home(i, u) => u # v
    BY VisitDoes DEF Home
  <1> QED BY <1>5, <1>7, <1>8, <1>9, <1>10

LEMMA VisitNumbered ==
  ASSUME TarjanInv, NEW v \in Nodes, NEW frames, Comes(v, frames)
  PROVE  Numbered'
  <1>1. PICK c \in Nat : c = counter
    BY TarjanFacts
  <1>2. \A u \in Nodes : idx[u] \in Nat /\ low[u] \in Nat /\ idx[u] < c /\ low[u] <= idx[u]
    BY <1>1, TarjanFacts DEF TarjanInv, Numbered
  <1>3. /\ idx'[v] = c /\ low'[v] = c /\ counter' = c + 1
        /\ \A u \in Nodes \ {v} : idx'[u] = idx[u] /\ low'[u] = low[u]
    BY <1>1, VisitDoes
  <1>4. \A u \in Nodes : idx'[u] < counter' /\ low'[u] <= idx'[u]
    <2>1. c < c + 1 /\ c <= c
      BY <1>1
    <2>2. \A u \in Nodes : idx[u] < c + 1
      BY <1>1, <1>2
    <2> QED BY <1>2, <1>3, <2>1, <2>2
  <1>5. \A u, w \in Nodes : idx'[u] = idx'[w] /\ Seen(u)' => u = w
    <2>1. \A u \in Nodes \ {v} : idx'[u] # c
      BY <1>1, <1>2, <1>3
    <2>2. ASSUME NEW u \in Nodes \ {v}, NEW w \in Nodes \ {v}, idx'[u] = idx'[w], Seen(u)'
          PROVE  u = w
      BY <1>3, <2>2 DEF TarjanInv, Numbered, Seen
    <2> QED BY <1>3, <2>1, <2>2
  <1>6. Cardinality({u \in Nodes : Seen(u)'}) = counter' - 1
    <2>1. PICK S : S = {u \in Nodes : Seen(u)}
      OBVIOUS
    <2>2. IsFiniteSet(S) /\ v \notin S /\ Cardinality(S) = c - 1
      BY <1>1, <2>1, NodeAssumption, FS_Subset, VisitDoes DEF TarjanInv, Numbered
    <2>3. {u \in Nodes : Seen(u)'} = S \cup {v}
      <3>1. \A u \in Nodes : Seen(u)' <=> Seen(u) \/ u = v
        BY VisitDoes
      <3> QED BY <2>1, <3>1
    <2>4. Cardinality(S \cup {v}) = Cardinality(S) + 1
      BY <2>2, FS_AddElement
    <2>5. (c - 1) + 1 = (c + 1) - 1
      BY <1>1
    <2> QED BY <1>3, <2>2, <2>3, <2>4, <2>5
  <1> QED BY <1>4, <1>5, <1>6 DEF Numbered

LEMMA VisitGray ==
  ASSUME TarjanInv, NEW v \in Nodes, NEW frames, Comes(v, frames)
  PROVE  StackInv' /\ GrayInv'
  <1>1. PICK n \in Nat : n = Len(work)
    BY TarjanFacts
  <1>2. /\ Len(work') = n + 1 /\ (\A i \in 1..n : Gray(i)' = Gray(i)) /\ Gray(n + 1)' = v
        /\ idx'[v] = counter /\ (\A u \in Nodes \ {v} : idx'[u] = idx[u])
        /\ (\A u : OnStack(u)' <=> OnStack(u) \/ u = v) /\ ~OnStack(v)
    BY <1>1, VisitDoes
  <1>3. \A u \in Nodes : idx[u] \in Nat /\ counter \in Nat \ {0} /\ idx[u] < counter
    BY TarjanFacts DEF TarjanInv, Numbered
  <1>4. \A i \in 1..(n + 1) : i \in 1..n \/ i = n + 1
    BY <1>1
  <1>5. StackInv'
    <2>1. PICK m \in Nat : m = Len(stk)
      BY TarjanFacts
    <2>2. Len(stk') = m + 1 /\ (\A i \in 1..m : stk'[i] = stk[i]) /\ stk'[m + 1] = v
      BY <2>1, AppendProperties DEF TarjanInv, TarjanType, Comes, Visit
    <2>3. \A i \in 1..m : stk[i] \in Nodes /\ stk[i] # v /\ Seen(stk[i])
      BY <1>2, <2>1, TarjanFacts, InElements DEF OnStack
    <2>4. \A i \in 1..(m + 1) : i \in 1..m \/ i = m + 1
      BY <2>1
    <2>5. \A i \in 1..(m + 1) : idx'[stk'[i]] # 0
      BY <1>2, <1>3, <2>2, <2>3, <2>4 DEF Seen
    <2>6. ASSUME NEW i \in 1..(m + 1), NEW j \in 1..(m + 1), i < j
          PROVE  idx'[stk'[i]] < idx'[stk'[j]]
      <3>1. i \in 1..m
        BY <2>6
      <3>2. CASE j \in 1..m
        BY <1>2, <2>1, <2>2, <2>3, <2>6, <3>1, <3>2 DEF TarjanInv, StackInv
      <3>3. CASE j = m + 1
        BY <1>2, <1>3, <2>2, <2>3, <3>1, <3>3
      <3> QED BY <2>4, <3>2, <3>3
    <2> QED BY <2>2, <2>5, <2>6 DEF StackInv, Seen
  <1>6. \A i \in 1..n : Gray(i) \in Nodes /\ OnStack(Gray(i)) /\ Gray(i) # v
    BY <1>1, <1>2, TarjanFacts
  <1>7. \A i \in 1..(n + 1) : OnStack(Gray(i))'
    <2>1. ASSUME NEW i \in 1..n PROVE OnStack(Gray(i))'
      <3>1. PICK g : g = Gray(i) /\ g = Gray(i)'
        BY <1>2
      <3>2. OnStack(g)'
        BY <1>2, <1>6, <3>1
      <3> QED BY <3>1, <3>2 DEF OnStack
    <2>2. OnStack(Gray(n + 1))'
      <3>1. OnStack(v)'
        BY <1>2
      <3>2. work'[n + 1][1] = v
        BY <1>2 DEF Gray
      <3> QED BY <3>1, <3>2 DEF OnStack, Gray
    <2> QED BY <1>4, <2>1, <2>2 DEF OnStack, Gray
  <1>8. ASSUME NEW i \in 1..(n + 1), NEW j \in 1..(n + 1), i < j
        PROVE  idx'[Gray(i)'] < idx'[Gray(j)']
    <2>1. i \in 1..n
      BY <1>8
    <2>2. CASE j \in 1..n
      BY <1>1, <1>2, <1>6, <1>8, <2>1, <2>2 DEF TarjanInv, GrayInv
    <2>3. CASE j = n + 1
      BY <1>2, <1>3, <1>6, <2>1, <2>3 DEF Gray
    <2> QED BY <1>4, <2>2, <2>3
  <1>9. ASSUME NEW i \in 1..(n + 1), NEW j \in 1..(n + 1), i <= j,
               NEW g, g = Gray(i)', NEW h, h = Gray(j)'
        PROVE  Reaches(g, h)
    <2>1. CASE i \in 1..n /\ j \in 1..n
      BY <1>1, <1>2, <1>9, <2>1 DEF TarjanInv, GrayInv
    <2>2. CASE i \in 1..n /\ j = n + 1
      <3>1. n \in 1..n /\ i <= n
        BY <2>2
      <3>2. Reaches(Gray(i), Gray(n))
        BY <1>1, <2>2, <3>1 DEF TarjanInv, GrayInv
      <3>3. Reaches(Gray(n), v)
        BY <1>1, <3>1, VisitUsed, ReachesEdge
      <3>4. g = Gray(i) /\ h = v
        BY <1>2, <1>9, <2>2 DEF Gray
      <3> QED BY <3>2, <3>3, <3>4, ReachesTrans
    <2>3. CASE i = n + 1
      <3>1. j = n + 1
        BY <1>9, <2>3
      <3> QED BY <1>9, <2>3, <3>1, ReachesRefl
    <2> QED BY <1>4, <2>1, <2>2, <2>3
  <1>10. \A i, j \in 1..(n + 1) : i <= j => Reaches(Gray(i), Gray(j))'
    <2>1. ASSUME NEW i \in 1..(n + 1), NEW j \in 1..(n + 1), i <= j
          PROVE  Reaches(Gray(i), Gray(j))'
      <3>1. PICK g, h : g = Gray(i)' /\ h = Gray(j)'
        OBVIOUS
      <3>2. Reaches(g, h) /\ adj' = adj
        BY <1>9, <2>1, <3>1 DEF Comes
      <3> QED BY <3>1, <3>2 DEF Reaches
    <2> QED BY <2>1
  <1> QED BY <1>2, <1>5, <1>7, <1>8, <1>10 DEF GrayInv

\* The graph does not change: nor does what reaches what.
LEMMA ReachesKept ==
  ASSUME adj' = adj, NEW i, NEW g, Gray(i)' = g, NEW u
  PROVE  /\ Reaches(g, u) => Reaches(Gray(i), u)'
         /\ Reaches(u, g) => Reaches(u, Gray(i))'
  BY DEF Reaches

LEMMA VisitHome ==
  ASSUME TarjanInv, NEW v \in Nodes, NEW frames, Comes(v, frames)
  PROVE  UsedInv' /\ SettledInv' /\ HomeInv'
  <1>1. PICK n \in Nat : n = Len(work)
    BY TarjanFacts
  <1>2. /\ Len(work') = n + 1 /\ (\A i \in 1..n : Gray(i)' = Gray(i)) /\ Gray(n + 1)' = v
        /\ idx'[v] = counter /\ (\A u \in Nodes \ {v} : idx'[u] = idx[u])
        /\ (\A u : OnStack(u)' <=> OnStack(u) \/ u = v) /\ ~OnStack(v)
        /\ (\A u \in Nodes : Seen(u)' <=> Seen(u) \/ u = v)
        /\ (\A u \in Nodes : Settled(u)' <=> Settled(u)) /\ adj' = adj
    BY <1>1, VisitDoes DEF Comes
  <1>3. /\ \A i \in 1..(n + 1) : i \in 1..n \/ i = n + 1
        /\ n + 1 \in 1..(n + 1) /\ \A i \in 1..n : i \in 1..(n + 1)
    BY <1>1
  <1>4. UsedInv'
    <2>1. \A u, w \in Nodes : Used(u, w)' => Used(u, w) \/ w = v
      BY <1>1, VisitUsed
    <2> QED BY <1>2, <2>1 DEF UsedInv, TarjanInv
  <1>5. SettledInv'
    BY <1>2 DEF SettledInv, TarjanInv, Edge
  <1>6. ASSUME NEW u \in Nodes, OnStack(u)' PROVE \E i \in 1..(n + 1) : Home(i, u)'
    <2>1. CASE u = v
      BY <1>1, <1>3, <2>1, VisitUsed
    <2>2. CASE u # v
      <3>1. PICK i \in 1..n : Home(i, u)
        BY <1>1, <1>2, <1>6, <2>2 DEF TarjanInv, HomeInv
      <3>2. Home(i, u)'
        BY <1>1, <3>1, VisitUsed
      <3> QED BY <1>3, <3>2
    <2> QED BY <2>1, <2>2
  <1>7. ASSUME NEW i \in 1..(n + 1), NEW u \in Nodes, Home(i, u)' PROVE Reaches(Gray(i), u)'
    <2>1. CASE i \in 1..n
      <3>1. Reaches(Gray(i), u) /\ Gray(i)' = Gray(i)
        BY <1>1, <1>2, <1>7, <2>1, VisitUsed DEF TarjanInv, HomeInv
      <3>2. PICK g : g = Gray(i) /\ g = Gray(i)'
        BY <3>1
      <3> QED BY <1>2, <3>1, <3>2, ReachesKept
    <2>2. CASE i = n + 1
      <3>1. u = v /\ Gray(i)' = v
        BY <1>1, <1>2, <1>7, <2>2, VisitUsed
      <3> QED BY <1>2, <3>1, ReachesKept, ReachesRefl
    <2> QED BY <1>3, <2>1, <2>2
  <1>8. ASSUME NEW u \in Nodes, OnStack(u)'
        PROVE  \E i \in 1..(n + 1) : idx'[Gray(i)'] <= idx'[u] /\ Reaches(u, Gray(i))'
    <2>1. CASE u = v
      <3>1. Reaches(u, Gray(n + 1))'
        BY <1>2, <2>1, ReachesRefl DEF Reaches, Gray
      <3>2. idx'[v] \in Nat
        BY <1>2, TarjanFacts
      <3> QED BY <1>2, <1>3, <2>1, <3>1, <3>2 DEF Gray
    <2>2. CASE u # v
      <3>1. PICK i \in 1..n : idx[Gray(i)] <= idx[u] /\ Reaches(u, Gray(i))
        BY <1>1, <1>2, <1>8, <2>2 DEF TarjanInv, HomeInv
      <3>2. PICK g : g = Gray(i) /\ g = Gray(i)'
        BY <1>2
      <3>3. g \in Nodes \ {v}
        BY <1>1, <1>2, <3>2, TarjanFacts
      <3>4. Reaches(u, Gray(i))' /\ idx'[g] <= idx'[u]
        BY <1>2, <2>2, <3>1, <3>2, <3>3, ReachesKept
      <3> QED BY <1>3, <3>2, <3>4
    <2> QED BY <2>1, <2>2
  <1>9. HomeInv'
    BY <1>2, <1>6, <1>7, <1>8 DEF HomeInv
  <1> QED BY <1>4, <1>5, <1>9

LEMMA VisitLow ==
  ASSUME TarjanInv, NEW v \in Nodes, NEW frames, Comes(v, frames)
  PROVE  LowInv' /\ SccInv'
  <1>1. PICK n \in Nat : n = Len(work)
    BY TarjanFacts
  <1>2. /\ Len(work') = n + 1 /\ (\A i \in 1..n : Gray(i)' = Gray(i)) /\ Gray(n + 1)' = v
        /\ idx'[v] = counter /\ low'[v] = counter
        /\ (\A u \in Nodes \ {v} : idx'[u] = idx[u] /\ low'[u] = low[u])
        /\ (\A u : OnStack(u)' <=> OnStack(u) \/ u = v) /\ ~OnStack(v)
        /\ (\A u \in Nodes : Settled(u)' <=> Settled(u)) /\ adj' = adj
    BY <1>1, VisitDoes DEF Comes
  <1>3. \A i \in 1..(n + 1) : i \in 1..n \/ i = n + 1
    BY <1>1
  <1>4. \A u \in Nodes : /\ idx[u] \in Nat /\ low[u] \in Nat /\ counter \in Nat
                         /\ idx[u] < counter /\ low[u] <= idx[u]
    BY TarjanFacts DEF TarjanInv, Numbered
  <1>5. ASSUME NEW i \in 1..(n + 1), NEW g, g = Gray(i)'
        PROVE  \E w \in Nodes : OnStack(w)' /\ idx'[w] = low'[g] /\ Reaches(g, w)
    <2>1. CASE i \in 1..n
      <3>1. g = Gray(i) /\ g \in Nodes \ {v}
        BY <1>1, <1>2, <1>5, <2>1, TarjanFacts
      <3>2. PICK w \in Nodes : OnStack(w) /\ idx[w] = low[g] /\ Reaches(g, w)
        BY <1>1, <2>1, <3>1 DEF TarjanInv, LowInv
      <3>3. w # v
        BY <1>2, <3>2
      <3>4. OnStack(w)' /\ idx'[w] = low'[g]
        BY <1>2, <3>1, <3>2, <3>3
      <3> QED BY <3>2, <3>4
    <2>2. CASE i = n + 1
      <3>1. g = v
        BY <1>2, <1>5, <2>2 DEF Gray
      <3> QED BY <1>2, <3>1, ReachesRefl
    <2> QED BY <1>3, <2>1, <2>2
  <1>6. ASSUME NEW i \in 1..(n + 1), NEW u \in Nodes, NEW w \in Nodes, NEW g, g = Gray(i)',
               Home(i, u)', Used(u, w)', OnStack(w)'
        PROVE  low'[g] <= idx'[w]
    <2>1. u # v /\ (Used(u, w) \/ w = v)
      BY <1>1, <1>6, VisitUsed
    <2>2. i \in 1..n /\ Home(i, u)
      <3>1. i # n + 1
        BY <1>1, <1>6, <2>1, VisitUsed
      <3> QED BY <1>1, <1>3, <1>6, <3>1, VisitUsed
    <2>3. g = Gray(i) /\ g \in Nodes \ {v}
      BY <1>1, <1>2, <1>6, <2>2, TarjanFacts
    <2>4. CASE w = v
      BY <1>2, <1>4, <2>3, <2>4
    <2>5. CASE w # v
      <3>1. low[g] <= idx[w]
        BY <1>1, <1>2, <1>6, <2>1, <2>2, <2>3, <2>5 DEF TarjanInv, LowInv
      <3> QED BY <1>2, <2>3, <2>5, <3>1
    <2> QED BY <2>4, <2>5
  <1>7. LowInv'
    <2>1. ASSUME NEW i \in 1..(n + 1)
          PROVE  \E w \in Nodes : OnStack(w)' /\ idx'[w] = low'[Gray(i)'] /\ Reaches(Gray(i), w)'
      <3>1. PICK g : g = Gray(i)'
        OBVIOUS
      <3>2. PICK w \in Nodes : OnStack(w)' /\ idx'[w] = low'[g] /\ Reaches(g, w)
        BY <1>5, <3>1
      <3>3. Reaches(Gray(i), w)'
        BY <1>2, <3>1, <3>2, ReachesKept
      <3> QED BY <3>1, <3>2, <3>3
    <2> QED BY <1>2, <1>6, <2>1 DEF LowInv
  <1>8. SccInv'
    <2>1. sccs' = sccs
      BY DEF Comes, Visit
    <2>2. \A x, y : SameClass(x, y)' <=> SameClass(x, y)
      BY <1>2, ReachesSame DEF SameClass
    <2> QED BY <1>2, <2>1, <2>2 DEF TarjanInv, SccInv
  <1> QED BY <1>7, <1>8

LEMMA VisitKeeps ==
  ASSUME TarjanInv, NEW v \in Nodes, NEW frames, Comes(v, frames)
  PROVE  TarjanInv'
  <1>1. TarjanType' /\ phase' = "tarjan"
    BY VisitDoes DEF Comes
  <1> QED BY <1>1, VisitNumbered, VisitGray, VisitHome, VisitLow DEF TarjanInv

LEMMA StartKeeps ==
  ASSUME TarjanInv, Start
  PROVE  TarjanInv'
  <1>1. PICK v \in Nodes : idx[v] = 0 /\ Visit(v, work)
    BY DEF Start
  <1>2. Len(work) = 0 /\ 1..0 = {} /\ work \in Seq(Nodes \X Nat)
    BY EmptySeq DEF Start
  <1>3. Comes(v, work)
    BY <1>1, <1>2 DEF Start, Comes
  <1> QED BY <1>3, VisitKeeps

LEMMA NextIs ==
  ASSUME adj \in Adjacency, NEW s \in Seq(Nodes \X Nat), s # <<>>, HasMore(s)
  PROVE  LET f == s[Len(s)] IN
         /\ f[1] \in Nodes /\ f[2] \in Nat /\ f[2] + 1 \in 1..Len(adj[f[1]])
         /\ NextOf(s) = adj[f[1]][f[2] + 1] /\ NextOf(s) \in Nodes /\ Edge(f[1], NextOf(s))
  <1>1. PICK f : f = s[Len(s)]
    OBVIOUS
  <1>2. f[1] \in Nodes /\ f[2] \in Nat /\ Top(s) = f
    BY <1>1, FrameIs
  <1>3. Len(adj[f[1]]) \in Nat
    BY <1>2, AdjIs
  <1>4. f[2] + 1 \in 1..Len(adj[f[1]])
    BY <1>2, <1>3 DEF HasMore
  <1>5. NextOf(s) = adj[f[1]][f[2] + 1]
    BY <1>2 DEF NextOf
  <1>6. NextOf(s) \in Nodes /\ Edge(f[1], NextOf(s))
    BY <1>2, <1>4, <1>5, AdjIs
  <1> QED BY <1>1, <1>2, <1>4, <1>5, <1>6

LEMMA DescendKeeps ==
  ASSUME TarjanInv, Descend
  PROVE  TarjanInv'
  <1>1. PICK v, n, frames : v = NextOf(work) /\ n = Len(work) /\ frames = Looked(work)
    OBVIOUS
  <1>2. adj \in Adjacency /\ work \in Seq(Nodes \X Nat) /\ work # <<>> /\ HasMore(work)
    BY TarjanFacts DEF Descend, TarjanInv, TarjanType
  <1>3. /\ v \in Nodes /\ v = adj[work[n][1]][work[n][2] + 1]
        /\ work[n][2] + 1 <= Len(adj[work[n][1]])
    BY <1>1, <1>2, NextIs
  <1>4. /\ frames \in Seq(Nodes \X Nat) /\ Len(frames) = n
        /\ \A i \in 1..n : /\ frames[i][1] = work[i][1]
                           /\ frames[i][2] = IF i = n THEN work[i][2] + 1 ELSE work[i][2]
    BY <1>1, <1>2, LookedIs
  <1>5. Comes(v, frames)
    BY <1>1, <1>3, <1>4 DEF Descend, Comes
  <1> QED BY <1>3, <1>5, VisitKeeps
-----------------------------------------------------------------------------
(* A neighbour seen before.                                                *)

\* v, the lock of the last frame, has looked at w.
LooksBack(n, v, w) ==
  /\ n = Len(work) /\ n \in 1..n /\ v = Gray(n) /\ Edge(v, w) /\ Seen(w)
  /\ TarjanType' /\ Len(work') = n /\ adj' = adj
  /\ \A i \in 1..n : Gray(i)' = Gray(i)
  /\ UNCHANGED <<idx, stk, counter, sccs>> /\ phase' = "tarjan"
  /\ low'[v] = (IF OnStack(w) /\ idx[w] < low[v] THEN idx[w] ELSE low[v])
  /\ \A u \in Nodes \ {v} : low'[u] = low[u]
  /\ \A x, y \in Nodes : Used(x, y)' => Used(x, y) \/ (x = v /\ y = w)

LEMMA LookBackDoes ==
  ASSUME TarjanInv, LookBack
  PROVE  \E n \in Nat \ {0} : \E v, w \in Nodes : LooksBack(n, v, w)
  <1>1. PICK n, w : n = Len(work) /\ w = NextOf(work)
    OBVIOUS
  <1>2. adj \in Adjacency /\ work \in Seq(Nodes \X Nat) /\ work # <<>> /\ HasMore(work)
        /\ low \in [Nodes -> Nat] /\ idx \in [Nodes -> Nat]
    BY TarjanFacts DEF LookBack, TarjanInv, TarjanType
  <1>3. PICK v : v = Gray(n)
    OBVIOUS
  <1>4. n \in Nat \ {0} /\ n \in 1..n /\ v \in Nodes /\ Top(work)[1] = v
    <2>1. Len(work) \in 1..Len(work) /\ Top(work) = work[Len(work)] /\ Len(work) >= 1
          /\ Len(work) \in Nat
      BY <1>2, FrameIs
    <2>2. work[Len(work)][1] \in Nodes
      BY <1>2, <2>1, FrameIs
    <2> QED BY <1>1, <1>3, <2>1, <2>2 DEF Gray
  <1>5. /\ w \in Nodes /\ Edge(v, w) /\ w = adj[v][work[n][2] + 1]
        /\ work[n][2] \in Nat /\ work[n][2] + 1 \in 1..Len(adj[v])
    BY <1>1, <1>2, <1>3, NextIs DEF Gray
  <1>6. work' = Looked(work)
    BY DEF LookBack
  <1>7. /\ work' \in Seq(Nodes \X Nat) /\ Len(work') = n
        /\ \A i \in 1..n : /\ work'[i][1] = work[i][1]
                           /\ work'[i][2] = IF i = n THEN work[i][2] + 1 ELSE work[i][2]
    BY <1>1, <1>2, <1>6, LookedIs
  <1>8. \A i \in 1..n : Gray(i)' = Gray(i)
    BY <1>7 DEF Gray
  <1>9. Seen(w) /\ UNCHANGED <<adj, idx, stk, counter, sccs>> /\ phase' = "tarjan"
    BY <1>1 DEF LookBack, Seen
  <1>10. PICK i0 : i0 = idx[w]
    OBVIOUS
  <1>11. low' = IF OnStack(w) THEN [low EXCEPT ![v] = IF i0 < low[v] THEN i0 ELSE low[v]] ELSE low
    BY <1>1, <1>4, <1>10 DEF LookBack, Lower
  <1>12. i0 \in Nat /\ low[v] \in Nat
    BY <1>2, <1>4, <1>5, <1>10
  <1>13. /\ low' \in [Nodes -> Nat]
         /\ low'[v] = (IF OnStack(w) /\ i0 < low[v] THEN i0 ELSE low[v])
         /\ \A u \in Nodes \ {v} : low'[u] = low[u]
    BY <1>2, <1>4, <1>11, <1>12
  <1>14. TarjanType'
    <2>1. ASSUME NEW i \in 1..n PROVE work'[i][2] <= Len(adj[work'[i][1]])
      <3>1. CASE i = n
        <4>1. Len(adj[v]) \in Nat /\ work'[n][1] = v
          BY <1>2, <1>3, <1>4, <1>7, AdjIs DEF Gray
        <4> QED BY <1>4, <1>5, <1>7, <3>1, <4>1
      <3>2. CASE i # n
        BY <1>1, <1>7, <3>2 DEF TarjanInv, TarjanType
      <3> QED BY <3>1, <3>2
    <2> QED BY <1>7, <1>9, <1>13, <2>1 DEF TarjanInv, TarjanType
  <1>15. ASSUME NEW x \in Nodes, NEW y \in Nodes, Used(x, y)'
         PROVE  Used(x, y) \/ (x = v /\ y = w)
    <2>1. CASE \E i \in 1..n : x = Gray(i)' /\ \E c \in 1..work'[i][2] : y = adj[x][c]
      <3>1. PICK i \in 1..n : x = Gray(i) /\ \E c \in 1..work'[i][2] : y = adj[x][c]
        BY <1>8, <2>1
      <3>2. PICK c \in 1..work'[i][2] : y = adj[x][c]
        BY <3>1
      <3>3. CASE c \in 1..work[i][2]
        BY <1>1, <3>1, <3>2, <3>3 DEF Used
      <3>4. CASE c \notin 1..work[i][2]
        <4>1. i = n
          BY <1>7, <3>2, <3>4
        <4>2. c = work[n][2] + 1
          BY <1>5, <1>7, <3>2, <3>4, <4>1
        <4> QED BY <1>3, <1>5, <3>1, <3>2, <4>1, <4>2
      <3> QED BY <3>3, <3>4
    <2>2. CASE Seen(x)' /\ ~IsGray(x)' /\ Edge(x, y)
      <3>1. Seen(x) /\ ~IsGray(x)
        BY <1>1, <1>7, <1>8, <1>9, <2>2 DEF Seen, IsGray
      <3> QED BY <2>2, <3>1 DEF Used
    <2> QED BY <1>7, <1>9, <1>15, <2>1, <2>2 DEF Used, Edge
  <1>16. LooksBack(n, v, w)
    BY <1>1, <1>3, <1>4, <1>5, <1>7, <1>8, <1>9, <1>10, <1>13, <1>14, <1>15 DEF LooksBack
  <1> QED BY <1>4, <1>5, <1>16

LEMMA LookBackKeeps ==
  ASSUME TarjanInv, LookBack
  PROVE  TarjanInv'
  <1>0. PICK n \in Nat \ {0} : \E v, w \in Nodes : LooksBack(n, v, w)
    BY LookBackDoes
  <1>1. PICK v \in Nodes, w \in Nodes :
           /\ n = Len(work) /\ n \in 1..n /\ v = Gray(n) /\ Edge(v, w) /\ Seen(w)
           /\ TarjanType' /\ Len(work') = n /\ adj' = adj
           /\ \A i \in 1..n : Gray(i)' = Gray(i)
           /\ UNCHANGED <<idx, stk, counter, sccs>> /\ phase' = "tarjan"
           /\ low'[v] = (IF OnStack(w) /\ idx[w] < low[v] THEN idx[w] ELSE low[v])
           /\ \A u \in Nodes \ {v} : low'[u] = low[u]
           /\ \A x, y \in Nodes : Used(x, y)' => Used(x, y) \/ (x = v /\ y = w)
    BY <1>0 DEF LooksBack
  <1>2. \A u : (OnStack(u)' <=> OnStack(u)) /\ (Seen(u)' <=> Seen(u)) /\ (Settled(u)' <=> Settled(u))
    BY <1>1 DEF OnStack, Seen, Settled
  <1>3. \A u \in Nodes : idx[u] \in Nat /\ low[u] \in Nat /\ low[u] <= idx[u] /\ low'[u] <= low[u]
    <2>1. \A u \in Nodes : idx[u] \in Nat /\ low[u] \in Nat /\ low[u] <= idx[u]
      BY TarjanFacts DEF TarjanInv, Numbered
    <2> QED BY <1>1, <2>1
  <1>4. \A i \in 1..n : Gray(i) \in Nodes
    BY <1>1, TarjanFacts
  <1>5. Numbered'
    <2>1. {u \in Nodes : Seen(u)'} = {u \in Nodes : Seen(u)}
      BY <1>2
    <2>2. \A u \in Nodes : low'[u] <= idx'[u]
      <3>1. \A u \in Nodes : low'[u] \in Nat
        BY <1>1 DEF TarjanType
      <3> QED BY <1>1, <1>3, <3>1
    <2> QED BY <1>1, <1>2, <2>1, <2>2 DEF Numbered, TarjanInv, Seen
  <1>6. \A x, y : Reaches(x, y)' <=> Reaches(x, y)
    BY <1>1, ReachesSame
  <1>7. StackInv' /\ GrayInv'
    <2>1. StackInv'
      BY <1>1, <1>2 DEF StackInv, TarjanInv, Seen
    <2>2. ASSUME NEW i \in 1..n PROVE OnStack(Gray(i))'
      BY <1>1, <2>2, TarjanFacts DEF OnStack
    <2>3. ASSUME NEW i \in 1..n, NEW j \in 1..n PROVE
            /\ i < j => idx'[Gray(i)'] < idx'[Gray(j)']
            /\ i <= j => Reaches(Gray(i), Gray(j))'
      <3>1. i < j => idx[Gray(i)] < idx[Gray(j)]
        BY <1>1 DEF TarjanInv, GrayInv
      <3>2. i <= j => Reaches(Gray(i), Gray(j))
        BY <1>1 DEF TarjanInv, GrayInv
      <3> QED BY <1>1, <3>1, <3>2 DEF Reaches
    <2> QED BY <1>1, <2>1, <2>2, <2>3 DEF GrayInv
  <1>8. ASSUME NEW i \in 1..n, NEW u \in Nodes PROVE Home(i, u)' <=> Home(i, u)
    <2>1. i < n => i + 1 \in 1..n
      BY <1>1
    <2> QED BY <1>1, <1>2, <2>1 DEF Home, Gray
  <1>9. UsedInv' /\ SettledInv'
    BY <1>1, <1>2 DEF UsedInv, SettledInv, TarjanInv, Edge
  <1>10. HomeInv'
    <2>1. \A u \in Nodes : OnStack(u)' => \E i \in 1..n : Home(i, u)'
      BY <1>1, <1>2, <1>8 DEF TarjanInv, HomeInv
    <2>2. ASSUME NEW i \in 1..n, NEW u \in Nodes, Home(i, u)' PROVE Reaches(Gray(i), u)'
      <3>1. PICK g : g = Gray(i) /\ g = Gray(i)'
        BY <1>1
      <3>2. Reaches(g, u)
        BY <1>1, <1>8, <2>2, <3>1 DEF TarjanInv, HomeInv
      <3> QED BY <1>1, <3>1, <3>2, ReachesKept
    <2>3. ASSUME NEW u \in Nodes, OnStack(u)'
          PROVE  \E i \in 1..n : idx'[Gray(i)'] <= idx'[u] /\ Reaches(u, Gray(i))'
      <3>1. PICK i \in 1..n : idx[Gray(i)] <= idx[u] /\ Reaches(u, Gray(i))
        BY <1>1, <1>2, <2>3 DEF TarjanInv, HomeInv
      <3>2. PICK g : g = Gray(i) /\ g = Gray(i)'
        BY <1>1
      <3>3. Reaches(u, Gray(i))'
        BY <1>1, <3>1, <3>2, ReachesKept
      <3> QED BY <1>1, <3>1, <3>2, <3>3
    <2> QED BY <1>1, <2>1, <2>2, <2>3 DEF HomeInv
  <1>11. ASSUME NEW i \in 1..n
         PROVE  \E x \in Nodes : OnStack(x)' /\ idx'[x] = low'[Gray(i)'] /\ Reaches(Gray(i), x)'
    <2>1. PICK g \in Nodes : g = Gray(i) /\ g = Gray(i)'
      BY <1>1, <1>4
    <2>2. PICK x \in Nodes : OnStack(x) /\ idx[x] = low[g] /\ Reaches(g, x)
      BY <1>1, <2>1 DEF TarjanInv, LowInv
    <2>3. CASE low'[g] = low[g]
      BY <1>1, <1>2, <2>1, <2>2, <2>3, ReachesKept
    <2>4. CASE low'[g] # low[g]
      <3>1. g = v /\ OnStack(w) /\ low'[g] = idx[w]
        BY <1>1, <2>1, <2>4
      <3>2. Reaches(g, w)
        BY <1>1, <3>1, ReachesEdge
      <3> QED BY <1>1, <1>2, <2>1, <3>1, <3>2, ReachesKept
    <2> QED BY <2>3, <2>4
  <1>12. ASSUME NEW i \in 1..n, NEW x \in Nodes, NEW y \in Nodes,
                Home(i, x)', Used(x, y)', OnStack(y)'
         PROVE  low'[Gray(i)'] <= idx'[y]
    <2>1. PICK g \in Nodes : g = Gray(i) /\ g = Gray(i)'
      BY <1>1, <1>4
    <2>2. Home(i, x) /\ OnStack(y)
      BY <1>2, <1>8, <1>12
    <2>3. low'[g] \in Nat /\ low[g] \in Nat /\ idx[y] \in Nat /\ low'[g] <= low[g] /\ idx' = idx
      BY <1>1, <1>3, <2>1 DEF TarjanType
    <2>4. CASE Used(x, y)
      <3>1. low[g] <= idx[y]
        BY <1>1, <2>1, <2>2, <2>4 DEF TarjanInv, LowInv
      <3> QED BY <2>1, <2>3, <3>1
    <2>5. CASE x = v /\ y = w
      <3>1. i = n
        <4>1. i < n => i + 1 \in 1..n /\ idx[v] < idx[Gray(i + 1)]
          BY <1>1, <2>2, <2>5 DEF Home
        <4>2. i + 1 \in 1..n => (i + 1 < n => idx[Gray(i + 1)] < idx[v])
          BY <1>1 DEF TarjanInv, GrayInv
        <4>3. i < n => i + 1 < n \/ i + 1 = n
          BY <1>1
        <4>4. idx[v] \in Nat /\ (i + 1 \in 1..n => idx[Gray(i + 1)] \in Nat)
          BY <1>3, <1>4
        <4> QED BY <1>1, <4>1, <4>2, <4>3, <4>4
      <3>2. g = v
        BY <1>1, <2>1, <3>1
      <3>3. low'[g] <= idx[w]
        BY <1>1, <2>2, <2>3, <2>5, <3>2
      <3> QED BY <2>1, <2>3, <2>5, <3>3
    <2> QED BY <1>1, <1>12, <2>4, <2>5
  <1>13. LowInv'
    BY <1>1, <1>11, <1>12 DEF LowInv
  <1>14. SccInv'
    <2>1. \A x, y : SameClass(x, y)' <=> SameClass(x, y)
      BY <1>6 DEF SameClass
    <2> QED BY <1>1, <1>2, <2>1 DEF TarjanInv, SccInv
  <1> QED BY <1>1, <1>5, <1>7, <1>9, <1>10, <1>13, <1>14 DEF TarjanInv
-----------------------------------------------------------------------------
(* The last frame is left.                                                 *)

\* v was the lock of the last frame and its parent, if there is one, has its
\* low link now.
Leaves(n, v) ==
  /\ n + 1 = Len(work) /\ n + 1 \in 1..(n + 1) /\ v = Gray(n + 1) /\ Len(work') = n
  /\ work' \in Seq(Nodes \X Nat)
  /\ \A i \in 1..n : work'[i] = work[i] /\ Gray(i)' = Gray(i) /\ Gray(i) # v /\ i \in 1..(n + 1)
  /\ UNCHANGED <<adj, idx, counter>> /\ phase' = "tarjan"
  /\ low' \in [Nodes -> Nat]
  /\ \A i \in 1..n : low'[Gray(i)] = IF i = n /\ low[v] < low[Gray(i)] THEN low[v] ELSE low[Gray(i)]
  /\ \A u \in Nodes : low'[u] <= low[u]
  /\ \A y \in Nodes : Edge(v, y) => Used(v, y)
  /\ \A x, y \in Nodes : Used(x, y)' => Used(x, y)

LEMMA LeaveDoes ==
  ASSUME TarjanInv, Leave
  PROVE  \E n \in Nat : \E v \in Nodes : Leaves(n, v)
  <1>1. adj \in Adjacency /\ work \in Seq(Nodes \X Nat) /\ work # <<>> /\ ~HasMore(work)
        /\ low \in [Nodes -> Nat] /\ idx \in [Nodes -> Nat]
    BY TarjanFacts DEF Leave, TarjanInv, TarjanType
  <1>2. PICK n \in Nat : Len(work) = n + 1
    <2>1. Len(work) \in Nat /\ Len(work) >= 1
      BY <1>1, FrameIs
    <2> QED BY <2>1
  <1>3. n + 1 \in 1..(n + 1) /\ \A i \in 1..n : i \in 1..(n + 1)
    BY <1>2
  <1>4. PICK v \in Nodes : v = Gray(n + 1) /\ v = Top(work)[1] /\ Top(work) = work[n + 1]
    <2>1. Top(work) = work[n + 1] /\ work[n + 1][1] \in Nodes
      BY <1>1, <1>2, <1>3, FrameIs
    <2> QED BY <2>1 DEF Gray
  <1>5. PICK rest : rest = Popped(work)
    OBVIOUS
  <1>6. rest \in Seq(Nodes \X Nat) /\ Len(rest) = n /\ \A i \in 1..n : rest[i] = work[i]
    <2>1. Len(work) - 1 = n
      BY <1>2
    <2> QED BY <1>1, <1>5, <2>1, PoppedIs
  <1>7. work' = rest /\ UNCHANGED <<adj, idx, counter>> /\ phase' = "tarjan"
        /\ low' = (IF rest = <<>> THEN low ELSE Lower(Top(rest)[1], low[v]))
    BY <1>4, <1>5 DEF Leave
  <1>8. \A i \in 1..n : work'[i] = work[i] /\ Gray(i)' = Gray(i) /\ Gray(i) # v /\ Gray(i) \in Nodes
    <2>1. ASSUME NEW i \in 1..n PROVE Gray(i) # v /\ Gray(i) \in Nodes
      <3>1. idx[Gray(i)] < idx[Gray(n + 1)] /\ idx[Gray(i)] \in Nat
        <4>1. i < n + 1
          OBVIOUS
        <4> QED BY <1>2, <1>3, <4>1, TarjanFacts DEF TarjanInv, GrayInv
      <3> QED BY <1>2, <1>3, <1>4, <3>1, TarjanFacts
    <2> QED BY <1>6, <1>7, <2>1 DEF Gray
  <1>9. PICK l \in Nat : l = low[v]
    BY <1>1
  <1>10. /\ low' \in [Nodes -> Nat]
         /\ \A i \in 1..n : low'[Gray(i)] = IF i = n /\ l < low[Gray(i)] THEN l ELSE low[Gray(i)]
         /\ \A u \in Nodes : low'[u] <= low[u]
    <2>1. CASE n = 0
      <3>1. rest = <<>>
        BY <1>6, <2>1, EmptySeq
      <3> QED BY <1>1, <1>7, <2>1, <3>1
    <2>2. CASE n # 0
      <3>1. rest # <<>> /\ n \in 1..n
        BY <1>6, <2>2, EmptySeq
      <3>2. PICK p \in Nodes : p = Gray(n) /\ p = Top(rest)[1]
        BY <1>6, <1>8, <3>1 DEF Top, Gray
      <3>3. low' = [low EXCEPT ![p] = IF l < low[p] THEN l ELSE low[p]]
        BY <1>7, <1>9, <3>1, <3>2 DEF Lower
      <3>4. \A i \in 1..n : Gray(i) = p => i = n
        <4>1. ASSUME NEW i \in 1..n, i # n PROVE Gray(i) # p
          <5>1. i < n /\ i \in 1..(n + 1) /\ n \in 1..(n + 1)
            BY <1>3, <3>1, <4>1
          <5>2. idx[Gray(i)] < idx[Gray(n)] /\ idx[Gray(i)] \in Nat
            BY <1>1, <1>2, <1>8, <5>1 DEF TarjanInv, GrayInv
          <5> QED BY <3>2, <5>2
        <4> QED BY <4>1
      <3>5. low[p] \in Nat /\ \A u \in Nodes : low[u] \in Nat
        BY <1>1
      <3>6. /\ low' \in [Nodes -> Nat] /\ low'[p] = (IF l < low[p] THEN l ELSE low[p])
            /\ \A u \in Nodes \ {p} : low'[u] = low[u]
        BY <1>1, <3>3, <3>5
      <3>7. \A u \in Nodes : low'[u] <= low[u]
        BY <3>5, <3>6
      <3>8. \A i \in 1..n : low'[Gray(i)] = IF i = n /\ l < low[Gray(i)] THEN l ELSE low[Gray(i)]
        BY <1>8, <3>2, <3>4, <3>6
      <3> QED BY <3>6, <3>7, <3>8
    <2> QED BY <2>1, <2>2
  <1>11. ASSUME NEW y \in Nodes, Edge(v, y) PROVE Used(v, y)
    <2>1. PICK c \in 1..Len(adj[v]) : y = adj[v][c]
      BY <1>1, <1>11, AdjIs
    <2>2. work[n + 1][2] \in Nat /\ Len(adj[v]) \in Nat /\ ~(work[n + 1][2] < Len(adj[v]))
      BY <1>1, <1>2, <1>3, <1>4, TarjanFacts, AdjIs DEF HasMore
    <2>3. c \in 1..work[n + 1][2]
      BY <2>1, <2>2
    <2> QED BY <1>2, <1>3, <1>4, <2>1, <2>3 DEF Used
  <1>12. ASSUME NEW x \in Nodes, NEW y \in Nodes, Used(x, y)' PROVE Used(x, y)
    <2>1. CASE \E i \in 1..n : x = Gray(i)' /\ \E c \in 1..work'[i][2] : y = adj[x][c]
      BY <1>2, <1>3, <1>8, <2>1 DEF Used
    <2>2. CASE Seen(x)' /\ ~IsGray(x)' /\ Edge(x, y)
      <3>1. CASE x = v
        BY <1>11, <2>2, <3>1
      <3>2. CASE x # v
        <4>1. \A i \in 1..(n + 1) : i \in 1..n \/ i = n + 1
          OBVIOUS
        <4>2. ~IsGray(x)
          BY <1>2, <1>4, <1>6, <1>7, <1>8, <2>2, <3>2, <4>1 DEF IsGray
        <4> QED BY <1>7, <2>2, <4>2 DEF Used, Seen
      <3> QED BY <3>1, <3>2
    <2> QED BY <1>6, <1>7, <1>12, <2>1, <2>2 DEF Used, Edge
  <1>13. Leaves(n, v)
    BY <1>2, <1>3, <1>4, <1>6, <1>7, <1>8, <1>9, <1>10, <1>11, <1>12 DEF Leaves
  <1> QED BY <1>13

\* What does not depend on stk.
LEMMA LeaveRest ==
  ASSUME TarjanInv, Leave, NEW n \in Nat, NEW v \in Nodes, Leaves(n, v)
  PROVE  /\ Numbered' /\ UsedInv'
         /\ \A i \in 1..n : Gray(i) \in Nodes /\ idx[Gray(i)] < idx[v] /\ i \in 1..(n + 1)
         /\ \A i, j \in 1..n : i < j => idx[Gray(i)] < idx[Gray(j)]
         /\ \A i, j \in 1..n : i <= j => Reaches(Gray(i), Gray(j)) /\ Reaches(Gray(i), Gray(j))'
         /\ \A i \in 1..n : Reaches(Gray(i), v)
         /\ \A x, y : Reaches(x, y)' <=> Reaches(x, y)
         /\ \A i \in 1..n : work'[i][2] <= Len(adj[work'[i][1]])
  <1>1. adj' = adj /\ idx' = idx /\ n + 1 = Len(work) /\ n + 1 \in 1..(n + 1) /\ v = Gray(n + 1)
    BY DEF Leaves
  <1>2. \A i \in 1..n : i \in 1..(n + 1) /\ i < n + 1 /\ i <= n + 1
    OBVIOUS
  <1>3. \A x, y : Reaches(x, y)' <=> Reaches(x, y)
    BY <1>1, ReachesSame
  <1>4. /\ \A i, j \in 1..(n + 1) : i < j => idx[Gray(i)] < idx[Gray(j)]
        /\ \A i, j \in 1..(n + 1) : i <= j => Reaches(Gray(i), Gray(j))
    BY <1>1 DEF TarjanInv, GrayInv
  <1>5. \A i \in 1..n : Gray(i) \in Nodes /\ idx[Gray(i)] < idx[v] /\ Reaches(Gray(i), v)
    BY <1>1, <1>2, <1>4, TarjanFacts
  <1>6. ASSUME NEW i \in 1..n, NEW j \in 1..n, i <= j
        PROVE  Reaches(Gray(i), Gray(j)) /\ Reaches(Gray(i), Gray(j))'
    <2>1. Reaches(Gray(i), Gray(j))
      BY <1>2, <1>4, <1>6
    <2>2. Gray(i)' = Gray(i) /\ Gray(j)' = Gray(j)
      BY DEF Leaves
    <2> QED BY <1>1, <2>1, <2>2 DEF Reaches
  <1>7. Numbered'
    <2>1. \A u \in Nodes : low'[u] \in Nat /\ low[u] \in Nat /\ low'[u] <= low[u]
                           /\ low[u] <= idx[u] /\ idx[u] \in Nat
      BY TarjanFacts DEF Leaves, TarjanInv, Numbered
    <2>2. \A u \in Nodes : low'[u] <= idx[u]
      BY <2>1
    <2>3. {u \in Nodes : Seen(u)'} = {u \in Nodes : Seen(u)}
      BY <1>1 DEF Seen
    <2> QED BY <1>1, <2>2, <2>3 DEF TarjanInv, Numbered, Leaves, Seen
  <1>8. UsedInv'
    BY DEF UsedInv, TarjanInv, Leaves, Seen
  <1>9. \A i \in 1..n : work'[i][2] <= Len(adj[work'[i][1]])
    BY <1>1, <1>2 DEF Leaves, TarjanInv, TarjanType
  <1> QED BY <1>2, <1>3, <1>4, <1>5, <1>6, <1>7, <1>8, <1>9

\* v is no root: its component goes on.
LEMMA LeaveChild ==
  ASSUME TarjanInv, Leave, NEW n \in Nat, NEW v \in Nodes, Leaves(n, v), low[v] # idx[v]
  PROVE  TarjanInv'
  <1>1. /\ adj' = adj /\ idx' = idx /\ n + 1 = Len(work) /\ n + 1 \in 1..(n + 1) /\ v = Gray(n + 1)
        /\ Len(work') = n /\ \A i \in 1..n : Gray(i)' = Gray(i)
    BY DEF Leaves
  <1>2. stk' = stk /\ sccs' = sccs
    <2>1. Top(work)[1] = v
      BY <1>1, FrameIs DEF Leave, TarjanInv, TarjanType, Gray, Top
    <2> QED BY <2>1 DEF Leave
  <1>3. \A u : (OnStack(u)' <=> OnStack(u)) /\ (Seen(u)' <=> Seen(u)) /\ (Settled(u)' <=> Settled(u))
    BY <1>1, <1>2 DEF OnStack, Seen, Settled
  <1>4. \A u \in Nodes : idx[u] \in Nat /\ low[u] \in Nat /\ low[u] <= idx[u] /\ low'[u] \in Nat
    BY TarjanFacts DEF TarjanInv, Numbered, Leaves
  <1>5. \A i \in 1..n : /\ Gray(i) \in Nodes /\ idx[Gray(i)] < idx[v] /\ i \in 1..(n + 1)
                        /\ Reaches(Gray(i), v)
    BY LeaveRest
  <1>6. PICK w \in Nodes : OnStack(w) /\ idx[w] = low[v] /\ Reaches(v, w)
    BY <1>1 DEF TarjanInv, LowInv
  <1>7. idx[w] < idx[v]
    BY <1>4, <1>6
  <1>8. \A i \in 1..(n + 1) : i \in 1..n \/ i = n + 1
    OBVIOUS
  <1>9. PICK k \in 1..n : idx[Gray(k)] <= idx[w] /\ Reaches(w, Gray(k))
    <2>1. PICK k \in 1..(n + 1) : idx[Gray(k)] <= idx[w] /\ Reaches(w, Gray(k))
      BY <1>1, <1>6 DEF TarjanInv, HomeInv
    <2>2. k # n + 1
      BY <1>1, <1>4, <1>7, <2>1
    <2> QED BY <1>8, <2>1, <2>2
  <1>10. n \in 1..n /\ n > 0
    BY <1>9
  <1>11. TarjanType' /\ phase' = "tarjan"
    BY <1>1, <1>2, LeaveRest DEF TarjanType, TarjanInv, Leaves
  <1>12. StackInv' /\ GrayInv'
    <2>1. StackInv'
      BY <1>1, <1>2 DEF StackInv, TarjanInv, Seen
    <2>2. ASSUME NEW i \in 1..n PROVE OnStack(Gray(i))'
      BY <1>1, <1>2, <1>5, TarjanFacts DEF OnStack
    <2>3. ASSUME NEW i \in 1..n, NEW j \in 1..n, i < j PROVE idx'[Gray(i)'] < idx'[Gray(j)']
      <3>1. idx[Gray(i)] < idx[Gray(j)]
        BY <2>3, LeaveRest
      <3> QED BY <1>1, <3>1
    <2>4. \A i, j \in 1..n : i <= j => Reaches(Gray(i), Gray(j))'
      BY LeaveRest
    <2> QED BY <1>1, <2>1, <2>2, <2>3, <2>4 DEF GrayInv
  <1>13. SettledInv'
    BY <1>1, <1>3 DEF SettledInv, TarjanInv, Edge
  <1>14. ASSUME NEW i \in 1..n, NEW u \in Nodes
         PROVE  Home(i, u)' <=> Home(i, u) \/ (i = n /\ Home(n + 1, u))
    <2>1. CASE i # n
      <3>1. i < n /\ i < n + 1 /\ i + 1 \in 1..n
        BY <2>1
      <3> QED BY <1>1, <1>3, <2>1, <3>1 DEF Home, Gray
    <2>2. CASE i = n
      <3>1. ~(i < Len(work')) /\ i < Len(work) /\ ~(n + 1 < Len(work))
        BY <1>1, <2>2
      <3>2. Home(i, u)' <=> OnStack(u) /\ idx[Gray(n)] <= idx[u]
        BY <1>1, <1>3, <2>2, <3>1 DEF Home
      <3>3. Home(i, u) <=> OnStack(u) /\ idx[Gray(n)] <= idx[u] /\ idx[u] < idx[v]
        BY <1>1, <2>2, <3>1 DEF Home
      <3>4. Home(n + 1, u) <=> OnStack(u) /\ idx[v] <= idx[u]
        BY <1>1, <3>1 DEF Home
      <3>5. idx[Gray(n)] < idx[v] /\ idx[u] \in Nat /\ idx[v] \in Nat /\ idx[Gray(n)] \in Nat
        BY <1>4, <1>5, <1>10
      <3> QED BY <2>2, <3>2, <3>3, <3>4, <3>5
    <2> QED BY <2>1, <2>2
  <1>15. ASSUME NEW u \in Nodes, OnStack(u)' PROVE \E i \in 1..n : Home(i, u)'
    <2>1. PICK i \in 1..(n + 1) : Home(i, u)
      BY <1>1, <1>3, <1>15 DEF TarjanInv, HomeInv
    <2>2. CASE i \in 1..n
      BY <1>14, <2>1, <2>2
    <2>3. CASE i = n + 1
      BY <1>10, <1>14, <2>1, <2>3
    <2> QED BY <1>8, <2>2, <2>3
  <1>16. ASSUME NEW i \in 1..n, NEW u \in Nodes, Home(i, u)' PROVE Reaches(Gray(i), u)'
    <2>1. Reaches(Gray(i), u)
      <3>1. CASE Home(i, u)
        BY <1>1, <1>5, <3>1 DEF TarjanInv, HomeInv
      <3>2. CASE i = n /\ Home(n + 1, u)
        <4>1. Reaches(v, u)
          BY <1>1, <3>2 DEF TarjanInv, HomeInv
        <4> QED BY <1>5, <4>1, ReachesTrans
      <3> QED BY <1>14, <1>16, <3>1, <3>2
    <2>2. PICK g : g = Gray(i) /\ g = Gray(i)'
      BY <1>1
    <2> QED BY <1>1, <2>1, <2>2, ReachesKept
  <1>17. ASSUME NEW u \in Nodes, OnStack(u)'
         PROVE  \E i \in 1..n : idx'[Gray(i)'] <= idx'[u] /\ Reaches(u, Gray(i))'
    <2>1. PICK i \in 1..(n + 1) : idx[Gray(i)] <= idx[u] /\ Reaches(u, Gray(i))
      BY <1>1, <1>3, <1>17 DEF TarjanInv, HomeInv
    <2>2. \E j \in 1..n : idx[Gray(j)] <= idx[u] /\ Reaches(u, Gray(j))
      <3>1. CASE i \in 1..n
        BY <2>1, <3>1
      <3>2. CASE i = n + 1
        <4>1. Reaches(u, v) /\ idx[v] <= idx[u]
          BY <1>1, <2>1, <3>2
        <4>2. Reaches(u, w)
          BY <1>6, <4>1, ReachesTrans
        <4>3. Reaches(u, Gray(k))
          BY <1>9, <4>2, ReachesTrans
        <4>4. idx[Gray(k)] <= idx[u]
          <5>1. idx[Gray(k)] \in Nat /\ idx[w] \in Nat /\ idx[v] \in Nat /\ idx[u] \in Nat
            BY <1>4, <1>5
          <5> QED BY <1>7, <1>9, <4>1, <5>1
        <4> QED BY <4>3, <4>4
      <3> QED BY <1>8, <3>1, <3>2
    <2>3. PICK j \in 1..n : idx[Gray(j)] <= idx[u] /\ Reaches(u, Gray(j))
      BY <2>2
    <2>4. PICK g : g = Gray(j) /\ g = Gray(j)'
      BY <1>1
    <2>5. Reaches(u, Gray(j))'
      BY <1>1, <2>3, <2>4, ReachesKept
    <2> QED BY <1>1, <2>3, <2>4, <2>5
  <1>18. HomeInv'
    BY <1>1, <1>15, <1>16, <1>17 DEF HomeInv
  <1>19. ASSUME NEW i \in 1..n
         PROVE  \E x \in Nodes : OnStack(x)' /\ idx'[x] = low'[Gray(i)'] /\ Reaches(Gray(i), x)'
    <2>1. PICK g \in Nodes : g = Gray(i) /\ g = Gray(i)'
      BY <1>1, <1>5
    <2>2. CASE low'[g] = low[g]
      <3>1. PICK x \in Nodes : OnStack(x) /\ idx[x] = low[g] /\ Reaches(g, x)
        BY <1>1, <1>5, <2>1 DEF TarjanInv, LowInv
      <3> QED BY <1>1, <1>3, <2>1, <2>2, <3>1, ReachesKept
    <2>3. CASE low'[g] # low[g]
      <3>1. low'[g] = low[v]
        BY <2>1, <2>3 DEF Leaves
      <3>2. Reaches(g, w)
        BY <1>5, <1>6, <2>1, ReachesTrans
      <3> QED BY <1>1, <1>3, <1>6, <2>1, <3>1, <3>2, ReachesKept
    <2> QED BY <2>2, <2>3
  <1>20. ASSUME NEW i \in 1..n, NEW x \in Nodes, NEW y \in Nodes,
                Home(i, x)', Used(x, y)', OnStack(y)'
         PROVE  low'[Gray(i)'] <= idx'[y]
    <2>1. PICK g \in Nodes : g = Gray(i) /\ g = Gray(i)'
      BY <1>1, <1>5
    <2>2. Used(x, y) /\ OnStack(y)
      BY <1>3, <1>20 DEF Leaves
    <2>3. low'[g] \in Nat /\ low[g] \in Nat /\ low'[g] <= low[g] /\ idx[y] \in Nat /\ low[v] \in Nat
      BY <1>4 DEF Leaves
    <2>4. CASE Home(i, x)
      <3>1. low[g] <= idx[y]
        BY <1>1, <1>5, <2>1, <2>2, <2>4 DEF TarjanInv, LowInv
      <3> QED BY <1>1, <2>1, <2>3, <3>1
    <2>5. CASE i = n /\ Home(n + 1, x)
      <3>1. low[v] <= idx[y]
        BY <1>1, <2>2, <2>5 DEF TarjanInv, LowInv
      <3>2. low'[g] = IF low[v] < low[g] THEN low[v] ELSE low[g]
        BY <2>1, <2>5 DEF Leaves
      <3>3. low'[g] <= low[v]
        BY <2>3, <3>2
      <3> QED BY <1>1, <2>1, <2>3, <3>1, <3>3
    <2> QED BY <1>14, <1>20, <2>4, <2>5
  <1>21. LowInv'
    BY <1>1, <1>19, <1>20 DEF LowInv
  <1>22. SccInv'
    <2>1. \A x, y : SameClass(x, y)' <=> SameClass(x, y)
      BY LeaveRest DEF SameClass
    <2> QED BY <1>2, <1>3, <2>1 DEF TarjanInv, SccInv
  <1> QED BY <1>11, <1>12, <1>13, <1>18, <1>21, <1>22, LeaveRest DEF TarjanInv

\* The locks that leave stk with v.
Part(v, u) == OnStack(u) /\ idx[v] <= idx[u]

\* v is a root: what it leaves with is C.
Roots(v, C) ==
  /\ C \in Seq(Nodes) /\ Simple(C) /\ sccs' = Append(sccs, C) /\ stk' \in Seq(Nodes)
  /\ \A u : u \in Elements(C) <=> Part(v, u)
  /\ \A u : OnStack(u)' <=> OnStack(u) /\ idx[u] < idx[v]
  /\ StackInv'

LEMMA ReversedIs ==
  ASSUME NEW s \in Seq(Nodes)
  PROVE  /\ Reversed(s) \in Seq(Nodes) /\ Elements(Reversed(s)) = Elements(s)
         /\ Simple(s) => Simple(Reversed(s))
  <1>1. PICK n \in Nat : n = Len(s)
    BY LenProperties
  <1>2. \A i \in 1..n : n + 1 - i \in 1..n /\ n + 1 - (n + 1 - i) = i
    OBVIOUS
  <1>3. \A i \in 1..n : s[i] \in Nodes
    BY <1>1, ElementOfSeq
  <1>4. PICK r : r = Reversed(s)
    OBVIOUS
  <1>5. r = [i \in 1..n |-> s[n + 1 - i]]
    BY <1>1, <1>4 DEF Reversed
  <1>6. r \in [1..n -> Nodes]
    BY <1>2, <1>3, <1>5
  <1>7. r \in Seq(Nodes) /\ Len(r) = n
    BY <1>6, IsASeq, LenProperties
  <1>8. \A i \in 1..n : r[i] = s[n + 1 - i]
    BY <1>5
  <1>9. ASSUME NEW u PROVE u \in Elements(r) <=> u \in Elements(s)
    <2>1. u \in Elements(r) => u \in Elements(s)
      BY <1>1, <1>2, <1>7, <1>8, InElements
    <2>2. ASSUME NEW i \in 1..n, u = s[i] PROVE u \in Elements(r)
      <3>1. PICK j \in 1..n : j = n + 1 - i /\ n + 1 - j = i
        BY <1>2
      <3>2. r[j] = u
        BY <1>8, <2>2, <3>1
      <3> QED BY <1>7, <3>2, InElements
    <2> QED BY <1>1, <2>1, <2>2, InElements
  <1>10. ASSUME Simple(s), NEW i \in 1..n, NEW j \in 1..n, r[i] = r[j] PROVE i = j
    <2>1. n + 1 - i = n + 1 - j
      BY <1>1, <1>2, <1>8, <1>10 DEF Simple
    <2> QED BY <1>2, <2>1
  <1>11. Simple(s) => Simple(r)
    BY <1>7, <1>10 DEF Simple
  <1> QED BY <1>4, <1>7, <1>9, <1>11

LEMMA RootDoes ==
  ASSUME TarjanInv, Leave, NEW n \in Nat, NEW v \in Nodes, Leaves(n, v), low[v] = idx[v]
  PROVE  \E C : Roots(v, C)
  <1>1. /\ n + 1 = Len(work) /\ n + 1 \in 1..(n + 1) /\ v = Gray(n + 1) /\ idx' = idx
        /\ OnStack(v) /\ stk \in Seq(Nodes)
    BY TarjanFacts DEF Leaves, TarjanInv, TarjanType
  <1>2. PICK m \in Nat : m = Len(stk)
    BY TarjanFacts
  <1>3. PICK k \in 1..m : k = (CHOOSE j \in 1..Len(stk) : stk[j] = v) /\ stk[k] = v
    BY <1>1, <1>2, InElements DEF OnStack
  <1>4. \A i \in 1..m : stk[i] \in Nodes /\ idx[stk[i]] \in Nat /\ Seen(stk[i])
    BY <1>1, <1>2, ElementOfSeq, TarjanFacts DEF TarjanInv, StackInv
  <1>5. \A i \in 1..m : (i < k => idx[stk[i]] < idx[v]) /\ (k <= i => idx[v] <= idx[stk[i]])
    <2>1. \A i, j \in 1..m : i < j => idx[stk[i]] < idx[stk[j]]
      BY <1>2 DEF TarjanInv, StackInv
    <2>2. ASSUME NEW i \in 1..m, k <= i PROVE idx[v] <= idx[stk[i]]
      <3>1. CASE k = i
        <4>1. stk[i] = v /\ idx[stk[i]] \in Nat
          BY <1>3, <1>4, <3>1
        <4> QED BY <4>1
      <3>2. CASE k < i
        <4>1. idx[stk[k]] < idx[stk[i]] /\ idx[stk[k]] \in Nat /\ idx[stk[i]] \in Nat
          BY <1>4, <2>1, <3>2
        <4> QED BY <1>3, <4>1
      <3>3. k = i \/ k < i
        BY <2>2
      <3> QED BY <3>1, <3>2, <3>3
    <2> QED BY <1>3, <2>1, <2>2
  <1>6. PICK c : c = SubSeq(stk, k, m)
    OBVIOUS
  <1>7. c \in Seq(Nodes) /\ Len(c) = m + 1 - k /\ \A i \in 1..(m + 1 - k) : c[i] = stk[k + i - 1]
    <2>1. \A i \in k..m : stk[i] \in Nodes
      BY <1>4
    <2>2. /\ SubSeq(stk, k, m) \in Seq(Nodes)
          /\ Len(SubSeq(stk, k, m)) = IF k <= m THEN m - k + 1 ELSE 0
          /\ \A i \in 1..(m - k + 1) : SubSeq(stk, k, m)[i] = stk[k + i - 1]
      BY <2>1, SubSeqProperties
    <2>3. k <= m /\ m - k + 1 = m + 1 - k
      BY <1>3
    <2> QED BY <1>6, <2>2, <2>3
  <1>8. Component(v) = c
    BY <1>2, <1>3, <1>6 DEF Component
  <1>9. \A u : u \in Elements(c) <=> Part(v, u)
    <2>1. ASSUME NEW i \in 1..(m + 1 - k) PROVE Part(v, c[i])
      <3>1. k + i - 1 \in 1..m /\ k <= k + i - 1
        OBVIOUS
      <3>2. OnStack(stk[k + i - 1])
        BY <1>2, <3>1, InElements DEF OnStack
      <3> QED BY <1>5, <1>7, <3>1, <3>2 DEF Part
    <2>2. ASSUME NEW u, Part(v, u) PROVE u \in Elements(c)
      <3>1. PICK i \in 1..m : stk[i] = u
        BY <1>2, <2>2, InElements DEF Part, OnStack
      <3>2. k <= i
        <4>1. ~(idx[stk[i]] < idx[v])
          BY <1>4, <1>3, <2>2, <3>1 DEF Part
        <4> QED BY <1>5, <4>1
      <3>3. PICK j \in 1..(m + 1 - k) : j = i + 1 - k /\ k + j - 1 = i
        BY <3>2
      <3> QED BY <1>7, <3>1, <3>3, InElements
    <2>3. \A u : u \in Elements(c) => Part(v, u)
      <3>1. \A u : u \in Elements(c) => \E i \in 1..(m + 1 - k) : c[i] = u
        BY <1>7, InElements
      <3> QED BY <2>1, <3>1
    <2> QED BY <2>2, <2>3
  <1>10. PICK C : C = Reversed(c)
    OBVIOUS
  <1>11. C \in Seq(Nodes) /\ Simple(C) /\ \A u : u \in Elements(C) <=> Part(v, u)
    <2>1. ASSUME NEW i \in 1..(m + 1 - k), NEW j \in 1..(m + 1 - k), c[i] = c[j] PROVE i = j
      <3>1. \A x, y \in 1..m : x < y => idx[stk[x]] < idx[stk[y]]
        BY <1>2 DEF TarjanInv, StackInv
      <3>2. \A x, y \in 1..m : stk[x] = stk[y] => ~(x < y)
        BY <1>4, <3>1
      <3>3. k + i - 1 \in 1..m /\ k + j - 1 \in 1..m /\ stk[k + i - 1] = stk[k + j - 1]
        BY <1>7, <2>1
      <3>4. ~(k + i - 1 < k + j - 1) /\ ~(k + j - 1 < k + i - 1)
        BY <3>2, <3>3
      <3> QED BY <3>4
    <2>2. Simple(c)
      BY <1>7, <2>1 DEF Simple
    <2> QED BY <1>7, <1>9, <1>10, <2>2, ReversedIs
  <1>12. sccs' = Append(sccs, C) /\ stk' = SubSeq(stk, 1, Len(stk) - Len(c))
    <2>1. Top(work)[1] = v
      BY <1>1, FrameIs DEF Leave, TarjanInv, TarjanType, Gray, Top
    <2> QED BY <1>8, <1>10, <2>1 DEF Leave
  <1>13. PICK h \in Nat : h = k - 1 /\ h = m - (m + 1 - k)
    <2>1. k - 1 \in Nat /\ k - 1 = m - (m + 1 - k)
      OBVIOUS
    <2> QED BY <2>1
  <1>14. stk' \in Seq(Nodes) /\ Len(stk') = h /\ \A i \in 1..h : stk'[i] = stk[i]
    <2>1. stk' = SubSeq(stk, 1, h)
      BY <1>2, <1>7, <1>12, <1>13
    <2>2. \A i \in 1..h : stk[i] \in Nodes /\ 1 + i - 1 = i
      BY <1>4, <1>13
    <2>3. 1 \in Int /\ h \in Int /\ h - 1 + 1 = h /\ (1 <= h \/ h = 0)
      OBVIOUS
    <2>4. /\ SubSeq(stk, 1, h) \in Seq(Nodes)
          /\ Len(SubSeq(stk, 1, h)) = IF 1 <= h THEN h - 1 + 1 ELSE 0
          /\ \A i \in 1..(h - 1 + 1) : SubSeq(stk, 1, h)[i] = stk[1 + i - 1]
      BY <2>2, <2>3, SubSeqProperties
    <2>5. Len(SubSeq(stk, 1, h)) = h
      BY <2>3, <2>4
    <2> QED BY <2>1, <2>2, <2>3, <2>4, <2>5
  <1>15. \A i \in 1..h : i \in 1..m /\ i < k
    BY <1>13
  <1>16. ASSUME NEW u PROVE OnStack(u)' <=> OnStack(u) /\ idx[u] < idx[v]
    <2>1. OnStack(u)' <=> \E i \in 1..h : stk[i] = u
      BY <1>14, InElements DEF OnStack
    <2>2. OnStack(u) <=> \E i \in 1..m : stk[i] = u
      BY <1>2, InElements DEF OnStack
    <2>3. ASSUME NEW i \in 1..m, stk[i] = u, idx[u] < idx[v] PROVE i \in 1..h
      <3>1. ~(k <= i)
        <4>1. ~(idx[v] <= idx[stk[i]])
          BY <1>3, <1>4, <2>3
        <4> QED BY <1>5, <4>1
      <3> QED BY <1>13, <3>1
    <2> QED BY <1>5, <1>15, <2>1, <2>2, <2>3
  <1>17. StackInv'
    BY <1>1, <1>2, <1>14, <1>15 DEF StackInv, TarjanInv, Seen
  <1>18. Roots(v, C)
    BY <1>11, <1>12, <1>14, <1>16, <1>17 DEF Roots
  <1> QED BY <1>18

\* What leaves with a root is its class.
LEMMA RootClass ==
  ASSUME TarjanInv, Leave, NEW n \in Nat, NEW v \in Nodes, Leaves(n, v), low[v] = idx[v]
  PROVE  /\ \A u \in Nodes : Part(v, u) <=> SameClass(v, u)
         /\ \A u, w \in Nodes : Part(v, u) /\ Edge(u, w) => Settled(w) \/ Part(v, w)
         /\ Part(v, v) /\ \A u \in Nodes : Part(v, u) => Seen(u) /\ ~Settled(u)
  <1>1. /\ n + 1 = Len(work) /\ n + 1 \in 1..(n + 1) /\ v = Gray(n + 1) /\ adj \in Adjacency
        /\ \A i \in 1..(n + 1) : Gray(i) \in Nodes /\ OnStack(Gray(i))
        /\ \A i \in 1..(n + 1) : i \in 1..n \/ i = n + 1
    BY TarjanFacts DEF Leaves
  <1>2. \A u \in Nodes : idx[u] \in Nat
    BY TarjanFacts
  <1>3. \A u \in Nodes : Part(v, u) <=> Home(n + 1, u)
    BY <1>1 DEF Part, Home
  <1>4. Part(v, v)
    BY <1>1, <1>2 DEF Part
  <1>5. \A u \in Nodes : Part(v, u) => Seen(u) /\ ~Settled(u)
    BY TarjanFacts DEF Part, Settled
  <1>6. ASSUME NEW u \in Nodes, NEW w \in Nodes, Part(v, u), Edge(u, w)
        PROVE  Settled(w) \/ Part(v, w)
    <2>1. Used(u, w)
      <3>1. CASE u = v
        BY <1>6, <3>1 DEF Leaves
      <3>2. CASE u # v
        <4>1. ~IsGray(u)
          <5>1. \A i \in 1..n : idx[Gray(i)] < idx[v]
            BY LeaveRest
          <5>2. \A i \in 1..n : Gray(i) # u
            <6>1. ~(idx[u] < idx[v])
              BY <1>2, <1>6 DEF Part
            <6> QED BY <5>1, <6>1
          <5> QED BY <1>1, <3>2, <5>2 DEF IsGray
        <4> QED BY <1>5, <1>6, <4>1 DEF Used
      <3> QED BY <3>1, <3>2
    <2>2. Seen(w)
      BY <2>1 DEF TarjanInv, UsedInv
    <2>3. ASSUME OnStack(w) PROVE idx[v] <= idx[w]
      BY <1>1, <1>3, <1>6, <2>1, <2>3 DEF TarjanInv, LowInv
    <2> QED BY <2>2, <2>3 DEF Settled, Part
  <1>7. PICK S : S = {u \in Nodes : Settled(u) \/ Part(v, u)}
    OBVIOUS
  <1>8. PICK D : D = {u \in Nodes : Settled(u)}
    OBVIOUS
  <1>9. \A u, w \in Nodes : Settled(u) /\ Edge(u, w) => Settled(w)
    BY DEF TarjanInv, SettledInv
  <1>10. \A u \in S : \A w : Reaches(u, w) => w \in S
    <2>1. S \in SUBSET Nodes /\ \A x \in S, y \in Nodes : Edge(x, y) => y \in S
      BY <1>6, <1>7, <1>9
    <2> QED BY <1>1, <2>1, ReachesClosed
  <1>11. \A u \in D : \A w : Reaches(u, w) => w \in D
    <2>1. D \in SUBSET Nodes /\ \A x \in D, y \in Nodes : Edge(x, y) => y \in D
      BY <1>8, <1>9
    <2> QED BY <1>1, <2>1, ReachesClosed
  <1>12. ASSUME NEW u \in Nodes, Part(v, u) PROVE SameClass(v, u)
    <2>1. Reaches(v, u)
      BY <1>1, <1>3, <1>12 DEF TarjanInv, HomeInv
    <2>2. PICK i \in 1..(n + 1) : Reaches(u, Gray(i))
      BY <1>1, <1>12 DEF TarjanInv, HomeInv, Part
    <2>3. Gray(i) \in S
      BY <1>7, <1>10, <1>12, <2>2
    <2>4. idx[v] <= idx[Gray(i)]
      BY <1>1, <1>7, <2>3 DEF Settled, Part
    <2>5. i = n + 1
      <3>1. i \in 1..n => idx[Gray(i)] < idx[v] /\ idx[Gray(i)] \in Nat /\ idx[v] \in Nat
        BY <1>1, <1>2, LeaveRest
      <3> QED BY <1>1, <2>4, <3>1
    <2> QED BY <1>1, <2>1, <2>2, <2>5 DEF SameClass
  <1>13. ASSUME NEW u \in Nodes, SameClass(v, u) PROVE Part(v, u)
    <2>1. u \in S
      BY <1>4, <1>7, <1>10, <1>13 DEF SameClass
    <2>2. u \notin D
      <3>1. v \notin D
        BY <1>4, <1>5, <1>8
      <3> QED BY <1>11, <1>13, <3>1 DEF SameClass
    <2> QED BY <1>7, <1>8, <2>1, <2>2
  <1> QED BY <1>4, <1>5, <1>6, <1>12, <1>13

\* v is a root: its component is complete.
LEMMA LeaveRoot ==
  ASSUME TarjanInv, Leave, NEW n \in Nat, NEW v \in Nodes, Leaves(n, v), low[v] = idx[v]
  PROVE  TarjanInv'
  <1>1. PICK C : Roots(v, C)
    BY RootDoes
  <1>2. /\ adj' = adj /\ idx' = idx /\ n + 1 = Len(work) /\ n + 1 \in 1..(n + 1) /\ v = Gray(n + 1)
        /\ Len(work') = n /\ \A i \in 1..n : Gray(i)' = Gray(i)
    BY DEF Leaves
  <1>3. /\ \A u : OnStack(u)' <=> OnStack(u) /\ idx[u] < idx[v]
        /\ \A u : OnStack(u) => u \in Nodes
    BY <1>1, TarjanFacts DEF Roots
  <1>4. \A u \in Nodes : idx[u] \in Nat /\ low[u] \in Nat /\ low[u] <= idx[u]
    BY TarjanFacts DEF TarjanInv, Numbered
  <1>5. \A i \in 1..n : /\ Gray(i) \in Nodes /\ idx[Gray(i)] < idx[v] /\ i \in 1..(n + 1)
                        /\ OnStack(Gray(i))
    BY <1>2, LeaveRest, TarjanFacts
  <1>6. \A i \in 1..(n + 1) : i \in 1..n \/ i = n + 1
    OBVIOUS
  <1>7. \A u \in Nodes : (Seen(u)' <=> Seen(u)) /\ (Settled(u)' <=> Settled(u) \/ Part(v, u))
    <2>1. \A u \in Nodes : OnStack(u) => (~(idx[u] < idx[v]) <=> idx[v] <= idx[u])
      BY <1>4
    <2>2. \A u \in Nodes : Part(v, u) => Seen(u)
      BY RootClass
    <2> QED BY <1>2, <1>3, <2>1, <2>2 DEF Seen, Settled, Part
  <1>8. TarjanType' /\ phase' = "tarjan"
    <2>1. sccs' \in Seq(Seq(Nodes))
      <3>1. sccs \in Seq(Seq(Nodes)) /\ C \in Seq(Nodes) /\ sccs' = Append(sccs, C)
        BY <1>1 DEF Roots, TarjanInv, TarjanType
      <3> QED BY <3>1, AppendProperties
    <2> QED BY <1>1, <1>2, <2>1, LeaveRest DEF TarjanType, TarjanInv, Leaves, Roots
  <1>9. StackInv' /\ GrayInv'
    <2>1. ASSUME NEW i \in 1..n PROVE OnStack(Gray(i))'
      <3>1. PICK g : g = Gray(i) /\ g = Gray(i)' /\ OnStack(g) /\ idx[g] < idx[v]
        BY <1>2, <1>5
      <3>2. OnStack(g)'
        BY <1>3, <3>1
      <3> QED BY <3>1, <3>2 DEF OnStack
    <2>2. ASSUME NEW i \in 1..n, NEW j \in 1..n, i < j PROVE idx'[Gray(i)'] < idx'[Gray(j)']
      <3>1. idx[Gray(i)] < idx[Gray(j)]
        BY <2>2, LeaveRest
      <3> QED BY <1>2, <3>1
    <2>3. \A i, j \in 1..n : i <= j => Reaches(Gray(i), Gray(j))'
      BY LeaveRest
    <2>4. StackInv'
      BY <1>1 DEF Roots
    <2> QED BY <1>2, <2>1, <2>2, <2>3, <2>4 DEF GrayInv
  <1>10. SettledInv'
    <2>1. \A u, w \in Nodes : (Settled(u) \/ Part(v, u)) /\ Edge(u, w) => Settled(w) \/ Part(v, w)
      BY RootClass DEF TarjanInv, SettledInv
    <2> QED BY <1>2, <1>7, <2>1 DEF SettledInv, Edge
  <1>11. ASSUME NEW i \in 1..n, NEW u \in Nodes PROVE Home(i, u)' <=> Home(i, u)
    <2>1. CASE i # n
      <3>1. i < n /\ i < n + 1 /\ i + 1 \in 1..n
        BY <2>1
      <3>2. idx[u] < idx[Gray(i + 1)] => idx[u] < idx[v]
        <4>1. idx[Gray(i + 1)] < idx[v] /\ idx[Gray(i + 1)] \in Nat /\ idx[u] \in Nat /\ idx[v] \in Nat
          BY <1>4, <1>5, <3>1
        <4> QED BY <4>1
      <3> QED BY <1>2, <1>3, <3>1, <3>2 DEF Home, Gray
    <2>2. CASE i = n
      <3>1. ~(i < Len(work')) /\ i < Len(work)
        BY <1>2, <2>2
      <3>2. Home(i, u)' <=> OnStack(u)' /\ idx[Gray(i)] <= idx[u]
        BY <1>2, <3>1 DEF Home
      <3>3. Home(i, u) <=> OnStack(u) /\ idx[Gray(i)] <= idx[u] /\ idx[u] < idx[v]
        BY <1>2, <2>2, <3>1 DEF Home
      <3> QED BY <1>3, <3>2, <3>3
    <2> QED BY <2>1, <2>2
  <1>12. ASSUME NEW u \in Nodes, OnStack(u)'
         PROVE  /\ OnStack(u) /\ idx[u] < idx[v] /\ idx[u] \in Nat /\ idx[v] \in Nat
                /\ ~(idx[v] <= idx[u])
    BY <1>3, <1>4, <1>12
  <1>13. HomeInv'
    <2>1. ASSUME NEW u \in Nodes, OnStack(u)' PROVE \E i \in 1..n : Home(i, u)'
      <3>1. PICK i \in 1..(n + 1) : Home(i, u)
        BY <1>2, <1>12, <2>1 DEF TarjanInv, HomeInv
      <3>2. i # n + 1
        BY <1>2, <1>12, <2>1, <3>1 DEF Home
      <3> QED BY <1>6, <1>11, <3>1, <3>2
    <2>2. ASSUME NEW i \in 1..n, NEW u \in Nodes, Home(i, u)' PROVE Reaches(Gray(i), u)'
      <3>1. Reaches(Gray(i), u)
        BY <1>2, <1>5, <1>11, <2>2 DEF TarjanInv, HomeInv
      <3>2. PICK g : g = Gray(i) /\ g = Gray(i)'
        BY <1>2
      <3> QED BY <1>2, <3>1, <3>2, ReachesKept
    <2>3. ASSUME NEW u \in Nodes, OnStack(u)'
          PROVE  \E i \in 1..n : idx'[Gray(i)'] <= idx'[u] /\ Reaches(u, Gray(i))'
      <3>1. PICK i \in 1..(n + 1) : idx[Gray(i)] <= idx[u] /\ Reaches(u, Gray(i))
        BY <1>2, <1>12, <2>3 DEF TarjanInv, HomeInv
      <3>2. i \in 1..n
        BY <1>2, <1>6, <1>12, <2>3, <3>1
      <3>3. PICK g : g = Gray(i) /\ g = Gray(i)'
        BY <1>2, <3>2
      <3>4. Reaches(u, Gray(i))'
        BY <1>2, <3>1, <3>3, ReachesKept
      <3> QED BY <1>2, <3>1, <3>2, <3>3, <3>4
    <2> QED BY <1>2, <2>1, <2>2, <2>3 DEF HomeInv
  <1>14. \A i \in 1..n : low'[Gray(i)] = low[Gray(i)]
    <2>1. ASSUME NEW i \in 1..n PROVE ~(low[v] < low[Gray(i)])
      <3>1. /\ low[v] \in Nat /\ low[Gray(i)] \in Nat /\ idx[Gray(i)] \in Nat
            /\ low[Gray(i)] <= idx[Gray(i)] /\ idx[Gray(i)] < low[v]
        BY <1>4, <1>5
      <3> QED BY <3>1
    <2> QED BY <2>1 DEF Leaves
  <1>15. LowInv'
    <2>1. ASSUME NEW i \in 1..n
          PROVE  \E x \in Nodes : OnStack(x)' /\ idx'[x] = low'[Gray(i)'] /\ Reaches(Gray(i), x)'
      <3>1. PICK g \in Nodes : g = Gray(i) /\ g = Gray(i)'
        BY <1>2, <1>5
      <3>2. PICK x \in Nodes : OnStack(x) /\ idx[x] = low[g] /\ Reaches(g, x)
        BY <1>2, <1>5, <3>1 DEF TarjanInv, LowInv
      <3>3. idx[x] < idx[v]
        <4>1. low[g] <= idx[g] /\ idx[g] < idx[v] /\ low[g] \in Nat /\ idx[g] \in Nat /\ idx[v] \in Nat
          BY <1>4, <1>5, <3>1
        <4> QED BY <3>2, <4>1
      <3> QED BY <1>2, <1>3, <1>14, <3>1, <3>2, <3>3, ReachesKept
    <2>2. ASSUME NEW i \in 1..n, NEW x \in Nodes, NEW y \in Nodes,
                 Home(i, x)', Used(x, y)', OnStack(y)'
          PROVE  low'[Gray(i)'] <= idx'[y]
      <3>1. Home(i, x) /\ Used(x, y) /\ OnStack(y)
        BY <1>3, <1>11, <2>2 DEF Leaves
      <3>2. low[Gray(i)] <= idx[y]
        BY <1>2, <1>5, <3>1 DEF TarjanInv, LowInv
      <3> QED BY <1>2, <1>14, <3>2
    <2> QED BY <1>2, <2>1, <2>2 DEF LowInv
  <1>16. SccInv'
    <2>1. PICK m \in Nat : m = Len(sccs)
      BY LenProperties DEF TarjanInv, TarjanType
    <2>2. /\ Len(sccs') = m + 1 /\ (\A i \in 1..m : sccs'[i] = sccs[i]) /\ sccs'[m + 1] = C
      BY <1>1, <2>1, AppendProperties DEF Roots, TarjanInv, TarjanType
    <2>3. \A i \in 1..(m + 1) : i \in 1..m \/ i = m + 1
      OBVIOUS
    <2>4. (\A i \in 1..m : i \in 1..(m + 1)) /\ m + 1 \in 1..(m + 1)
      OBVIOUS
    <2>5. \A x, y : SameClass(x, y)' <=> SameClass(x, y)
      BY LeaveRest DEF SameClass
    <2>6. \A u : u \in Elements(C) <=> Part(v, u)
      BY <1>1 DEF Roots
    <2>7. ASSUME NEW i \in 1..(m + 1)
          PROVE  \E u \in Nodes : /\ u \in Elements(sccs'[i])
                                  /\ \A w \in Nodes : w \in Elements(sccs'[i]) <=> SameClass(u, w)'
      <3>1. CASE i \in 1..m
        <4>1. PICK u \in Nodes : /\ u \in Elements(sccs[i])
                                 /\ \A w \in Nodes : w \in Elements(sccs[i]) <=> SameClass(u, w)
          BY <2>1, <3>1 DEF TarjanInv, SccInv
        <4> QED BY <2>2, <2>5, <3>1, <4>1
      <3>2. CASE i = m + 1
        <4>1. Part(v, v) /\ \A w \in Nodes : Part(v, w) <=> SameClass(v, w)
          BY RootClass
        <4> QED BY <2>2, <2>5, <2>6, <3>2, <4>1
      <3> QED BY <2>3, <3>1, <3>2
    <2>8. ASSUME NEW u \in Nodes
          PROVE  Settled(u)' <=> \E i \in 1..(m + 1) : u \in Elements(sccs'[i])
      <3>1. Settled(u) <=> \E i \in 1..m : u \in Elements(sccs[i])
        BY <2>1 DEF TarjanInv, SccInv
      <3> QED BY <1>7, <2>2, <2>3, <2>4, <2>6, <3>1
    <2>9. ASSUME NEW i \in 1..(m + 1), NEW j \in 1..(m + 1), NEW u \in Nodes,
                 u \in Elements(sccs'[i]), u \in Elements(sccs'[j])
          PROVE  i = j
      <3>1. \A k \in 1..m : u \in Elements(sccs[k]) => Settled(u)
        BY <2>1 DEF TarjanInv, SccInv
      <3>2. Part(v, u) => ~Settled(u)
        BY RootClass
      <3>3. i \in 1..m /\ j \in 1..m => i = j
        BY <2>1, <2>2, <2>9 DEF TarjanInv, SccInv
      <3> QED BY <2>2, <2>3, <2>6, <2>9, <3>1, <3>2, <3>3
    <2>10. Len(sccs') = m + 1
      BY <2>2
    <2>11. \A i \in 1..(m + 1) : Simple(sccs'[i])
      BY <1>1, <2>1, <2>2, <2>3 DEF TarjanInv, SccInv, Roots
    <2> QED BY <2>7, <2>8, <2>9, <2>10, <2>11 DEF SccInv
  <1> QED BY <1>8, <1>9, <1>10, <1>13, <1>15, <1>16, LeaveRest DEF TarjanInv

LEMMA LeaveKeeps ==
  ASSUME TarjanInv, Leave
  PROVE  TarjanInv'
  <1>1. PICK n \in Nat, v \in Nodes : Leaves(n, v)
    BY LeaveDoes
  <1> QED BY <1>1, LeaveChild, LeaveRoot
-----------------------------------------------------------------------------
(* The components are found, and stay as they are.                         *)

LEMMA TarjanStays ==
  ASSUME TarjanInv, UNCHANGED <<adj, tarjan>>, phase' \in {"tarjan", "search", "done"},
         phase' # "tarjan" => work = <<>> /\ \A v \in Nodes : Seen(v)
  PROVE  TarjanInv'
  <1>1. UNCHANGED <<adj, idx, low, stk, work, counter, sccs>>
    BY DEF tarjan
  <1>2. /\ \A x, y : Reaches(x, y)' <=> Reaches(x, y)
        /\ \A u : (OnStack(u)' <=> OnStack(u)) /\ (Seen(u)' <=> Seen(u)) /\ (Settled(u)' <=> Settled(u))
        /\ \A i, u : Home(i, u)' <=> Home(i, u)
        /\ \A u, w : (Used(u, w)' <=> Used(u, w)) /\ (Edge(u, w)' <=> Edge(u, w))
    BY <1>1, ReachesSame DEF OnStack, Seen, Settled, Home, Used, IsGray, Edge, Gray
  <1>3. TarjanType'
    BY <1>1 DEF TarjanInv, TarjanType
  <1>4. Numbered' /\ StackInv'
    BY <1>1 DEF TarjanInv, Numbered, StackInv, Seen
  <1>5. GrayInv'
    BY <1>1 DEF TarjanInv, GrayInv, OnStack, Reaches, Gray
  <1>6. UsedInv' /\ SettledInv'
    BY <1>2 DEF TarjanInv, UsedInv, SettledInv
  <1>7. HomeInv'
    BY <1>1 DEF TarjanInv, HomeInv, Home, OnStack, Reaches, Gray
  <1>8. LowInv'
    <2>1. \A i \in 1..Len(work) : \E w \in Nodes :
            OnStack(w)' /\ idx[w] = low[Gray(i)] /\ Reaches(Gray(i), w)'
      BY <1>1 DEF TarjanInv, LowInv, OnStack, Reaches, Gray
    <2>2. \A i \in 1..Len(work), u, w \in Nodes :
            Home(i, u)' /\ Used(u, w)' /\ OnStack(w)' => low[Gray(i)] <= idx[w]
      BY <1>2 DEF TarjanInv, LowInv
    <2> QED BY <1>1, <2>1, <2>2 DEF LowInv, Gray
  <1>9. SccInv'
    <2>1. \A x, y : SameClass(x, y)' <=> SameClass(x, y)
      BY <1>2 DEF SameClass
    <2> QED BY <1>1, <1>2, <2>1 DEF TarjanInv, SccInv
  <1>10. \A v : Seen(v)' <=> Seen(v)
    BY <1>2
  <1> QED BY <1>1, <1>3, <1>4, <1>5, <1>6, <1>7, <1>8, <1>9, <1>10 DEF TarjanInv

LEMMA TarjanStep == TarjanInv /\ [Next]_vars => TarjanInv'
  <1> SUFFICES ASSUME TarjanInv, [Next]_vars PROVE TarjanInv'
    OBVIOUS
  <1>1. /\ phase \in {"tarjan", "search", "done"}
        /\ phase # "tarjan" => work = <<>> /\ \A v \in Nodes : Seen(v)
    BY DEF TarjanInv, TarjanType
  <1>2. CASE Start
    BY <1>2, StartKeeps
  <1>3. CASE Descend
    BY <1>3, DescendKeeps
  <1>4. CASE LookBack
    BY <1>4, LookBackKeeps
  <1>5. CASE Leave
    BY <1>5, LeaveKeeps
  <1>6. CASE Sorted
    BY <1>6, TarjanStays DEF Sorted, Seen
  <1>7. CASE NextScc \/ NextStart \/ Emit \/ Advance \/ Skip \/ Backtrack \/ GiveUp
    BY <1>1, <1>7, TarjanStays
       DEF NextScc, NextStart, Emit, Advance, Skip, Backtrack, GiveUp, Searching
  <1>8. CASE Finish
    BY <1>1, <1>8, TarjanStays DEF Finish
  <1>9. CASE UNCHANGED vars
    BY <1>1, <1>9, TarjanStays DEF vars
  <1> QED BY <1>2, <1>3, <1>4, <1>5, <1>6, <1>7, <1>8, <1>9 DEF Next, Done

LEMMA TarjanRight == Spec => []TarjanInv
  BY InitTarjan, TarjanStep, PTL DEF Spec

LEMMA ClassesFound == TarjanInv => SccsAreClasses
  <1> SUFFICES ASSUME TarjanInv, phase # "tarjan"
               PROVE  /\ {Elements(sccs[i]) : i \in 1..Len(sccs)} = Classes
                      /\ \A i, j \in 1..Len(sccs) : Elements(sccs[i]) = Elements(sccs[j]) => i = j
    BY DEF SccsAreClasses
  <1>1. Len(work) = 0 /\ 1..0 = {} /\ \A v \in Nodes : Seen(v)
    BY EmptySeq DEF TarjanInv
  <1>2. \A v \in Nodes : Settled(v)
    BY <1>1 DEF TarjanInv, HomeInv, Settled
  <1>3. ASSUME NEW i \in 1..Len(sccs)
        PROVE  \E u \in Nodes : /\ u \in Elements(sccs[i])
                                /\ Elements(sccs[i]) = {v \in Nodes : SameClass(u, v)}
    <2>1. PICK u \in Nodes : /\ u \in Elements(sccs[i])
                             /\ \A v \in Nodes : v \in Elements(sccs[i]) <=> SameClass(u, v)
      BY DEF TarjanInv, SccInv
    <2>2. Elements(sccs[i]) \subseteq Nodes
      <3>1. sccs[i] \in Seq(Nodes)
        BY ElementOfSeq DEF TarjanInv, TarjanType
      <3>2. \A j \in 1..Len(sccs[i]) : sccs[i][j] \in Nodes
        BY <3>1, ElementOfSeq
      <3> QED BY <3>2, InElements
    <2> QED BY <2>1, <2>2
  <1>4. ASSUME NEW u \in Nodes
        PROVE  \E i \in 1..Len(sccs) : Elements(sccs[i]) = {v \in Nodes : SameClass(u, v)}
    <2>1. PICK i \in 1..Len(sccs) : u \in Elements(sccs[i])
      BY <1>2 DEF TarjanInv, SccInv
    <2>2. PICK x \in Nodes : Elements(sccs[i]) = {v \in Nodes : SameClass(x, v)}
      BY <1>3
    <2>3. SameClass(x, u)
      BY <2>1, <2>2
    <2>4. \A v \in Nodes : SameClass(x, v) <=> SameClass(u, v)
      BY <2>3, ReachesTrans DEF SameClass
    <2> QED BY <2>2, <2>4
  <1>5. Classes = {{v \in Nodes : SameClass(u, v)} : u \in Nodes}
    BY DEF Classes, SameClass
  <1>6. {Elements(sccs[i]) : i \in 1..Len(sccs)} = {{v \in Nodes : SameClass(u, v)} : u \in Nodes}
    BY <1>3, <1>4
  <1>7. ASSUME NEW i \in 1..Len(sccs), NEW j \in 1..Len(sccs), Elements(sccs[i]) = Elements(sccs[j])
        PROVE  i = j
    <2>1. PICK u \in Nodes : u \in Elements(sccs[i])
      BY <1>3
    <2> QED BY <1>7, <2>1 DEF TarjanInv, SccInv
  <1> QED BY <1>5, <1>6, <1>7

\* The iterative form of the algorithm is right: when the search for components
\* is over, they are the classes of locks that reach each other in the graph,
\* each found once, whatever the graph and the order of the neighbours.
THEOREM ComponentsRight == Spec => []SccsAreClasses
  BY TarjanRight, ClassesFound, PTL
-----------------------------------------------------------------------------
(* The cycles.                                                             *)

\* Each lock leads to the next.
Linked(p) == \A i \in 1..Len(p) : i + 1 \in 1..Len(p) => Edge(p[i], p[i + 1])

PathInv ==
  /\ Len(stack) = Len(path) /\ \A i \in 1..Len(path) : stack[i][1] = path[i]
  /\ Simple(path) /\ Linked(path)
  /\ path # <<>> => /\ phase = "search" /\ si \in 1..Len(sccs)
                    /\ ni \in 1..Len(Scc) /\ path[1] = Scc[ni]
SearchType ==
  /\ limit \in Limits /\ si \in 1..(Len(sccs) + 1) /\ ni \in Nat
  /\ path \in Seq(Nodes) /\ stack \in Seq(Nodes \X Nat)
  /\ emitted \in 0..limit /\ out \subseteq Seq(Nodes)
SearchInv == SearchType /\ PathInv /\ out \subseteq SimpleCycles
-----------------------------------------------------------------------------
(* The canonical form of a cycle is one of its rotations.                  *)

LEMMA Smallest ==
  ASSUME NEW S \in SUBSET Nat, S # {}
  PROVE  \E m \in S : \A n \in S : m <= n
  <1> DEFINE R == OpToRel(<, Nat)
  <1>1. IsWellFoundedOn(R, Nat)
    BY NatLessThanWellFounded
  <1>2. PICK m \in S : \A n \in S : <<n, m>> \notin R
    <2> HIDE DEF R
    <2> QED BY <1>1, WFMin
  <1>3. \A n \in S : ~(n < m)
    BY <1>2 DEF OpToRel
  <1> QED BY <1>3

\* The place behind k in a cycle of n.
Behind(n, k) == IF k = n THEN 1 ELSE k + 1
\* The place in a sequence of n of what is at k in its rotation to start at i.
Place(n, i, k) == IF k <= n + 1 - i THEN k + i - 1 ELSE k + i - 1 - n

LEMMA BehindIs ==
  ASSUME NEW n \in Nat \ {0}, NEW k \in 1..n
  PROVE  (k % n) + 1 = Behind(n, k) /\ Behind(n, k) \in 1..n
  <1>1. CASE k = n
    <2>1. n % n = 0
      OBVIOUS
    <2> QED BY <1>1, <2>1 DEF Behind
  <1>2. CASE k # n
    <2>1. k < n /\ k \in 0..(n - 1)
      BY <1>2
    <2>2. k % n = k
      BY <2>1
    <2> QED BY <1>2, <2>1, <2>2 DEF Behind
  <1> QED BY <1>1, <1>2

LEMMA PlaceIs ==
  ASSUME NEW n \in Nat, NEW i \in 1..n
  PROVE  /\ \A k \in 1..n : Place(n, i, k) \in 1..n
         /\ \A k, l \in 1..n : Place(n, i, k) = Place(n, i, l) => k = l
         /\ Place(n, i, 1) = i
         /\ \A k \in 1..n : Place(n, i, Behind(n, k)) = Behind(n, Place(n, i, k))
  <1>1. \A k \in 1..n : Place(n, i, k) \in 1..n
    BY DEF Place
  <1>2. ASSUME NEW k \in 1..n, NEW l \in 1..n, Place(n, i, k) = Place(n, i, l) PROVE k = l
    BY <1>2 DEF Place
  <1>3. Place(n, i, 1) = i
    BY DEF Place
  <1>4. ASSUME NEW k \in 1..n PROVE Place(n, i, Behind(n, k)) = Behind(n, Place(n, i, k))
    BY DEF Place, Behind
  <1> QED BY <1>1, <1>2, <1>3, <1>4

LEMMA CanonIs ==
  ASSUME NEW p \in Seq(Nodes), NEW n \in Nat, n = Len(p), n >= 2
  PROVE  \E i \in 1..n : /\ \A k \in 1..n : p[i] <= p[k]
                         /\ Canon(p) \in Seq(Nodes) /\ Len(Canon(p)) = n
                         /\ \A k \in 1..n : Canon(p)[k] = p[Place(n, i, k)]
  <1>1. \A k \in 1..n : p[k] \in Nodes /\ p[k] \in Nat
    BY ElementOfSeq, NodeAssumption
  <1>2. PICK i \in 1..n : /\ i = CHOOSE j \in 1..Len(p) : \A k \in 1..Len(p) : p[j] <= p[k]
                          /\ \A k \in 1..n : p[i] <= p[k]
    <2>1. PICK S : S = {p[k] : k \in 1..n}
      OBVIOUS
    <2>2. S \in SUBSET Nat /\ S # {}
      <3>1. 1 \in 1..n
        OBVIOUS
      <3> QED BY <1>1, <2>1, <3>1
    <2>3. PICK m \in S : \A x \in S : m <= x
      BY <2>2, Smallest
    <2>4. \E j \in 1..Len(p) : \A k \in 1..Len(p) : p[j] <= p[k]
      BY <2>1, <2>3
    <2> QED BY <2>4
  <1>3. PICK a, b : a = SubSeq(p, i, n) /\ b = SubSeq(p, 1, i - 1)
    OBVIOUS
  <1>4. Canon(p) = a \o b
    BY <1>2, <1>3 DEF Canon
  <1>5. a \in Seq(Nodes) /\ Len(a) = n + 1 - i /\ \A k \in 1..(n + 1 - i) : a[k] = p[k + i - 1]
    <2>1. \A k \in i..n : p[k] \in Nodes
      BY <1>1
    <2>2. /\ SubSeq(p, i, n) \in Seq(Nodes)
          /\ Len(SubSeq(p, i, n)) = IF i <= n THEN n - i + 1 ELSE 0
          /\ \A k \in 1..(n - i + 1) : SubSeq(p, i, n)[k] = p[i + k - 1]
      BY <2>1, SubSeqProperties
    <2>3. i <= n /\ n - i + 1 = n + 1 - i /\ \A k \in 1..n : i + k - 1 = k + i - 1
      OBVIOUS
    <2>4. \A k \in 1..(n + 1 - i) : k \in 1..n
      OBVIOUS
    <2> QED BY <1>3, <2>2, <2>3, <2>4
  <1>6. PICK h \in Nat : h = i - 1
    <2>1. i - 1 \in Nat
      OBVIOUS
    <2> QED BY <2>1
  <1>7. b \in Seq(Nodes) /\ Len(b) = h /\ \A k \in 1..h : b[k] = p[k]
    <2>1. \A k \in 1..h : p[k] \in Nodes /\ 1 + k - 1 = k
      BY <1>1, <1>6
    <2>2. 1 \in Int /\ h \in Int /\ h - 1 + 1 = h /\ (1 <= h \/ h = 0)
      OBVIOUS
    <2>3. /\ SubSeq(p, 1, h) \in Seq(Nodes)
          /\ Len(SubSeq(p, 1, h)) = IF 1 <= h THEN h - 1 + 1 ELSE 0
          /\ \A k \in 1..(h - 1 + 1) : SubSeq(p, 1, h)[k] = p[1 + k - 1]
      BY <2>1, <2>2, SubSeqProperties
    <2>4. Len(SubSeq(p, 1, h)) = h
      BY <2>2, <2>3
    <2> QED BY <1>3, <1>6, <2>1, <2>2, <2>3, <2>4
  <1>8. PICK c : c = a \o b
    OBVIOUS
  <1>9. /\ c \in Seq(Nodes) /\ Len(c) = Len(a) + Len(b)
        /\ \A k \in 1..(Len(a) + Len(b)) : c[k] = IF k <= Len(a) THEN a[k] ELSE b[k - Len(a)]
    BY <1>5, <1>7, <1>8, ConcatProperties
  <1>10. Len(a) + Len(b) = n
    BY <1>5, <1>6, <1>7
  <1>11. ASSUME NEW k \in 1..n PROVE c[k] = p[Place(n, i, k)]
    <2>1. CASE k <= n + 1 - i
      <3>1. k \in 1..(n + 1 - i)
        BY <2>1
      <3> QED BY <1>5, <1>9, <1>10, <2>1, <3>1 DEF Place
    <2>2. CASE ~(k <= n + 1 - i)
      <3>1. k - (n + 1 - i) \in 1..h /\ k - (n + 1 - i) = k + i - 1 - n
        BY <1>6, <2>2
      <3>2. c[k] = p[k - (n + 1 - i)]
        BY <1>5, <1>7, <1>9, <1>10, <2>2, <3>1
      <3> QED BY <2>2, <3>1, <3>2 DEF Place
    <2> QED BY <2>1, <2>2
  <1>12. c = Canon(p)
    BY <1>4, <1>8
  <1>13. \A k \in 1..n : Canon(p)[k] = p[Place(n, i, k)]
    BY ONLY <1>11, <1>12
  <1> QED BY <1>2, <1>9, <1>10, <1>12, <1>13

LEMMA CanonSimple ==
  ASSUME adj \in Adjacency, NEW p \in Seq(Nodes), Len(p) >= 2, Simple(p), Linked(p),
         Edge(p[Len(p)], p[1])
  PROVE  Canon(p) \in SimpleCycles
  <1>1. PICK n \in Nat \ {0} : n = Len(p) /\ n >= 2
    <2>1. Len(p) \in Nat \ {0}
      BY LenProperties
    <2> QED BY <2>1
  <1>2. PICK i \in 1..n : /\ \A k \in 1..n : p[i] <= p[k]
                          /\ Canon(p) \in Seq(Nodes) /\ Len(Canon(p)) = n
                          /\ \A k \in 1..n : Canon(p)[k] = p[Place(n, i, k)]
    BY <1>1, CanonIs
  <1>3. PICK c : c = Canon(p)
    OBVIOUS
  <1>4. c \in Seq(Nodes) /\ Len(c) = n /\ \A k \in 1..n : c[k] = p[Place(n, i, k)]
    BY <1>2, <1>3
  <1>5. /\ \A k \in 1..n : Place(n, i, k) \in 1..n
        /\ \A k, l \in 1..n : Place(n, i, k) = Place(n, i, l) => k = l
        /\ Place(n, i, 1) = i
        /\ \A k \in 1..n : Place(n, i, Behind(n, k)) = Behind(n, Place(n, i, k))
    BY PlaceIs
  <1>6. c \in [1..n -> Nodes]
    BY <1>4, LenProperties
  <1>7. ASSUME NEW k \in 1..n, NEW l \in 1..n, c[k] = c[l] PROVE k = l
    <2>1. p[Place(n, i, k)] = p[Place(n, i, l)]
      BY <1>4, <1>7
    <2>2. Place(n, i, k) \in 1..Len(p) /\ Place(n, i, l) \in 1..Len(p)
      BY <1>1, <1>5
    <2>3. Place(n, i, k) = Place(n, i, l)
      BY <2>1, <2>2 DEF Simple
    <2> QED BY <1>5, <2>3
  <1>8. n \in 2..Cardinality(Nodes)
    <2>1. IsFiniteSet(1..n) /\ Cardinality(1..n) = n
      <3>1. 1 \in Int /\ n \in Int /\ ~(1 > n) /\ n - 1 + 1 = n
        BY <1>1
      <3>2. IsFiniteSet(1..n) /\ Cardinality(1..n) = IF 1 > n THEN 0 ELSE n - 1 + 1
        BY <3>1, FS_Interval
      <3> QED BY <3>1, <3>2
    <2>2. Cardinality(Nodes) \in Nat
      BY NodeAssumption, FS_CardinalityType
    <2>3. ~(Cardinality(Nodes) < n)
      BY <1>6, <1>7, <2>1, NodeAssumption, FS_PigeonHole
    <2> QED BY <1>1, <2>2, <2>3
  <1>9. \A k \in 1..n : Edge(p[k], p[Behind(n, k)])
    <2>1. ASSUME NEW k \in 1..n PROVE Edge(p[k], p[Behind(n, k)])
      <3>1. CASE k = n
        BY <1>1, <3>1 DEF Behind
      <3>2. CASE k # n
        <4>1. k + 1 \in 1..n
          BY <3>2
        <4> QED BY <1>1, <3>2, <4>1 DEF Behind, Linked
      <3> QED BY <3>1, <3>2
    <2> QED BY <2>1
  <1>10. ASSUME NEW k \in 1..n PROVE c[1] <= c[k] /\ Edge(c[k], c[(k % n) + 1])
    <2>1. 1 \in 1..n
      BY <1>1
    <2>2. (k % n) + 1 = Behind(n, k) /\ Behind(n, k) \in 1..n
      BY BehindIs
    <2>3. c[1] = p[i] /\ c[k] = p[Place(n, i, k)]
      BY <1>4, <1>5, <2>1
    <2>4. c[Behind(n, k)] = p[Behind(n, Place(n, i, k))]
      BY <1>4, <1>5, <2>2
    <2>5. Place(n, i, k) \in 1..n
      BY <1>5
    <2>6. p[i] <= p[Place(n, i, k)] /\ Edge(p[Place(n, i, k)], p[Behind(n, Place(n, i, k))])
      BY <1>2, <1>9, <2>5
    <2>7. c[(k % n) + 1] = p[Behind(n, Place(n, i, k))]
      BY ONLY <2>2, <2>4
    <2> QED BY <2>3, <2>6, <2>7
  <1>11. c \in UNION {[1..m -> Nodes] : m \in 2..Cardinality(Nodes)}
    BY <1>6, <1>8
  <1> QED BY <1>3, <1>4, <1>7, <1>10, <1>11 DEF SimpleCycles
-----------------------------------------------------------------------------
(* The search for cycles, step by step.                                    *)

LEMMA SimpleStays ==
  ASSUME adj' = adj
  PROVE  SimpleCycles' = SimpleCycles
  BY DEF SimpleCycles, Edge

LEMMA InitSearch == Init => SearchInv
  <1> SUFFICES ASSUME Init PROVE SearchInv
    OBVIOUS
  <1>1. limit \in Limits /\ limit \in Nat
    BY LimitAssumption DEF Init
  <1>2. /\ path = <<>> /\ stack = <<>> /\ Len(path) = 0 /\ Len(stack) = 0 /\ 1..0 = {}
        /\ path \in Seq(Nodes) /\ stack \in Seq(Nodes \X Nat) /\ Len(sccs) = 0
    BY EmptySeq DEF Init
  <1>3. SearchType
    BY <1>1, <1>2 DEF Init, SearchType
  <1>4. PathInv
    BY <1>2 DEF PathInv, Simple, Linked
  <1> QED BY <1>3, <1>4 DEF Init, SearchInv

\* The components are being found.
LEMMA SearchWaits ==
  ASSUME TarjanInv, SearchInv, UNCHANGED <<adj, limit, search>>, phase = "tarjan",
         Len(sccs') \in Nat, Len(sccs) <= Len(sccs')
  PROVE  SearchInv'
  <1>1. UNCHANGED <<adj, limit, si, ni, path, stack, emitted, out>>
    BY DEF search
  <1>2. path = <<>>
    BY DEF SearchInv, PathInv
  <1>3. si \in 1..(Len(sccs') + 1)
    <2>1. Len(sccs) \in Nat /\ si \in 1..(Len(sccs) + 1)
      BY LenProperties DEF TarjanInv, TarjanType, SearchInv, SearchType
    <2> QED BY <2>1
  <1>4. SearchType'
    BY <1>1, <1>3 DEF SearchInv, SearchType
  <1>5. PathInv'
    BY <1>1, <1>2 DEF SearchInv, PathInv, Simple, Linked, Edge
  <1> QED BY <1>1, <1>4, <1>5, SimpleStays DEF SearchInv

\* No path: between two searches.
LEMMA NoPath ==
  ASSUME SearchInv, UNCHANGED <<adj, limit, out>>, SearchType', path' = <<>>, stack' = <<>>
  PROVE  SearchInv'
  <1>1. Len(path') = 0 /\ Len(stack') = 0 /\ 1..0 = {}
    BY EmptySeq
  <1>2. PathInv'
    BY <1>1 DEF PathInv, Simple, Linked
  <1> QED BY <1>2, SimpleStays DEF SearchInv

\* A search under way.
LEMMA SearchFacts ==
  ASSUME TarjanInv, SearchInv, Searching, stack # <<>>
  PROVE  \E n \in Nat \ {0} :
         /\ n = Len(path) /\ n = Len(stack) /\ n \in 1..n /\ 1 \in 1..n /\ path # <<>>
         /\ adj \in Adjacency /\ stack \in Seq(Nodes \X Nat) /\ path \in Seq(Nodes)
         /\ \A i \in 1..n : path[i] \in Nodes /\ stack[i][1] = path[i]
         /\ path[1] = Scc[ni] /\ Top(stack)[1] = path[n] /\ limit \in Nat \ {0} /\ emitted \in 0..limit
  <1>1. /\ stack \in Seq(Nodes \X Nat) /\ path \in Seq(Nodes) /\ Len(stack) = Len(path)
        /\ \A i \in 1..Len(path) : stack[i][1] = path[i]
        /\ path # <<>> => path[1] = Scc[ni]
        /\ limit \in Limits /\ emitted \in 0..limit
    BY DEF SearchInv, SearchType, PathInv
  <1>2. PICK n \in Nat \ {0} : n = Len(path)
    BY <1>1, EmptySeq, LenProperties
  <1>3. path # <<>> /\ n \in 1..n /\ 1 \in 1..n
    BY <1>1, <1>2, EmptySeq
  <1>4. \A i \in 1..n : path[i] \in Nodes
    BY <1>1, <1>2, ElementOfSeq
  <1>5. Top(stack)[1] = path[n]
    BY <1>1, <1>2, <1>3 DEF Top
  <1> QED BY <1>1, <1>2, <1>3, <1>4, <1>5, LimitAssumption, TarjanFacts

\* One more neighbour has been looked at, and the path is the same.
LEMMA LookedOn ==
  ASSUME TarjanInv, SearchInv, Searching, stack # <<>>, stack' = Looked(stack),
         UNCHANGED <<adj, limit, phase, sccs, si, ni, path>>,
         emitted' \in 0..limit, out' \subseteq SimpleCycles, out' \subseteq Seq(Nodes)
  PROVE  SearchInv'
  <1>1. PICK n \in Nat \ {0} :
          /\ n = Len(path) /\ n = Len(stack) /\ stack \in Seq(Nodes \X Nat)
          /\ \A i \in 1..n : stack[i][1] = path[i]
    BY SearchFacts
  <1>2. /\ stack' \in Seq(Nodes \X Nat) /\ Len(stack') = n
        /\ \A i \in 1..n : stack'[i][1] = stack[i][1]
    BY <1>1, LookedIs
  <1>3. SearchType'
    BY <1>2 DEF SearchInv, SearchType
  <1>4. PathInv'
    BY <1>1, <1>2 DEF SearchInv, PathInv, Simple, Linked, Edge, Scc
  <1> QED BY <1>3, <1>4, SimpleStays DEF SearchInv

LEMMA NextSccKeeps ==
  ASSUME TarjanInv, SearchInv, NextScc
  PROVE  SearchInv'
  <1>1. path = <<>>
    BY EmptySeq DEF SearchInv, SearchType, PathInv, NextScc
  <1>2. si' \in 1..(Len(sccs) + 1)
    <2>1. Len(sccs) \in Nat /\ si \in 1..(Len(sccs) + 1) /\ si <= Len(sccs) /\ si' = si + 1
      BY LenProperties DEF TarjanInv, TarjanType, SearchInv, SearchType, NextScc, Searching
    <2> QED BY <2>1
  <1>3. limit \in Nat
    BY LimitAssumption DEF SearchInv, SearchType
  <1>4. SearchType'
    BY <1>2, <1>3 DEF SearchInv, SearchType, NextScc, EmittedNext, tarjan
  <1> QED BY <1>1, <1>4, NoPath DEF NextScc

LEMMA NextStartKeeps ==
  ASSUME TarjanInv, SearchInv, NextStart
  PROVE  SearchInv'
  <1>1. si \in 1..Len(sccs) /\ sccs \in Seq(Seq(Nodes)) /\ Scc \in Seq(Nodes)
    <2>1. Len(sccs) \in Nat /\ si \in 1..(Len(sccs) + 1) /\ si <= Len(sccs) /\ sccs \in Seq(Seq(Nodes))
      BY LenProperties DEF TarjanInv, TarjanType, SearchInv, SearchType, NextStart, Searching
    <2>2. si \in 1..Len(sccs)
      BY <2>1
    <2> QED BY <2>1, <2>2, ElementOfSeq DEF Scc
  <1>2. PICK v : v = Scc[ni + 1]
    OBVIOUS
  <1>3. ni + 1 \in 1..Len(Scc) /\ ni + 1 \in Nat /\ v \in Nodes
    <2>1. ni \in Nat /\ ni < Len(Scc) /\ Len(Scc) \in Nat
      BY <1>1, LenProperties DEF SearchInv, SearchType, NextStart
    <2>2. ni + 1 \in 1..Len(Scc) /\ ni + 1 \in Nat
      BY <2>1
    <2> QED BY <1>1, <1>2, <2>2, ElementOfSeq
  <1>4. PICK f : f = <<v, 0>>
    OBVIOUS
  <1>5. f \in Nodes \X Nat /\ f[1] = v
    BY <1>3, <1>4
  <1>6. path' = <<v>> /\ stack' = <<f>>
    BY <1>2, <1>4 DEF NextStart
  <1>7. path' \in Seq(Nodes) /\ Len(path') = 1 /\ path'[1] = v
    BY <1>3, <1>6
  <1>8. stack' \in Seq(Nodes \X Nat) /\ Len(stack') = 1 /\ stack'[1][1] = v
    BY <1>5, <1>6
  <1>9. ni' = ni + 1 /\ UNCHANGED <<adj, limit, phase, sccs, si, emitted, out>> /\ phase = "search"
    BY DEF NextStart, tarjan, Searching
  <1>10. SearchType'
    BY <1>3, <1>7, <1>8, <1>9 DEF SearchInv, SearchType
  <1>11. PathInv'
    <2>1. \A i \in 1..1 : i = 1 /\ i + 1 \notin 1..1
      OBVIOUS
    <2>2. Simple(path)' /\ Linked(path)'
      BY <1>7, <2>1 DEF Simple, Linked
    <2>3. Scc' = Scc
      BY <1>9 DEF Scc
    <2> QED BY <1>1, <1>2, <1>3, <1>7, <1>8, <1>9, <2>1, <2>2, <2>3 DEF PathInv
  <1> QED BY <1>9, <1>10, <1>11, SimpleStays DEF SearchInv

LEMMA EmitKeeps ==
  ASSUME TarjanInv, SearchInv, Emit
  PROVE  SearchInv'
  <1>1. PICK n \in Nat \ {0} :
          /\ n = Len(path) /\ path \in Seq(Nodes) /\ path[1] = Scc[ni] /\ Top(stack)[1] = path[n]
          /\ adj \in Adjacency /\ stack \in Seq(Nodes \X Nat)
          /\ limit \in Nat \ {0} /\ emitted \in 0..limit /\ stack # <<>>
    BY SearchFacts DEF Emit
  <1>2. Edge(path[n], path[1]) /\ n >= 2
    <2>1. Edge(Top(stack)[1], NextOf(stack))
      BY <1>1, NextIs, FrameIs DEF Emit
    <2> QED BY <1>1, <2>1 DEF Emit, Closes
  <1>3. Canon(path) \in SimpleCycles
    BY <1>1, <1>2, CanonSimple DEF SearchInv, PathInv
  <1>4. Canon(path) \in Seq(Nodes)
    BY <1>1, <1>2, CanonIs
  <1>5. out' \subseteq SimpleCycles /\ out' \subseteq Seq(Nodes)
    BY <1>3, <1>4 DEF Emit, SearchInv, SearchType
  <1>6. emitted' \in 0..limit
    BY <1>1 DEF Emit, Full
  <1> QED BY <1>1, <1>5, <1>6, LookedOn DEF Emit, tarjan

LEMMA SkipKeeps ==
  ASSUME TarjanInv, SearchInv, Skip
  PROVE  SearchInv'
  BY LookedOn DEF Skip, tarjan, SearchInv, SearchType

LEMMA AdvanceKeeps ==
  ASSUME TarjanInv, SearchInv, Advance
  PROVE  SearchInv'
  <1>1. PICK n \in Nat \ {0} :
          /\ n = Len(path) /\ n = Len(stack) /\ n \in 1..n /\ 1 \in 1..n
          /\ path \in Seq(Nodes) /\ path[1] = Scc[ni] /\ Top(stack)[1] = path[n] /\ path # <<>>
          /\ adj \in Adjacency /\ stack \in Seq(Nodes \X Nat) /\ stack # <<>>
          /\ \A i \in 1..n : path[i] \in Nodes /\ stack[i][1] = path[i]
    BY SearchFacts DEF Advance
  <1>2. PICK v : v = NextOf(stack)
    OBVIOUS
  <1>3. v \in Nodes /\ Edge(path[n], v)
    BY <1>1, <1>2, NextIs, FrameIs DEF Advance
  <1>4. \A i \in 1..n : path[i] # v
    BY <1>1, <1>2, InElements DEF Advance, Fresh
  <1>5. PICK f : f = <<v, 0>>
    OBVIOUS
  <1>6. f \in Nodes \X Nat /\ f[1] = v
    BY <1>3, <1>5
  <1>7. path' = Append(path, v) /\ stack' = Append(Looked(stack), f)
    BY <1>2, <1>5 DEF Advance
  <1>8. /\ path' \in Seq(Nodes) /\ Len(path') = n + 1 /\ path'[n + 1] = v
        /\ \A i \in 1..n : path'[i] = path[i]
    <2>1. PICK q : q = Append(path, v)
      OBVIOUS
    <2>2. /\ q \in Seq(Nodes) /\ Len(q) = n + 1 /\ q[n + 1] = v
          /\ \A i \in 1..n : q[i] = path[i]
      <3>1. path \in Seq(Nodes) /\ Len(path) = n
        BY <1>1
      <3>2. /\ q \in Seq(Nodes) /\ Len(q) = Len(path) + 1 /\ q[Len(path) + 1] = v
            /\ \A i \in 1..Len(path) : q[i] = path[i]
        BY ONLY <1>3, <2>1, <3>1, AppendProperties
      <3> QED BY <3>1, <3>2
    <2> QED BY <1>7, <2>1, <2>2
  <1>9. /\ stack' \in Seq(Nodes \X Nat) /\ Len(stack') = n + 1 /\ stack'[n + 1][1] = v
        /\ \A i \in 1..n : stack'[i][1] = path[i]
    <2>1. PICK s : s = Looked(stack)
      OBVIOUS
    <2>2. s \in Seq(Nodes \X Nat) /\ Len(s) = n /\ \A i \in 1..n : s[i][1] = path[i]
      BY <1>1, <2>1, LookedIs
    <2>3. /\ stack' \in Seq(Nodes \X Nat) /\ Len(stack') = n + 1 /\ stack'[n + 1] = f
          /\ \A i \in 1..n : stack'[i] = s[i]
      BY <1>6, <1>7, <2>1, <2>2, AppendProperties
    <2> QED BY <1>6, <2>2, <2>3
  <1>10. UNCHANGED <<adj, limit, phase, sccs, si, ni, emitted, out>>
    BY DEF Advance, tarjan
  <1>11. SearchType'
    BY <1>8, <1>9, <1>10 DEF SearchInv, SearchType
  <1>12. \A i \in 1..(n + 1) : i \in 1..n \/ i = n + 1
    OBVIOUS
  <1>13. Simple(path)'
    <2>1. \A i, j \in 1..n : path[i] = path[j] => i = j
      BY <1>1 DEF SearchInv, PathInv, Simple
    <2> QED BY <1>4, <1>8, <1>12, <2>1 DEF Simple
  <1>14. Linked(path)'
    <2>1. ASSUME NEW i \in 1..(n + 1), i + 1 \in 1..(n + 1) PROVE Edge(path'[i], path'[i + 1])
      <3>1. CASE i = n
        BY <1>1, <1>3, <1>8, <3>1
      <3>2. CASE i # n
        <4>1. i \in 1..n /\ i + 1 \in 1..n
          BY <2>1, <3>2
        <4> QED BY <1>1, <1>8, <4>1 DEF SearchInv, PathInv, Linked
      <3> QED BY <3>1, <3>2
    <2> QED BY <1>8, <1>10, <2>1 DEF Linked, Edge
  <1>15. PathInv'
    <2>1. \A i \in 1..(n + 1) : stack'[i][1] = path'[i]
      BY <1>8, <1>9, <1>12
    <2>2. phase' = "search" /\ si' \in 1..Len(sccs') /\ ni' \in 1..Len(Scc') /\ path'[1] = Scc'[ni']
      BY <1>1, <1>8, <1>10 DEF SearchInv, PathInv, Scc
    <2> QED BY <1>8, <1>9, <1>13, <1>14, <2>1, <2>2 DEF PathInv
  <1> QED BY <1>10, <1>11, <1>15, SimpleStays DEF SearchInv

LEMMA BacktrackKeeps ==
  ASSUME TarjanInv, SearchInv, Backtrack
  PROVE  SearchInv'
  <1>1. PICK n \in Nat \ {0} :
          /\ n = Len(path) /\ n = Len(stack) /\ path \in Seq(Nodes) /\ path # <<>>
          /\ stack \in Seq(Nodes \X Nat) /\ stack # <<>>
          /\ \A i \in 1..n : stack[i][1] = path[i]
    BY SearchFacts DEF Backtrack
  <1>2. PICK h \in Nat : h = n - 1 /\ n = h + 1
    <2>1. n - 1 \in Nat /\ n = (n - 1) + 1
      OBVIOUS
    <2> QED BY <2>1
  <1>3. path' \in Seq(Nodes) /\ Len(path') = h /\ \A i \in 1..h : path'[i] = path[i]
    BY <1>1, <1>2, PoppedIs DEF Backtrack
  <1>4. stack' \in Seq(Nodes \X Nat) /\ Len(stack') = h /\ \A i \in 1..h : stack'[i] = stack[i]
    BY <1>1, <1>2, PoppedIs DEF Backtrack
  <1>5. UNCHANGED <<adj, limit, phase, sccs, si, ni, emitted, out>>
    BY DEF Backtrack, tarjan
  <1>6. SearchType'
    BY <1>3, <1>4, <1>5 DEF SearchInv, SearchType
  <1>7. \A i \in 1..h : i \in 1..n
    BY <1>2
  <1>8. Simple(path)' /\ Linked(path)'
    <2>1. Simple(path) /\ Linked(path)
      BY DEF SearchInv, PathInv
    <2>2. ASSUME NEW i \in 1..h, NEW j \in 1..h, path'[i] = path'[j] PROVE i = j
      <3>1. path[i] = path[j] /\ i \in 1..Len(path) /\ j \in 1..Len(path)
        BY <1>1, <1>3, <1>7, <2>2
      <3> QED BY <2>1, <3>1 DEF Simple
    <2>3. \A i \in 1..h : i + 1 \in 1..h => Edge(path'[i], path'[i + 1])
      BY <1>1, <1>3, <1>7, <2>1 DEF Linked
    <2> QED BY <1>3, <1>5, <2>2, <2>3 DEF Simple, Linked, Edge
  <1>9. PathInv'
    <2>1. path' # <<>> => 1 \in 1..h
      BY <1>3, EmptySeq
    <2> QED BY <1>1, <1>3, <1>4, <1>5, <1>7, <1>8, <2>1 DEF SearchInv, PathInv, Scc
  <1> QED BY <1>5, <1>6, <1>9, SimpleStays DEF SearchInv

LEMMA GiveUpKeeps ==
  ASSUME TarjanInv, SearchInv, GiveUp
  PROVE  SearchInv'
  <1>1. path' = <<>> /\ stack' = <<>> /\ path' \in Seq(Nodes) /\ stack' \in Seq(Nodes \X Nat)
    BY EmptySeq DEF GiveUp
  <1>2. SearchType'
    BY <1>1 DEF SearchInv, SearchType, GiveUp, tarjan
  <1> QED BY <1>1, <1>2, NoPath DEF GiveUp

LEMMA SearchStep == TarjanInv /\ TarjanInv' /\ SearchInv /\ [Next]_vars => SearchInv'
  <1> SUFFICES ASSUME TarjanInv, TarjanInv', SearchInv, [Next]_vars PROVE SearchInv'
    OBVIOUS
  <1>1. Len(sccs) \in Nat /\ Len(sccs') \in Nat
    BY LenProperties DEF TarjanInv, TarjanType
  <1>2. CASE Start \/ Descend \/ LookBack \/ Leave
    <2>1. UNCHANGED <<adj, limit, search>> /\ phase = "tarjan"
      BY <1>2 DEF Start, Descend, LookBack, Leave
    <2>2. Len(sccs) <= Len(sccs')
      <3>1. CASE sccs' = sccs
        BY <1>1, <3>1
      <3>2. CASE sccs' # sccs
        <4>1. PICK C : sccs' = Append(sccs, C)
          BY <1>2, <3>2 DEF Start, Descend, LookBack, Leave, Visit
        <4>2. Len(sccs') = Len(sccs) + 1
          BY <4>1 DEF TarjanInv, TarjanType
        <4> QED BY <1>1, <4>2
      <3> QED BY <3>1, <3>2
    <2> QED BY <1>1, <2>1, <2>2, SearchWaits
  <1>3. CASE Sorted
    <2>1. UNCHANGED <<adj, limit, sccs, si, ni, path, stack, emitted, out>> /\ phase = "tarjan"
      BY <1>3 DEF Sorted, tarjan, search
    <2>2. path = <<>> /\ stack = <<>>
      <3>1. path = <<>>
        BY <2>1 DEF SearchInv, PathInv
      <3> QED BY <3>1, EmptySeq DEF SearchInv, PathInv, SearchType
    <2>3. SearchType'
      BY <2>1 DEF SearchInv, SearchType
    <2> QED BY <2>1, <2>2, <2>3, NoPath
  <1>4. CASE NextScc \/ NextStart \/ Emit \/ Advance \/ Skip \/ Backtrack \/ GiveUp
    BY <1>4, NextSccKeeps, NextStartKeeps, EmitKeeps, AdvanceKeeps, SkipKeeps, BacktrackKeeps,
       GiveUpKeeps
  <1>5. CASE Finish
    <2>1. UNCHANGED <<adj, limit, sccs, si, ni, path, stack, emitted, out>> /\ ~(si <= Len(sccs))
      <3>1. si \in Nat /\ si > Len(sccs)
        BY <1>5 DEF Finish, SearchInv, SearchType
      <3> QED BY <1>1, <1>5, <3>1 DEF Finish, tarjan, search
    <2>2. path = <<>> /\ stack = <<>>
      <3>1. path = <<>>
        BY <2>1 DEF SearchInv, PathInv
      <3> QED BY <3>1, EmptySeq DEF SearchInv, PathInv, SearchType
    <2>3. SearchType'
      BY <2>1 DEF SearchInv, SearchType
    <2> QED BY <2>1, <2>2, <2>3, NoPath
  <1>6. CASE UNCHANGED vars
    <2>1. UNCHANGED <<adj, limit, phase, sccs, si, ni, path, stack, emitted, out>>
      BY <1>6 DEF vars, tarjan, search
    <2>2. SearchType'
      BY <2>1 DEF SearchInv, SearchType
    <2>3. PathInv'
      BY <2>1 DEF SearchInv, PathInv, Simple, Linked, Edge, Scc
    <2> QED BY <2>1, <2>2, <2>3, SimpleStays DEF SearchInv
  <1> QED BY <1>2, <1>3, <1>4, <1>5, <1>6 DEF Next, Done

LEMMA SearchRight == Spec => []SearchInv
  BY InitSearch, SearchStep, TarjanRight, PTL DEF Spec

LEMMA TypesFit == TarjanInv /\ SearchInv => TypeOK
  <1> SUFFICES ASSUME TarjanInv, SearchInv PROVE TypeOK
    OBVIOUS
  <1>1. PICK m \in Nat : m = Cardinality(Nodes)
    BY NodeAssumption, FS_CardinalityType
  <1>2. PICK c \in Nat \ {0} : c = counter
    BY TarjanFacts
  <1>3. c - 1 <= m
    <2>1. {v \in Nodes : Seen(v)} \in SUBSET Nodes
      OBVIOUS
    <2>2. Cardinality({v \in Nodes : Seen(v)}) <= m
      BY <1>1, <2>1, NodeAssumption, FS_Subset
    <2> QED BY <1>2, <2>2 DEF TarjanInv, Numbered
  <1>4. ASSUME NEW v \in Nodes PROVE idx[v] \in 0..m /\ low[v] \in 0..m
    <2>1. idx[v] \in Nat /\ low[v] \in Nat /\ idx[v] < c /\ low[v] <= idx[v]
      BY <1>2, TarjanFacts DEF TarjanInv, Numbered
    <2> QED BY <1>3, <2>1
  <1>5. idx \in [Nodes -> 0..m] /\ low \in [Nodes -> 0..m]
    BY <1>4 DEF TarjanInv, TarjanType
  <1>6. c \in 1..(m + 1)
    BY <1>3
  <1> QED BY <1>1, <1>2, <1>5, <1>6 DEF TypeOK, TarjanInv, TarjanType, SearchInv, SearchType

\* Every variable has its type: the indices and low links stay within the number
\* of locks, and no component emits more than the limit.
THEOREM SearchTypes == Spec => []TypeOK
  BY TarjanRight, SearchRight, TypesFit, PTL

\* Whatever the graph, the order of the neighbours and the limit: every cycle
\* reported is a simple cycle of the graph in its canonical form, and no path
\* the search takes has a lock twice.
THEOREM CyclesSound == Spec => []FoundAreCycles
  <1>1. SearchInv => FoundAreCycles
    BY DEF SearchInv, PathInv, Simple, FoundAreCycles
  <1> QED BY <1>1, SearchRight, PTL
-----------------------------------------------------------------------------
(* The search comes to every cycle.  From here on the lemmas speak of one  *)
(* moment of the search in one component: a are the neighbours, S is the   *)
(* component, m the number of its starts so far, p the path and s its      *)
(* frames, e what emitted is and o what out is.                            *)

\* c is a cycle of locks of S, from any one of them on.
CycleIn(a, S, c) ==
  /\ c \in Seq(Nodes) /\ Len(c) >= 2 /\ Simple(c)
  /\ \A i \in 1..Len(c) : c[i] \in Elements(S) /\ c[Behind(Len(c), i)] \in Elements(a[c[i]])

\* The path has taken the first j steps of c, and frame j has not looked at the
\* next one.
Waits(a, c, p, s, j) ==
  /\ j <= Len(c) /\ \A i \in 1..j : p[i] = c[i]
  /\ \E k \in 1..Len(a[p[j]]) : k > s[j][2] /\ a[p[j]][k] = c[Behind(Len(c), j)]
\* The search will still come to c.
Pending(a, c, p, s) == \E j \in 1..Len(p) : Waits(a, c, p, s, j)

\* c begins with one of the starts so far.
Begun(S, m, c) == \E i \in 1..m : c[1] = S[i]

\* Cycles that have been found.
Listed(a, S, o, X) == IsFiniteSet(X) /\ \A c \in X : CycleIn(a, S, c) /\ Canon(c) \in o
\* All cycles in S have been found, or as many as the limit allows.
Covered(a, S, l, o) ==
  \/ \A c : CycleIn(a, S, c) => Canon(c) \in o
  \/ \E X : Listed(a, S, o, X) /\ Cardinality(X) = l

\* The moments the search can be at.
Moment(a, S, m, p, s) ==
  /\ a \in Adjacency /\ S \in Seq(Nodes) /\ Simple(S) /\ m \in 0..Len(S)
  /\ p \in Seq(Nodes) /\ s \in Seq(Nodes \X Nat) /\ Len(s) = Len(p) /\ Simple(p)
  /\ \A i \in 1..Len(p) : s[i][1] = p[i] /\ p[i] \in Elements(S)
  /\ \A i \in 1..Len(p) : i + 1 \in 1..Len(p) =>
       s[i][2] \in 1..Len(a[p[i]]) /\ a[p[i]][s[i][2]] = p[i + 1]
  /\ p # <<>> => m >= 1 /\ p[1] = S[m]

\* Each cycle emitted was another one, and will not come again.
Counted(a, S, m, p, s, e, o, X) ==
  /\ Listed(a, S, o, X) /\ Cardinality(X) = e
  /\ \A c \in X : Begun(S, m, c) /\ ~Pending(a, c, p, s)
\* Each cycle the search has begun has been found or will still come.
Complete(a, S, m, p, s, o) ==
  \A c : CycleIn(a, S, c) /\ Begun(S, m, c) => Canon(c) \in o \/ Pending(a, c, p, s)
Progress(a, S, l, m, p, s, e, o) ==
  /\ \E X : Counted(a, S, m, p, s, e, o, X)
  /\ e >= l \/ Complete(a, S, m, p, s, o)
-----------------------------------------------------------------------------
(* What a step of the search does to the cycles that wait.                 *)

\* The last frame of p, of which there are n, looks at neighbour v.
Looks(a, p, s, n, v) ==
  n \in 1..Len(p) /\ n = Len(p) /\ s[n][2] + 1 \in 1..Len(a[p[n]]) /\ v = a[p[n]][s[n][2] + 1]

\* A cycle whose next step is v leaves the line; all others stay.
LEMMA LookPending ==
  ASSUME NEW a, NEW S, NEW m, NEW p, NEW s, Moment(a, S, m, p, s),
         NEW n, NEW v, Looks(a, p, s, n, v), NEW c
  PROVE  /\ Pending(a, c, p, Looked(s)) => Pending(a, c, p, s)
         /\ Pending(a, c, p, s) =>
              \/ Pending(a, c, p, Looked(s))
              \/ n <= Len(c) /\ v = c[Behind(Len(c), n)] /\ \A i \in 1..n : p[i] = c[i]
  <1>1. /\ s \in Seq(Nodes \X Nat) /\ Len(s) = n /\ n \in Nat /\ n \in 1..n /\ s # <<>>
        /\ \A i \in 1..n : s[i][2] \in Nat
    BY FrameIs, EmptySeq, LenProperties DEF Moment, Looks
  <1>2. \A i \in 1..n : Looked(s)[i][2] = IF i = n THEN s[i][2] + 1 ELSE s[i][2]
    BY <1>1, LookedIs
  <1>3. n = Len(p)
    BY DEF Looks
  <1>4. ASSUME NEW j \in 1..n, Waits(a, c, p, Looked(s), j) PROVE Waits(a, c, p, s, j)
    <2>1. PICK k \in 1..Len(a[p[j]]) : k > Looked(s)[j][2] /\ a[p[j]][k] = c[Behind(Len(c), j)]
      BY <1>4 DEF Waits
    <2>2. k > s[j][2]
      BY <1>1, <1>2, <2>1
    <2> QED BY <1>4, <2>1, <2>2 DEF Waits
  <1>5. ASSUME NEW j \in 1..n, Waits(a, c, p, s, j), ~Waits(a, c, p, Looked(s), j)
        PROVE  n <= Len(c) /\ v = c[Behind(Len(c), n)] /\ \A i \in 1..n : p[i] = c[i]
    <2>1. PICK k \in 1..Len(a[p[j]]) : k > s[j][2] /\ a[p[j]][k] = c[Behind(Len(c), j)]
      BY <1>5 DEF Waits
    <2>2. ~(k > Looked(s)[j][2])
      BY <1>5, <2>1 DEF Waits
    <2>3. j = n /\ k = s[n][2] + 1
      BY <1>1, <1>2, <2>1, <2>2
    <2> QED BY <1>5, <2>1, <2>3 DEF Waits, Looks
  <1> QED BY <1>3, <1>4, <1>5 DEF Pending

\* The path goes on to v: of the cycles that go on to v as well none leaves.
LEMMA AdvancePending ==
  ASSUME NEW a, NEW S, NEW m, NEW p, NEW s, Moment(a, S, m, p, s),
         NEW n, NEW v, Looks(a, p, s, n, v), NEW c, CycleIn(a, S, c),
         NEW q, NEW r, Len(q) = n + 1, q[n + 1] = v, \A i \in 1..n : q[i] = p[i],
         r[n + 1][2] = 0, \A i \in 1..n : r[i][2] = Looked(s)[i][2]
  PROVE  /\ Pending(a, c, q, r) => Pending(a, c, p, s)
         /\ Pending(a, c, p, s) => Pending(a, c, q, r) \/ (n = Len(c) /\ v = c[1] /\ p[1] = c[1])
  <1>1. /\ s \in Seq(Nodes \X Nat) /\ Len(s) = n /\ n \in Nat /\ n \in 1..n /\ s # <<>> /\ 1 \in 1..n
        /\ \A i \in 1..n : s[i][2] \in Nat
    BY FrameIs, EmptySeq, LenProperties DEF Moment, Looks
  <1>2. \A j \in 1..(n + 1) : j \in 1..n \/ j = n + 1
    BY <1>1
  <1>3. n = Len(p) /\ s[n][2] + 1 \in 1..Len(a[p[n]]) /\ v = a[p[n]][s[n][2] + 1]
    BY DEF Looks
  <1>4. ASSUME NEW j \in 1..n PROVE Waits(a, c, q, r, j) <=> Waits(a, c, p, Looked(s), j)
    <2>1. \A i \in 1..j : i \in 1..n
      BY <1>1
    <2> QED BY <2>1 DEF Waits
  <1>5. Len(c) \in Nat /\ c \in Seq(Nodes)
    BY LenProperties DEF CycleIn
  <1>6. ASSUME Pending(a, c, q, r) PROVE Pending(a, c, p, s)
    <2>1. PICK j \in 1..(n + 1) : Waits(a, c, q, r, j)
      BY <1>6 DEF Pending
    <2>2. CASE j \in 1..n
      <3>1. Pending(a, c, p, Looked(s))
        BY <1>3, <1>4, <2>1, <2>2 DEF Pending
      <3> QED BY <3>1, LookPending
    <2>3. CASE j = n + 1
      <3>1. n + 1 <= Len(c) /\ \A i \in 1..(n + 1) : q[i] = c[i]
        BY <2>1, <2>3 DEF Waits
      <3>2. n <= Len(c) /\ Behind(Len(c), n) = n + 1 /\ n + 1 \in 1..(n + 1)
        BY <1>1, <1>5, <3>1 DEF Behind
      <3>3. v = c[Behind(Len(c), n)]
        BY <3>1, <3>2
      <3>4. \A i \in 1..n : p[i] = c[i] /\ i \in 1..(n + 1)
        BY <1>1, <3>1
      <3>5. s[n][2] + 1 > s[n][2]
        BY <1>1
      <3>6. Waits(a, c, p, s, n)
        BY <1>1, <1>3, <3>2, <3>3, <3>4, <3>5 DEF Waits
      <3> QED BY <1>1, <1>3, <3>6 DEF Pending
    <2> QED BY <1>2, <2>2, <2>3
  <1>7. ASSUME Pending(a, c, p, s), ~Pending(a, c, q, r)
        PROVE  n = Len(c) /\ v = c[1] /\ p[1] = c[1]
    <2>1. ~Pending(a, c, p, Looked(s))
      <3>1. \A j \in 1..n : j \in 1..(n + 1)
        BY <1>1
      <3> QED BY <1>3, <1>4, <1>7, <3>1 DEF Pending
    <2>2. n <= Len(c) /\ v = c[Behind(Len(c), n)] /\ \A i \in 1..n : p[i] = c[i]
      BY <1>7, <2>1, LookPending
    <2>3. CASE n = Len(c)
      BY <1>1, <2>2, <2>3 DEF Behind
    <2>4. CASE n # Len(c)
      <3>1. n + 1 <= Len(c) /\ n + 1 \in 1..Len(c) /\ Behind(Len(c), n) = n + 1
        BY <1>1, <1>5, <2>2, <2>4 DEF Behind
      <3>2. \A i \in 1..(n + 1) : q[i] = c[i]
        BY <1>2, <2>2, <3>1
      <3>3. c[Behind(Len(c), n + 1)] \in Elements(a[c[n + 1]])
        BY <3>1 DEF CycleIn
      <3>4. q[n + 1] = c[n + 1]
        BY <2>2, <3>1
      <3>5. PICK k \in 1..Len(a[q[n + 1]]) : a[q[n + 1]][k] = c[Behind(Len(c), n + 1)]
        BY <3>3, <3>4, InElements
      <3>6. k > r[n + 1][2]
        OBVIOUS
      <3>7. Waits(a, c, q, r, n + 1)
        BY <3>1, <3>2, <3>5, <3>6 DEF Waits
      <3>8. n + 1 \in 1..(n + 1)
        BY <1>1
      <3> QED BY <1>7, <3>7, <3>8 DEF Pending
    <2> QED BY <2>3, <2>4
  <1> QED BY <1>6, <1>7

\* A frame with no more neighbours keeps no cycle waiting.
LEMMA BacktrackPending ==
  ASSUME NEW a, NEW S, NEW m, NEW p, NEW s, Moment(a, S, m, p, s), p # <<>>,
         ~(s[Len(p)][2] < Len(a[p[Len(p)]])), NEW c, NEW h \in Nat, Len(p) = h + 1,
         NEW q, NEW r, Len(q) = h, \A i \in 1..h : q[i] = p[i] /\ r[i] = s[i]
  PROVE  Pending(a, c, q, r) <=> Pending(a, c, p, s)
  <1>1. \A j \in 1..h : j \in 1..(h + 1) /\ \A i \in 1..j : i \in 1..h
    OBVIOUS
  <1>2. \A j \in 1..h : Waits(a, c, q, r, j) <=> Waits(a, c, p, s, j)
    BY <1>1 DEF Waits
  <1>3. ~Waits(a, c, p, s, h + 1)
    <2>1. h + 1 \in 1..(h + 1) /\ s[h + 1][2] \in Nat
      BY FrameIs DEF Moment
    <2>2. Len(a[p[h + 1]]) \in Nat
      <3>1. p[h + 1] \in Nodes
        BY <2>1, ElementOfSeq DEF Moment
      <3>2. a[p[h + 1]] \in Seq(Nodes)
        BY <3>1, AdjAssumption DEF Moment
      <3> QED BY <3>2, LenProperties
    <2> QED BY <2>1, <2>2 DEF Waits
  <1>4. \A j \in 1..(h + 1) : j \in 1..h \/ j = h + 1
    OBVIOUS
  <1> QED BY <1>1, <1>2, <1>3, <1>4 DEF Pending

\* A path of n in the middle of its search.
Midway(a, S, m, p, s, n) ==
  /\ n = Len(p) /\ n = Len(s) /\ n \in 1..n /\ 1 \in 1..n /\ s # <<>>
  /\ s \in Seq(Nodes \X Nat) /\ p \in Seq(Nodes) /\ m >= 1 /\ p[1] = S[m]
  /\ \A i \in 1..n : /\ p[i] \in Nodes /\ p[i] \in Elements(S) /\ s[i][1] = p[i] /\ s[i][2] \in Nat
                     /\ a[p[i]] \in Seq(Nodes) /\ Len(a[p[i]]) \in Nat
                     /\ \A x, y \in 1..Len(a[p[i]]) : a[p[i]][x] = a[p[i]][y] => x = y

LEMMA MomentIs ==
  ASSUME NEW a, NEW S, NEW m, NEW p, NEW s, Moment(a, S, m, p, s), p # <<>>
  PROVE  \E n \in Nat \ {0} : Midway(a, S, m, p, s, n)
  <1>1. PICK n \in Nat \ {0} : n = Len(p)
    BY LenProperties, EmptySeq DEF Moment
  <1>2. n = Len(s) /\ s \in Seq(Nodes \X Nat) /\ p \in Seq(Nodes) /\ a \in Adjacency
        /\ m >= 1 /\ p[1] = S[m] /\ \A i \in 1..n : s[i][1] = p[i] /\ p[i] \in Elements(S)
    BY <1>1 DEF Moment
  <1>3. s # <<>> /\ 1 \in 1..n /\ n \in 1..n
    BY <1>1, <1>2, EmptySeq
  <1>4. ASSUME NEW i \in 1..n
        PROVE  /\ p[i] \in Nodes /\ s[i][2] \in Nat
               /\ a[p[i]] \in Seq(Nodes) /\ Len(a[p[i]]) \in Nat
               /\ \A x, y \in 1..Len(a[p[i]]) : a[p[i]][x] = a[p[i]][y] => x = y
    <2>1. p[i] \in Nodes /\ s[i][2] \in Nat
      BY <1>1, <1>2, ElementOfSeq, FrameIs
    <2>2. a[p[i]] \in Seq(Nodes)
      BY <1>2, <2>1, AdjAssumption
    <2>3. \A x, y \in 1..Len(a[p[i]]) : a[p[i]][x] = a[p[i]][y] => x = y
      BY <1>2, <2>1, AdjAssumption
    <2> QED BY <2>1, <2>2, <2>3, LenProperties
  <1> QED BY <1>1, <1>2, <1>3, <1>4 DEF Midway
-----------------------------------------------------------------------------
(* Each step keeps what has been found apart from what will still come.    *)

\* Before the first start.
LEMMA FirstProgress ==
  ASSUME NEW a, NEW S, NEW l, NEW p, NEW s, NEW o
  PROVE  Progress(a, S, l, 0, p, s, 0, o)
  <1>1. Counted(a, S, 0, p, s, 0, o, {})
    BY FS_EmptySet DEF Counted, Listed
  <1>2. Complete(a, S, 0, p, s, o)
    BY DEF Complete, Begun
  <1> QED BY <1>1, <1>2 DEF Progress

\* Between two starts no cycle waits.
LEMMA NonePending ==
  ASSUME NEW a, NEW c, NEW s
  PROVE  ~Pending(a, c, <<>>, s)
  BY EmptySeq DEF Pending

\* The end of a component: it is covered.
LEMMA EndCovers ==
  ASSUME NEW a, NEW S, NEW m, NEW l \in Nat, NEW e \in 0..l, NEW o,
         Moment(a, S, m, <<>>, <<>>), Progress(a, S, l, m, <<>>, <<>>, e, o),
         Len(S) < 2 \/ m = Len(S) \/ e >= l
  PROVE  Covered(a, S, l, o)
  <1>1. CASE Len(S) < 2
    <2>1. ASSUME NEW c, CycleIn(a, S, c) PROVE FALSE
      <3>1. 1 \in 1..Len(c) /\ 2 \in 1..Len(c) /\ Len(S) \in Nat
        BY <2>1, LenProperties DEF CycleIn, Moment
      <3>2. PICK i \in 1..Len(S) : S[i] = c[1]
        BY <2>1, <3>1, InElements DEF CycleIn
      <3>3. PICK j \in 1..Len(S) : S[j] = c[2]
        BY <2>1, <3>1, InElements DEF CycleIn
      <3>4. i = j
        BY <1>1, <3>1
      <3>5. c[1] = c[2]
        BY <3>2, <3>3, <3>4
      <3> QED BY <2>1, <3>1, <3>5 DEF CycleIn, Simple
    <2> QED BY <2>1 DEF Covered
  <1>2. CASE e >= l
    <2>1. e = l
      BY <1>2
    <2> QED BY <2>1 DEF Progress, Counted, Covered
  <1>3. CASE m = Len(S) /\ ~(e >= l)
    <2>1. Complete(a, S, m, <<>>, <<>>, o)
      BY <1>3 DEF Progress
    <2>2. ASSUME NEW c, CycleIn(a, S, c) PROVE Canon(c) \in o
      <3>1. 1 \in 1..Len(c)
        BY <2>2, LenProperties DEF CycleIn
      <3>2. PICK i \in 1..Len(S) : S[i] = c[1]
        BY <2>2, <3>1, InElements DEF CycleIn
      <3>3. Begun(S, m, c)
        BY <1>3, <3>2 DEF Begun
      <3> QED BY <2>1, <2>2, <3>3, NonePending DEF Complete
    <2> QED BY <2>2 DEF Covered
  <1> QED BY <1>1, <1>2, <1>3

\* A new start.
LEMMA StartProgress ==
  ASSUME NEW a, NEW S, NEW m, NEW l, NEW e, NEW o, NEW q, NEW r, NEW v,
         Moment(a, S, m, <<>>, <<>>), Progress(a, S, l, m, <<>>, <<>>, e, o),
         m + 1 \in 1..Len(S), v = S[m + 1], q = <<v>>, r = << <<v, 0>> >>
  PROVE  Moment(a, S, m + 1, q, r) /\ Progress(a, S, l, m + 1, q, r, e, o)
  <1>1. v \in Nodes /\ m \in Nat /\ Len(S) \in Nat /\ v \in Elements(S)
    BY LenProperties, ElementOfSeq, InElements DEF Moment
  <1>2. /\ q \in Seq(Nodes) /\ Len(q) = 1 /\ q[1] = v
        /\ r \in Seq(Nodes \X Nat) /\ Len(r) = 1 /\ r[1][1] = v /\ r[1][2] = 0
    <2>1. PICK f : f = <<v, 0>>
      OBVIOUS
    <2>2. f \in Nodes \X Nat /\ f[1] = v /\ f[2] = 0 /\ r = <<f>>
      BY <1>1, <2>1
    <2> QED BY <1>1, <2>2
  <1>3. \A i \in 1..1 : i = 1 /\ i + 1 \notin 1..1
    OBVIOUS
  <1>4. Moment(a, S, m + 1, q, r)
    <2>1. m + 1 >= 1 /\ m + 1 \in 0..Len(S)
      BY <1>1
    <2>2. Simple(q)
      BY <1>2, <1>3 DEF Simple
    <2> QED BY <1>1, <1>2, <1>3, <2>1, <2>2 DEF Moment
  <1>5. \A i \in 1..m : i \in 1..(m + 1) /\ i \in 1..Len(S) /\ i # m + 1
    BY <1>1
  <1>6. m + 1 \in 1..(m + 1) /\ \A i \in 1..(m + 1) : i \in 1..m \/ i = m + 1
    BY <1>1
  <1>7. PICK X : Counted(a, S, m, <<>>, <<>>, e, o, X)
    BY DEF Progress
  <1>8. ASSUME NEW c, Begun(S, m, c) PROVE Begun(S, m + 1, c) /\ ~Pending(a, c, q, r)
    <2>1. PICK i \in 1..m : c[1] = S[i]
      BY <1>8 DEF Begun
    <2>2. S[i] # v
      BY <1>5 DEF Moment, Simple
    <2>3. ASSUME NEW j \in 1..1, Waits(a, c, q, r, j) PROVE FALSE
      BY <1>2, <1>3, <2>1, <2>2, <2>3 DEF Waits
    <2> QED BY <1>2, <1>5, <2>1, <2>3 DEF Begun, Pending
  <1>9. Counted(a, S, m + 1, q, r, e, o, X)
    BY <1>7, <1>8 DEF Counted
  <1>10. ASSUME NEW c, CycleIn(a, S, c), c[1] = v PROVE Pending(a, c, q, r)
    <2>1. Len(c) \in Nat /\ Len(c) >= 2 /\ 1 \in 1..Len(c)
      BY <1>10, LenProperties DEF CycleIn
    <2>2. c[Behind(Len(c), 1)] \in Elements(a[c[1]])
      BY <1>10, <2>1 DEF CycleIn
    <2>3. PICK k \in 1..Len(a[c[1]]) : a[c[1]][k] = c[Behind(Len(c), 1)]
      BY <2>2, InElements
    <2>4. k > 0
      OBVIOUS
    <2>5. Waits(a, c, q, r, 1)
      BY <1>2, <1>3, <1>10, <2>1, <2>3, <2>4 DEF Waits
    <2> QED BY <1>2, <1>3, <2>5 DEF Pending
  <1>11. ASSUME Complete(a, S, m, <<>>, <<>>, o) PROVE Complete(a, S, m + 1, q, r, o)
    <2>1. ASSUME NEW c, CycleIn(a, S, c), Begun(S, m + 1, c)
          PROVE  Canon(c) \in o \/ Pending(a, c, q, r)
      <3>1. CASE Begun(S, m, c)
        BY <1>11, <2>1, <3>1, NonePending DEF Complete
      <3>2. CASE ~Begun(S, m, c)
        <4>1. c[1] = v
          BY <1>6, <2>1, <3>2 DEF Begun
        <4> QED BY <1>10, <2>1, <4>1
      <3> QED BY <3>1, <3>2
    <2> QED BY <2>1 DEF Complete
  <1> QED BY <1>4, <1>9, <1>11 DEF Progress

LEMMA LookMoment ==
  ASSUME NEW a, NEW S, NEW m, NEW p, NEW s, Moment(a, S, m, p, s), p # <<>>
  PROVE  Moment(a, S, m, p, Looked(s))
  <1>0. PICK n \in Nat \ {0} : Midway(a, S, m, p, s, n)
    BY MomentIs
  <1>1. /\ n = Len(p) /\ n = Len(s) /\ s # <<>> /\ s \in Seq(Nodes \X Nat)
        /\ \A i \in 1..n : s[i][1] = p[i]
    BY <1>0 DEF Midway
  <1>2. /\ Looked(s) \in Seq(Nodes \X Nat) /\ Len(Looked(s)) = n
        /\ \A i \in 1..n : Looked(s)[i][1] = p[i]
        /\ \A i \in 1..n : i + 1 \in 1..n => Looked(s)[i][2] = s[i][2]
    <2>1. \A i \in 1..n : i + 1 \in 1..n => i # n
      OBVIOUS
    <2> QED BY <1>1, <2>1, LookedIs
  <1> QED BY <1>1, <1>2 DEF Moment

\* Looking at v leaves what has been found where it is, if no cycle leaves the
\* line.
LEMMA LookProgress ==
  ASSUME NEW a, NEW S, NEW m, NEW l, NEW e, NEW o, NEW p, NEW s,
         Moment(a, S, m, p, s), Progress(a, S, l, m, p, s, e, o),
         NEW n, NEW v, Looks(a, p, s, n, v),
         ~(v = p[1] /\ n >= 2), v \notin Elements(S) \/ v \in Elements(p)
  PROVE  Moment(a, S, m, p, Looked(s)) /\ Progress(a, S, l, m, p, Looked(s), e, o)
  <1>1. p # <<>> /\ n \in Nat \ {0} /\ n = Len(p) /\ 1 \in 1..n
    <2>1. p # <<>>
      BY EmptySeq DEF Looks
    <2> QED BY <2>1, MomentIs DEF Looks, Midway
  <1>2. PICK X : Counted(a, S, m, p, s, e, o, X)
    BY DEF Progress
  <1>3. Counted(a, S, m, p, Looked(s), e, o, X)
    BY <1>2, LookPending DEF Counted
  <1>4. ASSUME NEW c, CycleIn(a, S, c), Pending(a, c, p, s) PROVE Pending(a, c, p, Looked(s))
    <2>1. Len(c) \in Nat /\ Len(c) >= 2 /\ Simple(c) /\ \A i \in 1..Len(c) : c[i] \in Elements(S)
      BY <1>4, LenProperties DEF CycleIn
    <2>2. SUFFICES ASSUME n <= Len(c), v = c[Behind(Len(c), n)], \A i \in 1..n : p[i] = c[i]
                   PROVE  FALSE
      BY <1>4, LookPending
    <2>3. CASE n = Len(c)
      BY <1>1, <2>1, <2>2, <2>3 DEF Behind
    <2>4. CASE n # Len(c)
      <3>1. n + 1 \in 1..Len(c) /\ Behind(Len(c), n) = n + 1
        BY <1>1, <2>1, <2>2, <2>4 DEF Behind
      <3>2. v \in Elements(S)
        BY <2>1, <2>2, <3>1
      <3>3. PICK i \in 1..n : p[i] = v
        BY <1>1, <3>2, InElements
      <3>4. c[i] = c[n + 1] /\ i \in 1..Len(c) /\ i # n + 1
        BY <1>1, <2>1, <2>2, <3>1, <3>3
      <3> QED BY <2>1, <3>1, <3>4 DEF Simple
    <2> QED BY <2>3, <2>4
  <1>5. Complete(a, S, m, p, s, o) => Complete(a, S, m, p, Looked(s), o)
    BY <1>4 DEF Complete
  <1> QED BY <1>1, <1>3, <1>5, LookMoment DEF Progress

\* The path closes to a cycle.
LEMMA PathCycle ==
  ASSUME NEW a, NEW S, NEW m, NEW p, NEW s, Moment(a, S, m, p, s),
         NEW n, NEW v, Looks(a, p, s, n, v), v = p[1], n >= 2
  PROVE  /\ CycleIn(a, S, p) /\ Begun(S, m, p) /\ Pending(a, p, p, s)
         /\ ~Pending(a, p, p, Looked(s))
  <1>1. p # <<>>
    BY EmptySeq DEF Looks
  <1>2. /\ n \in Nat \ {0} /\ n = Len(p) /\ n = Len(s) /\ n \in 1..n /\ 1 \in 1..n /\ s # <<>>
        /\ s \in Seq(Nodes \X Nat) /\ p \in Seq(Nodes) /\ m >= 1 /\ p[1] = S[m]
        /\ \A i \in 1..n : /\ p[i] \in Elements(S) /\ s[i][2] \in Nat /\ Len(a[p[i]]) \in Nat
                           /\ \A x, y \in 1..Len(a[p[i]]) : a[p[i]][x] = a[p[i]][y] => x = y
    BY SMTT(30), <1>1, MomentIs DEF Looks, Midway
  <1>3. \A i \in 1..n : Looked(s)[i][2] = IF i = n THEN s[i][2] + 1 ELSE s[i][2]
    BY SMTT(30), <1>2, LookedIs
  <1>4. ASSUME NEW i \in 1..n
        PROVE Looked(s)[i][2] \in 1..Len(a[p[i]]) /\ a[p[i]][Looked(s)[i][2]] = p[Behind(n, i)]
    <2>1. CASE i = n
      BY <1>3, <2>1 DEF Looks, Behind
    <2>2. CASE i # n
      <3>1. i + 1 \in 1..n /\ Behind(n, i) = i + 1
        BY <1>2, <2>2 DEF Behind
      <3>2. \A k \in 1..n : k + 1 \in 1..n =>
              s[k][2] \in 1..Len(a[p[k]]) /\ a[p[k]][s[k][2]] = p[k + 1]
        BY <1>2 DEF Moment
      <3>3. s[i][2] \in 1..Len(a[p[i]]) /\ a[p[i]][s[i][2]] = p[i + 1]
        BY ONLY <3>1, <3>2
      <3>4. Looked(s)[i][2] = s[i][2]
        BY ONLY <1>3, <2>2
      <3> QED BY ONLY <3>1, <3>3, <3>4
    <2> QED BY <2>1, <2>2
  <1>5. CycleIn(a, S, p)
    <2>1. \A i \in 1..n : p[Behind(n, i)] \in Elements(a[p[i]])
      BY <1>4, InElements
    <2>2. Simple(p)
      BY DEF Moment
    <2> QED BY <1>2, <2>1, <2>2 DEF CycleIn
  <1>6. Begun(S, m, p)
    <2>1. m \in 1..m
      BY <1>2 DEF Moment
    <2> QED BY <1>2, <2>1 DEF Begun
  <1>7. Pending(a, p, p, s)
    <2>1. Looked(s)[n][2] > s[n][2]
      BY <1>2, <1>3
    <2>2. PICK k : k = Looked(s)[n][2]
      OBVIOUS
    <2>3. k \in 1..Len(a[p[n]]) /\ a[p[n]][k] = p[Behind(n, n)] /\ k > s[n][2]
      BY <1>2, <1>4, <2>1, <2>2
    <2>4. n <= Len(p) /\ n = Len(p)
      BY <1>2
    <2>5. Waits(a, p, p, s, n)
      BY <2>3, <2>4 DEF Waits
    <2> QED BY <1>2, <2>5 DEF Pending
  <1>8. ASSUME NEW j \in 1..n, Waits(a, p, p, Looked(s), j) PROVE FALSE
    <2>1. PICK k \in 1..Len(a[p[j]]) : k > Looked(s)[j][2] /\ a[p[j]][k] = p[Behind(n, j)]
      BY <1>2, <1>8 DEF Waits
    <2>2. PICK x : x = Looked(s)[j][2]
      OBVIOUS
    <2>3. x \in 1..Len(a[p[j]]) /\ a[p[j]][x] = p[Behind(n, j)] /\ Len(a[p[j]]) \in Nat
      BY <1>2, <1>4, <2>2
    <2>4. k = x
      BY <1>2, <2>1, <2>3
    <2> QED BY <2>1, <2>2, <2>3, <2>4
  <1> QED BY <1>2, <1>5, <1>6, <1>7, <1>8 DEF Pending

\* A cycle is emitted.
LEMMA EmitProgress ==
  ASSUME NEW a, NEW S, NEW m, NEW l \in Nat, NEW e \in 0..l, NEW o, NEW p, NEW s,
         Moment(a, S, m, p, s), Progress(a, S, l, m, p, s, e, o), ~(e >= l),
         NEW n, NEW v, Looks(a, p, s, n, v), v = p[1], n >= 2
  PROVE  /\ Moment(a, S, m, p, Looked(s))
         /\ Progress(a, S, l, m, p, Looked(s), e + 1, o \cup {Canon(p)})
  <1>1. p # <<>> /\ n \in Nat \ {0} /\ n = Len(p) /\ 1 \in 1..n /\ p \in Seq(Nodes)
    <2>1. p # <<>>
      BY EmptySeq DEF Looks
    <2> QED BY <2>1, MomentIs DEF Looks, Midway
  <1>2. PICK X : Counted(a, S, m, p, s, e, o, X)
    BY DEF Progress
  <1>3. p \notin X
    BY <1>2, PathCycle DEF Counted
  <1>4. IsFiniteSet(X \cup {p}) /\ Cardinality(X \cup {p}) = e + 1
    BY <1>2, <1>3, FS_AddElement DEF Counted, Listed
  <1>5. \A c \in X \cup {p} : CycleIn(a, S, c) /\ Canon(c) \in o \cup {Canon(p)}
    BY <1>2, PathCycle DEF Counted, Listed
  <1>6. \A c \in X \cup {p} : Begun(S, m, c) /\ ~Pending(a, c, p, Looked(s))
    BY <1>2, PathCycle, LookPending DEF Counted
  <1>7. Counted(a, S, m, p, Looked(s), e + 1, o \cup {Canon(p)}, X \cup {p})
    BY <1>4, <1>5, <1>6 DEF Counted, Listed
  <1>8. ASSUME NEW c, CycleIn(a, S, c), Pending(a, c, p, s), ~Pending(a, c, p, Looked(s))
        PROVE  c = p
    <2>1. /\ Len(c) \in Nat /\ Len(c) >= 2 /\ Simple(c) /\ c \in Seq(Nodes)
      BY <1>8, LenProperties DEF CycleIn
    <2>2. n <= Len(c) /\ v = c[Behind(Len(c), n)] /\ \A i \in 1..n : p[i] = c[i]
      BY <1>8, LookPending
    <2>3. n = Len(c)
      <3>1. SUFFICES ASSUME n # Len(c) PROVE FALSE
        OBVIOUS
      <3>2. n + 1 \in 1..Len(c) /\ 1 \in 1..Len(c) /\ Behind(Len(c), n) = n + 1 /\ n + 1 # 1
        BY <1>1, <2>1, <2>2, <3>1 DEF Behind
      <3>3. c[n + 1] = c[1]
        BY <1>1, <2>2, <3>2
      <3> QED BY <2>1, <3>2, <3>3 DEF Simple
    <2> QED BY <1>1, <2>1, <2>2, <2>3, SeqEqual
  <1>9. Complete(a, S, m, p, s, o)
    BY DEF Progress
  <1>10. Complete(a, S, m, p, Looked(s), o \cup {Canon(p)})
    BY <1>8, <1>9 DEF Complete
  <1> QED BY <1>1, <1>7, <1>10, LookMoment DEF Progress

\* The path goes on to v.
LEMMA AdvanceProgress ==
  ASSUME NEW a, NEW S, NEW m, NEW l, NEW e, NEW o, NEW p, NEW s,
         Moment(a, S, m, p, s), Progress(a, S, l, m, p, s, e, o),
         NEW n, NEW v, Looks(a, p, s, n, v), v \in Elements(S), v \notin Elements(p),
         NEW q, NEW r, q = Append(p, v), r = Append(Looked(s), <<v, 0>>)
  PROVE  Moment(a, S, m, q, r) /\ Progress(a, S, l, m, q, r, e, o)
  <1>1. p # <<>>
    BY EmptySeq DEF Looks
  <1>2. n \in Nat \ {0} /\ Midway(a, S, m, p, s, n)
    <2>1. PICK h \in Nat \ {0} : Midway(a, S, m, p, s, h)
      BY <1>1, MomentIs
    <2>2. h = n
      BY <2>1 DEF Looks, Midway
    <2> QED BY <2>1, <2>2
  <1>3. PICK f : f = <<v, 0>>
    OBVIOUS
  <1>4. v \in Nodes /\ f \in Nodes \X Nat /\ f[1] = v /\ f[2] = 0
    <2>1. v \in Nodes
      BY InElements, ElementOfSeq DEF Moment
    <2> QED BY <1>3, <2>1
  <1>5. PICK z : z = Looked(s)
    OBVIOUS
  <1>6. /\ z \in Seq(Nodes \X Nat) /\ Len(z) = n
        /\ \A i \in 1..n : z[i][1] = p[i]
        /\ \A i \in 1..n : z[i][2] = IF i = n THEN s[i][2] + 1 ELSE s[i][2]
    <2>1. s \in Seq(Nodes \X Nat) /\ s # <<>> /\ Len(s) = n /\ \A i \in 1..n : s[i][1] = p[i]
      BY <1>2 DEF Midway
    <2>2. /\ z \in Seq(Nodes \X Nat) /\ Len(z) = Len(s)
          /\ \A i \in 1..Len(s) :
               z[i][1] = s[i][1] /\ z[i][2] = IF i = Len(s) THEN s[i][2] + 1 ELSE s[i][2]
      BY ONLY <1>5, <2>1, LookedIs
    <2> QED BY ONLY <2>1, <2>2
  <1>7. q \in Seq(Nodes) /\ Len(q) = n + 1 /\ q[n + 1] = v /\ \A i \in 1..n : q[i] = p[i]
    <2>1. p \in Seq(Nodes) /\ Len(p) = n
      BY <1>2 DEF Midway
    <2> QED BY <1>4, <2>1, AppendProperties
  <1>8. /\ r \in Seq(Nodes \X Nat) /\ Len(r) = n + 1 /\ r[n + 1] = f /\ \A i \in 1..n : r[i] = z[i]
    <2>1. r = Append(z, f)
      BY <1>3, <1>5
    <2>2. f \in Nodes \X Nat /\ z \in Seq(Nodes \X Nat) /\ Len(z) = n
      BY <1>4, <1>6
    <2>3. /\ r \in Seq(Nodes \X Nat) /\ Len(r) = Len(z) + 1 /\ r[Len(z) + 1] = f
          /\ \A i \in 1..Len(z) : r[i] = z[i]
      BY ONLY <2>1, <2>2, AppendProperties
    <2> QED BY ONLY <2>2, <2>3
  <1>9. \A i \in 1..(n + 1) : i \in 1..n \/ i = n + 1
    BY <1>2
  <1>10. \A i \in 1..n : p[i] # v
    BY <1>2, InElements DEF Midway
  <1>11. Simple(q)
    <2>1. \A i, j \in 1..n : p[i] = p[j] => i = j
      BY <1>2 DEF Moment, Simple, Midway
    <2> QED BY <1>7, <1>9, <1>10, <2>1 DEF Simple
  <1>12. ASSUME NEW i \in 1..(n + 1), i + 1 \in 1..(n + 1)
         PROVE  r[i][2] \in 1..Len(a[q[i]]) /\ a[q[i]][r[i][2]] = q[i + 1]
    <2>1. i \in 1..n /\ q[i] = p[i] /\ r[i][2] = z[i][2]
      BY <1>2, <1>7, <1>8, <1>12
    <2>2. CASE i = n
      BY <1>6, <1>7, <2>1, <2>2 DEF Looks
    <2>3. CASE i # n
      <3>1. i + 1 \in 1..n
        BY <1>2, <2>1, <2>3
      <3>2. s[i][2] \in 1..Len(a[p[i]]) /\ a[p[i]][s[i][2]] = p[i + 1]
        BY <1>2, <2>1, <3>1 DEF Moment, Midway
      <3> QED BY <1>6, <1>7, <2>1, <2>3, <3>1, <3>2
    <2> QED BY <2>2, <2>3
  <1>13. Moment(a, S, m, q, r)
    <2>1. \A i \in 1..(n + 1) : r[i][1] = q[i] /\ q[i] \in Elements(S)
      BY <1>2, <1>4, <1>6, <1>7, <1>8, <1>9 DEF Midway
    <2>2. m >= 1 /\ q[1] = S[m]
      BY <1>2, <1>7 DEF Midway
    <2> QED BY <1>7, <1>8, <1>11, <1>12, <2>1, <2>2 DEF Moment
  <1>14. \A i \in 1..n : r[i][2] = Looked(s)[i][2]
    BY <1>5, <1>8
  <1>15. r[n + 1][2] = 0
    BY <1>4, <1>8
  <1>16. ASSUME NEW c, CycleIn(a, S, c) PROVE Pending(a, c, q, r) <=> Pending(a, c, p, s)
    <2>1. /\ Pending(a, c, q, r) => Pending(a, c, p, s)
          /\ Pending(a, c, p, s) => Pending(a, c, q, r) \/ (n = Len(c) /\ v = c[1] /\ p[1] = c[1])
      <3>1. /\ Moment(a, S, m, p, s) /\ Looks(a, p, s, n, v) /\ CycleIn(a, S, c)
            /\ Len(q) = n + 1 /\ q[n + 1] = v /\ \A i \in 1..n : q[i] = p[i]
        BY <1>7, <1>16
      <3> QED BY ONLY <1>14, <1>15, <3>1, AdvancePending
    <2>2. p[1] # v
      BY <1>2, <1>10 DEF Midway
    <2> QED BY <2>1, <2>2
  <1>17. PICK X : Counted(a, S, m, p, s, e, o, X)
    BY DEF Progress
  <1>18. Counted(a, S, m, q, r, e, o, X)
    BY <1>16, <1>17 DEF Counted, Listed
  <1>19. Complete(a, S, m, p, s, o) => Complete(a, S, m, q, r, o)
    BY <1>16 DEF Complete
  <1> QED BY <1>13, <1>18, <1>19 DEF Progress

\* The path goes back.
LEMMA BacktrackProgress ==
  ASSUME NEW a, NEW S, NEW m, NEW l, NEW e, NEW o, NEW p, NEW s,
         Moment(a, S, m, p, s), Progress(a, S, l, m, p, s, e, o), p # <<>>,
         ~(s[Len(p)][2] < Len(a[p[Len(p)]])),
         NEW q, NEW r, q = Popped(p), r = Popped(s)
  PROVE  Moment(a, S, m, q, r) /\ Progress(a, S, l, m, q, r, e, o)
  <1>1. PICK n \in Nat \ {0} : Midway(a, S, m, p, s, n)
    BY MomentIs
  <1>2. PICK h \in Nat : h = n - 1 /\ n = h + 1
    <2>1. n - 1 \in Nat /\ n = (n - 1) + 1
      OBVIOUS
    <2> QED BY <2>1
  <1>3. q \in Seq(Nodes) /\ Len(q) = h /\ \A i \in 1..h : q[i] = p[i]
    <2>1. p \in Seq(Nodes) /\ Len(p) = n
      BY <1>1 DEF Midway
    <2>2. Popped(p) \in Seq(Nodes) /\ Len(Popped(p)) = n - 1 /\ \A i \in 1..(n - 1) : Popped(p)[i] = p[i]
      BY <2>1, PoppedIs
    <2> QED BY ONLY <1>2, <2>2, q = Popped(p)
  <1>4. r \in Seq(Nodes \X Nat) /\ Len(r) = h /\ \A i \in 1..h : r[i] = s[i]
    <2>1. s \in Seq(Nodes \X Nat) /\ Len(s) = n /\ s # <<>>
      BY <1>1 DEF Midway
    <2>2. /\ Popped(s) \in Seq(Nodes \X Nat) /\ Len(Popped(s)) = n - 1
          /\ \A i \in 1..(n - 1) : Popped(s)[i] = s[i]
      BY ONLY <2>1, PoppedIs
    <2> QED BY ONLY <1>2, <2>2, r = Popped(s)
  <1>5. \A i \in 1..h : i \in 1..n
    BY <1>2
  <1>6. Moment(a, S, m, q, r)
    <2>1. Simple(q)
      <3>1. \A i, j \in 1..n : p[i] = p[j] => i = j
        BY <1>1 DEF Moment, Simple, Midway
      <3> QED BY <1>3, <1>5, <3>1 DEF Simple
    <2>2. \A i \in 1..h : r[i][1] = q[i] /\ q[i] \in Elements(S)
      BY <1>1, <1>3, <1>4, <1>5 DEF Midway
    <2>3. \A i \in 1..h : i + 1 \in 1..h =>
            r[i][2] \in 1..Len(a[q[i]]) /\ a[q[i]][r[i][2]] = q[i + 1]
      <3>1. \A i \in 1..n : i + 1 \in 1..n =>
              s[i][2] \in 1..Len(a[p[i]]) /\ a[p[i]][s[i][2]] = p[i + 1]
        BY <1>1 DEF Moment, Midway
      <3> QED BY ONLY <1>3, <1>4, <1>5, <3>1
    <2>4. q # <<>> => m >= 1 /\ q[1] = S[m]
      <3>1. q # <<>> => 1 \in 1..h
        BY <1>3, EmptySeq
      <3> QED BY <1>1, <1>3, <3>1 DEF Midway
    <2> QED BY <1>3, <1>4, <2>1, <2>2, <2>3, <2>4 DEF Moment
  <1>7. ASSUME NEW c PROVE Pending(a, c, q, r) <=> Pending(a, c, p, s)
    <2>1. Len(p) = h + 1
      BY <1>1, <1>2 DEF Midway
    <2> QED BY SMTT(30), <1>3, <1>4, <2>1, BacktrackPending
  <1>8. PICK X : Counted(a, S, m, p, s, e, o, X)
    BY DEF Progress
  <1>9. Counted(a, S, m, q, r, e, o, X)
    BY <1>7, <1>8 DEF Counted
  <1>10. Complete(a, S, m, p, s, o) => Complete(a, S, m, q, r, o)
    BY <1>7 DEF Complete
  <1> QED BY <1>6, <1>9, <1>10 DEF Progress

\* The search from a start is given up.
LEMMA GiveUpProgress ==
  ASSUME NEW a, NEW S, NEW m, NEW l, NEW e, NEW o, NEW p, NEW s,
         Moment(a, S, m, p, s), Progress(a, S, l, m, p, s, e, o), e >= l
  PROVE  Moment(a, S, m, <<>>, <<>>) /\ Progress(a, S, l, m, <<>>, <<>>, e, o)
  <1>1. Moment(a, S, m, <<>>, <<>>)
    <2>1. /\ <<>> \in Seq(Nodes) /\ <<>> \in Seq(Nodes \X Nat) /\ Len(<<>>) = 0
          /\ 1..0 = {}
      BY EmptySeq
    <2> QED BY <2>1 DEF Moment, Simple
  <1>2. PICK X : Counted(a, S, m, p, s, e, o, X)
    BY DEF Progress
  <1>3. Counted(a, S, m, <<>>, <<>>, e, o, X)
    BY <1>2, NonePending DEF Counted
  <1> QED BY <1>1, <1>3 DEF Progress
-----------------------------------------------------------------------------
(* The invariant of the search.                                            *)

\* Components passed are covered; in the one at hand the search is on its way.
FoundInv ==
  /\ \A i \in 1..Len(sccs) : i < si => Covered(adj, sccs[i], limit, out)
  /\ phase = "tarjan" => si = 1 /\ ni = 0 /\ emitted = 0
  /\ Searching => /\ Moment(adj, Scc, ni, path, stack)
                  /\ Progress(adj, Scc, limit, ni, path, stack, emitted, out)
  /\ phase = "done" => si > Len(sccs)

LEMMA CoveredGrows ==
  ASSUME NEW a, NEW S, NEW l, NEW o, NEW q, o \subseteq q, Covered(a, S, l, o)
  PROVE  Covered(a, S, l, q)
  <1>1. CASE \A c : CycleIn(a, S, c) => Canon(c) \in o
    BY <1>1 DEF Covered
  <1>2. CASE \E X : Listed(a, S, o, X) /\ Cardinality(X) = l
    <2>1. PICK X : Listed(a, S, o, X) /\ Cardinality(X) = l
      BY <1>2
    <2>2. Listed(a, S, q, X)
      BY <2>1 DEF Listed
    <2> QED BY <2>1, <2>2 DEF Covered
  <1> QED BY <1>1, <1>2 DEF Covered

\* The first moment in a component.
LEMMA FirstMoment ==
  ASSUME TarjanInv, NEW i \in 1..Len(sccs)
  PROVE  Moment(adj, sccs[i], 0, <<>>, <<>>)
  <1>1. adj \in Adjacency /\ sccs[i] \in Seq(Nodes) /\ Simple(sccs[i])
    BY ElementOfSeq DEF TarjanInv, TarjanType, SccInv
  <1>2. Len(sccs[i]) \in Nat
    BY <1>1, LenProperties
  <1>3. /\ <<>> \in Seq(Nodes) /\ <<>> \in Seq(Nodes \X Nat) /\ Len(<<>>) = 0 /\ 1..0 = {}
        /\ 0 \in 0..Len(sccs[i])
    BY <1>2, EmptySeq
  <1> QED BY <1>1, <1>3 DEF Moment, Simple

\* The frame on top looks at a neighbour.
LEMMA LooksIs ==
  ASSUME TarjanInv, SearchInv, Searching, stack # <<>>, HasMore(stack)
  PROVE  \E n \in Nat \ {0} :
         /\ n = Len(path) /\ Looks(adj, path, stack, n, NextOf(stack)) /\ path[1] = Scc[ni]
  <1>1. PICK n \in Nat \ {0} :
         /\ n = Len(path) /\ n = Len(stack) /\ n \in 1..n
         /\ adj \in Adjacency /\ stack \in Seq(Nodes \X Nat)
         /\ \A i \in 1..n : stack[i][1] = path[i]
         /\ path[1] = Scc[ni]
    BY SearchFacts
  <1>2. /\ stack[n][2] + 1 \in 1..Len(adj[stack[n][1]])
        /\ NextOf(stack) = adj[stack[n][1]][stack[n][2] + 1]
    BY <1>1, NextIs
  <1>3. stack[n][1] = path[n]
    BY <1>1
  <1>4. Looks(adj, path, stack, n, NextOf(stack))
    BY <1>1, <1>2, <1>3 DEF Looks
  <1> QED BY <1>1, <1>4

LEMMA InitFound == Init => FoundInv
  <1> SUFFICES ASSUME Init PROVE FoundInv
    OBVIOUS
  <1>1. Len(sccs) = 0 /\ 1..0 = {}
    BY EmptySeq DEF Init
  <1> QED BY <1>1 DEF Init, FoundInv, Searching

\* A step within a component.
LEMMA WithinKeeps ==
  ASSUME FoundInv, UNCHANGED <<adj, limit, phase, sccs, si>>, phase = "search", out \subseteq out',
         Moment(adj, Scc, ni', path', stack'),
         Progress(adj, Scc, limit, ni', path', stack', emitted', out')
  PROVE  FoundInv'
  <1>1. Scc' = Scc
    BY DEF Scc
  <1>2. \A i \in 1..Len(sccs) : i < si => Covered(adj, sccs[i], limit, out')
    BY CoveredGrows DEF FoundInv
  <1> QED BY <1>1, <1>2 DEF FoundInv

\* At the beginning of a component, or past the last.
LEMMA BetweenKeeps ==
  ASSUME TarjanInv, UNCHANGED <<adj, limit, sccs, out>>, path' = <<>>, stack' = <<>>,
         ni' = 0, emitted' = 0, phase' = "search", si' \in Nat \ {0}, Len(sccs) \in Nat,
         \A i \in 1..Len(sccs) : i < si' => Covered(adj, sccs[i], limit, out)
  PROVE  FoundInv'
  <1>1. ASSUME Searching' PROVE Moment(adj, Scc', 0, <<>>, <<>>)
    <2>1. si' \in 1..Len(sccs)
      BY <1>1 DEF Searching
    <2>2. Scc' = sccs[si']
      BY DEF Scc
    <2> QED BY <2>1, <2>2, FirstMoment
  <1>2. PICK C : C = Scc'
    OBVIOUS
  <1>3. Progress(adj, C, limit, 0, <<>>, <<>>, 0, out)
    BY FirstProgress
  <1> QED BY <1>1, <1>2, <1>3 DEF FoundInv

LEMMA FoundStep == TarjanInv /\ SearchInv /\ SearchInv' /\ FoundInv /\ [Next]_vars => FoundInv'
  <1> SUFFICES ASSUME TarjanInv, SearchInv, SearchInv', FoundInv, [Next]_vars PROVE FoundInv'
    OBVIOUS
  <1>1. /\ Len(sccs) \in Nat /\ limit \in Nat /\ emitted \in 0..limit /\ ni \in Nat
        /\ si \in 1..(Len(sccs) + 1) /\ si \in Nat \ {0}
    <2>1. Len(sccs) \in Nat /\ limit \in Nat /\ si \in 1..(Len(sccs) + 1)
      BY LenProperties, LimitAssumption DEF TarjanInv, TarjanType, SearchInv, SearchType
    <2> QED BY <2>1 DEF SearchInv, SearchType
  <1>2. stack = <<>> => path = <<>>
    <2>1. Len(stack) = Len(path) /\ path \in Seq(Nodes) /\ Len(<<>>) = 0
      BY EmptySeq DEF SearchInv, SearchType, PathInv
    <2> QED BY <2>1, EmptySeq
  <1>3. CASE Start \/ Descend \/ LookBack \/ Leave
    <2>1. UNCHANGED <<phase, si, ni, emitted>> /\ phase = "tarjan" /\ si = 1
      BY <1>3 DEF Start, Descend, LookBack, Leave, search, FoundInv
    <2>2. \A i \in 1..Len(sccs') : ~(i < 1)
      OBVIOUS
    <2> QED BY <2>1, <2>2 DEF FoundInv, Searching
  <1>4. CASE Sorted
    <2>1. /\ UNCHANGED <<adj, limit, sccs, si, ni, path, stack, emitted, out>>
          /\ phase = "tarjan" /\ phase' = "search" /\ si = 1 /\ ni = 0 /\ emitted = 0
      BY <1>4 DEF Sorted, tarjan, search, FoundInv
    <2>2. path = <<>> /\ stack = <<>>
      <3>1. path = <<>>
        BY <2>1 DEF SearchInv, PathInv
      <3> QED BY <3>1, EmptySeq DEF SearchInv, PathInv, SearchType
    <2>3. \A i \in 1..Len(sccs) : ~(i < 1)
      OBVIOUS
    <2> QED BY <1>1, <2>1, <2>2, <2>3, BetweenKeeps
  <1>5. CASE NextScc
    <2>1. /\ UNCHANGED <<adj, limit, phase, sccs, path, stack, out>> /\ stack = <<>> /\ path = <<>>
          /\ si' = si + 1 /\ ni' = 0 /\ emitted' = 0 /\ phase = "search" /\ si <= Len(sccs)
      BY <1>2, <1>5 DEF NextScc, tarjan, EmittedNext, Searching
    <2>2. Covered(adj, Scc, limit, out)
      <3>1. /\ Moment(adj, Scc, ni, <<>>, <<>>)
            /\ Progress(adj, Scc, limit, ni, <<>>, <<>>, emitted, out)
        BY <1>5, <2>1 DEF NextScc, FoundInv
      <3>2. Len(Scc) < 2 \/ ni = Len(Scc) \/ emitted >= limit
        BY <1>5 DEF NextScc, Full
      <3> QED BY <1>1, <3>1, <3>2, EndCovers
    <2>3. ASSUME NEW i \in 1..Len(sccs), i < si' PROVE Covered(adj, sccs[i], limit, out)
      <3>1. i < si \/ i = si
        BY <1>1, <2>1, <2>3
      <3> QED BY <2>2, <3>1 DEF FoundInv, Scc
    <2>4. si' \in Nat \ {0}
      BY <1>1, <2>1
    <2> QED BY <1>1, <2>1, <2>3, <2>4, BetweenKeeps
  <1>6. CASE NextStart
    <2>1. /\ UNCHANGED <<adj, limit, phase, sccs, si, emitted, out>> /\ phase = "search"
          /\ stack = <<>> /\ path = <<>> /\ ni' = ni + 1 /\ ni < Len(Scc) /\ Searching
          /\ path' = <<Scc[ni + 1]>> /\ stack' = << <<Scc[ni + 1], 0>> >>
      BY <1>2, <1>6 DEF NextStart, tarjan, Searching
    <2>2. /\ Moment(adj, Scc, ni, <<>>, <<>>)
          /\ Progress(adj, Scc, limit, ni, <<>>, <<>>, emitted, out)
      BY <2>1 DEF FoundInv
    <2>3. ni + 1 \in 1..Len(Scc)
      <3>1. Len(Scc) \in Nat
        BY <2>2, LenProperties DEF Moment
      <3> QED BY <1>1, <2>1, <3>1
    <2>4. /\ Moment(adj, Scc, ni + 1, path', stack')
          /\ Progress(adj, Scc, limit, ni + 1, path', stack', emitted, out)
      BY <2>1, <2>2, <2>3, StartProgress
    <2> QED BY <2>1, <2>4, WithinKeeps
  <1>7. ASSUME Searching, stack # <<>>, HasMore(stack), ~Full
        PROVE  \E n \in Nat \ {0} :
               /\ n = Len(path) /\ Looks(adj, path, stack, n, NextOf(stack)) /\ path[1] = Scc[ni]
               /\ Moment(adj, Scc, ni, path, stack)
               /\ Progress(adj, Scc, limit, ni, path, stack, emitted, out)
               /\ ~(emitted >= limit)
    BY <1>7, LooksIs DEF FoundInv, Full
  <1>8. CASE Emit
    <2>1. PICK n \in Nat \ {0} :
               /\ n = Len(path) /\ Looks(adj, path, stack, n, NextOf(stack)) /\ path[1] = Scc[ni]
               /\ Moment(adj, Scc, ni, path, stack)
               /\ Progress(adj, Scc, limit, ni, path, stack, emitted, out)
               /\ ~(emitted >= limit)
      BY <1>7, <1>8 DEF Emit
    <2>2. NextOf(stack) = path[1] /\ n >= 2
      BY <1>8, <2>1 DEF Emit, Closes
    <2>3. /\ Moment(adj, Scc, ni, path, Looked(stack))
          /\ Progress(adj, Scc, limit, ni, path, Looked(stack), emitted + 1, out \cup {Canon(path)})
      BY <1>1, <2>1, <2>2, EmitProgress
    <2>4. /\ UNCHANGED <<adj, limit, phase, sccs, si, ni, path>> /\ phase = "search"
          /\ stack' = Looked(stack) /\ emitted' = emitted + 1 /\ out' = out \cup {Canon(path)}
      BY <1>8 DEF Emit, tarjan, Searching
    <2> QED BY <2>3, <2>4, WithinKeeps
  <1>9. CASE Advance
    <2>1. PICK n \in Nat \ {0} :
               /\ n = Len(path) /\ Looks(adj, path, stack, n, NextOf(stack)) /\ path[1] = Scc[ni]
               /\ Moment(adj, Scc, ni, path, stack)
               /\ Progress(adj, Scc, limit, ni, path, stack, emitted, out)
               /\ ~(emitted >= limit)
      BY <1>7, <1>9 DEF Advance
    <2>2. /\ UNCHANGED <<adj, limit, phase, sccs, si, ni, emitted, out>> /\ phase = "search"
          /\ path' = Append(path, NextOf(stack))
          /\ stack' = Append(Looked(stack), <<NextOf(stack), 0>>)
          /\ NextOf(stack) \in Elements(Scc) /\ NextOf(stack) \notin Elements(path)
      BY <1>9 DEF Advance, tarjan, Searching, Fresh
    <2>3. /\ Moment(adj, Scc, ni, path', stack')
          /\ Progress(adj, Scc, limit, ni, path', stack', emitted, out)
      BY <2>1, <2>2, AdvanceProgress
    <2> QED BY <2>2, <2>3, WithinKeeps
  <1>10. CASE Skip
    <2>1. PICK n \in Nat \ {0} :
               /\ n = Len(path) /\ Looks(adj, path, stack, n, NextOf(stack)) /\ path[1] = Scc[ni]
               /\ Moment(adj, Scc, ni, path, stack)
               /\ Progress(adj, Scc, limit, ni, path, stack, emitted, out)
               /\ ~(emitted >= limit)
      BY <1>7, <1>10 DEF Skip
    <2>2. /\ UNCHANGED <<adj, limit, phase, sccs, si, ni, path, emitted, out>> /\ phase = "search"
          /\ stack' = Looked(stack)
          /\ NextOf(stack) \notin Elements(Scc) \/ NextOf(stack) \in Elements(path)
      BY <1>10 DEF Skip, tarjan, Searching, Fresh
    <2>3. ~(NextOf(stack) = path[1] /\ n >= 2)
      BY <1>10, <2>1 DEF Skip, Closes
    <2>4. /\ Moment(adj, Scc, ni, path, Looked(stack))
          /\ Progress(adj, Scc, limit, ni, path, Looked(stack), emitted, out)
      BY <2>1, <2>2, <2>3, LookProgress
    <2> QED BY <2>2, <2>4, WithinKeeps
  <1>11. CASE Backtrack
    <2>1. /\ UNCHANGED <<adj, limit, phase, sccs, si, ni, emitted, out>> /\ phase = "search"
          /\ path' = Popped(path) /\ stack' = Popped(stack) /\ stack # <<>> /\ ~HasMore(stack)
          /\ Searching
      BY <1>11 DEF Backtrack, tarjan, Searching
    <2>2. /\ Moment(adj, Scc, ni, path, stack)
          /\ Progress(adj, Scc, limit, ni, path, stack, emitted, out)
      BY <2>1 DEF FoundInv
    <2>3. path # <<>> /\ ~(stack[Len(path)][2] < Len(adj[path[Len(path)]]))
      <3>1. PICK n \in Nat \ {0} : n = Len(path) /\ n = Len(stack) /\ path # <<>>
                                   /\ Top(stack)[1] = path[n]
        BY <2>1, SearchFacts
      <3> QED BY <2>1, <3>1 DEF HasMore, Top
    <2>4. /\ Moment(adj, Scc, ni, path', stack')
          /\ Progress(adj, Scc, limit, ni, path', stack', emitted, out)
      BY <2>1, <2>2, <2>3, BacktrackProgress
    <2> QED BY <2>1, <2>4, WithinKeeps
  <1>12. CASE GiveUp
    <2>1. /\ UNCHANGED <<adj, limit, phase, sccs, si, ni, emitted, out>> /\ phase = "search"
          /\ path' = <<>> /\ stack' = <<>> /\ emitted >= limit /\ Searching
      BY <1>12 DEF GiveUp, tarjan, Searching, Full
    <2>2. /\ Moment(adj, Scc, ni, path, stack)
          /\ Progress(adj, Scc, limit, ni, path, stack, emitted, out)
      BY <2>1 DEF FoundInv
    <2>3. /\ Moment(adj, Scc, ni, path', stack')
          /\ Progress(adj, Scc, limit, ni, path', stack', emitted, out)
      BY <2>1, <2>2, GiveUpProgress
    <2> QED BY <2>1, <2>3, WithinKeeps
  <1>13. CASE Finish
    <2>1. UNCHANGED <<adj, limit, sccs, si, out>> /\ phase' = "done" /\ si > Len(sccs)
      BY <1>13 DEF Finish, tarjan, search
    <2> QED BY <2>1 DEF FoundInv, Searching
  <1>14. CASE UNCHANGED vars
    <2>1. UNCHANGED <<adj, limit, phase, sccs, si, ni, path, stack, emitted, out>>
      BY <1>14 DEF vars, tarjan, search
    <2> QED BY <2>1 DEF FoundInv, Searching, Scc
  <1> QED BY <1>3, <1>4, <1>5, <1>6, <1>8, <1>9, <1>10, <1>11, <1>12, <1>13, <1>14 DEF Next, Done

LEMMA FoundRight == Spec => []FoundInv
  BY InitFound, FoundStep, TarjanRight, SearchRight, PTL DEF Spec
-----------------------------------------------------------------------------
(* Cycles lie in components.                                               *)

\* What is closed under the edges and has one lock of a cycle has all of them.
LEMMA AllIn ==
  ASSUME NEW n \in Nat \ {0}, NEW p, NEW j \in 1..n, NEW D, p[j] \in D,
         \A i \in 1..n : p[i] \in D => p[Behind(n, i)] \in D
  PROVE  \A i \in 1..n : p[i] \in D
  <1>1. ASSUME NEW k \in 1..n, p[k] \in D PROVE \A i \in k..n : p[i] \in D
    <2>1. SUFFICES ASSUME {i \in k..n : p[i] \notin D} # {} PROVE FALSE
      OBVIOUS
    <2>2. {i \in k..n : p[i] \notin D} \in SUBSET Nat
      OBVIOUS
    <2>3. PICK i \in k..n : p[i] \notin D /\ \A x \in k..n : p[x] \notin D => i <= x
      BY <2>1, <2>2, Smallest
    <2>4. i # k
      BY <1>1, <2>3
    <2>5. i - 1 \in k..n /\ i - 1 \in 1..n /\ Behind(n, i - 1) = i /\ ~(i <= i - 1)
      BY <2>4 DEF Behind
    <2>6. p[i - 1] \in D
      BY <2>3, <2>5
    <2> QED BY <2>3, <2>5, <2>6
  <1>2. n \in 1..n /\ n \in j..n /\ 1 \in 1..n /\ Behind(n, n) = 1
    BY DEF Behind
  <1>3. p[n] \in D
    BY <1>1, <1>2
  <1>4. p[1] \in D
    BY <1>2, <1>3
  <1> QED BY <1>1, <1>2, <1>4

LEMMA CycleReaches ==
  ASSUME NEW n \in Nat \ {0}, NEW p, NEW i \in 1..n, NEW j \in 1..n,
         \A k \in 1..n : Edge(p[k], p[Behind(n, k)])
  PROVE  Reaches(p[i], p[j])
  <1>1. ASSUME NEW D \in SUBSET Nodes, p[i] \in D, \A x \in D : Elements(adj[x]) \subseteq D
        PROVE  p[j] \in D
    <2>1. \A k \in 1..n : p[k] \in D => p[Behind(n, k)] \in D
      BY <1>1 DEF Edge
    <2> QED BY <1>1, <2>1, AllIn
  <1> QED BY <1>1 DEF Reaches

\* A cycle of the graph in its canonical form, as a sequence.
LEMMA SimpleIs ==
  ASSUME NEW p \in SimpleCycles
  PROVE  \E n \in Nat \ {0} :
         /\ n = Len(p) /\ n >= 2 /\ p \in Seq(Nodes) /\ Simple(p)
         /\ n <= Cardinality(Nodes)
         /\ \A k \in 1..n : p[1] <= p[k] /\ Edge(p[k], p[Behind(n, k)])
  <1>1. Cardinality(Nodes) \in Nat
    BY NodeAssumption, FS_CardinalityType
  <1>2. PICK n \in 2..Cardinality(Nodes) : p \in [1..n -> Nodes]
    BY DEF SimpleCycles
  <1>3. n \in Nat \ {0} /\ n >= 2 /\ n <= Cardinality(Nodes)
    BY <1>1
  <1>4. p \in Seq(Nodes) /\ Len(p) = n
    BY <1>2, <1>3, LenProperties
  <1>5. Simple(p)
    BY DEF SimpleCycles, Simple
  <1>6. ASSUME NEW k \in 1..n PROVE p[1] <= p[k] /\ Edge(p[k], p[Behind(n, k)])
    <2>1. p[1] <= p[k] /\ Edge(p[k], p[(k % n) + 1])
      BY <1>4 DEF SimpleCycles
    <2> QED BY <1>3, <2>1, BehindIs
  <1> QED BY <1>3, <1>4, <1>5, <1>6

LEMMA SimpleCanon ==
  ASSUME NEW p \in SimpleCycles
  PROVE  Canon(p) = p
  <1>1. PICK n \in Nat \ {0} :
         /\ n = Len(p) /\ n >= 2 /\ p \in Seq(Nodes) /\ Simple(p)
         /\ \A k \in 1..n : p[1] <= p[k]
    BY SimpleIs
  <1>2. PICK i \in 1..n : /\ \A k \in 1..n : p[i] <= p[k]
                          /\ Canon(p) \in Seq(Nodes) /\ Len(Canon(p)) = n
                          /\ \A k \in 1..n : Canon(p)[k] = p[Place(n, i, k)]
    BY <1>1, CanonIs
  <1>3. i = 1
    <2>0. \A k \in 1..n : p[k] \in Nodes /\ p[k] \in Nat
      BY <1>1, ElementOfSeq, NodeAssumption
    <2>1. 1 \in 1..n /\ p[1] \in Nat /\ p[i] \in Nat
      BY <2>0
    <2>2. p[1] <= p[i] /\ p[i] <= p[1]
      BY <1>1, <1>2, <2>1
    <2>3. p[1] = p[i]
      BY <2>1, <2>2
    <2> QED BY <1>1, <2>1, <2>3 DEF Simple
  <1>4. \A k \in 1..n : Place(n, 1, k) = k
    BY DEF Place
  <1>5. PICK c : c = Canon(p)
    OBVIOUS
  <1>6. c \in Seq(Nodes) /\ Len(c) = n /\ \A k \in 1..n : c[k] = p[k]
    BY <1>2, <1>3, <1>4, <1>5
  <1> QED BY <1>1, <1>5, <1>6, SeqEqual

\* Every cycle lies in one of the components.
LEMMA CycleHasHome ==
  ASSUME TarjanInv, phase # "tarjan", NEW p \in SimpleCycles
  PROVE  \E i \in 1..Len(sccs) : CycleIn(adj, sccs[i], p)
  <1>1. PICK n \in Nat \ {0} :
         /\ n = Len(p) /\ n >= 2 /\ p \in Seq(Nodes) /\ Simple(p)
         /\ \A k \in 1..n : Edge(p[k], p[Behind(n, k)])
    BY SimpleIs
  <1>2. 1 \in 1..n /\ \A k \in 1..n : p[k] \in Nodes
    BY <1>1, ElementOfSeq
  <1>3. PICK C : C = {v \in Nodes : Reaches(p[1], v) /\ Reaches(v, p[1])}
    OBVIOUS
  <1>4. C \in Classes
    BY <1>2, <1>3 DEF Classes
  <1>5. PICK i \in 1..Len(sccs) : C = Elements(sccs[i])
    BY <1>4, ClassesFound DEF SccsAreClasses
  <1>6. \A k \in 1..n : p[k] \in C
    BY <1>1, <1>2, <1>3, CycleReaches
  <1>7. CycleIn(adj, sccs[i], p)
    BY <1>1, <1>5, <1>6 DEF CycleIn, Edge
  <1> QED BY <1>7
-----------------------------------------------------------------------------
(* A component of more than one lock has a cycle.                          *)

\* A path without repetition from u to w.
PathTo(u, w, p) ==
  /\ p \in Seq(Nodes) /\ Len(p) >= 1 /\ Simple(p) /\ Linked(p) /\ p[1] = u /\ p[Len(p)] = w

LEMMA PathExtends ==
  ASSUME adj \in Adjacency, NEW u, NEW w, NEW p, PathTo(u, w, p), NEW x \in Nodes, Edge(w, x)
  PROVE  \E q : PathTo(u, x, q)
  <1>1. PICK n \in Nat \ {0} : n = Len(p)
    BY LenProperties DEF PathTo
  <1>2. /\ p \in Seq(Nodes) /\ Simple(p) /\ Linked(p) /\ p[1] = u /\ p[n] = w
        /\ n \in 1..n /\ 1 \in 1..n
    BY <1>1 DEF PathTo
  <1>3. CASE x \in Elements(p)
    <2>1. PICK k \in 1..n : p[k] = x
      BY <1>1, <1>3, InElements
    <2>2. PICK q : q = SubSeq(p, 1, k)
      OBVIOUS
    <2>3. \A i \in 1..k : p[i] \in Nodes /\ 1 + i - 1 = i /\ i \in 1..n
      BY <1>1, <1>2, ElementOfSeq
    <2>4. q \in Seq(Nodes) /\ Len(q) = k /\ \A i \in 1..k : q[i] = p[i]
      <3>1. 1 \in Int /\ k \in Int /\ k - 1 + 1 = k /\ 1 <= k
        OBVIOUS
      <3>2. \A i \in 1..k : p[i] \in Nodes
        BY <2>3
      <3>3. /\ SubSeq(p, 1, k) \in Seq(Nodes)
            /\ Len(SubSeq(p, 1, k)) = IF 1 <= k THEN k - 1 + 1 ELSE 0
            /\ \A i \in 1..(k - 1 + 1) : SubSeq(p, 1, k)[i] = p[1 + i - 1]
        BY <3>1, <3>2, SubSeqProperties
      <3>4. Len(SubSeq(p, 1, k)) = k
        BY <3>1, <3>3
      <3> QED BY <2>2, <2>3, <3>1, <3>3, <3>4
    <2>5. Simple(q)
      <3>1. \A i, j \in 1..n : p[i] = p[j] => i = j
        BY <1>1, <1>2 DEF Simple
      <3> QED BY <2>3, <2>4, <3>1 DEF Simple
    <2>6. Linked(q)
      BY <1>1, <1>2, <2>3, <2>4 DEF Linked
    <2>7. 1 \in 1..k /\ k \in 1..k /\ k >= 1
      OBVIOUS
    <2>8. PathTo(u, x, q)
      BY <1>2, <2>1, <2>4, <2>5, <2>6, <2>7 DEF PathTo
    <2> QED BY <2>8
  <1>4. CASE x \notin Elements(p)
    <2>1. PICK q : q = Append(p, x)
      OBVIOUS
    <2>2. q \in Seq(Nodes) /\ Len(q) = n + 1 /\ q[n + 1] = x /\ \A i \in 1..n : q[i] = p[i]
      BY <1>1, <1>2, <2>1, AppendProperties
    <2>3. \A i \in 1..n : p[i] # x
      BY <1>1, <1>4, InElements
    <2>4. \A i \in 1..(n + 1) : i \in 1..n \/ i = n + 1
      OBVIOUS
    <2>5. Simple(q)
      <3>1. \A i, j \in 1..n : p[i] = p[j] => i = j
        BY <1>1, <1>2 DEF Simple
      <3> QED BY <2>2, <2>3, <2>4, <3>1 DEF Simple
    <2>6. ASSUME NEW i \in 1..(n + 1), i + 1 \in 1..(n + 1) PROVE Edge(q[i], q[i + 1])
      <3>1. CASE i = n
        BY <1>2, <2>2, <3>1
      <3>2. CASE i # n
        <4>1. i \in 1..n /\ i + 1 \in 1..n
          BY <2>6, <3>2
        <4> QED BY <1>1, <1>2, <2>2, <4>1 DEF Linked
      <3> QED BY <3>1, <3>2
    <2>7. n + 1 >= 1
      OBVIOUS
    <2>8. PathTo(u, x, q)
      BY <1>2, <2>2, <2>5, <2>6, <2>7 DEF PathTo, Linked
    <2> QED BY <2>8
  <1> QED BY <1>3, <1>4

LEMMA PathExists ==
  ASSUME adj \in Adjacency, NEW u \in Nodes, NEW w, Reaches(u, w)
  PROVE  \E p : PathTo(u, w, p)
  <1>1. PICK D : D = {x \in Nodes : \E p : PathTo(u, x, p)}
    OBVIOUS
  <1>2. u \in D
    <2>1. PICK q : q = <<u>>
      OBVIOUS
    <2>2. q \in Seq(Nodes) /\ Len(q) = 1 /\ q[1] = u
      BY <2>1
    <2>3. \A i \in 1..1 : i = 1 /\ i + 1 \notin 1..1
      OBVIOUS
    <2>4. PathTo(u, u, q)
      BY <2>2, <2>3 DEF PathTo, Simple, Linked
    <2> QED BY <1>1, <2>4
  <1>3. \A x \in D, y \in Nodes : Edge(x, y) => y \in D
    BY <1>1, PathExtends
  <1>4. w \in D
    <2>1. D \in SUBSET Nodes
      BY <1>1
    <2> QED BY <1>2, <1>3, <2>1, ReachesClosed
  <1> QED BY <1>1, <1>4

\* A lock of a path reaches those behind it.
LEMMA PathReaches ==
  ASSUME NEW n \in Nat, NEW p, NEW i \in 1..n, NEW j \in i..n,
         \A k \in 1..n : k + 1 \in 1..n => Edge(p[k], p[k + 1])
  PROVE  Reaches(p[i], p[j])
  <1>1. SUFFICES ASSUME {k \in i..n : ~Reaches(p[i], p[k])} # {} PROVE FALSE
    OBVIOUS
  <1>2. {k \in i..n : ~Reaches(p[i], p[k])} \in SUBSET Nat
    OBVIOUS
  <1>3. PICK k \in i..n : ~Reaches(p[i], p[k]) /\ \A x \in i..n : ~Reaches(p[i], p[x]) => k <= x
    BY <1>1, <1>2, Smallest
  <1>4. k # i
    BY <1>3, ReachesRefl
  <1>5. k - 1 \in i..n /\ k - 1 \in 1..n /\ (k - 1) + 1 = k /\ k \in 1..n /\ ~(k <= k - 1)
    BY <1>4
  <1>6. Reaches(p[i], p[k - 1])
    BY <1>3, <1>5
  <1>7. Edge(p[k - 1], p[k])
    BY <1>5
  <1> QED BY <1>3, <1>6, <1>7, ReachesEdge, ReachesTrans

LEMMA ComponentHasCycle ==
  ASSUME adj \in Adjacency, NEW u \in Nodes, NEW v \in Nodes, u # v, SameClass(u, v),
         NEW S, Elements(S) = {x \in Nodes : SameClass(u, x)}
  PROVE  \E c : CycleIn(adj, S, c)
  <1>1. PICK w \in Nodes : w # u /\ Reaches(u, w) /\ Edge(w, u)
    <2>1. PICK D : D = {x \in Nodes : x # u /\ Reaches(v, x)}
      OBVIOUS
    <2>2. v \in D /\ u \notin D /\ D \in SUBSET Nodes
      BY <2>1, ReachesRefl
    <2>3. PICK x \in D, y \in Nodes : Edge(x, y) /\ y \notin D
      BY <2>2, ReachesClosed DEF SameClass
    <2>4. y = u
      BY <2>1, <2>3, ReachesEdge, ReachesTrans
    <2> QED BY <2>1, <2>3, <2>4, ReachesTrans DEF SameClass
  <1>2. PICK p : PathTo(u, w, p)
    BY <1>1, PathExists
  <1>3. PICK n \in Nat \ {0} : n = Len(p)
    BY <1>2, LenProperties DEF PathTo
  <1>4. /\ p \in Seq(Nodes) /\ Simple(p) /\ p[1] = u /\ p[n] = w /\ n >= 2
        /\ n \in 1..n /\ 1 \in 1..n
        /\ \A k \in 1..n : k + 1 \in 1..n => Edge(p[k], p[k + 1])
    <2>1. p \in Seq(Nodes) /\ Simple(p) /\ Linked(p) /\ p[1] = u /\ p[n] = w
      BY <1>2, <1>3 DEF PathTo
    <2>2. n # 1
      BY <1>1, <2>1
    <2> QED BY <1>3, <2>1, <2>2 DEF Linked
  <1>5. ASSUME NEW i \in 1..n PROVE p[i] \in Elements(S)
    <2>1. p[i] \in Nodes
      BY <1>3, <1>4, ElementOfSeq
    <2>2. i \in 1..n /\ n \in i..n /\ i \in 1..n /\ 1 \in 1..n
      OBVIOUS
    <2>3. Reaches(u, p[i]) /\ Reaches(p[i], w)
      BY <1>4, <2>2, PathReaches
    <2>4. Reaches(p[i], u)
      BY <1>1, <2>3, ReachesEdge, ReachesTrans
    <2> QED BY <2>1, <2>3, <2>4 DEF SameClass
  <1>6. ASSUME NEW i \in 1..n PROVE p[Behind(n, i)] \in Elements(adj[p[i]])
    <2>1. CASE i = n
      BY <1>1, <1>4, <2>1 DEF Behind, Edge
    <2>2. CASE i # n
      <3>1. i + 1 \in 1..n
        BY <2>2
      <3> QED BY <1>4, <2>2, <3>1 DEF Behind, Edge
    <2> QED BY <2>1, <2>2
  <1>7. CycleIn(adj, S, p)
    BY <1>3, <1>4, <1>5, <1>6 DEF CycleIn
  <1> QED BY <1>7
-----------------------------------------------------------------------------
(* How many cycles there can be to find.                                   *)

LEMMA PlaceOnto ==
  ASSUME NEW n \in Nat, NEW i \in 1..n, NEW t \in 1..n
  PROVE  \E k \in 1..n : Place(n, i, k) = t
  <1>1. CASE t >= i
    <2>1. t + 1 - i \in 1..n /\ Place(n, i, t + 1 - i) = t
      BY <1>1 DEF Place
    <2> QED BY <2>1
  <1>2. CASE ~(t >= i)
    <2>1. t + 1 - i + n \in 1..n /\ Place(n, i, t + 1 - i + n) = t
      BY <1>2 DEF Place
    <2> QED BY <2>1
  <1> QED BY <1>1, <1>2

\* The canonical form and the first lock tell a cycle.
LEMMA CanonTells ==
  ASSUME NEW a, NEW S, NEW x, NEW y, CycleIn(a, S, x), CycleIn(a, S, y),
         Canon(x) = Canon(y), x[1] = y[1]
  PROVE  x = y
  <1>1. PICK n \in Nat : n = Len(x) /\ n >= 2 /\ x \in Seq(Nodes)
    BY LenProperties DEF CycleIn
  <1>2. PICK h \in Nat : h = Len(y) /\ h >= 2 /\ y \in Seq(Nodes)
    BY LenProperties DEF CycleIn
  <1>3. PICK i \in 1..n : Len(Canon(x)) = n /\ \A k \in 1..n : Canon(x)[k] = x[Place(n, i, k)]
    BY <1>1, CanonIs
  <1>4. PICK j \in 1..h : Len(Canon(y)) = h /\ \A k \in 1..h : Canon(y)[k] = y[Place(h, j, k)]
    BY <1>2, CanonIs
  <1>5. h = n
    BY <1>3, <1>4
  <1>6. \A k \in 1..n : x[Place(n, i, k)] = y[Place(n, j, k)]
    BY <1>3, <1>4, <1>5
  <1>7. 1 \in 1..n
    BY <1>1
  <1>8. PICK b \in 1..n : Place(n, i, b) = 1
    BY <1>7, PlaceOnto
  <1>9. Place(n, j, b) = 1
    <2>1. Place(n, j, b) \in 1..n
      BY <1>5, PlaceIs
    <2>2. y[Place(n, j, b)] = y[1]
      BY <1>6, <1>8
    <2> QED BY <1>2, <1>5, <1>7, <2>1, <2>2 DEF CycleIn, Simple
  <1>10. i = j
    BY <1>5, <1>8, <1>9 DEF Place
  <1>11. ASSUME NEW t \in 1..n PROVE x[t] = y[t]
    <2>1. PICK k \in 1..n : Place(n, i, k) = t
      BY PlaceOnto
    <2> QED BY <1>6, <1>10, <2>1
  <1> QED BY <1>1, <1>2, <1>5, <1>11, SeqEqual

LEMMA SimpleFinite == IsFiniteSet(SimpleCycles)
  <1>1. PICK m \in Nat : m = Cardinality(Nodes)
    BY NodeAssumption, FS_CardinalityType
  <1>2. PICK T : T = SUBSET ((1..m) \X Nodes)
    OBVIOUS
  <1>3. IsFiniteSet(T)
    <2>1. IsFiniteSet(1..m)
      <3>1. 1 \in Int /\ m \in Int
        OBVIOUS
      <3> QED BY <3>1, FS_Interval
    <2>2. IsFiniteSet((1..m) \X Nodes)
      BY <2>1, NodeAssumption, FS_Product
    <2> QED BY <1>2, <2>2, FS_SUBSET
  <1>4. PICK f : f = [p \in SimpleCycles |-> {<<k, p[k]>> : k \in 1..Len(p)}]
    OBVIOUS
  <1>5. ASSUME NEW p \in SimpleCycles
        PROVE  /\ f[p] \in T /\ Len(p) \in Nat \ {0}
               /\ \A z : z \in f[p] <=> \E k \in 1..Len(p) : z = <<k, p[k]>>
    <2>1. PICK n \in Nat \ {0} : n = Len(p) /\ p \in Seq(Nodes) /\ n <= Cardinality(Nodes)
      BY SimpleIs
    <2>2. ASSUME NEW k \in 1..n PROVE <<k, p[k]>> \in (1..m) \X Nodes
      <3>1. k \in 1..m
        BY <1>1, <2>1
      <3>2. p[k] \in Nodes
        BY <2>1, ElementOfSeq
      <3> QED BY <3>1, <3>2
    <2>3. f[p] = {<<k, p[k]>> : k \in 1..n}
      BY <1>4, <2>1
    <2> QED BY <1>2, <2>1, <2>2, <2>3
  <1>6. ASSUME NEW p \in SimpleCycles, NEW q \in SimpleCycles, f[p] = f[q]
        PROVE  Len(p) <= Len(q) /\ \A k \in 1..Len(p) : p[k] = q[k]
    <2>1. ASSUME NEW k \in 1..Len(p) PROVE k \in 1..Len(q) /\ p[k] = q[k]
      <3>1. PICK j \in 1..Len(q) : <<k, p[k]>> = <<j, q[j]>>
        BY <1>5, <1>6
      <3>2. k = j /\ p[k] = q[j]
        BY <3>1
      <3> QED BY <3>2
    <2>2. Len(p) \in 1..Len(p) /\ Len(q) \in Nat
      BY <1>5
    <2> QED BY <2>1, <2>2
  <1>7. ASSUME NEW p \in SimpleCycles, NEW q \in SimpleCycles, f[p] = f[q] PROVE p = q
    <2>1. Len(p) = Len(q)
      <3>1. Len(p) <= Len(q) /\ Len(q) <= Len(p) /\ Len(p) \in Nat /\ Len(q) \in Nat
        BY <1>5, <1>6, <1>7
      <3> QED BY <3>1
    <2>2. p \in Seq(Nodes) /\ q \in Seq(Nodes)
      BY SimpleIs
    <2> QED BY <1>6, <1>7, <2>1, <2>2, SeqEqual
  <1>8. f \in [SimpleCycles -> T]
    BY <1>4, <1>5
  <1>9. f \in Injection(SimpleCycles, T)
    BY <1>7, <1>8, Fun_IsInj
  <1> QED BY <1>3, <1>9, FS_Injection

\* A cycle of a component in its canonical form is one of the graph.
LEMMA CycleInSimple ==
  ASSUME adj \in Adjacency, NEW S, NEW c, CycleIn(adj, S, c)
  PROVE  Canon(c) \in SimpleCycles
  <1>1. PICK n \in Nat \ {0} : n = Len(c) /\ n >= 2 /\ c \in Seq(Nodes) /\ Simple(c)
    <2>1. Len(c) \in Nat /\ Len(c) >= 2
      BY LenProperties DEF CycleIn
    <2>2. Len(c) \in Nat \ {0}
      BY <2>1
    <2> QED BY <2>1, <2>2 DEF CycleIn
  <1>2. \A i \in 1..n : Edge(c[i], c[Behind(n, i)])
    BY <1>1 DEF CycleIn, Edge
  <1>3. Linked(c)
    <2>1. \A i \in 1..n : i + 1 \in 1..n => Behind(n, i) = i + 1
      BY DEF Behind
    <2> QED BY <1>1, <1>2, <2>1 DEF Linked
  <1>4. Edge(c[n], c[1])
    <2>1. n \in 1..n /\ Behind(n, n) = 1
      BY DEF Behind
    <2> QED BY <1>2, <2>1
  <1> QED BY <1>1, <1>3, <1>4, CanonSimple

\* As many cycles as there are cycles and starts are all of them.
LEMMA EnoughFound ==
  ASSUME adj \in Adjacency, NEW S, NEW o, NEW X, Listed(adj, S, o, X),
         Cardinality(X) >= Cardinality(SimpleCycles) * Cardinality(Nodes)
  PROVE  SimpleCycles \subseteq o
  <1>1. PICK T : T = SimpleCycles \X Nodes
    OBVIOUS
  <1>2. IsFiniteSet(T) /\ Cardinality(T) = Cardinality(SimpleCycles) * Cardinality(Nodes)
    BY <1>1, SimpleFinite, NodeAssumption, FS_Product
  <1>3. PICK f : f = [x \in X |-> <<Canon(x), x[1]>>]
    OBVIOUS
  <1>4. ASSUME NEW x \in X PROVE CycleIn(adj, S, x) /\ Canon(x) \in SimpleCycles /\ x[1] \in Nodes
    <2>1. CycleIn(adj, S, x)
      BY DEF Listed
    <2>2. 1 \in 1..Len(x) /\ x \in Seq(Nodes)
      BY <2>1, LenProperties DEF CycleIn
    <2> QED BY <2>1, <2>2, CycleInSimple, ElementOfSeq
  <1>5. f \in [X -> T]
    BY <1>1, <1>3, <1>4
  <1>6. ASSUME NEW x \in X, NEW y \in X, f[x] = f[y] PROVE x = y
    <2>1. Canon(x) = Canon(y) /\ x[1] = y[1]
      BY <1>3, <1>6
    <2> QED BY <1>4, <2>1, CanonTells
  <1>7. f \in Injection(X, T)
    BY <1>5, <1>6, Fun_IsInj
  <1>8. Cardinality(X) <= Cardinality(T) /\ (Cardinality(X) = Cardinality(T) <=> f \in Surjection(X, T))
    BY <1>2, <1>7, FS_Injection
  <1>9. Cardinality(X) \in Nat /\ Cardinality(T) \in Nat
    BY <1>2, FS_CardinalityType DEF Listed
  <1>10. Cardinality(X) = Cardinality(T)
    BY <1>2, <1>8, <1>9
  <1>11. f \in Surjection(X, T)
    BY <1>8, <1>10
  <1>12. ASSUME NEW p \in SimpleCycles PROVE p \in o
    <2>1. PICK n \in Nat \ {0} : n = Len(p) /\ p \in Seq(Nodes)
      BY SimpleIs
    <2>2. 1 \in 1..n
      BY <2>1
    <2>3. p[1] \in Nodes
      BY <2>1, <2>2, ElementOfSeq
    <2>4. <<p, p[1]>> \in T
      BY <1>1, <2>3
    <2>5. PICK x \in X : f[x] = <<p, p[1]>>
      BY <1>11, <2>4, Fun_SurjectionProperties
    <2>6. Canon(x) = p
      BY <1>3, <2>5
    <2> QED BY <2>6 DEF Listed
  <1> QED BY <1>12

\* The locks of the canonical form are those of the cycle.
LEMMA CanonWithin ==
  ASSUME NEW a, NEW S, NEW c, CycleIn(a, S, c)
  PROVE  Elements(Canon(c)) \subseteq Elements(S)
  <1>1. PICK n \in Nat : n = Len(c) /\ n >= 2 /\ c \in Seq(Nodes)
    BY LenProperties DEF CycleIn
  <1>2. PICK i \in 1..n : Len(Canon(c)) = n /\ \A k \in 1..n : Canon(c)[k] = c[Place(n, i, k)]
    BY <1>1, CanonIs
  <1>3. \A k \in 1..n : Canon(c)[k] \in Elements(S)
    <2>1. \A k \in 1..n : Place(n, i, k) \in 1..n
      BY PlaceIs
    <2>2. \A k \in 1..n : c[k] \in Elements(S)
      BY <1>1 DEF CycleIn
    <2> QED BY <1>2, <2>1, <2>2
  <1> QED BY <1>2, <1>3, InElements
-----------------------------------------------------------------------------
(* No cycle is missed.                                                     *)

LEMMA AllFound ==
  ASSUME TarjanInv, SearchInv, FoundInv, phase = "done",
         limit >= Cardinality(SimpleCycles) * Cardinality(Nodes)
  PROVE  out = SimpleCycles
  <1>1. adj \in Adjacency /\ out \subseteq SimpleCycles
    BY TarjanFacts DEF SearchInv
  <1>2. ASSUME NEW p \in SimpleCycles PROVE p \in out
    <2>1. PICK i \in 1..Len(sccs) : CycleIn(adj, sccs[i], p)
      BY CycleHasHome
    <2>2. Covered(adj, sccs[i], limit, out)
      <3>1. Len(sccs) \in Nat /\ si > Len(sccs) /\ si \in Nat
        BY LenProperties DEF TarjanInv, TarjanType, FoundInv, SearchInv, SearchType
      <3>2. i < si
        BY <3>1
      <3> QED BY <3>2 DEF FoundInv
    <2>3. CASE \A c : CycleIn(adj, sccs[i], c) => Canon(c) \in out
      BY <2>1, <2>3, SimpleCanon
    <2>4. CASE \E X : Listed(adj, sccs[i], out, X) /\ Cardinality(X) = limit
      <3>1. PICK X : Listed(adj, sccs[i], out, X) /\ Cardinality(X) = limit
        BY <2>4
      <3> QED BY <1>1, <3>1, EnoughFound
    <2> QED BY <2>2, <2>3, <2>4 DEF Covered
  <1> QED BY <1>1, <1>2

LEMMA ClassReported ==
  ASSUME TarjanInv, SearchInv, FoundInv, phase = "done", NEW C \in Classes, Cardinality(C) > 1
  PROVE  \E p \in out : Elements(p) \subseteq C
  <1>1. adj \in Adjacency /\ limit \in Nat \ {0}
    BY TarjanFacts, LimitAssumption DEF SearchInv, SearchType
  <1>2. PICK u \in Nodes : C = {v \in Nodes : SameClass(u, v)}
    BY DEF Classes, SameClass
  <1>3. PICK v \in Nodes : v # u /\ SameClass(u, v)
    <2>1. SUFFICES ASSUME \A v \in Nodes : SameClass(u, v) => v = u PROVE FALSE
      OBVIOUS
    <2>2. C = {u}
      BY <1>2, <2>1, ReachesRefl DEF SameClass
    <2>3. Cardinality(C) = 1
      BY <2>2, FS_Singleton
    <2> QED BY <2>3
  <1>4. PICK i \in 1..Len(sccs) : C = Elements(sccs[i])
    BY ClassesFound DEF SccsAreClasses
  <1>5. Covered(adj, sccs[i], limit, out)
    <2>1. Len(sccs) \in Nat /\ si > Len(sccs) /\ si \in Nat
      BY LenProperties DEF TarjanInv, TarjanType, FoundInv, SearchInv, SearchType
    <2>2. i < si
      BY <2>1
    <2> QED BY <2>2 DEF FoundInv
  <1>6. \E c : CycleIn(adj, sccs[i], c) /\ Canon(c) \in out
    <2>1. CASE \A c : CycleIn(adj, sccs[i], c) => Canon(c) \in out
      <3>1. PICK c : CycleIn(adj, sccs[i], c)
        BY <1>1, <1>2, <1>3, <1>4, ComponentHasCycle
      <3> QED BY <2>1, <3>1
    <2>2. CASE \E X : Listed(adj, sccs[i], out, X) /\ Cardinality(X) = limit
      <3>1. PICK X : Listed(adj, sccs[i], out, X) /\ Cardinality(X) = limit
        BY <2>2
      <3>2. X # {}
        BY <1>1, <3>1, FS_EmptySet
      <3> QED BY <3>1, <3>2 DEF Listed
    <2> QED BY <1>5, <2>1, <2>2 DEF Covered
  <1> QED BY <1>4, <1>6, CanonWithin

\* Whatever the graph and the order of the neighbours: when the search is over,
\* every simple cycle of the graph has been found if the limit is as large as
\* there can be findings, and however small the limit is, every component of
\* more than one lock has had a cycle of its locks reported.
THEOREM NoCycleMissed == Spec => []CyclesFound
  <1>1. TarjanInv /\ SearchInv /\ FoundInv => CyclesFound
    BY AllFound, ClassReported DEF CyclesFound
  <1> QED BY <1>1, TarjanRight, SearchRight, FoundRight, PTL
=============================================================================
