---------------------------- MODULE MCFindCycles ----------------------------
(* Instances of FindCycles for TLC.                                        *)
EXTENDS FindCycles, TLC

MCNodes == 1..4

Orders(S) == {s \in [1..Cardinality(S) -> S] : Elements(s) = S}
Ascending(S) == CHOOSE s \in Orders(S) : \A i, j \in 1..Len(s) : i < j => s[i] < s[j]
Neighbours(U) == {f \in [MCNodes -> SUBSET U] : \A v \in MCNodes : v \notin f[v] /\ (v \notin U => f[v] = {})}

\* All graphs on four locks, with the neighbours in ascending order.
MCAscending == {[v \in MCNodes |-> Ascending(f[v])] : f \in Neighbours(MCNodes)}

\* All graphs on three locks, with the neighbours in any order.
MCAnyOrder == {a \in [MCNodes -> UNION {Orders(S) : S \in SUBSET (1..3)}] :
                 [v \in MCNodes |-> Elements(a[v])] \in Neighbours(1..3)}

MCAdjacency == MCAscending \cup MCAnyOrder
=============================================================================
