------------------------------ MODULE MCAnalyzer ------------------------------
(* An instance of Analyzer for TLC: two modules with a gap between them,   *)
(* whose M lines are not in the order of their bases, and frames at the    *)
(* first and last address of a module, behind a module and in front of all.*)
EXTENDS Analyzer

MCModules == <<[base |-> 5, size |-> 3], [base |-> 1, size |-> 2]>>
MCPcOf(k, i) == <<<<5, 2>>, <<7, 3>>, <<0, 5>>>>[k][i]
\* An address cut short is smaller, and may be one that was written elsewhere.
MCAlteredPc(k, i) == MCPcOf(k, i) \div 2
=============================================================================
