----------------------------- MODULE MCForkChild -----------------------------
(* An instance of ForkChild for TLC.                                       *)
EXTENDS ForkChild

CONSTANT a

MCThreads == {Main, a}

\* Bound: Main logs one event, a logs MaxEvents, and the parent goes on only while
\* there is a child whose steps can still meet the parent's.
FewEvents == committed[Main] <= 1 /\ child.at \notin {"ended", "undefined"}
=============================================================================
