---------------------------- MODULE MCRealSymbols ----------------------------
(* An instance of RealSymbols for TLC.                                     *)
EXTENDS RealSymbols

CONSTANT a
MCThreads == {Loader, a}
=============================================================================
