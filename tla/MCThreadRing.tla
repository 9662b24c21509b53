---------------------------- MODULE MCThreadRing ----------------------------
(* An instance of ThreadRing small enough to explore in full: eight bytes  *)
(* and frames of three and four, so that a frame meets the physical end at *)
(* every distance, and the largest one leaves a single byte of slack when  *)
(* it needs the longest padding.                                           *)
EXTENDS ThreadRing

MCPayloadSizes == {2, 3}
=============================================================================
