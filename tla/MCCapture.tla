------------------------------ MODULE MCCapture ------------------------------
(* Instances of Capture for TLC: words of two bytes, a stack of five, ints *)
(* of eight bits.                                                          *)
EXTENDS Capture

MCWords == {4, 6, 8, 10, 12}
MCMem(values) == [MCWords -> values]
MCInput(mems, bounded, depths, skips, rings) ==
  [mem : mems, start : {4}, bounded : bounded, depth : depths, skip : skips, ring : rings]

\* Every stack: no value, an odd one, the frames, the last word, one behind the
\* end, and one that wraps.
MCStacks == MCMem({0, 5, 6, 8, 10, 12, 14, 28})
\* Four frames, one on top of the other.
MCChain == {[w \in MCWords |-> w + 2]}

\* Any stack with settings as they should be; then any settings.  256 and more do
\* not fit an int, 126 plus a depth does not either.
MCInputs ==
  MCInput(MCStacks, {TRUE}, {2}, {0, 1}, {Unset})
  \cup MCInput(MCChain, {TRUE}, {Unset, -1, 0, 1, 3, 5, 127, 258}, {Unset, -1, 0, 1, 2, 126, 257},
               {Unset, -128, 0, 8, 24, 32, 33, 64, 100, 127, 128, 256, 264, 288})
  \cup MCInput(MCChain, {FALSE}, {Unset, 0, 1, 2, 5}, {Unset, -128, -3, -1, 0, 1, 2, 122, 123, 124, 127},
               {Unset, 32})
=============================================================================
