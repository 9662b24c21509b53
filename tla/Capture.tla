------------------------------- MODULE Capture -------------------------------
(***************************************************************************)
(* What determines the size of an event: the settings read from the        *)
(* environment (config.cpp), the cut of log_event (event_log.cpp) and the  *)
(* backtrace (capture_backtrace_fast of backtrace.cpp), which follows      *)
(* saved frame pointers through memory that may hold anything.             *)
(*                                                                         *)
(* Memory is a function on the words of the stack, Lo..Hi - 1; a word is   *)
(* Word bytes wide.  Addresses end at Top.  An int has IntBits bits.       *)
(***************************************************************************)
EXTENDS Integers, Sequences, FiniteSets

CONSTANTS
  Inputs,               \* memory, frame pointer and environment of a call
  Lo, Hi, Word,         \* t_stack.lo, t_stack.hi, sizeof(uintptr_t)
  Top,                  \* 2^64, where a uintptr_t wraps
  IntBits,
  DefaultDepth, DefaultSkip,
  RingMin, RingMax, RingDefault,
  MaxFramesInline,      \* kMaxFramesInline
  HdrSize,              \* sizeof(EventHdrBin)
  Unset                 \* no such variable, or no number in it

StackWords == {p \in Lo..(Hi - Word) : p % Word = 0}
Ints == -(2^(IntBits - 1))..(2^(IntBits - 1) - 1)

ASSUME SizeAssumption ==
  /\ {Word, IntBits, HdrSize, MaxFramesInline} \subseteq Nat \ {0}
  /\ {Lo, Hi, Top} \subseteq Nat /\ Hi + 2 * Word < Top
  /\ {DefaultDepth, DefaultSkip} \subseteq Ints /\ Unset \notin Int
\* An int can count the words of the stack.
ASSUME CountAssumption == Cardinality(StackWords) + MaxFramesInline < 2^(IntBits - 1)
\* The smallest ring has room for two of the largest events; the default is one
\* that is accepted.
ASSUME RingAssumption ==
  /\ {RingMin, RingMax, RingDefault} \subseteq Nat
  /\ RingMin <= RingDefault /\ RingDefault <= RingMax
  /\ \E k \in 0..IntBits : RingDefault = 2^k
  /\ 2 * (1 + HdrSize + Word * MaxFramesInline) - 1 <= RingMin
ASSUME InputAssumption == \A i \in Inputs :
  /\ i.mem \in [StackWords -> 0..(Top - 1)] /\ i.start \in Lo..(Hi - 1) /\ i.bounded \in BOOLEAN
  /\ {i.depth, i.skip, i.ring} \subseteq Int \cup {Unset}

VARIABLES
  in,       \* the input of this call: mem, start, bounded, depth, skip, ring
  at,       \* where log_event is
  depth,    \* the frames asked for: bt_depth, then max_depth
  skip, ring,   \* bt_skip, ring_bytes
  fp, idx,  \* the walk: frame pointer, number of the frame
  out,      \* the return addresses recorded
  read      \* history: the addresses of the words the walk has read
vars == <<in, at, depth, skip, ring, fp, idx, out, read>>

Init == /\ in \in Inputs /\ at = "config"
        /\ depth = 0 /\ skip = 0 /\ ring = 0
        /\ fp = in.start /\ idx = 0 /\ out = <<>> /\ read = {}
-----------------------------------------------------------------------------
(* config.cpp.                                                             *)

\* The conversion of a long to an int.  The sum of two ints, which is undefined
\* where it overflows, wraps: either way no frame is both wanted and there.
ToInt(n) == ((n + 2^(IntBits - 1)) % 2^IntBits) - 2^(IntBits - 1)

EnvInt(v, def) == IF v = Unset THEN def ELSE ToInt(v)
\* v & (v - 1) is 0: the two have no bit in common.
Bit(v, b) == (v \div 2^b) % 2
IsPow2(v) == v > 0 /\ \A b \in 0..(IntBits - 1) : ~(Bit(v, b) = 1 /\ Bit(v - 1, b) = 1)

\* Fault: small rings are accepted.
RingOkSmall(v) == IsPow2(v) /\ v <= RingMax
RingOk(v) == IsPow2(v) /\ v >= RingMin /\ v <= RingMax

InitConfigFromEnv ==
  /\ at = "config" /\ at' = "log"
  /\ depth' = EnvInt(in.depth, DefaultDepth)
  /\ skip' = EnvInt(in.skip, DefaultSkip)
  /\ ring' = LET v == EnvInt(in.ring, RingDefault) IN IF RingOk(v) THEN v ELSE RingDefault
  /\ UNCHANGED <<in, fp, idx, out, read>>
-----------------------------------------------------------------------------
(* log_event and capture_backtrace_fast.                                   *)

\* log_event asks for no more frames than it has room for.  Without the bounds
\* of the stack the walk is left to the C library.
LogEvent ==
  /\ at = "log"
  /\ depth' = IF depth < MaxFramesInline THEN depth ELSE MaxFramesInline
  /\ at' = IF depth' <= 0 THEN "done" ELSE IF in.bounded THEN "walk" ELSE "unwind"
  /\ UNCHANGED <<in, skip, ring, fp, idx, out, read>>

Wrap(n) == IF n >= Top THEN n - Top ELSE n

\* Fault: room for the saved frame pointer alone.
FpInStackOneWord(p) == p >= Lo /\ Wrap(p + Word) <= Hi
\* fp_in_stack: both words at p lie in the stack, or the sum wraps.
FpInStack(p) == p >= Lo /\ Wrap(p + 2 * Word) <= Hi

\* Fault: the frames are counted from 1.
WantsOneLess(i) == i > skip
\* Frame i is one to record.
Wants(i) == i >= skip

\* The walk ends at a frame it must not read.
WalkStop ==
  /\ at = "walk"
  /\ idx >= ToInt(skip + depth) \/ fp % Word # 0 \/ ~FpInStack(fp)
  /\ at' = "done"
  /\ UNCHANGED <<in, depth, skip, ring, fp, idx, out, read>>

\* The frame is in memory.
Readable == {fp, Wrap(fp + Word)} \subseteq StackWords

\* A frame is read, and recorded unless it is to be skipped; the walk goes on to
\* a frame further up the stack, or ends.
WalkFrame ==
  /\ at = "walk"
  /\ idx < ToInt(skip + depth) /\ fp % Word = 0 /\ FpInStack(fp) /\ Readable
  /\ LET next == in.mem[fp]   ra == in.mem[fp + Word] IN
     /\ out' = IF ra # 0 /\ Wants(idx) THEN Append(out, ra) ELSE out
     /\ IF ra = 0 \/ Len(out') >= depth \/ next <= fp
        THEN at' = "done" /\ UNCHANGED <<fp, idx>>
        ELSE fp' = next /\ idx' = idx + 1 /\ UNCHANGED at
  /\ read' = read \cup {fp, fp + Word}
  /\ UNCHANGED <<in, depth, skip, ring>>

\* What is read is no memory of the stack.
WalkFault ==
  /\ at = "walk"
  /\ idx < ToInt(skip + depth) /\ fp % Word = 0 /\ FpInStack(fp) /\ ~Readable
  /\ at' = "fault" /\ read' = read \cup {fp, Wrap(fp + Word)}
  /\ UNCHANGED <<in, depth, skip, ring, fp, idx, out>>
-----------------------------------------------------------------------------
(* The frames there are.                                                   *)

\* Both words at p lie in the stack and hold a return address.
AllFrames == {p \in StackWords : p + 2 * Word <= Hi /\ in.mem[p + Word] # 0}

\* The first frame is in S, and with each frame the next one further up.
Followed(S) ==
  /\ in.start \in AllFrames => in.start \in S
  /\ \A p \in S : in.mem[p] \in AllFrames /\ p < in.mem[p] => in.mem[p] \in S
\* The frames of the call.
Frames == {p \in AllFrames : \A S \in SUBSET AllFrames : Followed(S) => p \in S}

\* The elements of a finite set of numbers in their order.
InOrder(S) ==
  CHOOSE s \in [1..Cardinality(S) -> S] : \A i, j \in DOMAIN s : i < j => s[i] < s[j]
\* The return addresses, the one into log_event first.
Callers == [i \in 1..Cardinality(Frames) |-> in.mem[InOrder(Frames)[i] + Word]]

\* s without its first k elements, and of these no more than n.
Window(s, k, n) ==
  SubSeq(s, (IF k < 0 THEN 0 ELSE k) + 1, IF k + n < Len(s) THEN k + n ELSE Len(s))

\* backtrace() begins with an address in its caller, capture_backtrace_fast.
Self == Hi
\* Its array exists, and the first address wanted is in it or behind the last one there.
InArray == ToInt(skip + depth + 2) > 0 /\ skip >= 0

Unwind ==
  /\ at = "unwind" /\ InArray /\ at' = "done"
  /\ out' = Window(<<Self>> \o Callers, skip, depth)
  /\ UNCHANGED <<in, depth, skip, ring, fp, idx, read>>

\* The array has no size, or what is read lies before it.
UnwindFault ==
  /\ at = "unwind" /\ ~InArray /\ at' = "fault"
  /\ UNCHANGED <<in, depth, skip, ring, fp, idx, out, read>>
-----------------------------------------------------------------------------
Finished == at \in {"done", "fault"} /\ UNCHANGED vars
Next == InitConfigFromEnv \/ LogEvent \/ WalkStop \/ WalkFrame \/ WalkFault
        \/ Unwind \/ UnwindFault \/ Finished
Spec == Init /\ [][Next]_vars
-----------------------------------------------------------------------------
(* Correctness.                                                            *)

\* Whatever the words of the stack hold, the walk reads no other memory; but one
\* of the last two addresses there are passes for one in the stack, and without the
\* bounds a negative number of frames to skip, or one near the end of an int, leaves
\* the array.
ReadsInStack ==
  (IF in.bounded THEN \A p \in StackWords : in.mem[p] + 2 * Word < Top
   ELSE 0 <= skip /\ skip + depth + 2 < 2^(IntBits - 1))
  => at # "fault" /\ read \subseteq StackWords

\* The walk records the callers it was asked for and stops where they end.
FramesAreCallers ==
  at = "done" /\ in.bounded => out = Window(Callers, skip, depth)

\* Whatever the environment says, the ring is a power of two and has room for two
\* of the events, tag and padding included: what the ring relies on.
RingHoldsFrames ==
  at = "done" => /\ \E k \in 0..IntBits : ring = 2^k
                 /\ 2 * (1 + HdrSize + Word * Len(out)) - 1 <= ring
=============================================================================
