# TLA+ models of libdeadlock_detect

`libdeadlock_detect.so` is preloaded into a program, wraps the pthread lock
functions and logs every call to a trace file; `deadlock_analyze` replays the
file later and reports cycles in the order in which locks were taken.  These
modules model the path of an event from the wrapped call to the report:

    wrapper -> byte ring of the thread -> backend thread -> trace file
            -> lock-order graph -> cycle search -> report

Paths below are relative to the repository.  `PROJECT.json` has, for every
definition that models code, the lines it models, and for every hazard the
properties aimed at it.

To check: `tlc -workers 2 -config MCThreadRing.cfg MCThreadRing` (and so on for
the runs below), and `tlapm ThreadRingProofs.tla`, `tlapm PipelineProofs.tla`,
`tlapm ForkChildProofs.tla`, `tlapm RealSymbolsProofs.tla`, `tlapm DetectorProofs.tla`,
`tlapm FindCyclesProofs.tla`, `tlapm CaptureProofs.tla`, `tlapm AnalyzerProofs.tla`.

## 1. The system

| Component | State it keeps | Operations | What makes it correct |
|---|---|---|---|
| Thread ring (`src/ring_buffer.h`) | `buf_`, atomic `head_` and `tail_`, `pending_payload_size_`, `producer_dead` | `reserve`, `commit`; `peek_tag`, `peek_payload`, `skip_padding`, `consume_event` | one producer and one consumer see a FIFO queue: no frame torn, overwritten or left behind |
| Event logging (`src/event_log.cpp`) | `g_log_enabled`, `g_fp` | `log_init`, `log_event`, `log_close` | an event is logged once or dropped for a reason that is written down; a logging thread gets out again |
| Backend (`src/backend.cpp`) | list of rings, `g_registry_mu`, shutdown and flush requests | register, mark dead, scan, flush, shutdown, final drain | every live ring is scanned, no deleted one is; the file keeps every thread's order |
| Thread-local state (`src/thread_state.cpp`) | `t_ring`, the key of the destructor | `current_ring`, the destructor | the ring outlives its use |
| Start, signal and exit (`src/lib_init.cpp`) | – | constructor, destructor, signal handler, `atfork` child | requests reach the backend |
| Fork (`lib_init.cpp`, `..._fork_child` functions) | all of the above, inherited | reset in the child | the child neither writes the parent's data nor waits for its threads |
| Wrappers (`src/interpose_*.cpp`) | – | one per pthread function | what is logged, and when relative to the real call, is what the analyzer takes it for |
| Symbol resolution (`src/real_symbols.cpp`) | pointers, a once flag, `g_ready` | `init_once` | no pointer is called before it is set, and nobody waits for itself |
| Reentrancy guard (`src/bypass.h`) | depth per thread | `ScopedBypass`, `should_bypass` | the library does not log its own locks, and every lock of the program |
| Configuration (`src/config.cpp`) | the settings | `init_config_from_env` | the ring has room for two of the largest frames |
| Backtrace capture (`src/backtrace.cpp`) | the bounds of the stack | `capture_backtrace_fast` | the walk stays in the stack and records the callers |
| Module map (`src/module_map.cpp`) | – | `dump_module_map` | the analyzer can tell which module an address is in |
| Trace reader (`analyzer/dl_analyzer/trace_reader.py`) | an event in progress | one line at a time | damaged lines cost no more than their events |
| Lock-order graph (`graph.py`, `types.py`) | `addr_gen`, `meta`, `edges`, stack per thread | `on_init` … `on_cond_post`, `replay` | stacks are the locks held, edges are what the program did |
| Cycle search (`cycles.py`) | Tarjan's and the path's own stacks | `find_cycles` | all simple cycles up to a limit, and nothing else |
| Report (`report.py`) | – | filters and prints | what it leaves out cannot deadlock |
| Symbolizer (`symbolizer.py`) | modules by base, results by address | `symbolize_all` | every address gets its own module and name, or none |
| Command line, profiler, tables of names | – | printing | – |

How they interact: wrappers call `log_event` on the application's threads;
`log_event` and the backend share one ring each way through two atomic cursors;
registration and the scan share the list under `g_registry_mu`; the destructor of
a thread's ring, the signal handler and the exit handler only set flags the
backend looks at once per round.  The analyzer is a single thread that reads what
the library wrote.

What is hard:

* **Concurrency.**  Cursors read before and used after the other side moved on;
  the padding that is published apart from the frame; a thread that ends between
  the scan's last look at its ring and its look at `producer_dead`.
* **Ordering.**  The close protocol (disable, request, join, drain, close) against
  threads that are already past the check of `g_log_enabled`; events of different
  threads, which reach the file in no particular order while the analyzer counts
  generations of an address in the order of the file.
* **Full rings.**  A thread spins while it holds the application's locks.
* **Life and reuse.**  Rings are deleted by a thread that does not own them;
  lock addresses are reused by other locks.
* **Crash and fork.**  A child inherits list, locks and an unflushed buffer, all in
  the middle of whatever other threads were doing.  A trace may end anywhere, in the
  middle of a number as well.
* **Reentrancy.**  What the library calls takes locks and so calls the wrappers, before,
  while and after their pointers are looked up.
* **Memory nobody vouches for.**  The backtrace follows words of a stack that may
  hold anything.

## 2. Modules

| Module | Models |
|---|---|
| `EventQueue` | abstract: what a ring promises, a FIFO queue of events |
| `ThreadRing` | `ring_buffer.h` with its users `log_event` and `process_one_event` |
| `ThreadRingProofs` | the proofs about `ThreadRing` |
| `TraceFile` | abstract: what the library promises the analyzer, a merge of the threads' events |
| `Pipeline` | `event_log.cpp`, `backend.cpp`, `thread_state.cpp`, and the handlers of `lib_init.cpp` |
| `PipelineProofs` | the proofs about `Pipeline` |
| `ForkChild` | `fork`, and the child's side of all of these |
| `ForkChildProofs` | the proofs about `ForkChild` |
| `RealSymbols` | `real_symbols.cpp`, `bypass.h`, the constructor, and the way every wrapper takes |
| `RealSymbolsProofs` | the proofs about `RealSymbols` |
| `Capture` | `config.cpp`, `backtrace.cpp`, and what `log_event` asks of them |
| `CaptureProofs` | the proofs about `Capture` |
| `LockGraph` | `graph.py`, and the filter of `report.py` |
| `Detector` | the wrappers and real locks, threads that use them, the trace, and `LockGraph` replaying it |
| `DetectorProofs` | the proofs about `Detector`, and so about `LockGraph` |
| `FindCycles` | `cycles.py` |
| `FindCyclesProofs` | the proofs about `FindCycles`: its first half, the components, and its second, the cycles |
| `Analyzer` | the lines of a trace, `trace_reader.py` and `symbolizer.py` |
| `AnalyzerProofs` | the proofs about `Analyzer` |
| `MC...` | instances for TLC |

They are stacked by what each one promises.  `ThreadRing` implements `EventQueue`,
so `Pipeline` can treat a ring as a bounded queue of events.  `Pipeline`
implements `TraceFile`, so `Detector` can treat everything between the wrappers
and the analyzer as one queue per thread with any of them next.  `LockGraph`
defines the cycles that `FindCycles` searches for by what they are (`Cycles`),
and `FindCycles` shows that the search finds them.  `ForkChild` extends `Pipeline`: its
steps are those of `Pipeline` and of a child.  `Capture` checks the assumption of
`ThreadRing` that the ring has room for the largest frame, from the settings up;
`Analyzer` says what is left of the merge of `TraceFile` once the file was damaged.

### ThreadRing

A step is one load or store of a cursor of the *other* side, with the local
computation behind it.  `Request`, `LoadTail`, `Full`, `Pad`, `PublishPad`,
`ReloadTail`, `Reserve`, `Recheck`, `Fill`, `Commit` are `log_event`, `reserve`
and `commit` in the order of the code; `PeekSkip`, `SkipPadding`, `PeekEvent`,
`ReadHeader`, `ReadPayload`, `Consume` are `process_one_event`.  A byte of `buf_`
is a cell that says what was written there last: a tag, a padding tag, or byte
*i* of the payload of event *n*.  So a payload read torn, stale or across the
physical end is told from a whole one.  `Pad` and `Fill` write their bytes in one
step: nobody else reads unpublished bytes, which is `UnreadUntouched` and
`NeverPartial`.

Acquire and release are modelled as sequentially consistent interleaving.  The
two cursors each have one writer and publish data one way, so release/acquire
gives the reader exactly what was written before the store it sees; no property
needs an order between stores of different threads.  The 64-bit cursors are
naturals: they do not wrap in any run of a program.

### Pipeline

A ring is a bounded sequence of events `<<thread, number>>`.  `LogEvent`, `Allocate`,
`Register`, `Reserve`, `Commit` are the parts of `log_event` and `current_ring`
between accesses to shared state; `ThreadExit` is the destructor of the
thread-local key.  `ScanLock`, `ScanEvent`, `ScanEmpty`, `ScanDead`, `ScanReclaim`,
`ScanUnlock` are `scan_all_rings_once`, split where a logging thread, which does
not take `g_registry_mu`, can come between; the scan is run by the backend and,
after the join, by the thread in `log_close`.  `BackendFlush`, `BackendCheck`,
`BackendDrain` are the rest of `backend_main`, `LogInit`, `LogClose`,
`CloseRequest`, `CloseJoin`, `CloseFlush`, `CloseFile`, `ClearFile` those of `log_init` and
`log_close`; `fflush`, `fclose` and `g_fp = nullptr` are steps of their own.

The stdio buffer is a bounded sequence in front of the file.  stdio knows bytes, not
lines: text that does not fit fills the buffer, which is written out, and the file then ends in the middle
of it.  So the text of an event is in two *parts* (`Text`), and `Fwrite` may cut between them, or in
front of the first if the buffer was full to the byte.  Two are enough: a text is shorter than the
buffer of 1 MiB, so that one call of `fwrite` fills it once at the most, and all that matters of the place is that
it is within the text.  `TextAt` and `Whole` say which events can be
read in a file: those whose parts stand together at the beginning of a line.  `LateLogging`
says whether a thread may log from a thread-local destructor that runs after the
ring's.

### ForkChild

A fork copies the memory of a process in which other threads are in the middle of
something, and only the thread that called it goes on.  `Fork` is possible in every
state of `Pipeline` in which a thread is in application code, and takes a copy of what the child
has to deal with: the list (without a ring that is allocated and not yet
pushed, or is unlinked and not yet deleted, `Memories`), the stdio buffer, the lock as
it was held, `g_log_enabled` and `g_fp`, which may point to a `FILE` that `log_close`
has closed and not yet cleared: then the handler closes it again (`CloseTwice`), which is undefined, and
the child is not followed further.  `AtforkChild` is `atfork_child` with
`log_close_fast_for_fork_child`, `backend_fork_child_reset` and
`reset_thread_state_for_fork`; then the child calls wrappers (`ChildCall`, `ChildLog`) and may
end its thread (`ChildThreadEnd`), with `pthread_exit` if it is the one that was
`main` in the parent.  The parent goes on at the same time.  Nothing but the file is shared,
so that the handler can be one step: `fclose` appends the copy of the buffer to the file wherever that
ends by now, in the middle of an event's text as well.  `before` is history: the events that had left
their rings at the fork.

### RealSymbols

Every thread has a stack of calls.  `Entry` is the first line that all wrappers share,
`InitOnce`, `Wait`, `Resolve`, `SetPointer`, `Ready` are `init_once` pointer by
pointer, `Guard` is `should_bypass` with `ScopedBypass`, and `Bypass`, `Real`, `Event`,
`Commit` are the paths out.  Wherever the code calls the C library or the
allocator (`dlsym`, `fopen`, inside `log_event`) the step may enter a wrapper
again.  `Construct`, `ReadConfig`, `LogInit` are the constructor of the library.  The
pointers are read and written without synchronisation; a word is taken to be read whole.
`EarlyCalls` says whether `dlsym` may call a function whose pointer is not set yet: it
would then wait in `init_once` for itself, and so `EveryCallReturns` is about
libraries where it does not.

### Capture

The words of a stack are a function from addresses to arbitrary values, and
settings are arbitrary integers.  `InitConfigFromEnv` is `env_int` with its
conversion from `long` to `int`, `LogEvent` the cut to `kMaxFramesInline`,
`WalkFrame`, `WalkStop` and `WalkFault` the loop of `capture_backtrace_fast`, `Unwind` its
fallback to `backtrace()`.  `IsPow2` is `v & (v - 1)` by what it means bit by bit.  Addresses
wrap at `Top`: the sum in `fp_in_stack` does for the last two addresses, and there
`WalkFault` reads outside the stack (section 5).  `Frames` says what the frames of a stack are without
following them in order: the least set that has the first one and, with each, the one it points
to.  `InArray` says when the fallback has an array and reads no address in front of it; otherwise
`UnwindFault` is the step (section 5).

### LockGraph and Detector

`LockGraph` has the four maps of the analyzer's `LockGraph` and one definition for
each handler; `Replay` is `replay`.  A stack is a set of nodes, as no handler
uses its order except to print it.  Backtraces and thread names are left out.

`Detector` adds the program: threads call a wrapper (`Ask`, `Unlock`, `CondWait`,
`InitLock`, `Destroy`), the real function answers (`Get`, `Fail`, `CondWake`,
`RealUnlock`, `RealDestroy`), the wrapper logs before or after it exactly as the
code does (`Post`, or at once in `Unlock` and `Destroy`), and events of any thread
reach the analyzer in any merge (`Deliver`).  The wrappers' code is all
alike, so that one action stands for the same step of all of them and the kind of
lock is a parameter.  What the real locks do (recursive mutexes, readers and
writers, `EDEADLK` of an rwlock held for writing, blocking, timeouts) is external.
Programs use the functions correctly: they unlock what they hold and destroy
what nobody uses.  `life` and `asked` are history: which life of an address a
lock is, and every occasion on which a thread asked for one lock holding another.

### FindCycles

A step is one turn of the innermost loop of `_tarjan_scc` (`Start`, `Descend`,
`LookBack`, `Leave`) or `find_cycles` (`NextScc`, `NextStart`, `Emit`, `Advance`,
`Skip`, `Backtrack`, `GiveUp`).  `Classes` and `SimpleCycles` are reference
definitions that share nothing with the algorithm.  A neighbour list names no lock twice, as
the edges are keys of a dict.

### Analyzer

`WriteHeader`, `WriteModule`, `WriteEvent`, `WriteFrame` write the lines of `log_init`,
`dump_module_map` and `process_one_event` in their order, and what becomes of a line is chosen as it
is written (`Arrivals`).  It may be *missing*, or *garbled*, no line of its kind any more.  An E or F line may
be *unreadable*: its address no number (F), or its `rc` (E), which `read_trace` then takes for 0 and keeps
the event.  Or it may be *altered*: it can be read and says something else, as another address (`AlteredPc`),
another operation or result, or another number of frames.  With `WriteEnd` the file ends behind
any line or within it: what a cut leaves of a line is garbled or altered (`F\t0x7f1` is an F line with another
address).  `written` is the trace as it was
meant, with the fate of each line and the number it shows; `file` has the numbers of the lines that have arrived.
`ReadHeader`, `ReadModule`, `ReadEvent`, `SkipLine`,
`ReadFrame`, `EventDone`, `ReadEnd` are the loop of `read_trace` with its inner loop over
F lines.  `Says` is what becomes of the contents of a line: as written, 0 for an unreadable result,
or another value.  `ByBase` is the stable sort by its ranks: where a module comes is the number of those
that do not come after it.  `SymbolizeModule` is a bucket of `symbolize_all`, in any order, as it is
filled from a set, with an answer of `addr2line` that
may end early.  No reader of this format can notice that a line is altered; what the property says
is that it has no effect but on what that line says.

## 3. What is checked

Times are on two cores.  Every property of a passing run has a mutant in
`PROJECT.json`: a plausible bug in one definition (the comments call it
"Fault") under which TLC finds the property violated.

| Run | Instance | States | Shows |
|---|---|---|---|
| `ring` | 8 bytes, frames of 3 and 4, 6 events | 11 thousand, 5 s | the ring is a queue; nothing torn, overwritten or stuck |
| `pipeline` | 2 threads, 2 events each, a ring of 1, a buffer of one text, cut or not, 1 signal | 202 thousand, 60 s | registry, reclaiming and closing are safe; the file is a merge of whole texts; closing ends, nobody is stuck, dead rings go away, flushes are served and cover what came before the round |
| `detector` | 2 threads, a recursive mutex and an rwlock, a spinlock that comes and goes, 6 calls | 1.8 million, 50 s | stacks mirror the locks held, edges are the sights of the program, lives of an address are kept apart |
| `cycles` | all graphs on 4 locks; on 3 in any order of neighbours; limits 2 and 80 | 360 thousand, 45 s | components and cycles are those of the reference definitions; no component goes unreported; the search ends |
| `fork` | as `pipeline`, without signals, `Main` logs 1 event; a fork at any moment, 1 call of the child | 1.6 million, 120 s | the child deletes only what it has, and once; it is never stuck; its `fclose` tears one event at the most and adds nothing |
| `guard` | 2 threads and the backend, 2 functions, 2 calls each | 75 thousand, 20 s | no null pointer is called, what is logged is what the program does, every call returns |
| `capture` | all contents of a stack of 5 words, with one value that wraps; settings at all their limits | 322 thousand, 12 s | the walk stays in the stack where no sum wraps, the fallback in its array where the frames to skip allow it; the walk records the callers, and the event fits the ring |
| `analyzer` | 3 events of up to 2 frames, 2 damaged lines, cut anywhere | 3.0 million, 50 s | an event says what its line says; an event or a frame is lost only next to the damage; no wrong module or name |
| `detector_shared`, `detector_read`, `fork_dup`, `fork_end` | | | divergences, section 5 |

### The bounds, and why they are enough

* **ring.**  With 8 bytes and frames of 3 and 4 a frame meets the physical end at
  every distance, with paddings of 1, 2 and 3 bytes, exactly at the end and
  without; the largest frame behind the longest padding leaves one byte of slack,
  which is the tightest that `RoomAssumption` allows.  Six events are several
  laps.  The theorems of section 4 hold without these bounds.
* **pipeline.**  A ring of one event makes every second event find it full; a buffer with room for
  one text is full after each, and after a cut the next text finds it half full and is cut again or
  not.  Two events let a thread log before and after the scan passed its ring,
  and two rings are enough for one to be unlinked in front of or behind the other.  The
  theorems of section 4 hold for any number of threads and any sizes; only the liveness
  properties rest on the instance, and they are about one thread, one
  round and one request at a time.  `MaxEvents` bounds what a thread logs; see
  starvation in section 7.
* **detector.**  Six calls are enough for each thread to take two locks and one
  more step (a wait, a failed call, unlocking out of order), or for the spinlock to live
  twice with a lock held across the end of its first life.  A thread's last event may lag
  behind while it is in its next call (`MaxQueue` 1); what a longer queue
  adds, events of other threads that overtake two of it, is what the violation runs use
  (2).  The theorems of section 4 hold for any number of threads, locks and calls, and for
  queues of any length, as long as a lock that comes and goes is used by one thread.
* **cycles.**  Four locks give two components with a cycle each, nested
  cycles, and edges between components.  At limit 2 every cycle reaches the limit;
  at 80 (all cycles, each found from each of its locks) none does.  The theorems of
  section 4 hold for every finite graph; only that the search ends rests on the instance.
* **fork.**  The instance of `pipeline` without signals, which the child does not see.  `FewEvents`, a
  constraint of the run, lets `Main` log one event (the other thread logs two, which is enough for a text that was
  cut, one in the buffer behind it, and one of the other thread in between) and looks no further once the
  child has ended: no step of the parent can meet one of its then.  The constraint leaves every state in
  which the child is in its handler or in a call, but for the second event of `Main`, so that
  `ChildReturns` is checked where it says something.  The child's calls after the first find what the first left.
  The safety theorems of section 4 hold without these bounds.
* **guard.**  Two functions are the wrapper's own pointer and another one, of which one
  may be set and the other not.  Two calls let a thread call before and after the pointers are
  ready.  One level of nesting in each other is all there is, which is part of
  the invariant of section 4.
* **capture.**  Five words hold two frames side by side or overlapping, with a last word
  that has no room for a second; the values point to every word, between them, behind
  the end, and so close to the last address that the sum of `fp_in_stack` wraps.  Ints of 8 bits make the boundaries of the settings (unset, negative, zero, the
  limits of the ring, not representable) a few numbers each.
* **analyzer.**  Three events have one with a neighbour on either side; two damaged lines can be a
  missing F line and the E line behind it.  Program counters lie at the first and
  the last address of a module, behind it and below all; an altered one is half of what it was, which
  may be another one that was written.  An altered E line promises between no frame and one more
  than an event can have; a negative number is read as none.  The theorems of section 4
  hold for every `MaxFrames`, and so for every promise.

`CHECK_DEADLOCK FALSE` stands where the system may really stop: in `MCThreadRing`
once the last event is through, in `MCDetector` when the calls are used up or the
program under test has deadlocked, which is what the detector is for.

### Fairness

* `ThreadRing`: weak fairness of the thread inside `log_event` and of the backend's
  loop, as both are runnable threads.  A thread outside `log_event` need not log.
* `Pipeline`: weak fairness of each thread inside `log_event`, of the backend and
  of `log_close`.  `Register` has strong fairness: it waits for `g_registry_mu`,
  which the backend releases every round and leaves alone while it sleeps
  (100 µs after a round without work), so a waiting thread is not passed over
  for ever.  Nobody has to log, signal, end a thread or end the program.
* `ForkChild`: weak fairness of the child's handler and of its wrapper: its only thread
  is runnable.  Nothing is asked of the parent.
* `RealSymbols`: weak fairness of every thread inside a call, as threads are runnable or spin, and of
  the constructor, which the loader runs.
* `FindCycles`: a single thread that runs.  `Capture` and `Analyzer` state no liveness.
* `Detector` states no liveness: the program under test may do as it likes.

## 4. What is proved

`ThreadRingProofs` proves, for every capacity, every set of frame sizes and every
number of events under the assumptions of `ThreadRing`:

| Theorem | Says |
|---|---|
| `TypeCorrectness` | `Spec => []TypeOK` |
| `StreamAlwaysParses` | the bytes between `tail` and `head` are whole frames and padding, in the order of the commits |
| `RecheckAlwaysSucceeds` | the second test of `reserve`, behind the padding, cannot fail |
| `NoPartialFrame` | the consumer's exits for unfinished and damaged frames are never taken |
| `NoOverwrite` | no step changes a byte that is published and unread |
| `RingImplementsQueue` | the ring implements `EventQueue` |

Assumptions: `CapacityAssumption`, `PayloadAssumption`, `BoundAssumption` (types)
and `RoomAssumption`, that the ring holds the largest frame behind the longest
padding it can need.  `config.cpp` accepts no ring below 4 KiB, and a frame has at
most 64 program counters and is under 1 KiB.  The proofs do not use that the
capacity is a power of two, which the code needs to write `%` as `& mask_`.

The argument.  None of the properties is inductive.  "The bytes parse" says
nothing of a frame that is being written, so that `Commit` may publish anything; and
"enough room" is only known from a value of `tail_` loaded some steps ago.  The
invariant `IInv` adds to `TypeOK` and `StreamParses`:

* `ProducerInv`, by the producer's position: how much space `seenTail` promises
  (and `seenTail <= tail` keeps the promise while the consumer moves), that
  behind the padding the head is at physical offset 0, and which bytes in front
  of `head` are already written;
* `ConsumerInv`, by the consumer's position: that the header and payload
  it has copied are those of `Due`, the event it has to take next;
* `SentNumbered`: events are numbered in the order of commits, so that the cells
  of a payload say which event they belong to and `Consume` is a `Receive`.

`StreamParses` has to speak of every offset at which a frame or a byte of padding
begins, not of `tail` alone, for `Consume` to establish it for the next frame:
without recursion this says that each frame is followed by the frame of the
next event or by nothing.  The core of the proof is that writes in front of `head`
do not touch what parses (`FrameKept`, `PaddingKept`, `ExpectsKept`, `ParsesKept`,
`StreamKept`), which rests on `PhysDistinct`: two offsets less than a capacity
apart are different bytes.

`PipelineProofs` proves, for any number of threads, rings and buffers of any size
and any number of events and signals:

| Theorem | Says |
|---|---|
| `TypeCorrectness` | `Spec => []TypeOK`: no ring and no buffer holds more than it has room for, the scan stays inside the list |
| `RegistryAlwaysSound` | the list is the set of registered rings that have not been deleted, each once |
| `FileOpenWhileScanned` | nobody writes to the trace file before it is opened or after it is closed |
| `NeverUsedAfterReclaim` | a thread in `log_event` never holds a deleted ring |
| `CloseLosesNothing` | at the end of `log_close` all that was committed before it disabled logging is in the file |
| `FlushesCover` | when a flush is done, all that was committed before the scan of its round began is in the file |
| `PipelineImplementsTraceFile` | the pipeline implements `TraceFile` |

The assumptions on the constants are types, and that `Main`, `Backend` and `NoOwner` are
different.  `NeverUsedAfterReclaim`, `CloseLosesNothing` and `FlushesCover` assume `~LateLogging`
as well: no thread logs from a thread-local destructor that runs after the ring's.  Without that
assumption the first is false (section 5), and the others rest on it.

The argument.  `Invariance` proves `IInv` and `ControlInv`:

* `ThreadInv`, by where a thread is in `log_event`: whether it has a ring, whether
  that ring is in the list yet, and that room once found is there until `commit` (only
  the thread itself adds to its ring);
* `LockInv`: the lock is held exactly while a scan is under way, so that no ring is
  pushed under the scan;
* `ControlInv`: where the backend and `log_close` can be at the same time.  The file is open
  while either can scan, and at most one of them does.

`RegistrySound` itself is part of `IInv`, and rests on two lemmas on sequences: pushing a new
element and unlinking one keep the elements distinct (`PushNew`, `UnlinkDistinct`).
`NeverUsedAfterReclaim` adds `ExitInv`: a ring under `reclaim` is dead, and the thread of a
dead ring is outside `log_event` for good.  `PipelineImplementsTraceFile` is mapped step by
step: `Commit` to `Log`, `ScanEvent` to `Write`, everything else to a stutter, which for a
flush means that the file with the buffer behind it stays the same and for `ScanReclaim` that
the ring it deletes is empty.  Where `Fwrite` cuts a text does not show in the file with the buffer behind it,
so that `Written` (`disk \o fbuf`) always ends with the end of a text (`LineEnds`) and the next one begins a line.

`CloseLosesNothing` and `FlushesCover` need two more.  `AccountInv`: each committed event is
written or in its ring, and a ring that has events is in the list.  `Cleared(D)`, for a set `D` of
events: no ring that the scan has passed holds one of them.  Threads commit to rings the
scan has passed all the time; but if the events of `D` were committed before the scan began, no
ring ever gets another one of them (`LeftShrinks`), so that the scan clears `D`
(`ScanClears`).  What `log_close` owes was settled when it disabled logging, before the final drain
(`CloseInv`); what a flush owes when the lock for the scan was taken (`FlushInv`).

`ForkChildProofs` proves, for any number of threads and a fork at any moment:

| Theorem | Says |
|---|---|
| `ChildDeletesOnce` | the child deletes no ring twice and none that is not allocated |
| `TraceSurvivesFork` | wherever stdio cuts and whenever the child's `fclose` comes, the trace has only text of events that have left their rings; each can be read in it, but for one at the most, which had not left its ring at the fork; and before each event stand all earlier ones of its thread but that one |

`ParentKeeps` shows that a child leaves `IInv` and `ControlInv` of the pipeline alone, so that
`MemoriesSound` has `RegistrySound` at the fork: the copied list has no duplicates,
and what it has is allocated.  `ChildInv` carries this to the deletion.  `TraceSurvives` needs two
more.  `RingsInv`: a ring holds the last events of its thread.  `Copy`, as long as the child has not
closed its file: the copy of the buffer is a piece of the trace that ends with the end of a text, behind
the text of every event that had left its ring at the fork, and the parent's file ends either where
the piece begins (nothing has been written since) or behind it (all of it has).  In the first case the copy
goes where the same bytes will come again, in the second behind them.  `InsertSurvives` says what such an
insertion does: if the file ended in the middle of a text, the event of that text is torn, and it is
one that left its ring after the fork; the others stand where they stood, or behind the copy
(`Inserted`), so that none loses its place behind its predecessors.  Copies of whole texts only add second
occurrences; a half text at the beginning of the copy meets the other half or is no text.
Before the child's `fclose`, and behind it, the parent appends whole texts (`AppendSurvives`).

`RealSymbolsProofs` proves, for any number of threads and functions, and whether or not `dlsym`
calls functions that are not set yet (`EarlyCalls`):

| Theorem | Says |
|---|---|
| `PointersAreSet` | `Spec => []NeverCallsNull` |
| `TheProgramIsLogged` | `Spec => LogsTheProgram` |

The invariant says for every thread that it is in no call, in one, or in a call within
a call (`StackOk`), never deeper; what is known of a call from where it is (`FrameOk`), if it is
the outermost one (`OuterOk`) and if it is made by `dlsym` or `log_event` (`InnerOk`); and that
`depth` is what the outermost call holds.  The heart of it is `GuardKept`: a call made by
`log_event` finds the depth positive, one made by `dlsym` finds `ready` false, and the backend's
depth is never zero, so that only an outermost call of the program gets past the guard.
`Kept` says what a step does to the thread that makes it and to what all share;
`OthersKeep` shows once that every other thread's part survives such a step.

`DetectorProofs` proves, for any number of threads, locks and calls:

| Theorem | Says |
|---|---|
| `DetectorTypes` | `Spec => []TypeOK`: no hold count of program or analyzer falls below its bounds |
| `StacksRight` | the analyzer's stack of a thread whose events it has all seen lists the locks that thread holds, with their lives, kinds and hold counts |
| `EdgesRight` | every edge is an occasion on which a thread asked for one lock while it held the other |
| `SightsKnown` | every such occasion between two locks that still exist is an edge, or still on its way |
| `DeadForgotten` | a destroyed lock is in no edge once that is known |

All but the first assume `OneUser`: a lock that is initialised and destroyed while the program runs is used by
one thread.  The instance of `detector` satisfies it, and `detector_shared` shows that without it the
properties are false (section 5).  Locks that exist throughout are used by all threads.

The argument.  The analyzer sees a thread's events late, and in between other threads'
events.  What it will make of them is settled all the same: `View` is what the events of *one* thread
alone say of that thread's locks (count, kind, generation, whether it lives), `After(V, e)` the view behind
one more event.  The invariant has for each thread a sequence of views along its queue
(`ThreadInv`): the analyzer's stack is that of the first (`Analyzed`), every event in the queue fits the view
before it (`Fits`: none unlocks what is not held), and the last is the state of the program
but for the call in progress (`Programmed`).  An event of another thread leaves the stack of this one and the generations
in its views alone, and this is where `OneUser` comes in: generations of a lock are
counted by one thread's events only.  The edges and the sights follow from the views: an event in a
queue makes only edges (`Makes`) that are sights of the program (`Witnessed`), so that `EdgeInv` outlasts its
replay; and a sight without an edge belongs to an event that is in a queue or about to be
(`Coming`).  `ProgramInv` says what the program's own calls guarantee.

`FindCyclesProofs` proves, for every finite graph, any order of neighbours and any limit:

| Theorem | Says |
|---|---|
| `ComponentsRight` | the components found are the classes of locks that reach each other, each once |
| `SearchTypes` | `Spec => []TypeOK` |
| `CyclesSound` | what is reported are simple cycles of the graph in canonical form, and the path visits no lock twice |
| `NoCycleMissed` | a limit of at least the number of simple cycles times that of locks misses none; and whatever the limit, no component of several locks goes unreported |

The argument for the components (`TarjanInv`).  The frames of `work` are the *gray* locks.  Everything on
Tarjan's stack has a `Home`, the last frame that is not above it, from which it can be reached,
and can itself reach a frame that is not above it (`HomeInv`).  `LowInv`: the low link of a frame is the
index of a lock on the stack that the frame reaches, and no edge used so far from a lock with this home
leads to one on the stack below the low link.  `SettledInv`: what has left the
stack has only neighbours that have left it, too.  So a frame whose low link is its own index
takes a whole component off the stack (`Roots`): no edge from there leads to what lies below, or the low
link would be lower.

For `CyclesSound` the path is a path of the graph inside one component (`PathInv`), and `Canon`, which turns
a cycle so that its smallest lock comes first, is a rotation and stays a cycle.  For `NoCycleMissed` the search is
followed from the side of a cycle: it is `Pending` as long as the path agrees with it up to a lock
whose neighbour list has not come to the cycle's next one.  `Progress` says that every cycle that begins at one of
the first locks so far has been found or is pending (`Complete`), and counts: the emitted ones are
distinct, and none of them is pending any more (`Counted`).  When the path is empty nothing is pending, so that all
cycles of the component have been found, unless it was given up at the limit; and then as many have been emitted
as the limit says (`Covered`).  As the canonical form and the first lock tell a cycle, there are
no more than cycles times locks to emit.  A component of several locks has a cycle (`PathTo`),
and the limit is at least one, so one is found.

`CaptureProofs` proves, for every size of words, ints, addresses and stack, every content of the stack and
all settings:

| Theorem | Says |
|---|---|
| `NoReadOutside` | `Spec => []ReadsInStack`: the walk stays in the stack where no sum wraps, the fallback in its array where the frames to skip are not negative and the array's size fits an int |
| `CallersRecorded` | `Spec => []FramesAreCallers`: what is recorded are the callers asked for, in their order |
| `RingHolds` | `Spec => []RingHoldsFrames`: the ring's size is a power of two, and two of the largest events fit |

The assumptions say that an int can count the words of a stack, that the smallest ring has room for two of the
largest events and the default is one that would be accepted, and that the stack does not end at
the last address.  `RingHolds` rests on `Pow2Is`: two neighbouring numbers without a common bit are a power of
two and the one below.  `CallersRecorded` shows first what the frames look like in order
(`FramesInOrder`): each but the first has a cause, since without it a smaller set would be followed, and therefore
the next in order is where the frame before points to.  `FollowInv` then says that before turn *i* the frame
pointer is that of frame *i* or of none (`OnFrame`), and what has been recorded (`Recorded`).  Where `skip + max_depth`
overflows, the walk does not begin, and there are fewer frames than were to be skipped (`LimitIs`).

`AnalyzerProofs` proves, for any number of events, frames, modules and damaged lines, whatever
altered addresses say, and for a file that ends anywhere:

| Theorem | Says |
|---|---|
| `DamageLocalAlways` | `Spec => []DamageStaysLocal`: what is read says what its own line says, and damage costs no more than its neighbours |
| `SymbolsRightAlways` | `Spec => []SymbolsRight`: every program counter has its module, its offset and its own name, or none |

The assumptions (`ModulesAssumption`) are that no module has size 0, which `iter_cb` sees to, and that
no two modules that are loaded share an address.  `dump_module_map` writes the range from `dlpi_addr` to the end of
the last segment, so that an object whose first segment is not at address 0 has a range that
begins in front of it, and may reach into another's; such objects are outside the assumption.

The argument (`IInv`) is in three parts.  `TraceInv` is about the lines as they are written: their kinds
(`KindInv`) and order (`OrderInv`), every event begins with its E line (`StartInv`), its frames
follow it and follow nothing else (`BodyInv`, `OwnerInv`, `LeftInv`), the file has what is
not missing, in this order (`FileInv`), and only an altered E line shows another number than was written
(`RowOk`).  All of it outlasts the cut at the end (`CutIs`), which changes what the last line shows
and not what it is.  `ReaderInv` is about how far the reader has come.  All that is in an
event was passed, and says what its line says (`SourceInv`, from which `SaysRight`); it is in order and
where it may be (`FitInv`).  While it reads frames there is an E line from which
it came (`Reading`): the lines since are F lines, as many as are no longer expected, and so the
last of them is at least that many lines behind the E line, and exactly as many unless an F line of this
event is missing or its E line altered.  So the line that ends the event too early is the E line of the *next* event, and
only if an F line is missing or the E line promises too many (`LossInv`), and the lines that are skipped until
then are none of an event that is read unless one of its own is garbled or its E line altered (`FramesInv`).  `SymbolsInv` says what a result holds before and after its
bucket.  It rests on `ByBaseSorts`, for which ranks are shown to be a permutation (`RankOnto`), on
`IndexIs`, that the bisection separates the modules that begin at or before an address from the rest, and on
`FindModuleRight`: of disjoint modules only the last that begins at or before an address can contain it.

Only model-checked: the liveness properties, as the prover knows no fairness and no
`ENABLED`.  They are `EventuallyDelivered` and `ReserveSucceeds` of the ring, `CloseFinishes`, `NoStuckProducer`,
`DeadRingReclaimed` and `FlushServed` of the pipeline, `ChildReturns`, `EveryCallReturns` and
`Ends`.  Every other property of a passing run is stated by a theorem.  Induction over data, where the proofs
need it, is done by a least counterexample (`Least` and its like), from the
well-foundedness of the natural numbers.

## 5. Where code and documentation disagree

With a run that shows it:

* `detector_shared` – `types.py` says `(addr, gen)` tells the uses of an address
  apart.  An INIT event may reach the file after another thread's first use of the
  lock, which is then filed under the wrong generation, and its unlock no longer
  finds it.  For locks whose init, use and destroy are of one thread it
  holds (`detector`).
* `detector_read` – `report.py` leaves out cycles of read locks only, because those
  hardly ever deadlock.  An edge keeps the kinds of its first sighting, so a pair
  of rwlocks first taken in both orders for reading hides the same pair taken for
  writing later.
* `fork_dup` – A test says the child writes nothing into the parent's trace.  The child closes
  its copy of the `FILE`, and `fclose` writes what the parent had in the buffer.  The parent
  writes it again.  What else it does to the trace, see below.
* `fork_end` – A comment says that after a fork it is enough to clear `t_ring`, as all rings are
  deleted.  The key of the destructor still holds the pointer; a thread that forked and
  ends in the child sets `producer_dead` in a deleted ring.

Without a run of their own:

* The design document (2026-05-11, line 250) has the fork test check that the parent's trace is complete
  (父进程的 trace 完整).  If the parent's stdio buffer has been written out in the middle of an event's text between the
  fork and the child's `fclose`, the child's copy lands there, and that event of the
  parent is torn: part of it in front of the copy, the rest behind.  With the conjunct `Torn(s) = {}` in place of
  the three about `Torn` in `TraceSurvives`, TLC finds it.  To the analyzer it is an altered or garbled line and
  missing ones, and events it meets twice.
* `log_close` (`event_log.cpp`, lines 91-92) sets `g_fp` to null after `fclose`.  A fork by another thread in between
  gives the child a `g_fp` that has been closed, and `log_close_fast_for_fork_child` closes it again (line 102),
  which is undefined (`CloseTwice`).
* `trace_reader.py` (lines 111-112) takes whatever is left of an F or E line for the line if it can be read: a last
  line cut to `F\t0x7f1` gives a program counter that was never logged, without a sign of it.  An E line whose
  `rc` cannot be read counts as one with 0, a success (lines 98-101).  `ReadWasWritten` says that this
  concerns only what is on the damaged line itself.
* The comment at `trace_reader.py`, line 110, says any damaged line ends the frames (任何一行损坏就提前停).  An F line
  whose address cannot be read does not (lines 118-121): it is left out and the next one is read.
* `backtrace.cpp` (lines 89-96): without the bounds of the stack, `DEADLOCK_SKIP_FRAMES` below 0 makes the fallback to
  `backtrace()` read in front of its array, and one close to the largest int gives that array a
  negative size (`UnwindFault`).  `ReadsInStack` holds for the other settings.
* `backtrace.cpp` (lines 73-74) takes `fp + 16 <= hi` for the right bound.  The sum wraps for the last two
  aligned addresses there are: a saved frame pointer of -8 or -16, which a function without frame pointers may leave in
  the register, passes and is read.  `WalkFault` is that step; `ReadsInStack` holds for stacks without
  such a word, and with its hypothesis dropped TLC finds a walk that reads at `Top - 4`,
  two words of two bytes before the end.
* The design document (2026-05-11, line 202) says there is no path that drops events.  A
  thread past the check of `g_log_enabled` commits after the final drain, and its
  event is in no file; an event is also dropped if its ring cannot be allocated.
  `CloseComplete` is what does hold: everything committed before `log_close` disabled
  logging is in the file.
* The same document (line 283) says reclaiming is free of races.  The destructor leaves
  `t_ring` set: a lock taken in a thread-local destructor that runs later logs into a ring
  the backend may have deleted.  With `LateLogging` set to TRUE, `NoUseAfterReclaim` fails.
* `interpose_mutex.cpp` (lines 55-56) says only a successful trylock makes edges; `graph.py` makes
  them for failed ones too, and its tests rely on it.  `SightsAreEdges` counts them.
* `event_log.h` (lines 17-18) says a record before the real call lets the analyzer recognise
  a real deadlock; the wrapper logs after the call only, so the two calls that deadlock
  are not in the trace.
* `README.md` (line 80) says the three frames skipped by default are those of the wrapper.  The
  first return address the walk records is already the one into `log_event`, so that
  only two frames are of the library, and the third skipped is the call site in the
  program.  The fallback to `backtrace()` starts one frame further in, so that the same setting
  skips one frame less of the program's.
* `README.md` (line 5) says a signal brings the complete data to disk.  A request is served at
  the end of the round in progress, which may have passed rings with older
  events; `FlushCovers` is what holds.

## 6. Hazards

`PROJECT.json` lists each at its line with the properties that catch it.  Three have
none: a thread that keeps the scan in its ring (`MaxEvents` stops every thread some time),
`std::mutex`, which tells nobody when it is created or destroyed, so that no property of
the analyzer can tell two at one address apart, and robust mutexes, whose `EOWNERDEAD` the analyzer
takes for a failure and which the real locks of `Detector` do not include.

## 7. Not modelled, and what is left

Left to do, in this order:

1. **Starvation**: `Pipeline` without event numbers, so that a thread can log for
   ever.  A scan drains a ring until it is empty, holding `g_registry_mu`; a
   thread that keeps up with it keeps all the others waiting.
2. **Robust mutexes** in `Detector`, with owners that end.

Left out within what is modelled: signal handlers that interrupt a wrapper and take locks
themselves; a second fork, a fork in the child, and one in the middle of an `fwrite`, which is one step with
respect to it; inits that fail; a symbol that `dlsym` does not find (the process ends); the choice of the trace's
file name; M lines altered into other valid ones, as a path cut short (the module's file is then not found, or
not the right one); second copies of events in what `Analyzer` reads; an array of the fallback in `backtrace.cpp`
that is longer than the stack.

Left out for good: base, size and build id from ELF headers (pure data), `addr2line`
itself and how its lines are split, printing, argument parsing, the profiler
(compiled out by default), tables of names, `capture_backtrace` and the two limits that
nobody reads.
