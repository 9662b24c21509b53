----------------------------- MODULE RealSymbols -----------------------------
(***************************************************************************)
(* The way into and out of a wrapper: the pointers to the real functions   *)
(* (real_symbols.cpp), which are looked up on the first call or by the     *)
(* constructor of the library (lib_init.cpp), and the reentrancy guard     *)
(* (bypass.h), which keeps what the library itself locks out of the trace. *)
(*                                                                         *)
(* A wrapped function is its number in the order in which init_once looks  *)
(* the pointers up, so that the pointers that are set are 1..resolved.     *)
(* A thread has a stack of calls: what a wrapper calls may call a wrapper. *)
(***************************************************************************)
EXTENDS Naturals, Sequences

CONSTANTS
  Threads,      \* the application's threads
  Loader,       \* the one that runs the constructor
  Backend,      \* the backend thread
  NumFns,       \* the number of wrapped functions
  MaxCalls,     \* bound: wrapped functions each thread calls
  EarlyCalls,   \* may dlsym call a wrapped function that is not resolved yet?
  Nobody        \* no thread has entered init_once

ASSUME ThreadAssumption == Loader \in Threads /\ Backend \notin Threads
                           /\ Nobody \notin Threads \cup {Backend}
ASSUME BoundAssumption  == NumFns \in Nat \ {0} /\ MaxCalls \in Nat /\ EarlyCalls \in BOOLEAN

VARIABLES
  resolved,     \* the pointers 1..resolved are set
  winner,       \* who has changed state from 0 to 1 in init_once
  ready,        \* g_ready
  constructor,  \* where the constructor is: "before", "init", "log" or "done"
  enabled,      \* g_log_enabled
  stack,        \* the calls each thread is in, the innermost first
  depth,        \* g_bypass_depth
  calls         \* the calls each thread has made
vars == <<resolved, winner, ready, constructor, enabled, stack, depth, calls>>

All == Threads \cup {Backend}
Fns == 1..NumFns
\* A call of function fn by the program or, where program is FALSE, by the
\* library or by what the library calls; fn 0 is init_once called by the constructor.
Frame(fn, at, program) == [fn |-> fn, at |-> at, program |-> program]

Init ==
  /\ resolved = 0 /\ winner = Nobody /\ ready = FALSE
  /\ constructor = "before" /\ enabled = FALSE
  /\ stack = [t \in All |-> <<>>]
  /\ depth = [t \in All |-> IF t = Backend THEN 1000 ELSE 0]
  /\ calls = [t \in All |-> 0]
-----------------------------------------------------------------------------
InCall(t) == stack[t] # <<>>
Top(t) == Head(stack[t])
IsAt(t, at) == InCall(t) /\ Top(t).at = at

Enters(t, f) == stack' = [stack EXCEPT ![t] = <<f>> \o @]
\* The innermost call goes on ...
Goes(t, at) == stack' = [stack EXCEPT ![t] = <<[Head(@) EXCEPT !.at = at]>> \o Tail(@)]
\* ... goes on and calls function fn of its own ...
GoesCalling(t, at, fn) ==
  stack' = [stack EXCEPT ![t] = <<Frame(fn, "entry", FALSE), [Head(@) EXCEPT !.at = at]>> \o Tail(@)]
\* ... or returns.
Returns(t) == stack' = [stack EXCEPT ![t] = Tail(@)]

\* The program calls a wrapped function, or the backend's code does.
Call(t) ==
  /\ ~InCall(t) /\ calls[t] < MaxCalls
  /\ t = Loader => constructor \in {"before", "done"}
  /\ t = Backend => enabled
  /\ calls' = [calls EXCEPT ![t] = @ + 1]
  /\ \E fn \in Fns : Enters(t, Frame(fn, "entry", t # Backend))
  /\ UNCHANGED <<resolved, winner, ready, constructor, enabled, depth>>

\* Fault: the first pointer is taken for all of them.
IsSetFirst(fn) == resolved >= 1
\* Fault: a wrapper waits until all pointers are set, not only its own.
IsSetAll(fn) == ready
\* real::fn is not nullptr.
IsSet(fn) == fn <= resolved

\* The first line of a wrapper.
Entry(t) ==
  /\ IsAt(t, "entry")
  /\ Goes(t, IF IsSet(Top(t).fn) THEN "guard" ELSE "once")
  /\ UNCHANGED <<resolved, winner, ready, constructor, enabled, depth, calls>>
-----------------------------------------------------------------------------
(* init_once.                                                              *)

\* state is changed from 0 to 1, or has been.
InitOnce(t) ==
  /\ IsAt(t, "once")
  /\ IF winner = Nobody THEN winner' = t /\ Goes(t, "resolve")
                        ELSE UNCHANGED winner /\ Goes(t, "wait")
  /\ UNCHANGED <<resolved, ready, constructor, enabled, depth, calls>>

\* Who comes later spins until the pointers are ready.
Wait(t) ==
  /\ IsAt(t, "wait")
  /\ IF ready THEN Goes(t, "guard") ELSE UNCHANGED stack
  /\ UNCHANGED <<resolved, winner, ready, constructor, enabled, depth, calls>>

\* dlsym looks the next pointer up, and may itself call a wrapped function.  With
\* EarlyCalls it may call one that then waits for this very lookup.
Resolve(t) ==
  /\ IsAt(t, "resolve") /\ resolved < NumFns
  /\ \/ Goes(t, "set")
     \/ \E fn \in Fns : (fn <= resolved \/ EarlyCalls) /\ GoesCalling(t, "set", fn)
  /\ UNCHANGED <<resolved, winner, ready, constructor, enabled, depth, calls>>

SetPointer(t) ==
  /\ IsAt(t, "set") /\ resolved' = resolved + 1 /\ Goes(t, "resolve")
  /\ UNCHANGED <<winner, ready, constructor, enabled, depth, calls>>

Ready(t) ==
  /\ IsAt(t, "resolve") /\ resolved = NumFns
  /\ ready' = TRUE /\ Goes(t, "guard")
  /\ UNCHANGED <<resolved, winner, constructor, enabled, depth, calls>>
-----------------------------------------------------------------------------
(* The rest of a wrapper, and log_event.                                   *)

ShouldBypass(t) == depth[t] > 0 \/ ~ready

\* should_bypass.  (init_once called by the constructor simply returns.)
Guard(t) ==
  /\ IsAt(t, "guard")
  /\ IF Top(t).fn = 0 THEN Returns(t) /\ UNCHANGED depth
     ELSE IF ShouldBypass(t) THEN Goes(t, "bypass") /\ UNCHANGED depth
     ELSE Goes(t, "real") /\ depth' = [depth EXCEPT ![t] = @ + 1]
  /\ UNCHANGED <<resolved, winner, ready, constructor, enabled, calls>>

\* The real function is called and nothing else.
Bypass(t) ==
  /\ IsAt(t, "bypass") /\ Returns(t)
  /\ UNCHANGED <<resolved, winner, ready, constructor, enabled, depth, calls>>

\* The real function is called, before or after the event is logged.
Real(t) ==
  /\ IsAt(t, "real") /\ Goes(t, "event")
  /\ UNCHANGED <<resolved, winner, ready, constructor, enabled, depth, calls>>

\* Fault: the depth is not taken back where logging is disabled.
ReturnDisabledKeepsDepth(t) == Returns(t) /\ UNCHANGED depth
ReturnDisabled(t) == Returns(t) /\ depth' = [depth EXCEPT ![t] = @ - 1]

\* log_event returns, or calls code of the library, the allocator and the C
\* library, with a bypass of its own.
Event(t) ==
  /\ IsAt(t, "event")
  /\ IF ~enabled THEN ReturnDisabled(t)
     ELSE /\ depth' = [depth EXCEPT ![t] = @ + 1]
          /\ Goes(t, "commit") \/ \E fn \in Fns : GoesCalling(t, "commit", fn)
  /\ UNCHANGED <<resolved, winner, ready, constructor, enabled, calls>>

\* The event is in the ring; log_event and the wrapper return.
Commit(t) ==
  /\ IsAt(t, "commit") /\ Returns(t)
  /\ depth' = [depth EXCEPT ![t] = @ - 2]
  /\ UNCHANGED <<resolved, winner, ready, constructor, enabled, calls>>
-----------------------------------------------------------------------------
(* deadlock_lib_init.                                                      *)

Construct ==
  /\ constructor = "before" /\ ~InCall(Loader)
  /\ constructor' = "init" /\ Enters(Loader, Frame(0, "once", FALSE))
  /\ UNCHANGED <<resolved, winner, ready, enabled, depth, calls>>

\* The library is disabled by its settings; or log_init opens the file, for which
\* the C library may call a wrapped function, and enables logging or fails.
ReadConfig ==
  /\ constructor = "init" /\ ~InCall(Loader)
  /\ \/ constructor' = "done" /\ UNCHANGED stack
     \/ /\ constructor' = "log"
        /\ UNCHANGED stack \/ \E fn \in Fns : Enters(Loader, Frame(fn, "entry", FALSE))
  /\ UNCHANGED <<resolved, winner, ready, enabled, depth, calls>>

LogInit ==
  /\ constructor = "log" /\ ~InCall(Loader)
  /\ constructor' = "done" /\ enabled' \in BOOLEAN
  /\ UNCHANGED <<resolved, winner, ready, stack, depth, calls>>
-----------------------------------------------------------------------------
ThreadStep(t) ==
  \/ Entry(t) \/ InitOnce(t) \/ Wait(t) \/ Resolve(t) \/ SetPointer(t) \/ Ready(t)
  \/ Guard(t) \/ Bypass(t) \/ Real(t) \/ Event(t) \/ Commit(t)
Finished == (\A t \in All : ~InCall(t)) /\ constructor = "done" /\ UNCHANGED vars
Next == \/ \E t \in All : Call(t) \/ ThreadStep(t)
        \/ Construct \/ ReadConfig \/ LogInit \/ Finished

\* Every thread in a call is scheduled, and so is the constructor.
Fairness == /\ \A t \in All : WF_vars(ThreadStep(t))
            /\ WF_vars(Construct) /\ WF_vars(ReadConfig) /\ WF_vars(LogInit)
Spec == Init /\ [][Next]_vars /\ Fairness
-----------------------------------------------------------------------------
(* Correctness.                                                            *)

\* No pointer is called before it is set: neither that of the wrapper, with or
\* without the guard, nor those of the mutex functions that log_event uses.
NeverCallsNull ==
  \A t \in All : /\ IsAt(t, "bypass") \/ IsAt(t, "real") => Top(t).fn <= resolved
                 /\ IsAt(t, "commit") => \A fn \in Fns : fn <= resolved

\* From when logging is enabled every call the program makes is logged, and no
\* call of the library, of the backend or of what they call ever is.
LogsTheProgram ==
  [][\A t \in All : /\ IsAt(t, "guard") /\ Top(t).program /\ enabled => ~IsAt(t, "bypass")'
                    /\ IsAt(t, "event") /\ enabled => Top(t).program]_vars

\* Whoever calls a wrapper or init_once returns.
EveryCallReturns == \A t \in All : InCall(t) ~> ~InCall(t)
=============================================================================
