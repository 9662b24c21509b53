----------------------------- MODULE MCDetector -----------------------------
(* Instances of Detector for TLC.                                          *)
EXTENDS Detector, TLC

CONSTANTS t1, t2,        \* threads
          m, rw, rx, p   \* locks

MCThreads == {t1, t2}

\* A recursive mutex and an rwlock that the threads share, and a spinlock that
\* one of them initialises and destroys.
MCLocks == {m, rw, p}
MCType == (m :> "recursive") @@ (rw :> "rwlock") @@ (p :> "spin")
MCUsers == [l \in MCLocks |-> IF l = p THEN {t1} ELSE MCThreads]

\* The mutex, and the spinlock shared as well.
MCSharedLocks == {m, p}
MCSharedType == [l \in MCSharedLocks |-> MCType[l]]
MCSharedUsers == [l \in MCSharedLocks |-> MCThreads]

\* Two rwlocks and one thread.
MCOneThread == {t1}
MCReadLocks == {rw, rx}
MCReadType == [l \in MCReadLocks |-> "rwlock"]
MCReadUsers == [l \in MCReadLocks |-> MCOneThread]
=============================================================================
