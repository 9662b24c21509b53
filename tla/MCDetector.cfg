SPECIFICATION Spec
CONSTANTS
  t1 = t1
  t2 = t2
  m = m
  rw = rw
  p = p
  rx = rx
  NoCall = NoCall
  Threads <- MCThreads
  Locks <- MCLocks
  LockType <- MCType
  Users <- MCUsers
  Dynamic = {p}
  MaxCalls = 6
  MaxQueue = 1
INVARIANTS TypeOK StackMirrorsHeld EdgesAreSights SightsAreEdges DeadLocksForgotten
CHECK_DEADLOCK FALSE
