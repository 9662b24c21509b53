SPECIFICATION Spec
CONSTANTS
  t1 = t1
  t2 = t2
  m = m
  rw = rw
  p = p
  rx = rx
  NoCall = NoCall
  Threads <- MCOneThread
  Locks <- MCReadLocks
  LockType <- MCReadType
  Users <- MCReadUsers
  Dynamic = {}
  MaxCalls = 8
  MaxQueue = 2
INVARIANTS WriteCycleReported
CHECK_DEADLOCK FALSE
