SPECIFICATION Spec
CONSTANTS
  t1 = t1
  t2 = t2
  m = m
  rw = rw
  p = p
  rx = rx
  NoCall = NoCall
  Threads <- MCThreads
  Locks <- MCSharedLocks
  LockType <- MCSharedType
  Users <- MCSharedUsers
  Dynamic = {p}
  MaxCalls = 8
  MaxQueue = 2
INVARIANTS ReuseTold
CHECK_DEADLOCK FALSE
