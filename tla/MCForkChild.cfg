SPECIFICATION ForkSpec
CONSTANTS
  Main = Main
  a = a
  Backend = Backend
  NoOwner = NoOwner
  Threads <- MCThreads
  RingCap = 1
  BufCap = 2
  MaxEvents = 2
  MaxSignals = 0
  LateLogging = FALSE
  ChildCalls = 1
INVARIANTS ChildMemorySafe 
PROPERTIES ChildReturns
CONSTRAINT FewEvents
