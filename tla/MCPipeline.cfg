SPECIFICATION Spec
CONSTANTS
  Main = Main
  a = a
  Backend = Backend
  NoOwner = NoOwner
  Threads <- MCThreads
  RingCap = 1
  BufCap = 2
  MaxEvents = 2
  MaxSignals = 1
  LateLogging = FALSE
INVARIANTS TypeOK RegistrySound NoUseAfterReclaim ScansOpenFile CloseComplete
PROPERTIES KeepsThreadOrder CloseFinishes NoStuckProducer DeadRingReclaimed FlushServed FlushCovers
