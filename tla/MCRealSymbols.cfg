SPECIFICATION Spec
CONSTANTS
  Loader = Loader
  a = a
  Backend = Backend
  Nobody = Nobody
  Threads <- MCThreads
  NumFns = 2
  MaxCalls = 2
  EarlyCalls = FALSE
INVARIANTS NeverCallsNull
PROPERTIES LogsTheProgram EveryCallReturns
