SPECIFICATION Spec
CONSTANTS
  Inputs <- MCInputs
  Unset = Unset
  Lo = 4
  Hi = 14
  Word = 2
  Top = 32
  IntBits = 8
  DefaultDepth = 2
  DefaultSkip = 3
  RingMin = 32
  RingMax = 64
  RingDefault = 64
  MaxFramesInline = 3
  HdrSize = 5
INVARIANTS ReadsInStack FramesAreCallers RingHoldsFrames
