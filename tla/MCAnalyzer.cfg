SPECIFICATION Spec
CONSTANTS
  Modules <- MCModules
  PcOf <- MCPcOf
  AlteredPc <- MCAlteredPc
  MaxFrames = 2
  NumEvents = 3
  MaxDamage = 2
  Nothing = Nothing
INVARIANTS DamageStaysLocal SymbolsRight
