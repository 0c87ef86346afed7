SPECIFICATION FairSpec
CONSTANTS
  b1 = b1
  b2 = b2
  Garbage = Garbage
  Blocks <- MCBlocks
  Images <- MCImages
  Boots <- MCBoots
  Factory <- MCFactory
  SlotBlocks = 2
INVARIANTS
  NeverBricked
PROPERTIES
  RunningImageUntouched
  ImplementsAtomicUpdate
  ComesBackUp
