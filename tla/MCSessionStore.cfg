SPECIFICATION FairSpec
CONSTANTS
  t1 = t1
  t2 = t2
  Trash <- TwoBins
  Batches <- OneTurn
  Uses <- SixUses
  MaxChain = 2
  MaxCrashes = 2
CHECK_DEADLOCK FALSE
INVARIANTS
  AckedKept
  RefusedLeavesNothing
  TrashedIsForgotten
PROPERTIES
  ChainRunsOut
