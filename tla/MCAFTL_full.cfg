SPECIFICATION FairSpec
CONSTANTS
  a1 = a1
  a2 = a2
  a3 = a3
  c1 = c1
  c2 = c2
  MapAddrs <- MCMapAddrs
  Chips <- MCChips
  ChipOf <- MCChipOf
  Words = 2
  Lanes = 2
  EraseMod = 2
  CmdQDepth = 1
  BramDepth = 2
  Reqs <- MCReqs
  Images <- Images2
PROPERTIES EraseReachesStage3
CHECK_DEADLOCK FALSE
