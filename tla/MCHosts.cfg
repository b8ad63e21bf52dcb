SPECIFICATION FairSpec
CONSTANTS
  NUM_TAGS = 2
  NUM_CARDS = 2
  NUM_BUSES = 2
  CHIPS_PER_BUS = 1
  BLOCKS_PER_CHIP = 1
  PAGES_PER_BLOCK = 2
  Slots = {0, 1, 2}
  startPpaH <- Pair
  numPpaH <- One
  startPpaL <- One
  numPpaL <- Two
  startPpaR <- Pair
  numPpaR <- Three
INVARIANTS HostTypeOK OneRequestPerTag VerdictIsRight AmfTablesRight
PROPERTIES BuffersHeld ImplementsPhases ProgramEnds
