CONSTANTS
  NumBuses = 3
  NumChips = 2
  MaxUserCmds = 2
SPECIFICATION FairSpec
INVARIANT StartIsOrderly
PROPERTY Starts
