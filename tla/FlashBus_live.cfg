CONSTANTS
  Tags = {0, 1}
  UserCmds <- Contending
  NumChips = 2
  BusyTime = 1
  NoTag = NoTag
  PageWords = 2
  EncodeDepth = 1
  WriteQDepth = 2
SPECIFICATION FairSpec
PROPERTY CommandsAnswered
