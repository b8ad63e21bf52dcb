CONSTANTS
  Tags = {t1, t2}
  UserCmds <- ReadWrite
  NumChips = 2
  BusyTime = 1
  NoTag = NoTag
  PageWords = 2
  EncodeDepth = 1
  WriteQDepth = 2
SYMMETRY Symmetry
SPECIFICATION Spec
INVARIANTS TypeOK WriteDataMatchesCommand ChipsArePolled ReadWordsArrive
PROPERTY ImplementsOrder
