SPECIFICATION Spec
CONSTANTS
  KtHeaderWords = 2
  KeytableWords = 6
  WordElems = 4
  MaxBeats = 2
  Inputs <- MCInputs
  NoWord = NoWord
INVARIANT CreatesTheMerge
PROPERTIES MergesEnd
