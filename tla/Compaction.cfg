SPECIFICATION Spec
CONSTANTS
  PpasPerWord = 2
  WordsPerBurst = 2
  Engines = 2
  KeytableWords = 2
  KtTags = 2
  Merges <- MCMerges
  Ppas <- MCPpas
  NoPpa = NoPpa
  NoWord = NoWord
INVARIANTS TypeOK TablesAsListed NothingLeftOver
PROPERTIES ImplementsCompaction ProgramEnds
