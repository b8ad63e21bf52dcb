CONSTANTS
  NumUsers = 2
  NumCards = 1
  ReqPerUser = 2
  PageWords = 2
  ReqMod = 2
  NoPage = NoPage
SPECIFICATION FairSpec
INVARIANT BuffersHaveOneOwner
PROPERTIES ImplementsInOrder RequestsAnswered
