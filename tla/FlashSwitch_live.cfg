CONSTANTS
  NumTags = 2
  Ports = {0, 1, 2}
  Data <- Entries
  Rubbish = Rubbish
  Users = {u1, u2}
  OrigTags = {t1}
  Buses = {b1, b2}
  PageWords = 2
SPECIFICATION FairSpec
PROPERTY CommandsComplete
