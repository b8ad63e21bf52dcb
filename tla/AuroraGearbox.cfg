CONSTANTS
  Ends = {e1, e2}
  Senders = {e1, e2}
  Payloads = {a}
  RecvQDepth = 2
  ReadQDepth = 1
  WindowSize = 1
  Modulus = 4
  SendQDepth = 1
  WireDepth = 1
SPECIFICATION FairSpec
INVARIANTS TypeOK CreditIsRoom
PROPERTIES ImplementsLink EverythingArrives
