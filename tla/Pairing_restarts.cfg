SPECIFICATION FairSpec
CONSTANTS
  Clients = {c1, c2}
  NoClient = NoClient
  CommFd = 4
  FirstFd = 4
  NumFds = 2
  QueueCap = 1
  SerialInput <- MCSerialInput
  MaxSerial = 1
  MaxRuns = 3
  MaxCrashes = 1
INVARIANTS
  TypeOK
  ServerPartsUnused
  AnsweredAtMostOnce
PROPERTIES
  Pairs
  ExchangeEnds
CHECK_DEADLOCK FALSE
