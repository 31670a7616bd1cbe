SPECIFICATION FairSpec
CONSTANTS
  QueueCap = 1
  Rows = 3
INVARIANTS
  TypeOK
  FreedIsTold
PROPERTIES
  ThreadsStay
  StopEndsMain
CHECK_DEADLOCK FALSE
