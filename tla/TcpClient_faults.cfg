SPECIFICATION FairSpec
CONSTANTS
  Conns = {c1, c2}
  NoConn = NoConn
  TimerIsSlow = TRUE
  MaxFaults = 1
INVARIANTS
  TypeOK
  MonitorsItsSocket
  StaysUp
PROPERTIES
  PairsFirst
  ServerIsHeard
  HeartbeatsGoOn
  SilenceIsNoticed
CHECK_DEADLOCK FALSE
