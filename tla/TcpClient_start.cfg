SPECIFICATION Spec
CONSTANTS
  Conns = {c1, c2}
  NoConn = NoConn
  TimerIsSlow = TRUE
  MaxFaults = 1
INVARIANTS
  ReplacesOnlyAfterFault
CHECK_DEADLOCK FALSE
