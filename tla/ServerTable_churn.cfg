SPECIFICATION Spec
CONSTANTS
  TCP_MAX_CLIENT = 3
  ListenFd = 3
  NumFds = 2
  Peers = {p1, p2}
  NoPeer = NoPeer
  MaxConnects = 3
  Talkers = {}
  Leavers = {p1}
  Silent = {p2}
  TimerIsSlow = TRUE
INVARIANTS
  TypeOK
  FillsFreeRow
  OnlyReapingFailsSelect
  OnlineRowHasFifo
CHECK_DEADLOCK FALSE
