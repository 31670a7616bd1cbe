SPECIFICATION FairSpec
CONSTANTS
  TCP_MAX_CLIENT = 2
  ListenFd = 3
  NumFds = 1
  Peers = {p1, p2}
  NoPeer = NoPeer
  MaxConnects = 0
  Talkers = {p1}
  Leavers = {p1, p2}
  Silent = {}
  TimerIsSlow = TRUE
INVARIANTS
  OwnFifo
  OrderlyRowIsConnected
  StillListening
PROPERTIES
  ClientIsAccepted
  LeaverIsForgotten
  HeartbeatsGoOn
CHECK_DEADLOCK FALSE
