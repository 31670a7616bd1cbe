SPECIFICATION Spec
CONSTANTS
  TCP_MAX_CLIENT = 3
  ListenFd = 3
  NumFds = 2
  Peers = {p1, p2}
  NoPeer = NoPeer
  MaxConnects = 0
  Talkers = {}
  Leavers = {p1, p2}
  Silent = {}
  TimerIsSlow = TRUE
INVARIANTS
  OnlineRowIsConnected
CHECK_DEADLOCK FALSE
