SPECIFICATION Spec
CONSTANTS
  TCP_MAX_CLIENT = 3
  ListenFd = 3
  NumFds = 2
  Peers = {p1}
  NoPeer = NoPeer
  MaxConnects = 0
  Talkers = {p1}
  Leavers = {p1}
  Silent = {p1}
  TimerIsSlow = TRUE
INVARIANTS
  SelectNeverFails
CHECK_DEADLOCK FALSE
