SPECIFICATION FairSpec
CONSTANTS
  Frames <- MCFrames
  Noise = {221}
  Wrong = {187}
  NoFrame = NoFrame
  NoByte = NoByte
  RSize = 4
  ReadSize = 2
  Payload = 2
  QueueCap = 1
  MaxSends = 2
INVARIANTS
  TypeOK
  OverrunNeedsLoss
PROPERTIES
  IsFrameChannel
  FramesArrive
CHECK_DEADLOCK FALSE
