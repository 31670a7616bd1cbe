SPECIFICATION FairSpec
CONSTANTS
  Messages <- MCMessages
  CommFd = 4
  HIP_DEV_ID <- MCDeviceId
  NoFrame = NoFrame
  MaxSends = 3
  MaxBreaks = 1
INVARIANTS
  TypeOK
PROPERTIES
  IsFrameChannel
  FramesArrive
CHECK_DEADLOCK FALSE
