SPECIFICATION FairSpec
CONSTANTS
  Size = 4
  Bytes = {b1}
  NoByte = NoByte
  MaxWrite = 5
  MaxRead = 2
  StoresInOrder = FALSE
PROPERTY
  BytesAreTaken
