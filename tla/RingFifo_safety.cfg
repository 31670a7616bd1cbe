SPECIFICATION Spec
CONSTANTS
  Size = 4
  Bytes = {b1, b2}
  NoByte = NoByte
  MaxWrite = 5
  MaxRead = 2
  StoresInOrder = TRUE
INVARIANTS
  TypeOK
  SlotsDisjoint
  ReadZeroMeansByte
  OnlyLastByteCut
PROPERTY
  IsByteQueue
