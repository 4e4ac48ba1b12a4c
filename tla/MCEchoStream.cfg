\* A callback that sends when there is room: vectors grow, move and reset.
SPECIFICATION Spec
CONSTANTS
  Modulus = 7
  Byte <- MCByte
  Zero = 0
  CheapPrepend = 1
  InitialSize = 1
  ExtraSize = 1
  RcvQueue = 2
  SndQueue = 2
  MaxHeld = 2
  WaitsForRoom = TRUE
INVARIANTS
  TypeOK
  WritingIffOutput
  SizeBounded
PROPERTIES
  EchoesInOrder
  OutputDrains
