\* main.cpp's callback: everything that is read is sent at once.
SPECIFICATION Spec
CONSTANTS
  Modulus = 7
  Byte <- MCByte
  Zero = 0
  CheapPrepend = 1
  InitialSize = 1
  ExtraSize = 1
  RcvQueue = 2
  SndQueue = 2
  MaxHeld = 2
  WaitsForRoom = FALSE
PROPERTY
  RestIsBuffered
