SPECIFICATION Spec
CONSTANTS
  Conns = {k1}
  None = None
  OneLoop = FALSE
  UserOps = {"send"}
  MaxSends = 1
  FlowControl = FALSE
  ServerMayStop = FALSE
PROPERTY
  GivesUpWriting
CHECK_DEADLOCK FALSE
