SPECIFICATION Spec
CONSTANTS
  Conns = {k1}
  None = None
  OneLoop = FALSE
  UserOps = {}
  MaxSends = 0
  FlowControl = FALSE
  ServerMayStop = TRUE
INVARIANT
  DestructionAnnounced
CHECK_DEADLOCK FALSE
