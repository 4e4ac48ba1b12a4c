SPECIFICATION Spec
CONSTANTS
  Conns = {k1}
  None = None
  OneLoop = FALSE
  UserOps = {"shutdown"}
  MaxSends = 0
  FlowControl = FALSE
  ServerMayStop = FALSE
INVARIANT
  HeldWhileCalled
CHECK_DEADLOCK FALSE
