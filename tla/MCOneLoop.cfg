\* setThreadNum(0): the listening socket and two connections on one loop.
SPECIFICATION Spec
CONSTANTS
  Conns = {k1, k2}
  None = None
  OneLoop = TRUE
  UserOps = {"shutdown"}
  MaxSends = 0
  FlowControl = FALSE
  ServerMayStop = FALSE
SYMMETRY Symmetry
INVARIANTS
  NoDanglingChannel
  PollerUse
  OneDownPerUp
  DrainedBeforeShut
