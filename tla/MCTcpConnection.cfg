\* One connection served by an io loop of its own.  Its message callback sends,
\* a user thread shuts it down, and the server may be destroyed.  Once the
\* connection is freed nothing is left to do: the run may stop there.
SPECIFICATION Spec
CONSTANTS
  Conns = {k1}
  None = None
  OneLoop = FALSE
  UserOps = {"shutdown"}
  MaxSends = 0
  FlowControl = TRUE
  ServerMayStop = TRUE
INVARIANTS
  TypeOK
  NoDanglingChannel
  PollerUse
  OneDownPerUp
  DrainedBeforeShut
  OutputIsWatched
PROPERTIES
  ClosedIsFreed
  ShutdownCompletes
  PausedIsResumed
CHECK_DEADLOCK FALSE
