\* A user thread sends, with up to two calls under way, and shuts down, and the
\* server may be destroyed.
\* Once everything is freed nothing is left to do: the run may stop there.
SPECIFICATION Spec
CONSTANTS
  Conns = {k1}
  None = None
  OneLoop = FALSE
  UserOps = {"send", "shutdown"}
  MaxSends = 2
  FlowControl = TRUE
  ServerMayStop = TRUE
INVARIANTS
  DownsPaidFor
  MessagesOnlyWhileUp
  OutputIsWatched
  PausedHasOutput
CHECK_DEADLOCK FALSE
