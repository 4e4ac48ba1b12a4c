\* setThreadNum(0), (1) and (2), which is main.cpp's; three peers and two fds.
\* The run ends when the server has, or in a join() after a lost quit().
SPECIFICATION Spec
CONSTANTS
  MaxThreads <- MCMaxThreads
  MaxConns <- MCMaxConns
  FdLimit <- MCFdLimit
INVARIANTS
  TypeOK
  LoopsOutliveCallers
  DestroyedOnce
  Balanced
PROPERTIES
  StopCompletes
  HeadOfBacklogAccepted
CHECK_DEADLOCK FALSE
