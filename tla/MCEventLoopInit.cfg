\* The thread-init callback queues functors on its own loop before loop().
SPECIFICATION Spec
CONSTANTS
  Clients = {c1}
  Tasks = {t1, t2}
  IO = IO
  MaxDepth <- MCMaxDepth
  InitCallbackQueues = TRUE
INVARIANT
  NoLostWakeup
