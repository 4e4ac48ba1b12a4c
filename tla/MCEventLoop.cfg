\* main.cpp's use of the loop: nothing is queued before loop() is entered.
SPECIFICATION Spec
CONSTANTS
  Clients = {c1, c2}
  Tasks = {t1, t2, t3}
  IO = IO
  MaxDepth <- MCMaxDepth
  InitCallbackQueues = FALSE
INVARIANTS
  TypeOK
  NoLostWakeup
  NoLostQuit
PROPERTIES
  ImplementsFunctorQueue
  FunctorsRun
  QuitHonoured
  IoNotStarved
