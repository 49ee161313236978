SPECIFICATION FairSpec
CONSTANTS
  Clients = {c1, c2}
  Worker = worker
  NoThread = noThread
  Files = {f1, f2}
  NoTree = noTree
  Unknown = unknown
  ManualStepping = TRUE
INVARIANTS TypeOK OneWorker ShutdownIsFinal MonitorInStep NoCircularWait
PROPERTIES KeepsContract StopReturns LoadServed
