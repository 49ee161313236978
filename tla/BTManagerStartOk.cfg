SPECIFICATION Spec
CONSTANTS
  Clients = {c1}
  Worker = worker
  NoThread = noThread
  Files = {f1}
  NoTree = noTree
  Unknown = unknown
  ManualStepping = FALSE
PROPERTY StartOkMeansTree
