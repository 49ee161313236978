SPECIFICATION FairSpec
CONSTANTS
  Handlers = {h1, h2}
  MaxManagers = 2
  MaxCalls = 5
INVARIANTS TypeOK StartedMeansReady DeletedAtRest CallbackBarrier OnlyFailedStartsDangle MonitorKnowsTree NoCircularWait
PROPERTIES FaultEndsRun HostReturns
CHECK_DEADLOCK FALSE
