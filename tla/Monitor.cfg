SPECIFICATION FairSpec
CONSTANTS
  Uids = {u1, u2}
  Statuses = {s1, s2}
  Viewers = {v1}
  NoStatus = noStatus
  NoEvent = noEvent
  MaxTrees = 3
  MaxEvents = 4
  SessionCost = 2
INVARIANTS TypeOK QueueShape Accounting CacheOwnStatuses ConflationLosesNothing ClosedSessionsForgotten
PROPERTIES BroadcastsInOrder QueueDrains WorkerEnds
