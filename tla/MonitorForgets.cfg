SPECIFICATION Spec
CONSTANTS
  Uids = {u1}
  Statuses = {s1}
  Viewers = {}
  NoStatus = noStatus
  NoEvent = noEvent
  MaxTrees = 1
  MaxEvents = 1
  SessionCost = 0
INVARIANT StoppedForgets
