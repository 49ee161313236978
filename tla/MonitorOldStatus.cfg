SPECIFICATION Spec
CONSTANTS
  Uids = {u1}
  Statuses = {s1}
  Viewers = {v1}
  NoStatus = noStatus
  NoEvent = noEvent
  MaxTrees = 3
  MaxEvents = 3
  SessionCost = 0
PROPERTY NoOldStatusAfterSwitch
