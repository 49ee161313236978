SPECIFICATION FairSpec
CONSTANTS
  MaxRequests = 2
  MaxModels = 2
  Selections <- MCSelections
  Stations = {s0, s1}
  NoStation = NoStation
PROPERTIES NoStartDuringShutdown
