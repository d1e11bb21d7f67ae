SPECIFICATION CollectionSpec
CONSTANTS
  Check = {c1, c2, c3}
  Profile = {p1, p2}
  Interval = 1
  CheckLimit = 2
  PollLimit = 1
  MaxOIDs = 2
  MaxFaults = 2
INVARIANTS AnsweringDeviceIsUp
