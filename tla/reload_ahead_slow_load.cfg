SPECIFICATION Spec
CONSTANTS
  s1 = s1
  s2 = s2
  Schedule = {s1, s2}
  Every <- EachMinute
  Policy <- Skip
  Minute = 3
  Horizon = 9
  Slow = {"loading"}
  Faults = {}
  MaxFaults = 0
  MaxEdits = 0
INVARIANTS
  ReloadAhead
