SPECIFICATION Spec
CONSTANTS
  s1 = s1
  s2 = s2
  Schedule = {s1, s2}
  Every <- EachMinute
  Policy <- Skip
  Minute = 3
  Horizon = 12
  Slow = {}
  Faults = {"crash", "signal"}
  MaxFaults = 1
  MaxEdits = 2
INVARIANTS
  TypeOK
  TableFollowed
  ShutdownWakes
