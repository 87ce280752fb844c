SPECIFICATION Spec
CONSTANTS
  s1 = s1
  s2 = s2
  Schedule = {s1, s2}
  Every <- EachMinute
  Policy <- CatchUp
  Minute = 3
  Horizon = 15
  Slow = {"outer", "choosing", "chosen", "starting"}
  Faults = {"load"}
  MaxFaults = 2
  MaxEdits = 0
INVARIANTS
  SubmittedInOrder
  NoGaps
  ReloadAhead
