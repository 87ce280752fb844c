SPECIFICATION FairSpec
CONSTANTS
  j1 = j1
  j2 = j2
  Job = {j1}
  ClientKeys = {"run-tests"}
  BatchSize = 1
  Hanging = {}
  Faults = {"crash", "signal", "kill", "popen", "thread"}
  MaxFaults = 2
PROPERTIES
  JobSettles
  CompletedIsScored
  ShutdownEnds
