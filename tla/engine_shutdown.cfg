SPECIFICATION Spec
CONSTANTS
  j1 = j1
  j2 = j2
  Job = {j1}
  ClientKeys = {"run-tests"}
  BatchSize = 1
  Hanging = {}
  Faults = {"signal", "kill", "popen"}
  MaxFaults = 3
INVARIANTS
  ErrorMeansStopped
  CleanShutdown
  NotifiedAtMostOnce
