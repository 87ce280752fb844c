SPECIFICATION FairSpec
CONSTANTS
  j1 = j1
  j2 = j2
  Job = {j1}
  ClientKeys = {"run-tests"}
  BatchSize = 1
  Hanging = {j1}
  Faults = {}
  MaxFaults = 0
PROPERTIES
  DeleteStopsProcess
