SPECIFICATION Spec
CONSTANTS
  j1 = j1
  j2 = j2
  Job = {j1}
  ClientKeys = {"run-tests", "unregistered"}
  BatchSize = 1
  Hanging = {}
  Faults = {"crash", "signal", "kill", "popen", "thread", "txn"}
  MaxFaults = 3
INVARIANTS
  TypeOK
  OneLaunch
  ScoreAfterCompletion
  CompletedRunIsComplete
PROPERTIES
  ImplementsProtocol
