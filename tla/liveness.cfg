SPECIFICATION FairSpec
CONSTANTS
  e1 = e1
  e2 = e2
  w1 = w1
  w2 = w2
  r1 = r1
  a = a
  b = b
  c = c
  d = d
  flaky = flaky
  NoTask = NoTask
  Execution = {e1}
  Ref = {a, b, c, d}
  Action <- ActionValue
  Requests <- FlakyDAGs3
  Registry <- RegistryValue
  MaxRetries = 1
  MainThread = {w1, w2}
  RetryThread = {r1}
  FaultKinds = {}
  MaxFaults = 0
  ColdStart = FALSE
CHECK_DEADLOCK FALSE
PROPERTIES
  EveryWorkflowFinishes
  EveryTaskEnds
  ImplementsFairDag
