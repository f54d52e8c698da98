SPECIFICATION MetricsSpec
CONSTANTS
  e1 = e1
  e2 = e2
  w1 = w1
  w2 = w2
  r1 = r1
  a = a
  b = b
  c = c
  d = d
  flaky = flaky
  NoTask = NoTask
  Execution = {e1, e2}
  Ref = {a, b, c, d}
  Action <- ActionValue
  Requests <- JoinOrChain
  Registry <- RegistryValue
  MaxRetries = 1
  MainThread = {w1, w2}
  RetryThread = {r1}
  FaultKinds = {"queue", "publish"}
  MaxFaults = 1
  ColdStart = FALSE
  MaxRejected = 1
SYMMETRY Symmetry
CHECK_DEADLOCK FALSE
INVARIANTS
  MetricsBalance
  NeverAhead
  InDegreeNeverTooLow
  WorkflowFailsWithItsTasks
  OneFaultStrandsOneWorkflow
PROPERTIES
  OutcomeIsFinal
