SPECIFICATION Spec
CONSTANTS
  None = None
  w1 = w1
  w2 = w2
  k1 = k1
  Workers = {w1, w2}
  Steps <- MCSteps
  InitialStates <- OpenOrClosed
  SignalKeys = {k1}
  Signals <- MCSignals
  MaxNow = 2
  LeaseMs = 1
  BackoffMs = 1
  TtlMs = 1
  MaxActiveMs = 2
  MaxRetries = 1
  ExhaustedTo = "failed"
  HistoryMax = 2
  MaxVersion = 4
SYMMETRY WorkerSymmetry
INVARIANTS RecordsConsistent AckedCompletionWasApplied AttemptsCountLeases OpenSignalIsFinal
PROPERTIES NoEarlyTakeover ClosedUntilRewound LeaseImplemented
CHECK_DEADLOCK FALSE
