SPECIFICATION Spec
CONSTANTS
  None = None
  w1 = w1
  w2 = w2
  k1 = k1
  Workers = {}
  Steps <- OneStep
  InitialStates <- OneStep
  SignalKeys = {k1}
  Signals <- BothSignals
  MaxNow = 1
  LeaseMs = 1
  BackoffMs = 1
  TtlMs = 1
  MaxActiveMs = 0
  MaxRetries = 0
  ExhaustedTo = "completed"
  HistoryMax = 2
  MaxVersion = 5
INVARIANTS SignalAppliedOnce
CHECK_DEADLOCK FALSE
