CONSTANTS
  Keys = {1, 2, 3, 4, 5, 6, 7, 8}
  DueKeys = {1, 2}
  HistoryKeys = {4}
  Members = {1, 2}
  EventVersion <- MCEventVersion
  LaneTarget <- MCLaneTarget
  Scores <- MCScores
  MaxItems = 20
  PutLists <- MCPuts
  PutNewLists <- MCPutNews
  MoveLists <- MCMoves
  DeleteLists <- MCDeletes
  Batches <- MCBatches
  CountKeys = {2}
  CountValues = {3}
  QueryKeys = {1, 2, 4}
  WalkKeys = {4}
  PageSize = 1
  Infinity = 9
  None = None
  FromDue = 1
  ToDue = 2
  FromState = 3
  ToState = 5
  Inflight = 6
  Workers = {3, 4}
  WorkerKey <- MCWorkerKey
  LeaseMs = 2
  Limit = 2
  MaxNow = 1
  MaxQueue = 3
  InitialRecords <- MCInitialRecords
  Base = 4
  MaxVarintBytes = 3
  MaxExact = 15
  Nil = Nil
  SampleRecords <- MCSampleRecords
  SampleEvents <- MCSampleEvents
  SampleBytes <- MCSampleBytes
SPECIFICATION MCSpec
INVARIANTS
  IndexTrue
  QueriesExact
  OneHolder
  RecordsSurvive
CHECK_DEADLOCK FALSE
