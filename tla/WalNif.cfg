SPECIFICATION Spec
CONSTANTS
  None = None
  c1 = c1
  c2 = c2
  Clients = {c1, c2}
  MaxWrites = 3
  MaxSyncs = 2
  MaxFaults = 2
  max_buffer_bytes = 2
  QueueMax = 1
CHECK_DEADLOCK FALSE
INVARIANTS BytesSafe NoSyncForgotten
PROPERTIES CallsReturn
