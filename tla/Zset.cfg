SPECIFICATION MCSpec
CONSTANTS
  PAGE_SIZE = 44
  INLINE_KEY_MAX = 8
  OVERFLOW_PREFIX = 4
  OVERFLOW_PAYLOAD = 6
  SIGN = 8
  Modes = {"tree", "crash", "readers", "replace"}
  Start <- MCStart
  Entries <- MCEntries
  MaxEntries <- MCMaxEntries
  MaxCrashes <- MCMaxCrashes
  MaxSyncs <- MCMaxSyncs
  MaxCompactions <- MCMaxCompactions
  MaxReads <- MCMaxReads
  MaxLost = 1
  READ_ATTEMPTS = 2
INVARIANTS FileFollowsLog ReplayWorks ReadIsAtomic ReadsExact
CHECK_DEADLOCK FALSE
