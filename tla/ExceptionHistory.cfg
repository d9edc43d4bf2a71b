CONSTANTS
  t1 = t1
  Threads <- MCThreads
  Depths <- MCDepths
  EntryLimits <- MCEntryLimits
  FrameLimits <- MCFrameLimits
  MaxExceptions = 2
  MaxChanges = 1
SPECIFICATION Spec
INVARIANT HistoryKept
