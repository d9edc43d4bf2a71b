CONSTANTS
  t1 = t1
  Threads <- MCThreads
  Depths <- MCDepths
  EntryLimits <- MCEntryLimits
  FrameLimits <- MCFrameLimits
  MaxExceptions = 2
  MaxChanges = 3
SPECIFICATION Spec
INVARIANTS
  TypeOK
  LatestOnly
  OneConfiguration
  TrimmedToMaximum
  NoSilentLoss
