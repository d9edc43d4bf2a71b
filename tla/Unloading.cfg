CONSTANTS
  c1 = c1
  c2 = c2
  t1 = t1
  t2 = t2
  r1 = r1
  Calls <- MCCalls
  Threads <- MCThreads
  Raisers <- MCRaisers
  ShadowCopied = TRUE
SPECIFICATION FairSpec
CHECK_DEADLOCK FALSE
INVARIANTS
  TypeOK
  LocksExact
  InterfacesKeepModule
  HeldLoggersIntact
  OwnContextOnTop
  ReleasedOnce
PROPERTIES
  ContextsReleased
