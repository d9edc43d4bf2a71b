CONSTANTS
  t1 = t1
  t2 = t2
  other = other
  CLR = CLR
  Threads <- MCThreads
  Codes <- MCCodes
  MaxDepth = 2
SPECIFICATION Spec
INVARIANT ThunkOutlivesHandlers
