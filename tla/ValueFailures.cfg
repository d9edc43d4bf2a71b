CONSTANTS
  a = a
  b = b
  r = r
  s = s
  z = z
  Objects <- MCObjects
  Heaps <- MCHeaps
  Signatures <- MCSignatures
  ULONG_MAX = 2
  MaxStack = 5
  MaxStores = 1
SPECIFICATION Spec
INVARIANT FailureStaysInValue
CHECK_DEADLOCK FALSE
