CONSTANTS
  a = a
  b = b
  r = r
  s = s
  z = z
  Objects <- MCObjects
  Heaps <- MCHeaps
  Signatures <- MCSignatures
  ULONG_MAX = 2
  MaxStack = 5
  MaxStores = 1
SPECIFICATION FairSpec
INVARIANTS
  TypeOK
  ValuesWhole
  ValuesExact
PROPERTY DumpEnds
CHECK_DEADLOCK FALSE
