CONSTANTS
  t1 = t1
  t2 = t2
  s1 = s1
  s2 = s2
  Threads <- MCThreads
  Storages <- MCStorages
  MaxGen = 2
SPECIFICATION FairSpec
PROPERTIES
  CellSpec
  ThreadsExit
  StoragesDie
INVARIANTS
  TypeOK
  ListExact
  CallbackSafe
  OwnDataOnly
  MapNotRaced
