CONSTANTS
  ArgumentCounts <- MCOneViaStack
  MostArguments = 4
  Results <- MCResults
SPECIFICATION Spec
INVARIANTS
  TypeOK
  ArgumentsForwarded
  CallAligned
  CallerRestored
CHECK_DEADLOCK FALSE
