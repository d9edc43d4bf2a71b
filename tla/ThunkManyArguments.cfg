CONSTANTS
  ArgumentCounts <- MCMoreViaStack
  MostArguments = 6
  Results <- MCResults
SPECIFICATION Spec
INVARIANT ArgumentsForwarded
CHECK_DEADLOCK FALSE
