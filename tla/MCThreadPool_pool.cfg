SPECIFICATION FairSpec
CONSTANTS
  NumThreads = 2
  Caller = {k1, k2}
  Free = Free
  MaxCalls = 6
INVARIANTS
  TypeOK
  TaskInOnePlace
  PoppedThreadIsParked
  ThreadAccounted
PROPERTIES
  ImplementsTaskPool
  BacklogDrains
  RunOrLeftBehind
