SPECIFICATION Spec
CONSTANTS
  NumThreads = 2
  Caller = {k1}
  Free = Free
  MaxCalls = 3
INVARIANT
  AssignTaskAssert
