SPECIFICATION Spec
CONSTANTS
  Conn = {c1, c2}
  Worker = {w1, w2}
  NumWork = 1
  NumSave = 1
  MaxEvents = 2
  MaxTurns = 0
  Free = Free
  Torn = Torn
SYMMETRY PathSymmetry
INVARIANT
  QueuedDatumKept
