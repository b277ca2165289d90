SPECIFICATION Spec
CONSTANTS
  Conn = {c1, c2, c3}
  Worker = {w1}
  NumWork = 2
  NumSave = 2
  MaxEvents = 2
  MaxTurns = 3
  Free = Free
  Torn = Torn
SYMMETRY PathSymmetry
INVARIANTS
  TypeOK
  NeverOlderBytes
  SaveTaskPerDatum
  EachAnsweredOnce
