SPECIFICATION Spec
CONSTANTS
  Request = {r1, r2, r3}
  Idle = {r3}
  Kinds = {"code", "order"}
  Handle = {h1}
  Name = {a, b}
  MaxBikes = 2
  MaxTime = 2
  MaxPieces = 1
  None = None
SYMMETRY HandlersSymmetry
INVARIANTS
  TypeOK
  AnsweredOnce
  StrayedAfterClose
  ServedOrClosed
  PageIsTrue
  ListShowsNewest
CHECK_DEADLOCK FALSE
