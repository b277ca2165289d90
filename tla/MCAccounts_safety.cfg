SPECIFICATION Spec
CONSTANTS
  Name = {n1, n2}
  Token = {t1, t2}
  Card = {d1, d2}
  Table = {"set_motor_lock"}
  NumThreads = 2
  MaxRequests = 3
  MaxFailures = 1
  MaxUsers = 1
  None = None
SYMMETRY AccountSymmetry
CHECK_DEADLOCK FALSE
INVARIANTS
  TypeOK
  CardBoundOnce
  NameTakenOnce
  CodeUsedOnce
  ConfirmedStands
  BikesHaveOwners
PROPERTIES
  ImplementsAtomic
