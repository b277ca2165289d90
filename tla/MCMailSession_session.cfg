SPECIFICATION Spec
CONSTANT
  NumBlocks = 5
INVARIANTS
  TypeOK
  AcceptedWhole
  RepliesInStep
PROPERTIES
  ImplementsMailer
  SessionEnds
