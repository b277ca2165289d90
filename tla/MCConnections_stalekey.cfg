SPECIFICATION Spec
CONSTANTS
  Handle = {h1, h2}
  Worker = {w1, w2}
  MaxKeys = 2
  MaxAccepts = 3
  MaxSends = 2
  MaxRestarts = 0
SYMMETRY ConnSymmetry
INVARIANT
  KeyIsInstance
