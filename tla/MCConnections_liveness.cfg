SPECIFICATION FairSpec
CONSTANTS
  Handle = {h1, h2}
  Worker = {w1, w2}
  MaxKeys = 2
  MaxAccepts = 2
  MaxSends = 1
  MaxRestarts = 1
PROPERTIES
  ShutdownEnds
  NothingLeaks
