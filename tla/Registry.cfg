SPECIFICATION FairSpec
CONSTANTS
  r1 = r1
  r2 = r2
  r3 = r3
  r4 = r4
  None = None
  Requests <- MCFour
  MaxFaults = 2
INVARIANTS
  RevokedShown
  AnchoredIsMined
  DuplicateNeedsOverlap
PROPERTY
  PendingEnds
CHECK_DEADLOCK FALSE
