SPECIFICATION Spec
CONSTANTS
  l1 = l1
  l2 = l2
  r1 = r1
  r2 = r2
  t1 = t1
  t2 = t2
  None = None
  Listings <- MCListings
  Matched <- MCNoMatch
  Requests <- MCRequests
  Tasks <- MCTasks
  MaxConcurrent = 1
  MaxAttempts = 2
INVARIANT
  SlotsBounded
