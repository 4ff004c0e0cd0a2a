SPECIFICATION Spec
CONSTANTS
  a = a
  b = b
  c = c
  d = d
  e = e
  x = x
  y = y
  Investors <- MCInvestors
  Buyers <- MCBuyers
  Shares = 8
  Scripts <- MCScripts
  Openings <- MCOpenings
  MaxFaults = 2
INVARIANTS
  
  
  SoldCoversLedger
  AllocatedOnce
  OneOpenOrder
  
  
  RetiredMeansPaid
  QueueServed
PROPERTIES
  SoldStays
CHECK_DEADLOCK FALSE
