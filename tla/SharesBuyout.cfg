SPECIFICATION FairSpec
CONSTANTS
  a = a
  b = b
  c = c
  d = d
  e = e
  x = x
  y = y
  Investors <- MCInvestors
  Buyers <- MCBuyers
  Shares = 8
  Scripts <- MCScripts
  Openings <- MCOpenings
  MaxFaults = 0
PROPERTIES EveryShareholderPaid
CHECK_DEADLOCK FALSE
