SPECIFICATION Spec
CONSTANTS
  r1 = r1
  r2 = r2
  r3 = r3
  r4 = r4
  None = None
  Requests <- MCThree
  MaxFaults = 0
INVARIANT
  IssuedVerifies
CHECK_DEADLOCK FALSE
