SPECIFICATION Spec
CONSTANTS
  a = a
  b = b
  t1 = t1
  t2 = t2
  s1 = s1
  s2 = s2
  None = None
  Accounts <- MCAccounts
  Tokens <- MCTokens
  Slots <- MCSlots
  Limit = 2
INVARIANTS
  SessionWhole
  IdleLimit
SYMMETRY DeviceSymmetry
