SPECIFICATION Spec
CONSTANTS
  o1 = o1
  o2 = o2
  relayer = relayer
  ann = ann
  bob = bob
  Zero = zero
  OrderIds <- MCOrderIds
  Accounts <- MCAccounts
  Contracts <- MCContracts
  InitialOwner = relayer
  Values <- MCValues
INVARIANTS
  PaidExactlyOnce
  Solvent
  DisputeFreezesRelease
PROPERTIES
  TermsAreFinal
  ImplementsCustody
CHECK_DEADLOCK FALSE
SYMMETRY OrderSymmetry
