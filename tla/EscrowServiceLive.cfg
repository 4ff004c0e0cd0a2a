SPECIFICATION LiveSpec
CONSTANTS
  o1 = o1
  r1 = r1
  r2 = r2
  seller = seller
  OrderIds <- MCOrderIds
  Requests <- MCRequests
  Contracts <- MCNoContracts
  Relayer = relayer
  Buyer = buyer
  Seller = seller
  Zero = zero
  Rails <- MCWallet
  Requested <- MCSettling
  MaxFaults = 0
PROPERTIES
  ClaimResolves
