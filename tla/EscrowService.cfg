SPECIFICATION Spec
CONSTANTS
  o1 = o1
  r1 = r1
  r2 = r2
  seller = seller
  OrderIds <- MCOrderIds
  Requests <- MCRequests
  Contracts <- MCContracts
  Relayer = relayer
  Buyer = buyer
  Seller = seller
  Zero = zero
  Rails <- MCRails
  Requested <- Operation
  MaxFaults = 1
INVARIANTS
  SellerPaidOnlyWithConsent
  SettledRowsArePaid
  ClaimHasHandler
SYMMETRY RequestSymmetry
VIEW Relevant
CONSTRAINT BankOrdersOffChain
