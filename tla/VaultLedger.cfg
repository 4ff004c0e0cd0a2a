SPECIFICATION Spec
CONSTANTS
  t1 = t1
  t2 = t2
  t3 = t3
  r1 = r1
  r2 = r2
  k1 = k1
  e1 = e1
  e2 = e2
  Txs <- MCTxs
  Requests <- MCRequests
  Deposits <- MCDeposits
  Withdrawals <- MCWithdrawals
  Keys <- MCKeys
  Refs <- MCRefs
  Requested <- Operation
  RpcDeployed = TRUE
  MaxFaults = 1
INVARIANTS
  LockServed
  Balanced
  HandledOnce
PROPERTIES
  RowsFinal
SYMMETRY LedgerSymmetry
VIEW Relevant
CONSTRAINT Whole
