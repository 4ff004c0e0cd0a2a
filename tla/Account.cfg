SPECIFICATION AccountSpec
CONSTANTS
  Requests = {1, 2, 3, 4}
  Challenges = {1, 2}
  Banks = {1, 2}
  Keys = {k1}
  Limit <- MCLimit
  Visits = {1, 2, 3, 4}
  Tokens = {t1}
  Recoveries = {r1}
  Nonces = {n1}
  Desk = {1, 2}
  DocTypes = {"id", "tax"}
  Verified = {TRUE, FALSE}
  Scripts <- MCScripts
  MaxFaults = 1
CHECK_DEADLOCK FALSE
INVARIANTS
  NoSecondGuess
  LatestOnly
  CancelledMeansUnpaid
  ConsumedIsPaid
  LimitHolds
  PaidToSeenAccount
  SignedOutStaysOut
  RecoveryOnce
  NonceOnce
  StatusAgrees
PROPERTIES
  ImplementsOneTimeCode
