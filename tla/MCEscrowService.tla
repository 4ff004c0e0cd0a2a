--------------------------- MODULE MCEscrowService ---------------------------
(***************************************************************************)
(* One order, handlers in flight at once, and a seller whose wallet is a   *)
(* contract that may refuse the payment.                                   *)
(***************************************************************************)
EXTENDS EscrowService, TLC

CONSTANTS o1, r1, r2, seller

MCOrderIds == {o1}
MCRequests == {r1, r2}
MCContracts == {seller}
MCNoContracts == {}
MCRails == {"wallet", "bank"}
MCWallet == {"wallet"}
MCSettling == {"ship", "deliver", "accept", "dispute", "release", "refund"}

\* What decides the future.  The cache is read only when a database read fails:
\* once no more faults can happen it decides nothing.  No guard and no property
\* of the service reads the contract's timestamps.
Unstamped(book) == [o \in OrderIds |-> [book[o] EXCEPT !.stamps = {}]]

Relevant ==
  <<rows, IF faults < MaxFaults THEN cache ELSE <<>>, req, orphans, faults,
    Unstamped(orders), owner, held, paid, guard,
    [committed EXCEPT !.orders = Unstamped(@)]>>

\* Bound: a bank order's number is not used on-chain as well.
BankOrdersOffChain ==
  \A o \in OrderIds :
    rows[o] # NoRow /\ rows[o].method = "bank" => orders[o].status = "None"

RequestSymmetry == Permutations(Requests)
=============================================================================
