---------------------------- MODULE EscrowCustody ----------------------------
(***************************************************************************)
(* What the escrow contract promises, without how: the money of an order   *)
(* is locked once, under terms that never change, and leaves the escrow    *)
(* once, whole, to the seller after the buyer's acceptance or back to the  *)
(* buyer.  A dispute closes the seller's way for good.  One step is one    *)
(* completed blockchain transaction, so several orders may record their    *)
(* parties' consent in it but only one order's money moves.                *)
(***************************************************************************)
EXTENDS Naturals

CONSTANTS OrderIds, Accounts, Nobody

VARIABLE custody

Holder == {"nobody", "escrow", "seller", "buyer"}
Stage == {"open", "accepted", "disputed"}

CustodyRecord ==
  [holder: Holder, stage: Stage, buyer: Accounts \cup {Nobody},
   seller: Accounts \cup {Nobody}, amount: Nat]

Unlocked == [holder |-> "nobody", stage |-> "open", buyer |-> Nobody,
             seller |-> Nobody, amount |-> 0]

Init == custody = [o \in OrderIds |-> Unlocked]

(***************************************************************************)
(* The legal changes of one order's record, from c to d.                   *)
(***************************************************************************)
Locks(c, d) ==
  /\ c = Unlocked
  /\ d.holder = "escrow" /\ d.stage = "open"
  /\ d.buyer \in Accounts /\ d.seller \in Accounts /\ d.buyer # d.seller
  /\ d.amount > 0

Consents(c, d) ==
  /\ c.holder = "escrow" /\ c.stage = "open"
  /\ d.stage \in {"accepted", "disputed"}
  /\ d = [c EXCEPT !.stage = d.stage]

PaysSeller(c, d) ==
  /\ c.holder = "escrow" /\ c.stage = "accepted"
  /\ d = [c EXCEPT !.holder = "seller"]

PaysBuyer(c, d) ==
  /\ c.holder = "escrow"
  /\ d = [c EXCEPT !.holder = "buyer"]

ConsentsOrStays(c, d) == Consents(c, d) \/ d = c

Lock(o) ==
  /\ Locks(custody[o], custody'[o])
  /\ custody' = [custody EXCEPT ![o] = custody'[o]]

Settle(o) ==
  /\ PaysSeller(custody[o], custody'[o]) \/ PaysBuyer(custody[o], custody'[o])
  /\ \A p \in OrderIds \ {o} : ConsentsOrStays(custody[p], custody'[p])

Agree == \A o \in OrderIds : ConsentsOrStays(custody[o], custody'[o])

Next ==
  /\ custody' \in [OrderIds -> CustodyRecord]
  /\ \/ \E o \in OrderIds : Lock(o) \/ Settle(o)
     \/ Agree

Spec == Init /\ [][Next]_custody
=============================================================================
