--------------------------- MODULE EscrowContract ---------------------------
(***************************************************************************)
(* The contract SmartAssetEscrow (Blockchain/contracts/                    *)
(* SmartAssetEscrow.sol): one action per external function.                *)
(*                                                                         *)
(* releaseToSeller and refundToBuyer hand control to the payee in the      *)
(* middle of the function (`call{value: ...}`), so each of them is two     *)
(* steps: the part up to the transfer, then the payee's answer.  Between   *)
(* them a payee with code may call back every function that is not         *)
(* nonReentrant.  A payee that fails reverts the whole transaction, its    *)
(* own calls included: `committed' is the storage of the last completed    *)
(* transaction.                                                            *)
(***************************************************************************)
EXTENDS Integers, FiniteSets, Totals

CONSTANTS
  OrderIds,      \* keys of the mapping `orders'
  Accounts,      \* addresses that take part
  Contracts,     \* the accounts with code: they may call back or refuse ETH
  Zero,          \* address(0)
  InitialOwner,  \* the constructor's argument, the platform relayer
  Values         \* the values msg.value takes

ASSUME ConstantsAssumption ==
  /\ IsFiniteSet(OrderIds)      \* the keys are 256 bits wide
  /\ Contracts \subseteq Accounts
  /\ InitialOwner \in Accounts
  /\ Zero \notin Accounts
  /\ Values \subseteq Nat

VARIABLES
  orders,     \* the mapping `orders'
  owner,      \* Ownable's _owner
  held,       \* address(this).balance
  paid,       \* wei the contract has transferred for an order, per party
  guard,      \* ReentrancyGuard: the order being settled, or {}
  committed   \* storage and balances after the last completed transaction

vars == <<orders, owner, held, paid, guard, committed>>

Status == {"None", "PaymentLocked", "InTransit", "InInspection", "Delivered",
           "Accepted", "Disputed", "ReleasedToSeller", "RefundedToBuyer"}
Settled == {"ReleasedToSeller", "RefundedToBuyer"}

\* Which of the timestamps of an order are set.
Stamp == {"createdAt", "shippedAt", "deliveredAt", "acceptedAt", "disputedAt",
          "resolvedAt"}

\* The zero value of a mapping entry: an order that was never created.
NoOrder == [status |-> "None", buyer |-> Zero, seller |-> Zero, amount |-> 0,
            stamps |-> {}]

EscrowOrder ==
  {NoOrder} \cup
  [status: Status \ {"None"}, buyer: Accounts, seller: Accounts,
   amount: Nat \ {0}, stamps: SUBSET Stamp]

Unpaid == [seller |-> 0, buyer |-> 0]

Storage == [orders |-> orders, owner |-> owner, held |-> held, paid |-> paid]

(***************************************************************************)
(* The type invariant: an order either was never created or has two real   *)
(* parties and an amount, in the storage and in the snapshot alike, and at *)
(* most one order is being settled.                                        *)
(***************************************************************************)
StorageType ==
  [orders: [OrderIds -> EscrowOrder], owner: Accounts \cup {Zero}, held: Int,
   paid: [OrderIds -> [seller: Nat, buyer: Nat]]]

TypeOK ==
  /\ Storage \in StorageType
  /\ committed \in StorageType
  /\ guard = {} \/ \E o \in OrderIds : guard = {o}

Init ==
  /\ orders = [o \in OrderIds |-> NoOrder]
  /\ owner = InitialOwner
  /\ held = 0
  /\ paid = [o \in OrderIds |-> Unpaid]
  /\ guard = {}
  /\ committed = Storage

-----------------------------------------------------------------------------
(***************************************************************************)
(* Transactions.                                                           *)
(***************************************************************************)
NonReentrant == guard = {}

Payee(o) == IF orders[o].status = "ReleasedToSeller" THEN orders[o].seller
                                                     ELSE orders[o].buyer

\* Who may be msg.sender now: anybody in a transaction of its own, and
\* contracts while a payee with code holds control.
Callers ==
  IF guard = {} THEN Accounts
  ELSE IF \E o \in guard : Payee(o) \in Contracts THEN Contracts ELSE {}

\* A call made in a transaction of its own commits with it; a nested one
\* waits for the transaction it is nested in.
Commit == committed' = IF guard = {} THEN Storage' ELSE committed

\* The storage changes of a call that moves no ETH.
Update(o, record) ==
  /\ orders' = [orders EXCEPT ![o] = record]
  /\ UNCHANGED <<owner, held, paid, guard>>
  /\ Commit

Moved(r, status, stamps) == [r EXCEPT !.status = status, !.stamps = @ \cup stamps]

Advance(o, status, stamps) == Update(o, Moved(orders[o], status, stamps))

-----------------------------------------------------------------------------
(***************************************************************************)
(* Funding.                                                                *)
(***************************************************************************)
StoreOverwriting(o, buyer, seller, value) ==
  /\ NonReentrant
  /\ value > 0
  /\ seller # Zero
  /\ seller # buyer
  /\ orders' = [orders EXCEPT ![o] =
       [status |-> "PaymentLocked", buyer |-> buyer, seller |-> seller,
        amount |-> value, stamps |-> {"createdAt"}]]
  /\ held' = held + value
  /\ UNCHANGED <<owner, paid, guard>>
  /\ Commit

Store(o, buyer, seller, value) ==
  /\ NonReentrant
  /\ value > 0
  /\ seller # Zero
  /\ seller # buyer
  /\ orders[o].status = "None"
  /\ orders' = [orders EXCEPT ![o] =
       [status |-> "PaymentLocked", buyer |-> buyer, seller |-> seller,
        amount |-> value, stamps |-> {"createdAt"}]]
  /\ held' = held + value
  /\ UNCHANGED <<owner, paid, guard>>
  /\ Commit

Deposit(sender, o, seller, value) == Store(o, sender, seller, value)

DepositOnBehalf(sender, o, buyer, seller, value) ==
  /\ sender = owner
  /\ buyer # Zero
  /\ Store(o, buyer, seller, value)

-----------------------------------------------------------------------------
(***************************************************************************)
(* The lifecycle calls.  None of them is nonReentrant.                     *)
(***************************************************************************)
RecordShipment(sender, o) ==
  /\ orders[o].status = "PaymentLocked"
  /\ sender \in {orders[o].seller, owner}
  /\ Advance(o, "InTransit", {"shippedAt"})

ConfirmInspectionAnytime(sender, o) ==
  /\ sender = owner
  /\ orders[o].status # "None"
  /\ Advance(o, "InInspection", {})

ConfirmInspection(sender, o) ==
  /\ sender = owner
  /\ orders[o].status \in {"PaymentLocked", "InTransit"}
  /\ Advance(o, "InInspection", {})

ConfirmDelivery(sender, o) ==
  /\ orders[o].status \in {"InTransit", "InInspection"}
  /\ sender = orders[o].buyer
  /\ Advance(o, "Delivered", {"deliveredAt"})

AcceptAssetAnytime(sender, o) ==
  /\ orders[o].status \notin {"None"} \cup Settled
  /\ sender = orders[o].buyer
  /\ Advance(o, "Accepted", {"acceptedAt"})

AcceptAsset(sender, o) ==
  /\ orders[o].status = "Delivered"
  /\ sender = orders[o].buyer
  /\ Advance(o, "Accepted", {"acceptedAt"})

OpenDispute(sender, o) ==
  /\ orders[o].status \in {"PaymentLocked", "InTransit", "InInspection", "Delivered"}
  /\ sender \in {orders[o].buyer, orders[o].seller}
  /\ Advance(o, "Disputed", {"disputedAt"})

-----------------------------------------------------------------------------
(***************************************************************************)
(* Settlement.  The status is final before the ETH leaves, and the order   *)
(* stays in `guard' until the payee has answered.                          *)
(***************************************************************************)
BeginSettlement(o, status, party) ==
  /\ orders' = [orders EXCEPT ![o] = Moved(@, status, {"resolvedAt"})]
  /\ held' = held - orders[o].amount
  /\ paid' = [paid EXCEPT ![o][party] = @ + orders[o].amount]
  /\ guard' = {o}
  /\ UNCHANGED <<owner, committed>>

ReleaseOnDelivery(sender, o) ==
  /\ NonReentrant
  /\ orders[o].status \in {"Delivered", "Accepted"}
  /\ sender = owner
  /\ BeginSettlement(o, "ReleasedToSeller", "seller")

ReleaseToSeller(sender, o) ==
  /\ NonReentrant
  /\ orders[o].status = "Accepted"
  /\ sender = owner
  /\ BeginSettlement(o, "ReleasedToSeller", "seller")

RefundToBuyer(sender, o) ==
  /\ NonReentrant
  /\ orders[o].status \notin {"None"} \cup Settled
  /\ sender = owner
  /\ BeginSettlement(o, "RefundedToBuyer", "buyer")

\* `success': the transaction, with the calls nested in it, is complete.
PayeeAccepts(o) ==
  /\ o \in guard
  /\ guard' = {}
  /\ committed' = Storage
  /\ UNCHANGED <<orders, owner, held, paid>>

PayeeRejectionIgnored(o) ==
  /\ o \in guard
  /\ Payee(o) \in Contracts
  /\ held' = committed.held
  /\ paid' = committed.paid
  /\ guard' = {}
  /\ UNCHANGED <<orders, owner>>
  /\ committed' = Storage'

\* require(success) fails: everything since the transaction began is undone.
\* A transfer to an account without code cannot fail.
PayeeRejects(o) ==
  /\ o \in guard
  /\ Payee(o) \in Contracts
  /\ orders' = committed.orders
  /\ owner' = committed.owner
  /\ held' = committed.held
  /\ paid' = committed.paid
  /\ guard' = {}
  /\ UNCHANGED committed

-----------------------------------------------------------------------------
(***************************************************************************)
(* OpenZeppelin's Ownable, which the contract inherits.                    *)
(***************************************************************************)
SetOwner(sender, account) ==
  /\ sender = owner
  /\ owner' = account
  /\ UNCHANGED <<orders, held, paid, guard>>
  /\ Commit

TransferOwnership(sender, account) == account # Zero /\ SetOwner(sender, account)
RenounceOwnership(sender) == SetOwner(sender, Zero)

-----------------------------------------------------------------------------
Fund(sender) ==
  \E o \in OrderIds, seller \in Accounts \cup {Zero}, value \in Values :
    \/ Deposit(sender, o, seller, value)
    \/ \E buyer \in Accounts \cup {Zero} :
         DepositOnBehalf(sender, o, buyer, seller, value)

Handle(sender, o) ==
  \/ RecordShipment(sender, o)
  \/ ConfirmInspection(sender, o)
  \/ ConfirmDelivery(sender, o)
  \/ AcceptAsset(sender, o)
  \/ OpenDispute(sender, o)
  \/ ReleaseToSeller(sender, o)
  \/ RefundToBuyer(sender, o)

Own(sender) ==
  \/ \E account \in Accounts \cup {Zero} : TransferOwnership(sender, account)
  \/ RenounceOwnership(sender)

Next ==
  \/ \E sender \in Callers : Fund(sender) \/ Own(sender)
  \/ \E sender \in Callers, o \in OrderIds : Handle(sender, o)
  \/ \E o \in OrderIds : PayeeAccepts(o) \/ PayeeRejects(o)

Spec == Init /\ [][Next]_vars

-----------------------------------------------------------------------------
(***************************************************************************)
(* Properties.                                                             *)
(***************************************************************************)

\* The money that left the escrow for an order is exactly what its status
\* says: its whole amount, once, to the seller of a released order or to the
\* buyer of a refunded one, and nothing before, even while a payee is calling
\* back and after a transfer that failed.
PaidIs(order, transfers) ==
  transfers = [seller |-> IF order.status = "ReleasedToSeller" THEN order.amount ELSE 0,
               buyer  |-> IF order.status = "RefundedToBuyer" THEN order.amount ELSE 0]

PaidExactlyOnce == \A o \in OrderIds : PaidIs(orders[o], paid[o])

\* The contract's balance always covers every order not settled yet: it is
\* their sum, so no settlement spends the deposit of another order.
Owed(book) ==
  [o \in OrderIds |-> IF book[o].status \in Settled THEN 0 ELSE book[o].amount]

Solvent == held = Total(Owed(orders))

\* "Opens a dispute ..., freezing release until resolved": the money of an
\* order that was ever disputed never reaches the seller, and the order never
\* returns to the lifecycle; the seller is paid only for an order the buyer
\* both received and accepted.
DisputeFreezesRelease ==
  \A o \in OrderIds :
    /\ "disputedAt" \in orders[o].stamps =>
         orders[o].status \in {"Disputed", "RefundedToBuyer"}
    /\ paid[o].seller > 0 => {"deliveredAt", "acceptedAt"} \subseteq orders[o].stamps

\* A completed transaction never changes the terms (buyer, seller, amount) of
\* an order that existed before it, nor anything of an order that was settled.
TermsKept(c, d) ==
  /\ c.status # "None" =>
       /\ d.status # "None"
       /\ <<d.buyer, d.seller, d.amount>> = <<c.buyer, c.seller, c.amount>>
  /\ c.status \in Settled => d = c

TermsAreFinal ==
  [][\A o \in OrderIds : TermsKept(committed.orders[o], committed'.orders[o])]_vars

(***************************************************************************)
(* The contract implements EscrowCustody: who holds the money of an order  *)
(* is read off the transfers made, what its parties agreed off its status. *)
(***************************************************************************)
CustodyOf(order, transfers) ==
  [holder |-> IF order.status = "None" THEN "nobody"
              ELSE IF transfers.seller > 0 THEN "seller"
              ELSE IF transfers.buyer > 0 THEN "buyer" ELSE "escrow",
   stage |-> IF "acceptedAt" \in order.stamps THEN "accepted"
             ELSE IF "disputedAt" \in order.stamps THEN "disputed" ELSE "open",
   buyer |-> order.buyer, seller |-> order.seller, amount |-> order.amount]

custodyBar == [o \in OrderIds |-> CustodyOf(committed.orders[o], committed.paid[o])]

Custody == INSTANCE EscrowCustody WITH custody <- custodyBar, Nobody <- Zero

\* Every completed transaction is a step of EscrowCustody or changes no
\* custody: the payee's re-entrant calls and a failed transfer show nothing else.
ImplementsCustody == Custody!Spec
=============================================================================
