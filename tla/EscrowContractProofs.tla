------------------------ MODULE EscrowContractProofs ------------------------
(***************************************************************************)
(* Theorems about EscrowContract, for any orders, accounts and values.     *)
(*                                                                         *)
(* The safety invariants are not inductive: a payee that rejects a         *)
(* transfer brings the snapshot back, so the snapshot must satisfy them    *)
(* too, and the storage must stay related to the snapshot while control is *)
(* with the payee.  IInv says both.                                        *)
(***************************************************************************)
EXTENDS EscrowContract, TotalsProofs

Live(r) == r.status \notin {"None"} \cup Settled

SameTerms(c, d) ==
  d.buyer = c.buyer /\ d.seller = c.seller /\ d.amount = c.amount

\* The stamps an order carries tell how far it got, whatever came later.
StampsFit(r) ==
  /\ r.status = "None" => r.stamps = {}
  /\ r.status \in {"Delivered", "Accepted", "ReleasedToSeller"} => "deliveredAt" \in r.stamps
  /\ r.status \in {"Accepted", "ReleasedToSeller"} => "acceptedAt" \in r.stamps
  /\ "acceptedAt" \in r.stamps =>
       r.status \in {"Accepted", "ReleasedToSeller", "RefundedToBuyer"}
  /\ "disputedAt" \in r.stamps => r.status \in {"Disputed", "RefundedToBuyer"}
  /\ ~({"acceptedAt", "disputedAt"} \subseteq r.stamps)

Sound(r, p) == PaidIs(r, p) /\ StampsFit(r)

\* What a transaction may have done so far to an order it is not settling,
\* and to the one it is.
Evolves(c, d) ==
  \/ d = c
  \/ Live(c) /\ Live(d) /\ SameTerms(c, d) /\ c.stamps \subseteq d.stamps

Settles(c, d) ==
  /\ Live(c)
  /\ d.status \in Settled
  /\ SameTerms(c, d)
  /\ d.stamps = c.stamps \cup {"resolvedAt"}
  /\ d.status = "ReleasedToSeller" => c.status = "Accepted"

SoundNow == \A o \in OrderIds : Sound(orders[o], paid[o])
SoundBefore == \A o \in OrderIds : Sound(committed.orders[o], committed.paid[o])

InTransaction ==
  /\ guard = {} => committed = Storage
  /\ \A o \in OrderIds :
       IF o \in guard THEN Settles(committed.orders[o], orders[o])
                      ELSE Evolves(committed.orders[o], orders[o])
  /\ \A o \in OrderIds : o \notin guard => paid[o] = committed.paid[o]

IInv == TypeOK /\ SoundNow /\ SoundBefore /\ InTransaction

-----------------------------------------------------------------------------
(***************************************************************************)
(* Records.                                                                *)
(***************************************************************************)
LiveOrder == [status: Status \ {"None"}, buyer: Accounts, seller: Accounts,
              amount: Nat \ {0}, stamps: SUBSET Stamp]

\* An order that was created is a full record, not the mapping's zero value.
LEMMA CreatedType ==
  ASSUME NEW r \in EscrowOrder, r.status # "None"
  PROVE  r \in LiveOrder
BY DEF EscrowOrder, NoOrder, LiveOrder

\* Moving a created order on keeps its type and its terms.
LEMMA AdvancedRecord ==
  ASSUME NEW r \in EscrowOrder, r.status # "None",
         NEW status \in Status \ {"None"}, NEW stamps \in SUBSET Stamp
  PROVE  /\ Moved(r, status, stamps) \in EscrowOrder
         /\ SameTerms(r, Moved(r, status, stamps))
         /\ Moved(r, status, stamps).status = status
         /\ Moved(r, status, stamps).stamps = r.stamps \cup stamps
<1>1. r \in LiveOrder
  BY CreatedType
<1>2. Moved(r, status, stamps) \in LiveOrder
  BY <1>1 DEF LiveOrder, Moved
<1>3. Moved(r, status, stamps) \in EscrowOrder
  BY <1>2 DEF LiveOrder, EscrowOrder
<1>4. /\ SameTerms(r, Moved(r, status, stamps))
      /\ Moved(r, status, stamps).status = status
      /\ Moved(r, status, stamps).stamps = r.stamps \cup stamps
  BY <1>1 DEF LiveOrder, Moved, SameTerms
<1> QED
  BY <1>3, <1>4

LEMMA EvolvesTransitive ==
  ASSUME NEW c, NEW d, NEW e, Evolves(c, d), Evolves(d, e)
  PROVE  Evolves(c, e)
BY DEF Evolves, Live, SameTerms

-----------------------------------------------------------------------------
(***************************************************************************)
(* Calls that move no ETH, in a transaction of their own or nested.        *)
(***************************************************************************)

\* Replacing one unsettled order by a sound later version of it preserves the
\* invariant, whether the change commits at once or waits for the payee.
LEMMA UpdateStep ==
  ASSUME IInv, NEW o \in OrderIds, NEW r \in EscrowOrder, Update(o, r),
         Sound(r, paid[o]), Live(orders[o]), Evolves(orders[o], r)
  PROVE  IInv'
<1> USE DEF IInv
<1>1. orders' = [orders EXCEPT ![o] = r] /\ UNCHANGED <<owner, held, paid, guard>>
  BY DEF Update
<1>2. committed' = IF guard = {} THEN Storage' ELSE committed
  BY <1>1 DEF Update, Commit
<1>3. o \notin guard
  BY DEF InTransaction, Settles, Live
<1>4. orders \in [OrderIds -> EscrowOrder]
  BY DEF TypeOK, Storage, StorageType
<1>5. TypeOK'
  <2>1. Storage' \in StorageType
    BY <1>1, <1>4 DEF TypeOK, Storage, StorageType
  <2> QED BY <1>1, <1>2, <2>1 DEF TypeOK
<1>6. SoundNow'
  BY <1>1, <1>4 DEF SoundNow
<1>7. SoundBefore'
  <2>1. CASE guard = {}
    BY <1>2, <1>6, <2>1 DEF SoundBefore, SoundNow, Storage
  <2>2. CASE guard # {}
    BY <1>2, <2>2 DEF SoundBefore
  <2> QED BY <2>1, <2>2
<1>8. InTransaction'
  <2>1. CASE guard = {}
    BY <1>1, <1>2, <2>1 DEF InTransaction, Storage, Evolves
  <2>2. CASE guard # {}
    <3>1. committed' = committed
      BY <1>2, <2>2
    <3>2. Evolves(committed.orders[o], r)
      BY <1>3, EvolvesTransitive DEF InTransaction
    <3>3. ASSUME NEW q \in OrderIds
          PROVE  IF q \in guard' THEN Settles(committed'.orders[q], orders'[q])
                                 ELSE Evolves(committed'.orders[q], orders'[q])
      BY <1>1, <1>3, <1>4, <3>1, <3>2 DEF InTransaction
    <3> QED BY <1>1, <2>2, <3>1, <3>3 DEF InTransaction
  <2> QED BY <2>1, <2>2
<1> QED BY <1>5, <1>6, <1>7, <1>8

\* One move of the lifecycle, given that the new status fits the stamps.
LEMMA AdvanceStep ==
  ASSUME IInv, NEW o \in OrderIds, Live(orders[o]),
         NEW status \in Status \ ({"None"} \cup Settled), NEW stamps \in SUBSET Stamp,
         Advance(o, status, stamps),
         StampsFit(Moved(orders[o], status, stamps))
  PROVE  IInv'
<1> DEFINE r == Moved(orders[o], status, stamps)
<1>1. orders[o] \in EscrowOrder /\ orders[o].status # "None"
  BY DEF IInv, TypeOK, Storage, StorageType, Live
<1>2. /\ r \in EscrowOrder
      /\ SameTerms(orders[o], r)
      /\ r.status = status
      /\ r.stamps = orders[o].stamps \cup stamps
  BY <1>1, AdvancedRecord DEF Status
<1>3. Sound(r, paid[o])
  <2>1. PaidIs(orders[o], paid[o])
    BY DEF IInv, SoundNow, Sound
  <2>2. PaidIs(r, paid[o])
    BY <1>2, <2>1 DEF PaidIs, Live, Settled
  <2> QED BY <2>2 DEF Sound
<1>4. Evolves(orders[o], r)
  BY <1>2 DEF Evolves, Live
<1>5. Update(o, r)
  BY DEF Advance
<1> QED BY <1>2, <1>3, <1>4, <1>5, UpdateStep

-----------------------------------------------------------------------------
(***************************************************************************)
(* Funding, settlement and ownership.                                      *)
(***************************************************************************)
LEMMA StoreStep ==
  ASSUME IInv, NEW o \in OrderIds, NEW buyer \in Accounts,
         NEW seller \in Accounts \cup {Zero}, NEW value \in Values,
         Store(o, buyer, seller, value)
  PROVE  IInv'
<1> DEFINE r == [status |-> "PaymentLocked", buyer |-> buyer, seller |-> seller,
                 amount |-> value, stamps |-> {"createdAt"}]
<1>1. /\ guard = {} /\ orders[o].status = "None"
      /\ orders' = [orders EXCEPT ![o] = r]
      /\ held' = held + value
      /\ UNCHANGED <<owner, paid, guard>>
      /\ committed' = Storage'
  BY DEF Store, NonReentrant, Commit
<1>2. r \in EscrowOrder
  BY ConstantsAssumption DEF Store, EscrowOrder, Status, Stamp
<1>3. orders \in [OrderIds -> EscrowOrder] /\ held \in Int
  BY DEF IInv, TypeOK, Storage, StorageType
<1>4. TypeOK'
  <2>1. held' \in Int
    BY <1>1, <1>3, ConstantsAssumption
  <2>2. Storage' \in StorageType
    BY <1>1, <1>2, <1>3, <2>1 DEF IInv, TypeOK, Storage, StorageType
  <2> QED BY <1>1, <2>2 DEF IInv, TypeOK
<1>5. SoundNow'
  <2>1. Sound(r, paid[o])
    BY <1>1 DEF IInv, SoundNow, Sound, PaidIs, StampsFit
  <2> HIDE DEF r
  <2> QED BY <1>1, <1>3, <2>1 DEF IInv, SoundNow
<1>6. SoundBefore'
  BY <1>1, <1>5 DEF SoundNow, SoundBefore, Storage
<1>7. InTransaction'
  BY <1>1 DEF InTransaction, Storage, Evolves
<1> QED BY <1>4, <1>5, <1>6, <1>7 DEF IInv

LEMMA BeginSettlementStep ==
  ASSUME IInv, NEW o \in OrderIds, NonReentrant, Live(orders[o]),
         NEW status, NEW party,
         \/ status = "RefundedToBuyer" /\ party = "buyer"
         \/ status = "ReleasedToSeller" /\ party = "seller"
            /\ orders[o].status = "Accepted",
         BeginSettlement(o, status, party)
  PROVE  IInv'
<1> DEFINE r == Moved(orders[o], status, {"resolvedAt"})
           p == [paid[o] EXCEPT ![party] = @ + orders[o].amount]
<1>1. /\ orders' = [orders EXCEPT ![o] = r]
      /\ held' = held - orders[o].amount
      /\ guard' = {o}
      /\ UNCHANGED <<owner, committed>>
  BY DEF BeginSettlement
<1>2. paid' = [paid EXCEPT ![o] = p]
  BY DEF BeginSettlement
<1>3. /\ orders \in [OrderIds -> EscrowOrder]
      /\ paid \in [OrderIds -> [seller: Nat, buyer: Nat]]
      /\ held \in Int
  BY DEF IInv, TypeOK, Storage, StorageType
<1>4. /\ r \in EscrowOrder
      /\ SameTerms(orders[o], r)
      /\ r.status = status
      /\ r.stamps = orders[o].stamps \cup {"resolvedAt"}
  BY <1>3, AdvancedRecord DEF Live, Status, Stamp
<1>5. orders[o].amount \in Nat
  BY <1>3, CreatedType DEF Live, LiveOrder
<1>6. paid[o] = [seller |-> 0, buyer |-> 0]
  BY DEF IInv, SoundNow, Sound, PaidIs, Live, Settled
<1>7. p = [seller |-> IF status = "ReleasedToSeller" THEN orders[o].amount ELSE 0,
           buyer  |-> IF status = "RefundedToBuyer" THEN orders[o].amount ELSE 0]
  BY <1>5, <1>6
<1>8. Sound(r, p)
  <2>1. PaidIs(r, p)
    BY <1>4, <1>7 DEF PaidIs, SameTerms
  <2>2. StampsFit(orders[o])
    BY DEF IInv, SoundNow, Sound
  <2>3. StampsFit(r)
    BY <1>4, <2>2 DEF StampsFit, Live, Settled
  <2> QED BY <2>1, <2>3 DEF Sound
<1>9. guard = {} /\ committed = Storage
  BY DEF NonReentrant, IInv, InTransaction
<1> HIDE DEF r, p
<1>10. TypeOK'
  <2>1. held' \in Int
    BY <1>1, <1>3, <1>5
  <2>2. p \in [seller: Nat, buyer: Nat]
    BY <1>5, <1>7
  <2>3. Storage' \in StorageType
    BY <1>1, <1>2, <1>3, <1>4, <2>1, <2>2 DEF IInv, TypeOK, Storage, StorageType
  <2> QED BY <1>1, <2>3 DEF IInv, TypeOK
<1>11. SoundNow'
  BY <1>1, <1>2, <1>3, <1>8 DEF IInv, SoundNow
<1>12. SoundBefore'
  BY <1>1 DEF IInv, SoundBefore
<1>13. InTransaction'
  <2>1. committed.orders = orders /\ committed.paid = paid
    BY <1>9 DEF Storage
  <2>2. Settles(orders[o], r)
    BY <1>4 DEF Settles, Settled
  <2>3. ASSUME NEW q \in OrderIds
        PROVE  IF q \in guard' THEN Settles(committed'.orders[q], orders'[q])
                               ELSE Evolves(committed'.orders[q], orders'[q])
    BY <1>1, <1>3, <2>1, <2>2 DEF Evolves
  <2>4. \A q \in OrderIds : q \notin guard' => paid'[q] = committed'.paid[q]
    BY <1>1, <1>2, <1>3, <2>1
  <2> QED BY <1>1, <2>3, <2>4 DEF InTransaction
<1> QED BY <1>10, <1>11, <1>12, <1>13 DEF IInv

LEMMA PayeeStep ==
  ASSUME IInv, NEW o \in OrderIds, PayeeAccepts(o) \/ PayeeRejects(o)
  PROVE  IInv'
<1>1. CASE PayeeAccepts(o)
  <2>1. TypeOK' /\ SoundNow' /\ SoundBefore'
    BY <1>1 DEF PayeeAccepts, IInv, TypeOK, SoundNow, SoundBefore, Storage
  <2>2. InTransaction'
    BY <1>1 DEF PayeeAccepts, InTransaction, Storage, Evolves
  <2> QED BY <2>1, <2>2 DEF IInv
<1>2. CASE PayeeRejects(o)
  <2>1. committed \in StorageType
    BY DEF IInv, TypeOK
  <2>2. Storage' = committed
    BY <1>2, <2>1 DEF PayeeRejects, Storage, StorageType
  <2>3. TypeOK' /\ SoundNow' /\ SoundBefore'
    BY <1>2, <2>1, <2>2 DEF PayeeRejects, IInv, TypeOK, SoundNow, SoundBefore
  <2>4. InTransaction'
    BY <1>2, <2>2 DEF PayeeRejects, InTransaction, Evolves
  <2> QED BY <2>3, <2>4 DEF IInv
<1> QED BY <1>1, <1>2

LEMMA SetOwnerStep ==
  ASSUME IInv, NEW sender, NEW account \in Accounts \cup {Zero},
         SetOwner(sender, account)
  PROVE  IInv'
<1>1. /\ UNCHANGED <<orders, held, paid, guard>>
      /\ owner' = account
      /\ committed' = IF guard = {} THEN Storage' ELSE committed
  BY DEF SetOwner, Commit
<1>2. TypeOK'
  BY <1>1 DEF IInv, TypeOK, Storage, StorageType
<1>3. SoundNow' /\ SoundBefore'
  BY <1>1 DEF IInv, SoundNow, SoundBefore, Storage
<1>4. InTransaction'
  BY <1>1 DEF IInv, InTransaction, Storage, Evolves
<1> QED BY <1>2, <1>3, <1>4 DEF IInv

-----------------------------------------------------------------------------
(***************************************************************************)
(* The invariant.                                                          *)
(***************************************************************************)
LEMMA InitIInv == Init => IInv
<1> SUFFICES ASSUME Init PROVE IInv
  OBVIOUS
<1>1. TypeOK
  BY ConstantsAssumption DEF Init, TypeOK, Storage, StorageType, EscrowOrder, Unpaid
<1>2. SoundNow /\ SoundBefore
  BY DEF Init, SoundNow, SoundBefore, Sound, PaidIs, StampsFit, Storage, NoOrder, Unpaid
<1>3. InTransaction
  BY DEF Init, InTransaction, Storage, Evolves
<1> QED BY <1>1, <1>2, <1>3 DEF IInv

LEMMA CallersAreAccounts == \A sender \in Callers : sender \in Accounts
BY ConstantsAssumption DEF Callers

LEMMA HandleStep ==
  ASSUME IInv, NEW sender \in Callers, NEW o \in OrderIds, Handle(sender, o)
  PROVE  IInv'
<1>1. StampsFit(orders[o]) /\ orders[o] \in EscrowOrder
  BY DEF IInv, SoundNow, Sound, TypeOK, Storage, StorageType
<1>2. ASSUME Live(orders[o]), NEW status \in Status \ {"None"}, NEW stamps \in SUBSET Stamp
      PROVE  /\ Moved(orders[o], status, stamps).status = status
             /\ Moved(orders[o], status, stamps).stamps = orders[o].stamps \cup stamps
  BY <1>1, <1>2, AdvancedRecord DEF Live
<1>3. CASE RecordShipment(sender, o)
  <2>1. Live(orders[o]) /\ Advance(o, "InTransit", {"shippedAt"})
    BY <1>3 DEF RecordShipment, Live, Settled
  <2>2. StampsFit(Moved(orders[o], "InTransit", {"shippedAt"}))
    BY <1>1, <1>2, <1>3, <2>1 DEF RecordShipment, StampsFit, Status, Stamp
  <2> QED BY <2>1, <2>2, AdvanceStep DEF Status, Settled, Stamp
<1>4. CASE ConfirmInspection(sender, o)
  <2>1. Live(orders[o]) /\ Advance(o, "InInspection", {})
    BY <1>4 DEF ConfirmInspection, Live, Settled
  <2>2. StampsFit(Moved(orders[o], "InInspection", {}))
    BY <1>1, <1>2, <1>4, <2>1 DEF ConfirmInspection, StampsFit, Status, Stamp
  <2> QED BY <2>1, <2>2, AdvanceStep DEF Status, Settled, Stamp
<1>5. CASE ConfirmDelivery(sender, o)
  <2>1. Live(orders[o]) /\ Advance(o, "Delivered", {"deliveredAt"})
    BY <1>5 DEF ConfirmDelivery, Live, Settled
  <2>2. StampsFit(Moved(orders[o], "Delivered", {"deliveredAt"}))
    BY <1>1, <1>2, <1>5, <2>1 DEF ConfirmDelivery, StampsFit, Status, Stamp
  <2> QED BY <2>1, <2>2, AdvanceStep DEF Status, Settled, Stamp
<1>6. CASE AcceptAsset(sender, o)
  <2>1. Live(orders[o]) /\ Advance(o, "Accepted", {"acceptedAt"})
    BY <1>6 DEF AcceptAsset, Live, Settled
  <2>2. StampsFit(Moved(orders[o], "Accepted", {"acceptedAt"}))
    BY <1>1, <1>2, <1>6, <2>1 DEF AcceptAsset, StampsFit, Status, Stamp
  <2> QED BY <2>1, <2>2, AdvanceStep DEF Status, Settled, Stamp
<1>7. CASE OpenDispute(sender, o)
  <2>1. Live(orders[o]) /\ Advance(o, "Disputed", {"disputedAt"})
    BY <1>7 DEF OpenDispute, Live, Settled
  <2>2. StampsFit(Moved(orders[o], "Disputed", {"disputedAt"}))
    BY <1>1, <1>2, <1>7, <2>1 DEF OpenDispute, StampsFit, Status, Stamp
  <2> QED BY <2>1, <2>2, AdvanceStep DEF Status, Settled, Stamp
<1>8. CASE ReleaseToSeller(sender, o)
  BY <1>8, BeginSettlementStep DEF ReleaseToSeller, Live, Settled
<1>9. CASE RefundToBuyer(sender, o)
  BY <1>9, BeginSettlementStep DEF RefundToBuyer, Live
<1> QED BY <1>3, <1>4, <1>5, <1>6, <1>7, <1>8, <1>9 DEF Handle

LEMMA FundStep ==
  ASSUME IInv, NEW sender \in Callers, Fund(sender)
  PROVE  IInv'
<1>1. PICK o \in OrderIds, seller \in Accounts \cup {Zero}, value \in Values :
        \/ Deposit(sender, o, seller, value)
        \/ \E buyer \in Accounts \cup {Zero} :
             DepositOnBehalf(sender, o, buyer, seller, value)
  BY DEF Fund
<1>2. CASE Deposit(sender, o, seller, value)
  BY <1>2, CallersAreAccounts, StoreStep DEF Deposit
<1>3. ASSUME NEW buyer \in Accounts \cup {Zero},
             DepositOnBehalf(sender, o, buyer, seller, value)
      PROVE  IInv'
  BY <1>3, StoreStep DEF DepositOnBehalf
<1> QED BY <1>1, <1>2, <1>3

LEMMA NextIInv == IInv /\ [Next]_vars => IInv'
<1> SUFFICES ASSUME IInv, [Next]_vars PROVE IInv'
  OBVIOUS
<1>1. ASSUME NEW sender \in Callers, Own(sender) PROVE IInv'
  BY <1>1, SetOwnerStep DEF Own, TransferOwnership, RenounceOwnership
<1>2. CASE UNCHANGED vars
  BY <1>2 DEF vars, IInv, TypeOK, SoundNow, SoundBefore, InTransaction, Storage
<1> QED BY <1>1, <1>2, FundStep, HandleStep, PayeeStep DEF Next

\* The inductive invariant holds in every reachable state.
THEOREM Invariance == Spec => []IInv
BY InitIInv, NextIInv, PTL DEF Spec

\* Every state of the contract is well typed: an order that exists has two
\* real parties and a positive amount, and at most one settlement is open.
THEOREM TypeCorrect == Spec => []TypeOK
<1>1. IInv => TypeOK
  BY DEF IInv
<1> QED BY <1>1, Invariance, PTL

\* The contract pays each order at most once, whole, to the party its status
\* names, whatever the payees do while they hold control.
THEOREM SinglePayment == Spec => []PaidExactlyOnce
<1>1. IInv => PaidExactlyOnce
  BY DEF IInv, SoundNow, Sound, PaidExactlyOnce
<1> QED BY <1>1, Invariance, PTL

\* A disputed order never pays its seller, and a seller is paid only for an
\* order its buyer received and accepted.
THEOREM DisputeFreeze == Spec => []DisputeFreezesRelease
<1>1. IInv => DisputeFreezesRelease
  <2> SUFFICES ASSUME IInv, NEW o \in OrderIds
               PROVE  /\ "disputedAt" \in orders[o].stamps =>
                            orders[o].status \in {"Disputed", "RefundedToBuyer"}
                      /\ paid[o].seller > 0 =>
                            {"deliveredAt", "acceptedAt"} \subseteq orders[o].stamps
    BY DEF DisputeFreezesRelease
  <2>1. PaidIs(orders[o], paid[o]) /\ StampsFit(orders[o])
    BY DEF IInv, SoundNow, Sound
  <2> QED BY <2>1 DEF PaidIs, StampsFit
<1> QED BY <1>1, Invariance, PTL

-----------------------------------------------------------------------------
(***************************************************************************)
(* The balance.  A transfer that fails brings back the balance and the     *)
(* orders of the snapshot, which must therefore agree as well.             *)
(***************************************************************************)
SolventBefore == committed.held = Total(Owed(committed.orders))

SInv == IInv /\ Solvent /\ SolventBefore

Due(r) == IF r.status \in Settled THEN 0 ELSE r.amount

LEMMA DueType == \A r \in EscrowOrder : Due(r) \in Nat
BY DEF EscrowOrder, NoOrder, Due

\* What is owed changes with an order by what is due for it.
LEMMA OwedPut ==
  ASSUME NEW book \in [OrderIds -> EscrowOrder], NEW o \in OrderIds,
         NEW r \in EscrowOrder
  PROVE  /\ Total(Owed(book)) \in Nat
         /\ Total(Owed([book EXCEPT ![o] = r])) = Total(Owed(book)) - Due(book[o]) + Due(r)
<1>1. IsFiniteSet(OrderIds)
  BY ConstantsAssumption
<1>2. Owed(book) \in [OrderIds -> Nat] /\ Owed(book)[o] = Due(book[o]) /\ Due(r) \in Nat
  BY DueType DEF Owed, Due
<1>3. Owed([book EXCEPT ![o] = r]) = [Owed(book) EXCEPT ![o] = Due(r)]
  BY DEF Owed, Due
<1>4. Total(Owed(book)) \in Nat
  BY <1>1, <1>2, TotalType
<1>5. Total([Owed(book) EXCEPT ![o] = Due(r)]) = Total(Owed(book)) - Owed(book)[o] + Due(r)
  BY <1>1, <1>2, TotalPut, Zenon
<1> QED BY <1>2, <1>3, <1>4, <1>5

\* A step that replaces one order and adjusts the balance by what is due.
LEMMA BalanceStep ==
  ASSUME SInv, NEW o \in OrderIds, NEW r \in EscrowOrder,
         orders' = [orders EXCEPT ![o] = r],
         held' = held - Due(orders[o]) + Due(r),
         committed' = committed \/ committed' = Storage'
  PROVE  Solvent' /\ SolventBefore'
<1>1. orders \in [OrderIds -> EscrowOrder]
  BY DEF SInv, IInv, TypeOK, Storage, StorageType
<1>2. Solvent'
  BY <1>1, OwedPut DEF SInv, Solvent
<1>3. CASE committed' = committed
  BY <1>2, <1>3 DEF SInv, SolventBefore
<1>4. CASE committed' = Storage'
  <2>1. committed'.held = held' /\ committed'.orders = orders'
    BY <1>4 DEF Storage
  <2> QED BY <1>2, <2>1 DEF Solvent, SolventBefore
<1> QED BY <1>2, <1>3, <1>4

LEMMA UpdateBalance ==
  ASSUME SInv, NEW o \in OrderIds, orders[o].status # "None",
         orders[o].status \notin Settled,
         NEW status \in Status \ ({"None"} \cup Settled), NEW stamps \in SUBSET Stamp,
         Advance(o, status, stamps)
  PROVE  Solvent' /\ SolventBefore'
<1> DEFINE r == Moved(orders[o], status, stamps)
<1>1. orders[o] \in EscrowOrder
  BY DEF SInv, IInv, TypeOK, Storage, StorageType
<1>2. r \in EscrowOrder /\ SameTerms(orders[o], r) /\ r.status = status
  BY <1>1, AdvancedRecord
<1>3. /\ orders' = [orders EXCEPT ![o] = r] /\ held' = held
      /\ committed' = committed \/ committed' = Storage'
  BY DEF Advance, Update, Commit
<1>4. Due(r) = Due(orders[o]) /\ Due(r) \in Nat
  BY <1>2, DueType DEF Due, SameTerms
<1>5. held' = held - Due(orders[o]) + Due(r)
  BY <1>3, <1>4 DEF SInv, IInv, TypeOK, Storage, StorageType
<1> HIDE DEF r
<1> QED BY <1>2, <1>3, <1>5, BalanceStep

LEMMA StoreBalance ==
  ASSUME SInv, NEW o \in OrderIds, NEW buyer \in Accounts,
         NEW seller \in Accounts \cup {Zero}, NEW value \in Values,
         Store(o, buyer, seller, value)
  PROVE  Solvent' /\ SolventBefore'
<1> DEFINE r == [status |-> "PaymentLocked", buyer |-> buyer, seller |-> seller,
                 amount |-> value, stamps |-> {"createdAt"}]
<1>1. /\ orders[o].status = "None"
      /\ orders' = [orders EXCEPT ![o] = r]
      /\ held' = held + value
      /\ committed' = committed \/ committed' = Storage'
  BY DEF Store, Commit
<1>2. r \in EscrowOrder /\ Due(r) = value /\ value \in Nat
  BY ConstantsAssumption DEF Store, EscrowOrder, Status, Stamp, Due, Settled
<1>3. orders[o] \in EscrowOrder /\ held \in Int
  BY DEF SInv, IInv, TypeOK, Storage, StorageType
<1>4. Due(orders[o]) = 0
  BY <1>1, <1>3 DEF Due, EscrowOrder, NoOrder, Settled
<1>5. held' = held - Due(orders[o]) + Due(r)
  BY <1>1, <1>2, <1>3, <1>4
<1> HIDE DEF r
<1> QED BY <1>1, <1>2, <1>5, BalanceStep

LEMMA SettleBalance ==
  ASSUME SInv, NEW o \in OrderIds, Live(orders[o]), NEW status \in Settled, NEW party,
         BeginSettlement(o, status, party)
  PROVE  Solvent' /\ SolventBefore'
<1> DEFINE r == Moved(orders[o], status, {"resolvedAt"})
<1>1. /\ orders' = [orders EXCEPT ![o] = r]
      /\ held' = held - orders[o].amount
      /\ committed' = committed
  BY DEF BeginSettlement
<1>2. orders[o] \in EscrowOrder /\ held \in Int
  BY DEF SInv, IInv, TypeOK, Storage, StorageType
<1>3. r \in EscrowOrder /\ r.status = status
  BY <1>2, AdvancedRecord DEF Live, Status, Stamp, Settled
<1>4. Due(r) = 0 /\ Due(orders[o]) = orders[o].amount /\ Due(orders[o]) \in Nat
  BY <1>2, <1>3, DueType DEF Due, Live
<1>5. held' = held - Due(orders[o]) + Due(r)
  BY <1>1, <1>2, <1>4
<1> HIDE DEF r
<1> QED BY <1>1, <1>3, <1>5, BalanceStep

LEMMA HandleBalance ==
  ASSUME SInv, NEW sender, NEW o \in OrderIds, Handle(sender, o)
  PROVE  Solvent' /\ SolventBefore'
<1> USE DEF Status, Settled, Stamp
<1>1. CASE RecordShipment(sender, o)
  BY <1>1, UpdateBalance DEF RecordShipment
<1>2. CASE ConfirmInspection(sender, o)
  BY <1>2, UpdateBalance DEF ConfirmInspection
<1>3. CASE ConfirmDelivery(sender, o)
  BY <1>3, UpdateBalance DEF ConfirmDelivery
<1>4. CASE AcceptAsset(sender, o)
  BY <1>4, UpdateBalance DEF AcceptAsset
<1>5. CASE OpenDispute(sender, o)
  BY <1>5, UpdateBalance DEF OpenDispute
<1>6. CASE ReleaseToSeller(sender, o)
  BY <1>6, SettleBalance DEF ReleaseToSeller, Live
<1>7. CASE RefundToBuyer(sender, o)
  BY <1>7, SettleBalance DEF RefundToBuyer, Live
<1> QED BY <1>1, <1>2, <1>3, <1>4, <1>5, <1>6, <1>7 DEF Handle

LEMMA FundBalance ==
  ASSUME SInv, NEW sender \in Callers, Fund(sender)
  PROVE  Solvent' /\ SolventBefore'
<1>1. PICK o \in OrderIds, seller \in Accounts \cup {Zero}, value \in Values :
        \/ Deposit(sender, o, seller, value)
        \/ \E buyer \in Accounts \cup {Zero} :
             DepositOnBehalf(sender, o, buyer, seller, value)
  BY DEF Fund
<1>2. CASE Deposit(sender, o, seller, value)
  BY <1>2, CallersAreAccounts, StoreBalance DEF Deposit
<1>3. ASSUME NEW buyer \in Accounts \cup {Zero},
             DepositOnBehalf(sender, o, buyer, seller, value)
      PROVE  Solvent' /\ SolventBefore'
  BY <1>3, StoreBalance DEF DepositOnBehalf
<1> QED BY <1>1, <1>2, <1>3

LEMMA InitBalance == Init => Solvent /\ SolventBefore
<1> SUFFICES ASSUME Init PROVE Solvent /\ SolventBefore
  OBVIOUS
<1>1. /\ Owed(orders) \in [OrderIds -> Nat] /\ \A o \in OrderIds : Owed(orders)[o] = 0
      /\ held = 0 /\ committed.held = held /\ committed.orders = orders
  BY DEF Init, Owed, NoOrder, Settled, Storage
<1> QED BY <1>1, TotalZero DEF Solvent, SolventBefore

LEMMA NextBalance == SInv /\ [Next]_vars => Solvent' /\ SolventBefore'
<1> SUFFICES ASSUME SInv, [Next]_vars PROVE Solvent' /\ SolventBefore'
  OBVIOUS
<1>1. ASSUME NEW sender \in Callers, Own(sender) PROVE Solvent' /\ SolventBefore'
  BY <1>1 DEF Own, TransferOwnership, RenounceOwnership, SetOwner, Commit, SInv, Solvent,
              SolventBefore, Storage
<1>2. ASSUME NEW o \in OrderIds, PayeeAccepts(o) \/ PayeeRejects(o)
      PROVE  Solvent' /\ SolventBefore'
  BY <1>2 DEF PayeeAccepts, PayeeRejects, SInv, Solvent, SolventBefore, Storage
<1>3. CASE UNCHANGED vars
  BY <1>3 DEF vars, SInv, Solvent, SolventBefore
<1> QED BY <1>1, <1>2, <1>3, FundBalance, HandleBalance DEF Next

\* The contract holds, at every moment and with payees calling back or refusing
\* their transfers, exactly what its unsettled orders were funded with.
THEOREM AlwaysSolvent == Spec => []Solvent
<1>1. Init => SInv
  BY InitIInv, InitBalance DEF SInv
<1>2. SInv /\ [Next]_vars => SInv'
  BY NextIInv, NextBalance DEF SInv
<1>3. SInv => Solvent
  BY DEF SInv
<1> QED BY <1>1, <1>2, <1>3, PTL DEF Spec

-----------------------------------------------------------------------------
(***************************************************************************)
(* EscrowContract implements EscrowCustody: what one completed transaction *)
(* does to the orders, that it keeps their terms, and the refinement.      *)
(***************************************************************************)
Creates(c, d) ==
  /\ c.status = "None"
  /\ d.status = "PaymentLocked"
  /\ d.stamps = {"createdAt"}
  /\ d.buyer \in Accounts /\ d.seller \in Accounts /\ d.buyer # d.seller
  /\ d.amount > 0

Others(o) == OrderIds \ {o}

TransactionShape(before, after) ==
  \/ \A o \in OrderIds : Evolves(before[o], after[o])
  \/ \E o \in OrderIds :
       /\ Settles(before[o], after[o])
       /\ \A q \in Others(o) : Evolves(before[q], after[q])
  \/ \E o \in OrderIds :
       /\ Creates(before[o], after[o])
       /\ \A q \in Others(o) : after[q] = before[q]

LEMMA AdvanceShape ==
  ASSUME IInv, NEW o \in OrderIds, Live(orders[o]),
         NEW status \in Status \ ({"None"} \cup Settled), NEW stamps \in SUBSET Stamp,
         Advance(o, status, stamps)
  PROVE  TransactionShape(committed.orders, committed'.orders)
<1> DEFINE r == Moved(orders[o], status, stamps)
<1>1. orders \in [OrderIds -> EscrowOrder]
  BY DEF IInv, TypeOK, Storage, StorageType
<1>2. SameTerms(orders[o], r) /\ r.status = status /\ r.stamps = orders[o].stamps \cup stamps
  BY <1>1, AdvancedRecord DEF Live
<1>3. Evolves(orders[o], r)
  BY <1>2 DEF Evolves, Live
<1>4. orders' = [orders EXCEPT ![o] = r]
  BY DEF Advance, Update
<1>5. committed' = IF guard = {} THEN Storage' ELSE committed
  BY DEF Advance, Update, Commit
<1> HIDE DEF r
<1>6. CASE guard = {}
  <2>1. committed.orders = orders /\ committed'.orders = orders'
    BY <1>5, <1>6 DEF IInv, InTransaction, Storage
  <2>2. \A q \in OrderIds : Evolves(orders[q], orders'[q])
    BY <1>1, <1>3, <1>4 DEF Evolves
  <2> QED BY <2>1, <2>2 DEF TransactionShape
<1>7. CASE guard # {}
  BY <1>5, <1>7 DEF TransactionShape, Evolves
<1> QED BY <1>6, <1>7

LEMMA StoreShape ==
  ASSUME IInv, NEW o \in OrderIds, NEW buyer \in Accounts,
         NEW seller \in Accounts \cup {Zero}, NEW value \in Values,
         Store(o, buyer, seller, value)
  PROVE  TransactionShape(committed.orders, committed'.orders)
<1> DEFINE r == [status |-> "PaymentLocked", buyer |-> buyer, seller |-> seller,
                 amount |-> value, stamps |-> {"createdAt"}]
<1>1. orders \in [OrderIds -> EscrowOrder]
  BY DEF IInv, TypeOK, Storage, StorageType
<1>2. Creates(orders[o], r)
  BY ConstantsAssumption DEF Store, Creates
<1>3. orders' = [orders EXCEPT ![o] = r]
  BY DEF Store
<1> HIDE DEF r
<1>4. committed.orders = orders /\ committed'.orders = orders'
  BY DEF IInv, InTransaction, Store, NonReentrant, Commit, Storage
<1> QED BY <1>1, <1>2, <1>3, <1>4 DEF TransactionShape, Others

LEMMA NextShape == IInv /\ [Next]_vars => TransactionShape(committed.orders, committed'.orders)
<1> SUFFICES ASSUME IInv, [Next]_vars
             PROVE  TransactionShape(committed.orders, committed'.orders)
  OBVIOUS
<1>1. ASSUME committed'.orders = committed.orders
      PROVE  TransactionShape(committed.orders, committed'.orders)
  BY <1>1 DEF TransactionShape, Evolves
<1>2. ASSUME NEW sender \in Callers, Own(sender)
      PROVE  TransactionShape(committed.orders, committed'.orders)
  <2>1. orders' = orders /\ committed' = IF guard = {} THEN Storage' ELSE committed
    BY <1>2 DEF Own, TransferOwnership, RenounceOwnership, SetOwner, Commit
  <2> QED BY <1>1, <2>1 DEF IInv, InTransaction, Storage
<1>3. ASSUME NEW sender \in Callers, Fund(sender)
      PROVE  TransactionShape(committed.orders, committed'.orders)
  BY <1>3, CallersAreAccounts, StoreShape DEF Fund, Deposit, DepositOnBehalf
<1>4. ASSUME NEW sender \in Callers, NEW o \in OrderIds, Handle(sender, o)
      PROVE  TransactionShape(committed.orders, committed'.orders)
  <2>1. CASE RecordShipment(sender, o)
    BY <2>1, AdvanceShape DEF RecordShipment, Live, Status, Settled, Stamp
  <2>2. CASE ConfirmInspection(sender, o)
    BY <2>2, AdvanceShape DEF ConfirmInspection, Live, Status, Settled, Stamp
  <2>3. CASE ConfirmDelivery(sender, o)
    BY <2>3, AdvanceShape DEF ConfirmDelivery, Live, Status, Settled, Stamp
  <2>4. CASE AcceptAsset(sender, o)
    BY <2>4, AdvanceShape DEF AcceptAsset, Live, Status, Settled, Stamp
  <2>5. CASE OpenDispute(sender, o)
    BY <2>5, AdvanceShape DEF OpenDispute, Live, Status, Settled, Stamp
  <2>6. CASE ReleaseToSeller(sender, o) \/ RefundToBuyer(sender, o)
    BY <1>1, <2>6 DEF ReleaseToSeller, RefundToBuyer, BeginSettlement
  <2> QED BY <1>4, <2>1, <2>2, <2>3, <2>4, <2>5, <2>6 DEF Handle
<1>5. ASSUME NEW o \in OrderIds, PayeeAccepts(o)
      PROVE  TransactionShape(committed.orders, committed'.orders)
  <2>1. guard = {o}
    BY <1>5 DEF PayeeAccepts, IInv, TypeOK
  <2>2. committed'.orders = orders
    BY <1>5 DEF PayeeAccepts, Storage
  <2> QED BY <2>1, <2>2 DEF IInv, InTransaction, TransactionShape, Others
<1>6. ASSUME NEW o \in OrderIds, PayeeRejects(o)
      PROVE  TransactionShape(committed.orders, committed'.orders)
  BY <1>1, <1>6 DEF PayeeRejects
<1> QED BY <1>1, <1>2, <1>3, <1>4, <1>5, <1>6 DEF Next, vars

\* Once a transaction has created an order, no later one changes its parties
\* or amount, and once it is settled no later one changes it at all.
THEOREM FinalTerms == Spec => TermsAreFinal
<1>1. IInv /\ [Next]_vars =>
        [\A o \in OrderIds : TermsKept(committed.orders[o], committed'.orders[o])]_vars
  <2> SUFFICES ASSUME IInv, [Next]_vars, NEW o \in OrderIds
               PROVE  TermsKept(committed.orders[o], committed'.orders[o])
    OBVIOUS
  <2> DEFINE c == committed.orders[o]
             d == committed'.orders[o]
  <2>1. Evolves(c, d) \/ Settles(c, d) \/ Creates(c, d)
    BY NextShape DEF TransactionShape, Others, Evolves
  <2> HIDE DEF c, d
  <2>2. TermsKept(c, d)
    BY <2>1 DEF TermsKept, Evolves, Settles, Creates, Live, SameTerms, Settled
  <2> QED BY <2>2 DEF c, d
<1> QED BY <1>1, Invariance, PTL DEF TermsAreFinal, Spec

-----------------------------------------------------------------------------
(***************************************************************************)
(* Refinement: the steps of the contract seen through CustodyOf.           *)
(***************************************************************************)
LEMMA LiveCustody ==
  ASSUME NEW c, NEW p, Live(c), Sound(c, p)
  PROVE  CustodyOf(c, p).holder = "escrow"
BY DEF Live, Sound, PaidIs, CustodyOf, Settled

\* A nested or single call shows as consent of the parties, or not at all.
LEMMA EvolvesMapped ==
  ASSUME NEW c, NEW d, NEW p, NEW q, Sound(c, p), Sound(d, q), Evolves(c, d)
  PROVE  Custody!ConsentsOrStays(CustodyOf(c, p), CustodyOf(d, q))
<1>1. CASE d = c
  <2>1. p = q
    BY <1>1 DEF Sound, PaidIs
  <2> QED BY <1>1, <2>1 DEF Custody!ConsentsOrStays
<1>2. CASE Live(c) /\ Live(d) /\ SameTerms(c, d) /\ c.stamps \subseteq d.stamps
  <2>1. CustodyOf(c, p).holder = "escrow" /\ CustodyOf(d, q).holder = "escrow"
    BY <1>2, LiveCustody
  <2>2. CustodyOf(d, q) = [CustodyOf(c, p) EXCEPT !.stage = CustodyOf(d, q).stage]
    BY <1>2, <2>1 DEF CustodyOf, SameTerms
  <2>3. CustodyOf(c, p).stage # "open" => CustodyOf(d, q).stage = CustodyOf(c, p).stage
    BY <1>2 DEF CustodyOf, Sound, StampsFit
  <2>4. /\ CustodyOf(c, p).stage \in {"open", "accepted", "disputed"}
        /\ CustodyOf(d, q).stage \in {"open", "accepted", "disputed"}
    BY DEF CustodyOf
  <2>5. CASE CustodyOf(d, q).stage = CustodyOf(c, p).stage
    <3>1. CustodyOf(d, q) = CustodyOf(c, p)
      BY <1>2, <2>1, <2>5 DEF CustodyOf, SameTerms
    <3> QED BY <3>1 DEF Custody!ConsentsOrStays
  <2>6. CASE CustodyOf(d, q).stage # CustodyOf(c, p).stage
    BY <2>1, <2>2, <2>3, <2>4, <2>6 DEF Custody!ConsentsOrStays, Custody!Consents
  <2> QED BY <2>5, <2>6
<1> QED BY <1>1, <1>2 DEF Evolves

\* A settlement the payee accepted shows as the payment of one party.
LEMMA SettlesMapped ==
  ASSUME NEW c \in EscrowOrder, NEW d, NEW p, NEW q,
         Sound(c, p), Sound(d, q), Settles(c, d)
  PROVE  LET x == CustodyOf(c, p)
             y == CustodyOf(d, q)
         IN  Custody!PaysSeller(x, y) \/ Custody!PaysBuyer(x, y)
<1>1. CustodyOf(c, p).holder = "escrow"
  BY LiveCustody DEF Settles
<1>2. c.amount \in Nat \ {0} /\ d.amount = c.amount
  BY CreatedType DEF Settles, Live, LiveOrder, SameTerms
<1>3. d.status = "ReleasedToSeller" => CustodyOf(d, q).holder = "seller"
  BY <1>2 DEF Sound, PaidIs, CustodyOf
<1>4. d.status = "RefundedToBuyer" => CustodyOf(d, q).holder = "buyer"
  BY <1>2 DEF Sound, PaidIs, CustodyOf
<1>5. CustodyOf(d, q).stage = CustodyOf(c, p).stage
  BY DEF Settles, CustodyOf
<1>6. CustodyOf(d, q) = [CustodyOf(c, p) EXCEPT !.holder = CustodyOf(d, q).holder]
  BY <1>1, <1>5 DEF CustodyOf, Settles, SameTerms
<1>7. d.status = "ReleasedToSeller" => CustodyOf(c, p).stage = "accepted"
  BY DEF Settles, Sound, StampsFit, CustodyOf
<1> QED
  BY <1>1, <1>3, <1>4, <1>6, <1>7 DEF Settles, Settled, Custody!PaysSeller, Custody!PaysBuyer

LEMMA UnlockedMapped == \A p : CustodyOf(NoOrder, p) = Custody!Unlocked
<1> SUFFICES ASSUME NEW p PROVE CustodyOf(NoOrder, p) = Custody!Unlocked
  OBVIOUS
<1>1. CustodyOf(NoOrder, p).holder = "nobody"
  BY DEF CustodyOf, NoOrder
<1>2. CustodyOf(NoOrder, p).stage = "open"
  <2>1. "acceptedAt" \notin NoOrder.stamps /\ "disputedAt" \notin NoOrder.stamps
    BY DEF NoOrder
  <2> QED BY <2>1 DEF CustodyOf
<1>3. CustodyOf(NoOrder, p) =
        [holder |-> CustodyOf(NoOrder, p).holder, stage |-> CustodyOf(NoOrder, p).stage,
         buyer |-> NoOrder.buyer, seller |-> NoOrder.seller, amount |-> NoOrder.amount]
  BY DEF CustodyOf
<1> QED BY <1>1, <1>2, <1>3 DEF NoOrder, Custody!Unlocked

LEMMA CreatesMapped ==
  ASSUME NEW c \in EscrowOrder, NEW d, NEW p, NEW q,
         Sound(c, p), Sound(d, q), Creates(c, d)
  PROVE  Custody!Locks(CustodyOf(c, p), CustodyOf(d, q))
<1>1. c = NoOrder
  BY DEF EscrowOrder, NoOrder, Creates
<1>2. CustodyOf(c, p) = Custody!Unlocked
  BY <1>1, UnlockedMapped
<1>3. CustodyOf(d, q).holder = "escrow" /\ CustodyOf(d, q).stage = "open"
  BY DEF Creates, Sound, PaidIs, CustodyOf
<1> QED BY <1>2, <1>3 DEF Creates, CustodyOf, Custody!Locks

LEMMA MappedType ==
  ASSUME NEW r \in EscrowOrder, NEW p, Sound(r, p)
  PROVE  CustodyOf(r, p) \in Custody!CustodyRecord
<1>1. CustodyOf(r, p).holder \in Custody!Holder /\ CustodyOf(r, p).stage \in Custody!Stage
  BY DEF CustodyOf, Custody!Holder, Custody!Stage
<1>2. r.buyer \in Accounts \cup {Zero} /\ r.seller \in Accounts \cup {Zero} /\ r.amount \in Nat
  BY DEF EscrowOrder, NoOrder
<1> QED BY <1>1, <1>2 DEF CustodyOf, Custody!CustodyRecord

LEMMA InitMapped == Init => Custody!Init
<1> SUFFICES ASSUME Init PROVE custodyBar = [o \in OrderIds |-> Custody!Unlocked]
  BY DEF Custody!Init
<1>1. \A o \in OrderIds : committed.orders[o] = NoOrder
  BY DEF Init, Storage
<1> QED BY <1>1, UnlockedMapped DEF custodyBar

LEMMA NextMapped == IInv /\ IInv' /\ [Next]_vars => Custody!Next
<1> SUFFICES ASSUME IInv, IInv', [Next]_vars PROVE Custody!Next
  OBVIOUS
<1> DEFINE c(o) == committed.orders[o]
           d(o) == committed'.orders[o]
           x(o) == CustodyOf(c(o), committed.paid[o])
           y(o) == CustodyOf(d(o), committed'.paid[o])
<1>1. custodyBar = [o \in OrderIds |-> x(o)] /\ custodyBar' = [o \in OrderIds |-> y(o)]
  BY DEF custodyBar
<1>2. \A o \in OrderIds : /\ Sound(c(o), committed.paid[o])
                         /\ Sound(d(o), committed'.paid[o])
                         /\ c(o) \in EscrowOrder /\ d(o) \in EscrowOrder
  BY DEF IInv, SoundBefore, TypeOK, StorageType
<1>3. custodyBar' \in [OrderIds -> Custody!CustodyRecord]
  BY <1>1, <1>2, MappedType
<1>4. ASSUME NEW o \in OrderIds, Evolves(c(o), d(o))
      PROVE  Custody!ConsentsOrStays(x(o), y(o))
  BY <1>2, <1>4, EvolvesMapped
<1>5. ASSUME \A o \in OrderIds : Evolves(c(o), d(o))
      PROVE  Custody!Agree
  BY <1>1, <1>4, <1>5 DEF Custody!Agree
<1>6. ASSUME NEW o \in OrderIds, Settles(c(o), d(o)),
             \A q \in Others(o) : Evolves(c(q), d(q))
      PROVE  Custody!Settle(o)
  <2>1. Custody!PaysSeller(x(o), y(o)) \/ Custody!PaysBuyer(x(o), y(o))
    BY <1>2, <1>6, SettlesMapped
  <2>2. \A q \in OrderIds \ {o} : Custody!ConsentsOrStays(x(q), y(q))
    BY <1>4, <1>6 DEF Others
  <2> HIDE DEF x, y
  <2> QED BY <1>1, <2>1, <2>2 DEF Custody!Settle
<1>7. ASSUME NEW o \in OrderIds, Creates(c(o), d(o)),
             \A q \in Others(o) : d(q) = c(q)
      PROVE  Custody!Lock(o)
  <2>1. Custody!Locks(x(o), y(o))
    BY <1>2, <1>7, CreatesMapped
  <2>2. ASSUME NEW q \in OrderIds, q # o PROVE y(q) = x(q)
    <3>1. d(q) = c(q)
      BY <1>7, <2>2 DEF Others
    <3>2. committed'.paid[q] = committed.paid[q]
      BY <1>2, <3>1 DEF Sound, PaidIs
    <3> QED BY <3>1, <3>2
  <2> HIDE DEF x, y
  <2> QED BY <1>1, <2>1, <2>2 DEF Custody!Lock
<1>8. TransactionShape(committed.orders, committed'.orders)
  BY NextShape
<1> QED BY <1>3, <1>5, <1>6, <1>7, <1>8 DEF TransactionShape, Custody!Next

\* The contract implements EscrowCustody: money is locked once, under terms
\* that stay, and leaves once, to the seller only with the buyer's acceptance.
THEOREM Refinement == Spec => ImplementsCustody
<1>1. IInv /\ IInv' /\ [Next]_vars => [Custody!Next]_custodyBar
  BY NextMapped
<1> QED BY <1>1, InitMapped, Invariance, PTL DEF Spec, ImplementsCustody, Custody!Spec
=============================================================================
