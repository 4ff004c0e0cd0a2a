------------------------ MODULE EscrowServiceProofs ------------------------
(***************************************************************************)
(* Theorems about EscrowService, for any orders, handlers and faults.      *)
(*                                                                         *)
(* The contract's part: every step of the service is a step of             *)
(* EscrowContract or leaves it alone, so that what EscrowContractProofs    *)
(* proves of the contract (P!IInv) holds here too.  The service's part     *)
(* rests on facts that are never taken back: that the buyer accepted and   *)
(* that the funding was verified.  Whatever status a handler read, from    *)
(* the row or a stale cache, the row had it once, so it tells of these     *)
(* facts (Known), and what the handler goes on to do may rely on them      *)
(* however late it does it.                                                *)
(***************************************************************************)
EXTENDS EscrowService, TLAPS

P == INSTANCE EscrowContractProofs
  WITH Accounts <- {Relayer, Buyer, Seller}, InitialOwner <- Relayer, Values <- {Price}

\* What a status the row of an order had at some time tells of the order.
Known(o, status) ==
  /\ status # "pending_payment" => rows[o].funded
  /\ status \in {"accepted", "release_processing", "released"} => rows[o].accepted

RowsFit ==
  \A o \in OrderIds :
    IF rows[o] = NoRow THEN cache[o] = "absent"
    ELSE /\ Known(o, rows[o].status)
         /\ cache[o] # "absent" => Known(o, cache[o])

Result(h) == IF h.op \in Settlements THEN Final(h.op) ELSE Writes(h.op, h.read)

\* What a handler has established: it acts on a status the row once had and its
\* operation accepts, and what it will report has happened.
Fits(h) ==
  /\ h.pc = "load" =>
       rows[h.order] # NoRow /\ (h.read # "unread" => Known(h.order, h.read))
  /\ h.pc \in Phase =>
       /\ rows[h.order] # NoRow
       /\ h.read \in ReadIn(h.op) /\ Known(h.order, h.read)
       /\ h.op = "accept" => h.consent
       /\ h.pc = "done" => Known(h.order, Result(h))
       /\ h.pc \in {"broadcast", "receipt"} => h.op \in Settlements \cup {"ship", "inspect"}
       /\ h.pc \in {"transfer", "settle", "restore"} => h.op \in Settlements
       /\ (h.tx = "none") <=> (h.pc # "receipt")
       /\ h.tx = "running" => h.op \in Settlements

JobsFit == \A r \in Requests : Fits(req[r])

\* Whoever may still pay a seller, or has paid him, had the buyer's acceptance.
Consented(o) == rows[o].accepted /\ rows[o].funded

PaymentsFit ==
  \A o \in OrderIds :
    <<"release", o>> \in orphans \/ paid[o].seller > 0 \/ committed.paid[o].seller > 0
    => Consented(o)

\* The handler whose transaction is being executed is the one the guard names.
Running(h) == h.pc = "receipt" /\ h.tx = "running"

RunningFits ==
  /\ \A r \in Requests : Running(req[r]) =>
       /\ guard = {req[r].order}
       /\ orders[req[r].order].status =
            IF req[r].op = "release" THEN "ReleasedToSeller" ELSE "RefundedToBuyer"
  /\ \A r, s \in Requests : Running(req[r]) /\ Running(req[s]) => r = s

\* A wallet order is settled off-chain after it was settled on the chain.
PaidOut(op, o) ==
  IF op = "release" THEN committed.paid[o].seller > 0 ELSE committed.paid[o].buyer > 0

SettlingFits ==
  \A r \in Requests :
    req[r].pc \in {"transfer", "settle"} /\ rows[req[r].order].method = "wallet"
    => PaidOut(req[r].op, req[r].order)

Inv ==
  /\ TypeOK /\ RowsFit /\ JobsFit /\ PaymentsFit /\ RunningFits /\ SettlingFits
  /\ SettledRowsArePaid /\ ClaimHasHandler

-----------------------------------------------------------------------------
(***************************************************************************)
(* The contract's part.                                                    *)
(***************************************************************************)
LEMMA Constants == P!ConstantsAssumption
BY ServiceAssumption DEF P!ConstantsAssumption, P!IsFiniteSet, IsFiniteSet, Price

LEMMA ChainInit == Init => P!Init
BY DEF Init, P!Init, Chain!Init, P!NoOrder, Chain!NoOrder, P!Unpaid, Chain!Unpaid,
       P!Storage, Chain!Storage

\* The calls of the relayer and of the parties are calls of the contract.
LEMMA RelayerCalls ==
  ASSUME guard = {}, NEW op, NEW o \in OrderIds, Executes(op, o)
  PROVE  P!Next
<1>1. Relayer \in P!Callers BY DEF P!Callers
<1>2. P!Handle(Relayer, o)
  BY DEF Executes, P!Handle,
         P!RecordShipment, P!ConfirmInspection, P!ReleaseToSeller, P!RefundToBuyer,
         Chain!RecordShipment, Chain!ConfirmInspection, Chain!ReleaseToSeller,
         Chain!RefundToBuyer, P!Advance, Chain!Advance, P!Update, Chain!Update,
         P!Moved, Chain!Moved, P!Commit, Chain!Commit, P!Storage, Chain!Storage,
         P!BeginSettlement, Chain!BeginSettlement, P!Settled, Chain!Settled,
         P!NonReentrant, Chain!NonReentrant
<1> QED BY <1>1, <1>2 DEF P!Next

LEMMA PartyStep ==
  ASSUME NEW o \in OrderIds, PartyCalls(o)
  PROVE  P!Next
<1>1. \A a \in {Relayer, Buyer, Seller} : a \in P!Callers
  BY DEF PartyCalls, P!Callers
<1>2. CASE Chain!Deposit(Buyer, o, Seller, Price)
  <2>1. P!Deposit(Buyer, o, Seller, Price)
    BY <1>2 DEF P!Deposit, Chain!Deposit, P!Store, Chain!Store, P!Commit, Chain!Commit,
                P!Storage, Chain!Storage, P!NonReentrant, Chain!NonReentrant
  <2>2. P!Fund(Buyer) BY <2>1 DEF P!Fund
  <2> QED BY <1>1, <2>2 DEF P!Next
<1>3. CASE \/ Chain!RecordShipment(Seller, o)
           \/ Chain!ConfirmDelivery(Buyer, o) \/ Chain!AcceptAsset(Buyer, o)
           \/ Chain!OpenDispute(Buyer, o) \/ Chain!OpenDispute(Seller, o)
  <2>1. P!Handle(Seller, o) \/ P!Handle(Buyer, o)
    BY <1>3 DEF P!Handle, P!RecordShipment, P!ConfirmDelivery, P!AcceptAsset, P!OpenDispute,
                Chain!RecordShipment, Chain!ConfirmDelivery, Chain!AcceptAsset,
                Chain!OpenDispute, P!Advance, Chain!Advance, P!Update, Chain!Update,
                P!Moved, Chain!Moved, P!Commit, Chain!Commit, P!Storage, Chain!Storage
  <2> QED BY <1>1, <2>1 DEF P!Next
<1> QED BY <1>2, <1>3 DEF PartyCalls

LEMMA PayeeCalls ==
  ASSUME NEW o \in OrderIds, PayeeAnswers(o)
  PROVE  P!Next
BY DEF PayeeAnswers, P!Next, P!PayeeAccepts, P!PayeeRejects, Chain!PayeeAccepts,
       Chain!PayeeRejects, P!Payee, Chain!Payee, P!Storage, Chain!Storage

LEMMA ChainNext == TypeOK /\ [Next]_vars => [P!Next]_(P!vars)
<1> SUFFICES ASSUME TypeOK, [Next]_vars PROVE P!Next \/ UNCHANGED chain
  BY DEF chain, P!vars
<1>1. CASE Block
  <2>1. ASSUME NEW r \in Requests, Mine(r) PROVE P!Next \/ UNCHANGED chain
    <3>1. guard = {} /\ (Executes(req[r].op, req[r].order) \/ UNCHANGED chain)
      BY <2>1 DEF Mine
    <3>2. req[r].order \in OrderIds
      BY <2>1 DEF Mine, At, TypeOK, Handler, Loading, Idle
    <3> QED BY <3>1, <3>2, RelayerCalls
  <2>2. ASSUME NEW op, NEW o \in OrderIds, MineOrphan(op, o)
        PROVE P!Next \/ UNCHANGED chain
    BY <2>2, RelayerCalls DEF MineOrphan
  <2> QED BY <1>1, <2>1, <2>2, PayeeCalls DEF Block
<1>2. CASE \E o \in OrderIds : PartyCalls(o) BY <1>2, PartyStep
<1>3. CASE \E o \in OrderIds, method \in Rails : CreateEscrowOrder(o, method)
  BY <1>3 DEF CreateEscrowOrder
<1>4. CASE \E r \in Requests, o \in OrderIds : Start(r, o)
  BY <1>4 DEF Start
<1>5. CASE \E r \in Requests : Handle(r) \/ Abandon(r)
  BY <1>5 DEF Handle, Abandon, Load, Refuse, Write, Transfer, Settle, Restore, Done,
              Broadcast
<1>6. CASE Restart BY <1>6 DEF Restart
<1>7. CASE UNCHANGED vars BY <1>7 DEF vars
<1> QED BY <1>1, <1>2, <1>3, <1>4, <1>5, <1>6, <1>7 DEF Next

-----------------------------------------------------------------------------
(***************************************************************************)
(* The records of handlers and rows.                                       *)
(***************************************************************************)
LEMMA Kinds ==
  ASSUME TypeOK, NEW r \in Requests
  PROVE  /\ req[r].pc \in Phase => req[r] \in Handler
         /\ req[r].pc = "load" => req[r] \in Loading
         /\ req[r].pc \notin Phase \cup {"load"} => req[r] = Idle
         /\ req[r].pc # "idle" => req[r].order \in OrderIds
BY DEF TypeOK, Handler, Loading, Idle, Phase

LEMMA IdleFits == Idle.pc = "idle" /\ Fits(Idle) /\ Fits(Idle)'
BY DEF Idle, Fits, Phase

\* Rows only ever learn, and keep their payment method.
Grow ==
  \A o \in OrderIds : rows[o] # NoRow =>
    /\ rows'[o] # NoRow /\ rows'[o].method = rows[o].method
    /\ rows[o].accepted => rows'[o].accepted
    /\ rows[o].funded => rows'[o].funded

LEMMA KnownGrows ==
  ASSUME Grow, NEW o \in OrderIds, rows[o] # NoRow, NEW status, Known(o, status)
  PROVE  Known(o, status)'
BY DEF Grow, Known

LEMMA FitsGrows ==
  ASSUME TypeOK, Grow, NEW r \in Requests, Fits(req[r]), req'[r] = req[r]
  PROVE  Fits(req[r])'
<1>1. CASE req[r].pc = "idle" BY <1>1, Kinds, IdleFits DEF Phase
<1>2. CASE req[r].pc # "idle"
  <2>1. req[r].order \in OrderIds BY <1>2, Kinds
  <2>2. Known(req[r].order, req[r].read) /\ rows[req[r].order] # NoRow
        => Known(req[r].order, req[r].read)'
    BY <2>1, KnownGrows DEF Known, Grow
  <2> QED BY <2>1, <2>2 DEF Fits, Known, Grow, Result, Final, Writes
<1> QED BY <1>1, <1>2

\* What Apply does to the row of a handler.
LEMMA Applied ==
  ASSUME TypeOK, NEW r \in Requests, req[r] \in Handler, rows[req[r].order] # NoRow,
         NEW status \in RowStatus, Apply(r, status)
  PROVE  /\ rows' \in [OrderIds -> Row \cup {NoRow}] /\ Grow
         /\ \A o \in OrderIds \ {req[r].order} : rows'[o] = rows[o]
         /\ rows'[req[r].order].status = status
         /\ rows'[req[r].order].method = rows[req[r].order].method
         /\ rows'[req[r].order].item = rows[req[r].order].item
         /\ req[r].consent => rows'[req[r].order].accepted
         /\ req[r].op = "verify" => rows'[req[r].order].funded
<1> DEFINE o == req[r].order
<1>1. o \in OrderIds /\ rows[o] \in Row BY DEF TypeOK, Handler
<1>2. rows[o].accepted \in BOOLEAN /\ rows[o].funded \in BOOLEAN /\ req[r].consent \in BOOLEAN
  BY <1>1 DEF Row, Handler
<1>3. PICK a \in BOOLEAN : a <=> rows[o].accepted \/ req[r].consent BY <1>2
<1>4. PICK f \in BOOLEAN : f <=> rows[o].funded \/ (req[r].op = "verify") BY <1>2
<1> DEFINE new == [rows[o] EXCEPT !.status = status, !.accepted = a, !.funded = f]
<1>5. rows' = [rows EXCEPT ![o] = new]
  <2>1. a = (rows[o].accepted \/ req[r].consent) BY <1>2, <1>3
  <2>2. f = (rows[o].funded \/ (req[r].op = "verify")) BY <1>2, <1>4
  <2> QED BY <2>1, <2>2, Zenon DEF Apply, TypeOK
<1>6. /\ new \in Row /\ new # NoRow
      /\ new.status = status /\ new.method = rows[o].method /\ new.item = rows[o].item
      /\ new.accepted = a /\ new.funded = f
  <2>1. rows[o] \in [status: RowStatus, method: Method, accepted: BOOLEAN, funded: BOOLEAN,
                     item: {"escrow", "buyer", "seller"}]
    BY <1>1 DEF Row
  <2>2. /\ new \in Row /\ new.status = status /\ new.method = rows[o].method
        /\ new.item = rows[o].item /\ new.accepted = a /\ new.funded = f
    <3> HIDE DEF o
    <3> QED BY <2>1 DEF Row
  <2>3. status # "absent" BY DEF RowStatus, Processing
  <2>4. NoRow.status = "absent" BY DEF NoRow
  <2> HIDE DEF new
  <2> QED BY <2>2, <2>3, <2>4
<1> HIDE DEF new
<1>7. rows'[o] = new /\ \A q \in OrderIds \ {o} : rows'[q] = rows[q]
  BY <1>5, <1>1 DEF TypeOK
<1>8. rows' \in [OrderIds -> Row \cup {NoRow}] BY <1>5, <1>6 DEF TypeOK
<1>9. rows[o].accepted => rows'[o].accepted BY <1>3, <1>7, <1>6, Zenon
<1>10. rows[o].funded => rows'[o].funded BY <1>4, <1>7, <1>6, Zenon
<1>11. req[r].consent => rows'[o].accepted BY <1>3, <1>7, <1>6, Zenon
<1>12. req[r].op = "verify" => rows'[o].funded BY <1>4, <1>7, <1>6, Zenon
<1>13. Grow
  <2> SUFFICES ASSUME NEW q \in OrderIds, rows[q] # NoRow
               PROVE  /\ rows'[q] # NoRow /\ rows'[q].method = rows[q].method
                      /\ rows[q].accepted => rows'[q].accepted
                      /\ rows[q].funded => rows'[q].funded
    BY DEF Grow
  <2>1. CASE q = o BY <2>1, <1>7, <1>9, <1>10, <1>6, Zenon
  <2>2. CASE q # o BY <2>2, <1>7, Zenon
  <2> QED BY <2>1, <2>2
<1> QED BY <1>7, <1>8, <1>11, <1>12, <1>13, <1>6, Zenon

-----------------------------------------------------------------------------
(***************************************************************************)
(* One lemma per part of the invariant: what a step must do to keep it.    *)
(***************************************************************************)
LEMMA RowsStep ==
  ASSUME RowsFit, Grow,
         \A o \in OrderIds :
           \/ rows'[o] = rows[o]
           \/ rows'[o] # NoRow /\ Known(o, rows[o].status)',
         \A o \in OrderIds :
           \/ cache'[o] = cache[o] /\ rows[o] # NoRow
           \/ rows'[o] = NoRow /\ cache'[o] = "absent"
           \/ rows'[o] # NoRow /\ (cache'[o] # "absent" => Known(o, cache[o])')
  PROVE  RowsFit'
<1> SUFFICES ASSUME NEW o \in OrderIds
             PROVE  IF rows'[o] = NoRow THEN cache'[o] = "absent"
                    ELSE /\ Known(o, rows[o].status)'
                         /\ cache'[o] # "absent" => Known(o, cache[o])'
  BY DEF RowsFit
<1>1. CASE rows[o] = NoRow BY <1>1 DEF Known
<1>2. CASE rows[o] # NoRow
  <2>1. rows'[o] # NoRow BY <1>2 DEF Grow
  <2>2. Known(o, rows[o].status) /\ (cache[o] # "absent" => Known(o, cache[o]))
    BY <1>2 DEF RowsFit
  <2>3. Known(o, rows[o].status)' BY <1>2, <2>2, KnownGrows DEF Known
  <2>4. cache'[o] # "absent" => Known(o, cache[o])' BY <1>2, <2>1, <2>2, KnownGrows DEF Known
  <2> QED BY <2>1, <2>3, <2>4
<1> QED BY <1>1, <1>2

LEMMA JobsStep ==
  ASSUME TypeOK, Grow, JobsFit, NEW S \in SUBSET Requests,
         \A s \in Requests \ S : req'[s] = req[s],
         \A s \in S : Fits(req[s])'
  PROVE  JobsFit'
BY FitsGrows DEF JobsFit

LEMMA PaymentsStep ==
  ASSUME PaymentsFit, Grow,
         \A o \in OrderIds :
           \/ <<"release", o>> \in orphans' \/ paid'[o].seller > 0
           \/ committed'.paid[o].seller > 0
           => \/ <<"release", o>> \in orphans \/ paid[o].seller > 0
              \/ committed.paid[o].seller > 0
              \/ Consented(o)
  PROVE  PaymentsFit'
<1> SUFFICES ASSUME NEW o \in OrderIds, Consented(o) PROVE Consented(o)'
  BY DEF PaymentsFit
<1>1. rows[o] # NoRow BY DEF Consented, NoRow
<1> QED BY <1>1 DEF Grow, Consented

LEMMA RunningStep ==
  ASSUME RunningFits, UNCHANGED <<guard, orders>>, NEW S \in SUBSET Requests,
         \A s \in Requests \ S : req'[s] = req[s],
         \A s \in S : ~Running(req'[s])
  PROVE  RunningFits'
<1>1. \A s \in Requests : Running(req'[s]) => s \notin S /\ req'[s] = req[s] OBVIOUS
<1> QED BY <1>1, Zenon DEF RunningFits, Running

LEMMA SettlingStep ==
  ASSUME TypeOK, SettlingFits, JobsFit, Grow, UNCHANGED committed, NEW S \in SUBSET Requests,
         \A s \in Requests \ S : req'[s] = req[s],
         \A s \in S : req'[s].pc \in {"transfer", "settle"}
           /\ rows'[req'[s].order].method = "wallet" => PaidOut(req'[s].op, req'[s].order)
  PROVE  SettlingFits'
<1> SUFFICES ASSUME NEW s \in Requests, req'[s].pc \in {"transfer", "settle"},
                    rows'[req'[s].order].method = "wallet"
             PROVE  PaidOut(req[s].op, req[s].order)'
  BY DEF SettlingFits
<1>1. CASE s \in S BY <1>1 DEF PaidOut
<1>2. CASE s \notin S
  <2>1. req'[s] = req[s] BY <1>2
  <2>2. req[s].pc \in Phase /\ req[s].order \in OrderIds /\ rows[req[s].order] # NoRow
    BY <2>1, Kinds DEF JobsFit, Fits, Phase
  <2>3. rows[req[s].order].method = "wallet" BY <2>1, <2>2 DEF Grow
  <2> QED BY <2>1, <2>3 DEF SettlingFits, PaidOut
<1> QED BY <1>1, <1>2

PaidRow(o) ==
  rows[o].method = "wallet" =>
    /\ rows[o].status = "released" \/ rows[o].item = "buyer" => committed.paid[o].seller > 0
    /\ rows[o].status = "refunded" \/ rows[o].item = "seller" => committed.paid[o].buyer > 0

LEMMA PaidRowsStep ==
  ASSUME SettledRowsArePaid,
         \A o \in OrderIds :
           /\ committed.paid[o].seller > 0 => committed'.paid[o].seller > 0
           /\ committed.paid[o].buyer > 0 => committed'.paid[o].buyer > 0,
         \A o \in OrderIds : rows'[o] = rows[o] \/ PaidRow(o)'
  PROVE  SettledRowsArePaid'
BY DEF SettledRowsArePaid, PaidRow

\* The handler working on the settlement that claimed the order.
Works(h, o) ==
  /\ h.pc \in {"broadcast", "receipt", "transfer", "settle", "restore"}
  /\ h.op \in Settlements /\ h.order = o
  /\ Claimed(h.op) = rows[o].status

LEMMA ClaimStep ==
  ASSUME ClaimHasHandler, faults' = 0 => faults = 0, NEW S \in SUBSET Requests,
         \A s \in Requests \ S : req'[s] = req[s],
         faults' = 0 => \A o \in OrderIds :
           rows'[o].status \in Processing =>
             \/ \E s \in S : Works(req[s], o)'
             \/ rows'[o].status = rows[o].status /\ \A s \in S : ~Works(req[s], o)
  PROVE  ClaimHasHandler'
<1> SUFFICES ASSUME faults' = 0, NEW o \in OrderIds, rows'[o].status \in Processing
             PROVE  \E s \in Requests : Works(req[s], o)'
  BY DEF ClaimHasHandler, Works
<1>1. CASE \E s \in S : Works(req[s], o)' BY <1>1
<1>2. CASE rows'[o].status = rows[o].status /\ \A s \in S : ~Works(req[s], o)
  <2>1. PICK s \in Requests : Works(req[s], o) BY <1>2 DEF ClaimHasHandler, Works
  <2>2. req'[s] = req[s] BY <1>2, <2>1
  <2> QED BY <1>2, <2>1, <2>2 DEF Works
<1> QED BY <1>1, <1>2

\* A step of the handlers S that leaves the contract alone.
LEMMA OffChain ==
  ASSUME Inv, TypeOK', UNCHANGED chain, Grow, NEW S \in SUBSET Requests,
         \A s \in Requests \ S : req'[s] = req[s],
         \A s \in S :
           /\ Fits(req[s])'
           /\ ~Running(req'[s])
           /\ req'[s].pc \in {"transfer", "settle"}
              /\ rows'[req'[s].order].method = "wallet" => PaidOut(req'[s].op, req'[s].order),
         \A o \in OrderIds :
           \/ rows'[o] = rows[o]
           \/ rows'[o] # NoRow /\ Known(o, rows[o].status)' /\ PaidRow(o)',
         \A o \in OrderIds :
           \/ cache'[o] = cache[o] /\ rows[o] # NoRow
           \/ rows'[o] = NoRow /\ cache'[o] = "absent"
           \/ rows'[o] # NoRow /\ (cache'[o] # "absent" => Known(o, cache[o])'),
         \A o \in OrderIds :
           <<"release", o>> \in orphans' => <<"release", o>> \in orphans \/ Consented(o),
         faults' = 0 => faults = 0,
         faults' = 0 => \A o \in OrderIds :
           rows'[o].status \in Processing =>
             \/ \E s \in S : Works(req[s], o)'
             \/ rows'[o].status = rows[o].status /\ \A s \in S : ~Works(req[s], o)
  PROVE  Inv'
<1>1. TypeOK /\ RowsFit /\ JobsFit /\ PaymentsFit /\ RunningFits /\ SettlingFits
      /\ SettledRowsArePaid /\ ClaimHasHandler
  BY DEF Inv
<1>2. UNCHANGED <<orders, paid, guard, committed>> BY DEF chain
<1>3. RowsFit' BY <1>1, RowsStep
<1>4. JobsFit' BY <1>1, JobsStep
<1>5. PaymentsFit' BY <1>1, <1>2, PaymentsStep
<1>6. RunningFits' BY <1>1, <1>2, RunningStep
<1>7. SettlingFits' BY <1>1, <1>2, SettlingStep
<1>8. SettledRowsArePaid' BY <1>1, <1>2, PaidRowsStep
<1>9. ClaimHasHandler' BY <1>1, ClaimStep
<1> QED BY <1>3, <1>4, <1>5, <1>6, <1>7, <1>8, <1>9 DEF Inv

-----------------------------------------------------------------------------
(***************************************************************************)
(* The steps that write no row.                                            *)
(***************************************************************************)
LEMMA Reading ==
  ASSUME Inv, NEW r \in Requests, At(r, "load")
  PROVE  /\ req[r] \in Loading /\ req[r].order \in OrderIds /\ rows[req[r].order] # NoRow
         /\ Read(r) \in RowStatus \cup {"absent"}
         /\ Read(r) # "absent" => Known(req[r].order, Read(r))
<1>1. req[r] \in Loading /\ Fits(req[r]) /\ req[r].pc = "load"
  BY Kinds DEF Inv, JobsFit, At
<1>2. req[r].order \in OrderIds /\ req[r].read \in RowStatus \cup {"unread"}
  BY <1>1 DEF Loading
<1>3. rows[req[r].order] # NoRow /\ (req[r].read # "unread" => Known(req[r].order, req[r].read))
  BY <1>1 DEF Fits
<1>4. cache[req[r].order] \in RowStatus \cup {"absent"}
  BY <1>2 DEF Inv, TypeOK
<1>5. cache[req[r].order] # "absent" => Known(req[r].order, cache[req[r].order])
  BY <1>2, <1>3 DEF Inv, RowsFit
<1> QED BY <1>1, <1>2, <1>3, <1>4, <1>5, Zenon DEF Read

LEMMA Working ==
  ASSUME Inv, NEW r \in Requests, req[r].pc \in Phase
  PROVE  /\ req[r] \in Handler /\ req[r].order \in OrderIds /\ rows[req[r].order] # NoRow
         /\ req[r].read \in ReadIn(req[r].op) /\ Known(req[r].order, req[r].read)
         /\ req[r].op = "accept" => req[r].consent
         /\ Fits(req[r])
BY Kinds DEF Inv, JobsFit, Fits, Handler

\* With its rows unchanged a step teaches nothing.
LEMMA GrowsNot == UNCHANGED rows => Grow
BY DEF Grow

LEMMA Reset ==
  ASSUME TypeOK, NEW r \in Requests, Reply(r)
  PROVE  /\ req' \in [Requests -> Handler \cup Loading \cup {Idle}]
         /\ \A s \in Requests \ {r} : req'[s] = req[s]
         /\ req'[r] = Idle /\ Fits(req[r])' /\ ~Running(req'[r])
         /\ req'[r].pc \notin {"transfer", "settle"}
<1>1. req'[r] = Idle BY DEF Reply, TypeOK
<1>2. Fits(req[r])' /\ req'[r].pc = "idle" BY <1>1, IdleFits
<1> QED BY <1>1, <1>2 DEF Reply, TypeOK, Running

\* A handler's step that writes no row.
LEMMA Quiet ==
  ASSUME Inv, TypeOK', UNCHANGED rows, UNCHANGED chain, NEW r \in Requests,
         \A s \in Requests \ {r} : req'[s] = req[s],
         Fits(req[r])', ~Running(req'[r]),
         req'[r].pc \in {"transfer", "settle"} /\ rows[req'[r].order].method = "wallet" =>
           PaidOut(req'[r].op, req'[r].order),
         \A o \in OrderIds :
           \/ cache'[o] = cache[o]
           \/ rows[o] # NoRow /\ (cache'[o] # "absent" => Known(o, cache'[o])),
         \A o \in OrderIds :
           <<"release", o>> \in orphans' => <<"release", o>> \in orphans \/ Consented(o),
         faults' = 0 => faults = 0,
         faults' = 0 => \A o \in OrderIds : Works(req[r], o) => Works(req[r], o)'
  PROVE  Inv'
<1> DEFINE S == {r}
<1>1. S \in SUBSET Requests OBVIOUS
<1>2. Grow BY GrowsNot
<1>3. \A s \in Requests \ S : req'[s] = req[s] OBVIOUS
<1>4. \A s \in S :
        /\ Fits(req[s])'
        /\ ~Running(req'[s])
        /\ req'[s].pc \in {"transfer", "settle"}
           /\ rows'[req'[s].order].method = "wallet" => PaidOut(req'[s].op, req'[s].order)
  OBVIOUS
<1>5. \A o \in OrderIds :
        \/ cache'[o] = cache[o] /\ rows[o] # NoRow
        \/ rows'[o] = NoRow /\ cache'[o] = "absent"
        \/ rows'[o] # NoRow /\ (cache'[o] # "absent" => Known(o, cache[o])')
  <2>1. \A o \in OrderIds : rows[o] = NoRow => cache[o] = "absent" BY DEF Inv, RowsFit
  <2> QED BY <2>1 DEF Known
<1>6. faults' = 0 => \A o \in OrderIds :
        rows'[o].status \in Processing =>
          \/ \E s \in S : Works(req[s], o)'
          \/ rows'[o].status = rows[o].status /\ \A s \in S : ~Works(req[s], o)
  OBVIOUS
<1>7. \A o \in OrderIds : rows'[o] = rows[o] OBVIOUS
<1> HIDE DEF S
<1> QED BY <1>1, <1>2, <1>3, <1>4, <1>5, <1>6, <1>7, OffChain

LEMMA StartStep ==
  ASSUME Inv, NEW r \in Requests, NEW o \in OrderIds, Start(r, o)
  PROVE  Inv'
<1>1. PICK read \in {rows[o].status, "unread"} :
        req' = [req EXCEPT ![r] = [pc |-> "load", order |-> o, read |-> read]]
  BY DEF Start
<1>2. rows[o] \in Row /\ rows[o] # NoRow BY DEF Start, Inv, TypeOK
<1>3. [pc |-> "load", order |-> o, read |-> read] \in Loading
  BY <1>2 DEF Loading, Row
<1>4. req'[r] = [pc |-> "load", order |-> o, read |-> read] BY <1>1 DEF Inv, TypeOK
<1>5. UNCHANGED <<rows, cache, orphans, chain>> BY DEF Start
<1>6. faults' \in 0..MaxFaults /\ (faults' = 0 => faults = 0)
  BY ServiceAssumption DEF Start, Fault, Inv, TypeOK
<1>7. TypeOK' BY <1>1, <1>3, <1>5, <1>6 DEF Inv, TypeOK
<1>8. Grow BY <1>5, GrowsNot
<1>9. Known(o, rows[o].status) BY <1>2 DEF Inv, RowsFit
<1>10. Fits(req[r])' BY <1>2, <1>4, <1>5, <1>9 DEF Fits, Phase, Known
<1>11. req'[r].pc = "load" BY <1>4
<1>12. \A s \in Requests \ {r} : req'[s] = req[s] BY <1>1 DEF Inv, TypeOK
<1>13. \A q : ~Works(req[r], q)
  <2>1. req[r].pc = "idle" BY DEF Start, Idle
  <2> QED BY <2>1 DEF Works
<1>14. ~Running(req'[r]) /\ req'[r].pc \notin {"transfer", "settle"} BY <1>11 DEF Running
<1>15. \A q \in OrderIds : cache'[q] = cache[q] BY <1>5
<1>16. \A q \in OrderIds : <<"release", q>> \in orphans' => <<"release", q>> \in orphans BY <1>5
<1>17. UNCHANGED chain BY <1>5 DEF chain
<1>18. UNCHANGED rows BY <1>5
<1> QED BY <1>6, <1>7, <1>10, <1>12, <1>13, <1>14, <1>15, <1>16, <1>17, <1>18, Quiet

LEMMA LoadStep ==
  ASSUME Inv, NEW r \in Requests, NEW op \in Requested, NEW by \in Party, Load(r, op, by)
  PROVE  Inv'
<1>0. PICK o, read : o = req[r].order /\ read = Read(r) OBVIOUS
<1> DEFINE h == [pc |-> FirstPhase(op), order |-> o, read |-> read, op |-> op,
                      consent |-> op = "accept" /\ by = "buyer", tx |-> "none"]
<1>1. At(r, "load") /\ UNCHANGED <<rows, orphans, faults, chain>>
      /\ cache' = [cache EXCEPT ![o] = read] /\ req' = [req EXCEPT ![r] = h]
      /\ read \in ReadIn(op) /\ by \in MayRequest(op)
  BY <1>0 DEF Load, Permits
<1>2. /\ o \in OrderIds /\ rows[o] # NoRow
      /\ read \in RowStatus \cup {"absent"}
      /\ read # "absent" => Known(o, read)
  BY <1>0, <1>1, Reading
<1>3. op \in Operation BY ServiceAssumption DEF Operation, Steps, Updates, Settlements
<1>4. read # "absent" BY <1>1, <1>3 DEF ReadIn, Operation, Steps, Updates, Settlements
<1>5. /\ FirstPhase(op) \in {"broadcast", "write"}
      /\ FirstPhase(op) = "broadcast" => op \in {"ship", "inspect"}
  BY DEF FirstPhase
<1>6. op = "accept" => by = "buyer" BY <1>1 DEF MayRequest, Settlements, Updates
<1>7. h \in Handler BY <1>2, <1>3, <1>4, <1>5 DEF Handler, Phase
<1>8. req'[r] = h /\ \A s \in Requests \ {r} : req'[s] = req[s] BY <1>1 DEF Inv, TypeOK
<1>9. TypeOK' BY <1>1, <1>2, <1>4, <1>7 DEF Inv, TypeOK
<1>10. /\ req'[r].pc = FirstPhase(op) /\ req'[r].order = o /\ req'[r].read = read
       /\ req'[r].op = op /\ req'[r].consent = (op = "accept" /\ by = "buyer")
       /\ req'[r].tx = "none"
  BY <1>8
<1>11. Known(o, read)' BY <1>1, <1>2, <1>4, GrowsNot, KnownGrows
<1> HIDE DEF h
<1>12. Fits(req[r])'
  BY <1>1, <1>2, <1>5, <1>6, <1>10, <1>11 DEF Fits, Phase, Known
<1>13. ~Running(req'[r]) /\ req'[r].pc \notin {"transfer", "settle"}
  BY <1>5, <1>10 DEF Running
<1>14. \A q \in OrderIds :
         \/ cache'[q] = cache[q]
         \/ rows[q] # NoRow /\ (cache'[q] # "absent" => Known(q, cache'[q]))
  BY <1>1, <1>2, <1>4 DEF Inv, TypeOK
<1>15. \A q \in OrderIds : ~Works(req[r], q) BY <1>1 DEF Works, At
<1>16. UNCHANGED rows /\ UNCHANGED chain /\ UNCHANGED orphans /\ UNCHANGED faults
  BY <1>1 DEF chain
<1> QED BY <1>8, <1>9, <1>12, <1>13, <1>14, <1>15, <1>16, Quiet

LEMMA RefuseStep ==
  ASSUME Inv, NEW r \in Requests, Refuse(r)
  PROVE  Inv'
<1> DEFINE o == req[r].order
<1>1. At(r, "load") /\ Reply(r) /\ cache' = [cache EXCEPT ![o] = Read(r)]
  BY DEF Refuse
<1>2. /\ o \in OrderIds /\ rows[o] # NoRow
      /\ Read(r) \in RowStatus \cup {"absent"}
      /\ Read(r) # "absent" => Known(o, Read(r))
  BY <1>1, Reading
<1>3. UNCHANGED rows /\ UNCHANGED chain /\ UNCHANGED orphans /\ UNCHANGED faults
  BY DEF Refuse, chain
<1>4. /\ req' \in [Requests -> Handler \cup Loading \cup {Idle}]
      /\ \A s \in Requests \ {r} : req'[s] = req[s]
      /\ req'[r] = Idle /\ Fits(req[r])' /\ ~Running(req'[r])
      /\ req'[r].pc \notin {"transfer", "settle"}
  BY <1>1, Reset DEF Inv
<1>5. TypeOK' BY <1>1, <1>2, <1>3, <1>4 DEF Inv, TypeOK
<1>6. \A q \in OrderIds : ~Works(req[r], q) BY <1>1 DEF Works, At
<1>7. \A q \in OrderIds :
         \/ cache'[q] = cache[q]
         \/ rows[q] # NoRow /\ (cache'[q] # "absent" => Known(q, cache'[q]))
  BY <1>1, <1>2 DEF Inv, TypeOK
<1> QED BY <1>3, <1>4, <1>5, <1>6, <1>7, Quiet

LEMMA DoneStep ==
  ASSUME Inv, NEW r \in Requests, Done(r)
  PROVE  Inv'
<1> DEFINE o == req[r].order
<1>1. req[r].pc = "done" /\ Reply(r) /\ cache' = [cache EXCEPT ![o] = Result(req[r])]
  BY DEF Done, At, Result
<1>2. /\ o \in OrderIds /\ rows[o] # NoRow /\ req[r] \in Handler
      /\ Fits(req[r])
  BY <1>1, Working DEF Phase
<1>3. Known(o, Result(req[r])) BY <1>1, <1>2 DEF Fits, Phase
<1>4. Result(req[r]) \in RowStatus
  BY <1>2 DEF Handler, Result, Writes, Final, Operation, Steps, Updates, Settlements, RowStatus,
              Processing
<1>5. UNCHANGED rows /\ UNCHANGED chain /\ UNCHANGED orphans /\ UNCHANGED faults
  BY DEF Done, chain
<1>6. /\ req' \in [Requests -> Handler \cup Loading \cup {Idle}]
      /\ \A s \in Requests \ {r} : req'[s] = req[s]
      /\ req'[r] = Idle /\ Fits(req[r])' /\ ~Running(req'[r])
      /\ req'[r].pc \notin {"transfer", "settle"}
  BY <1>1, Reset DEF Inv
<1>7. TypeOK' BY <1>1, <1>2, <1>4, <1>5, <1>6 DEF Inv, TypeOK
<1>8. \A q \in OrderIds : ~Works(req[r], q) BY <1>1 DEF Works
<1>9. \A q \in OrderIds :
         \/ cache'[q] = cache[q]
         \/ rows[q] # NoRow /\ (cache'[q] # "absent" => Known(q, cache'[q]))
  BY <1>1, <1>2, <1>3 DEF Inv, TypeOK
<1> QED BY <1>5, <1>6, <1>7, <1>8, <1>9, Quiet

\* What a handler that goes on must have established.
LEMMA Proceeds ==
  ASSUME Inv, Grow, NEW r \in Requests, req[r].pc \in Phase, NEW pc \in Phase,
         NEW tx \in {"none", "mempool", "running"},
         req' = [req EXCEPT ![r] = [req[r] EXCEPT !.pc = pc, !.tx = tx]],
         pc \in {"broadcast", "receipt"} => req[r].op \in Settlements \cup {"ship", "inspect"},
         pc \in {"transfer", "settle", "restore"} \/ tx = "running" => req[r].op \in Settlements,
         (tx = "none") <=> (pc # "receipt"),
         pc = "done" => Known(req[r].order, Result(req[r]))'
  PROVE  /\ req' \in [Requests -> Handler \cup Loading \cup {Idle}]
         /\ \A s \in Requests \ {r} : req'[s] = req[s]
         /\ req'[r].pc = pc /\ req'[r].tx = tx /\ req'[r].order = req[r].order
         /\ req'[r].op = req[r].op /\ req'[r].read = req[r].read
         /\ Fits(req[r])'
<1> DEFINE h == [req[r] EXCEPT !.pc = pc, !.tx = tx]
<1>1. /\ req[r] \in Handler /\ req[r].order \in OrderIds /\ rows[req[r].order] # NoRow
      /\ req[r].read \in ReadIn(req[r].op) /\ Known(req[r].order, req[r].read)
      /\ req[r].op = "accept" => req[r].consent
  BY Working
<1>2. h \in Handler /\ h.pc = pc /\ h.tx = tx /\ h.order = req[r].order /\ h.read = req[r].read
      /\ h.op = req[r].op /\ h.consent = req[r].consent
  BY <1>1 DEF Handler
<1> HIDE DEF h
<1>3. req'[r] = h /\ \A s \in Requests \ {r} : req'[s] = req[s]
  BY DEF h, Inv, TypeOK
<1>4. req' \in [Requests -> Handler \cup Loading \cup {Idle}]
  BY <1>2 DEF h, Inv, TypeOK
<1>5. PICK o, read : o = req[r].order /\ read = req[r].read OBVIOUS
<1>6. Known(o, read)' /\ rows'[o] # NoRow BY <1>1, <1>5, KnownGrows DEF Grow
<1>7. pc = "done" => Known(o, Result(req[r]))' BY <1>2, <1>3, <1>5 DEF Known
<1>8. Fits(req[r])'
  BY <1>1, <1>2, <1>3, <1>5, <1>6, <1>7 DEF Fits, Phase, Known
<1> QED BY <1>2, <1>3, <1>4, <1>8

LEMMA AnswerShape ==
  ASSUME NEW r \in Requests, NEW success \in BOOLEAN, Answer(r, success), TypeOK
  PROVE  req' = [req EXCEPT ![r] = [req[r] EXCEPT
                   !.pc = IF req[r].op \notin Settlements THEN "write"
                          ELSE IF success THEN "transfer" ELSE "restore",
                   !.tx = "none"]]
<1>1. CASE req[r].op \notin Settlements BY <1>1 DEF Answer, TypeOK
<1>2. CASE req[r].op \in Settlements BY <1>2 DEF Answer, TypeOK
<1> QED BY <1>1, <1>2

LEMMA Refused ==
  ASSUME Inv, UNCHANGED rows, NEW r \in Requests, req[r].pc \in {"broadcast", "receipt"},
         Answer(r, FALSE)
  PROVE  /\ req' \in [Requests -> Handler \cup Loading \cup {Idle}]
         /\ \A s \in Requests \ {r} : req'[s] = req[s]
         /\ Fits(req[r])' /\ ~Running(req'[r]) /\ req'[r].pc \notin {"transfer", "settle"}
         /\ \A o \in OrderIds : Works(req[r], o) => Works(req[r], o)'
<1>1. req[r] \in Handler /\ req[r].pc \in Phase BY Working DEF Phase
<1> DEFINE pc == IF req[r].op \notin Settlements THEN "write" ELSE "restore"
<1>2. req' = [req EXCEPT ![r] = [req[r] EXCEPT !.pc = pc, !.tx = "none"]]
  BY AnswerShape DEF Inv
<1>3. Grow BY GrowsNot
<1>4. pc \in Phase /\ pc # "receipt" /\ pc # "broadcast" /\ pc # "done"
      /\ (pc \in {"transfer", "settle", "restore"} => req[r].op \in Settlements)
      /\ pc \notin {"transfer", "settle"}
  BY DEF Phase
<1>5. req[r].op \in Settlements => pc = "restore" OBVIOUS
<1> HIDE DEF pc
<1>6. /\ req' \in [Requests -> Handler \cup Loading \cup {Idle}]
      /\ \A s \in Requests \ {r} : req'[s] = req[s]
      /\ req'[r].pc = pc /\ req'[r].order = req[r].order /\ req'[r].op = req[r].op
      /\ Fits(req[r])'
  BY <1>1, <1>2, <1>3, <1>4, Proceeds
<1>7. \A o \in OrderIds : Works(req[r], o) => Works(req[r], o)'
  BY <1>5, <1>6 DEF Works
<1> QED BY <1>4, <1>6, <1>7 DEF Running

LEMMA BroadcastStep ==
  ASSUME Inv, NEW r \in Requests, Broadcast(r)
  PROVE  Inv'
<1>1. UNCHANGED rows /\ UNCHANGED cache /\ UNCHANGED orphans /\ UNCHANGED faults
      /\ UNCHANGED chain /\ req[r].pc = "broadcast"
  BY DEF Broadcast, chain, At
<1>2. /\ req' \in [Requests -> Handler \cup Loading \cup {Idle}]
      /\ \A s \in Requests \ {r} : req'[s] = req[s]
      /\ Fits(req[r])' /\ ~Running(req'[r]) /\ req'[r].pc \notin {"transfer", "settle"}
      /\ \A o \in OrderIds : Works(req[r], o) => Works(req[r], o)'
  <2>1. CASE Answer(r, FALSE) BY <1>1, <2>1, Refused
  <2>2. CASE req' = [req EXCEPT ![r].pc = "receipt", ![r].tx = "mempool"]
    <3>1. Grow BY <1>1, GrowsNot
    <3>2. req[r].pc \in Phase BY <1>1 DEF Phase
    <3>3. req[r].op \in Settlements \cup {"ship", "inspect"}
      BY <1>1, <3>2 DEF Inv, JobsFit, Fits
    <3>4. req' = [req EXCEPT ![r] = [req[r] EXCEPT !.pc = "receipt", !.tx = "mempool"]]
      BY <2>2 DEF Inv, TypeOK
    <3>5. "receipt" \in Phase BY DEF Phase
    <3>6. /\ req' \in [Requests -> Handler \cup Loading \cup {Idle}]
          /\ \A s \in Requests \ {r} : req'[s] = req[s]
          /\ req'[r].pc = "receipt" /\ req'[r].tx = "mempool"
          /\ req'[r].order = req[r].order /\ req'[r].op = req[r].op
          /\ Fits(req[r])'
      BY <3>1, <3>2, <3>3, <3>4, <3>5, Proceeds
    <3>7. \A o \in OrderIds : Works(req[r], o) => Works(req[r], o)'
      BY <1>1, <3>6 DEF Works
    <3> QED BY <3>6, <3>7 DEF Running
  <2> QED BY <2>1, <2>2 DEF Broadcast
<1>3. TypeOK' BY <1>1, <1>2 DEF Inv, TypeOK
<1> QED BY <1>1, <1>2, <1>3, Quiet

\* A release that is left behind was asked for on an accepted order.
LEMMA ReleasesConsented ==
  ASSUME Inv, NEW r \in Requests, req[r].pc \in Phase
  PROVE  /\ req[r].order \in OrderIds
         /\ req[r].op = "release" => Consented(req[r].order)
         /\ req[r].pc = "receipt" => req[r].op \in Settlements \cup {"ship", "inspect"}
<1>1. /\ req[r].order \in OrderIds /\ req[r].read \in ReadIn(req[r].op)
      /\ Known(req[r].order, req[r].read) /\ Fits(req[r])
  BY Working
<1>2. req[r].op = "release" => req[r].read = "accepted"
  BY <1>1 DEF ReadIn, Steps, Updates
<1>3. Known(req[r].order, "accepted") => Consented(req[r].order)
  BY DEF Known, Consented
<1> QED BY <1>1, <1>2, <1>3 DEF Fits, Phase

LEMMA AbandonStep ==
  ASSUME Inv, NEW r \in Requests, Abandon(r)
  PROVE  Inv'
<1>1. UNCHANGED rows /\ UNCHANGED cache /\ UNCHANGED chain
      /\ orphans' = orphans \cup {<<req[r].op, req[r].order>>}
      /\ Answer(r, FALSE) /\ req[r].pc = "receipt"
  BY DEF Abandon, chain
<1>2. /\ req' \in [Requests -> Handler \cup Loading \cup {Idle}]
      /\ \A s \in Requests \ {r} : req'[s] = req[s]
      /\ Fits(req[r])' /\ ~Running(req'[r]) /\ req'[r].pc \notin {"transfer", "settle"}
  BY <1>1, Refused
<1>3. faults' \in 0..MaxFaults /\ faults' # 0
  BY ServiceAssumption DEF Abandon, Fault, Inv, TypeOK
<1>4. /\ req[r].order \in OrderIds
      /\ req[r].op = "release" => Consented(req[r].order)
      /\ req[r].op \in Settlements \cup {"ship", "inspect"}
  BY <1>1, ReleasesConsented DEF Phase
<1>5. TypeOK' BY <1>1, <1>2, <1>3, <1>4 DEF Inv, TypeOK
<1>6. \A o \in OrderIds :
        <<"release", o>> \in orphans' => <<"release", o>> \in orphans \/ Consented(o)
  BY <1>1, <1>4
<1> QED BY <1>1, <1>2, <1>3, <1>5, <1>6, Quiet

LEMMA RestartStep ==
  ASSUME Inv, Restart
  PROVE  Inv'
<1>1. UNCHANGED rows /\ UNCHANGED chain BY DEF Restart, chain
<1>2. faults' \in 0..MaxFaults /\ faults' # 0
  BY ServiceAssumption DEF Restart, Fault, Inv, TypeOK
<1>3. req' = [r \in Requests |-> Idle] BY DEF Restart
<1>4. \A r \in Requests :
        /\ req'[r] = Idle /\ Fits(req[r])' /\ ~Running(req'[r])
        /\ req'[r].pc \notin {"transfer", "settle"}
  <2> TAKE r \in Requests
  <2>1. req'[r] = Idle BY <1>3
  <2>2. req'[r].pc = "idle" BY <2>1, IdleFits
  <2>3. Fits(req[r])' BY <2>1, IdleFits
  <2> QED BY <2>1, <2>2, <2>3 DEF Running
<1>5. \A r \in Requests : req[r].pc = "receipt" =>
        /\ req[r].order \in OrderIds /\ req[r].op \in Settlements \cup {"ship", "inspect"}
        /\ req[r].op = "release" => Consented(req[r].order)
  BY ReleasesConsented DEF Phase
<1>6. orphans' = orphans \cup {<<req[r].op, req[r].order>> :
                     r \in {s \in Requests : At(s, "receipt") /\ req[s].tx = "mempool"}}
  BY DEF Restart
<1>7. orphans' \subseteq (Settlements \cup {"ship", "inspect"}) \X OrderIds
  BY <1>5, <1>6 DEF At, Inv, TypeOK
<1>8. \A o \in OrderIds :
        <<"release", o>> \in orphans' => <<"release", o>> \in orphans \/ Consented(o)
  BY <1>5, <1>6 DEF At
<1>9. \A o \in OrderIds : cache'[o] \in {rows[o].status, "absent"}
  BY DEF Restart
<1>10. \A o \in OrderIds : rows[o].status \in RowStatus \cup {"absent"}
  BY DEF Inv, TypeOK, Row, NoRow
<1>11. cache' \in [OrderIds -> RowStatus \cup {"absent"}]
  BY <1>10 DEF Restart
<1>12. TypeOK' BY <1>1, <1>2, <1>3, <1>7, <1>11 DEF Inv, TypeOK
<1>13. \A o \in OrderIds :
         \/ cache'[o] = cache[o] /\ rows[o] # NoRow
         \/ rows'[o] = NoRow /\ cache'[o] = "absent"
         \/ rows'[o] # NoRow /\ (cache'[o] # "absent" => Known(o, cache[o])')
  <2> TAKE o \in OrderIds
  <2>1. CASE rows[o] = NoRow BY <1>1, <1>9, <2>1 DEF NoRow
  <2>2. CASE rows[o] # NoRow
    <3>1. Known(o, rows[o].status) BY <2>2 DEF Inv, RowsFit
    <3> QED BY <1>1, <1>9, <2>2, <3>1 DEF Known
  <2> QED BY <2>1, <2>2
<1>14. Grow BY <1>1, GrowsNot
<1> DEFINE S == Requests
<1>15. /\ S \in SUBSET Requests
       /\ \A s \in Requests \ S : req'[s] = req[s]
       /\ \A s \in S :
           /\ Fits(req[s])'
           /\ ~Running(req'[s])
           /\ req'[s].pc \in {"transfer", "settle"}
              /\ rows'[req'[s].order].method = "wallet" => PaidOut(req'[s].op, req'[s].order)
       /\ \A o \in OrderIds : rows'[o] = rows[o]
  BY <1>1, <1>4
<1> HIDE DEF S
<1> QED BY <1>1, <1>2, <1>8, <1>12, <1>13, <1>14, <1>15, OffChain

-----------------------------------------------------------------------------
(***************************************************************************)
(* The steps that write a row.                                             *)
(***************************************************************************)
LEMMA CreateStep ==
  ASSUME Inv, NEW o \in OrderIds, NEW method \in Rails, CreateEscrowOrder(o, method)
  PROVE  Inv'
<1> DEFINE status == IF method = "wallet" THEN "payment_secured" ELSE "pending_payment"
<1>1. PICK row : row = [status |-> status, method |-> method, accepted |-> FALSE,
                        funded |-> method = "wallet", item |-> "escrow"]
  OBVIOUS
<1>2. /\ rows[o] = NoRow /\ rows' = [rows EXCEPT ![o] = row]
      /\ cache' = [cache EXCEPT ![o] = status]
      /\ UNCHANGED req /\ UNCHANGED orphans /\ UNCHANGED faults /\ UNCHANGED chain
  BY <1>1 DEF CreateEscrowOrder, chain
<1>3. method \in Method BY ServiceAssumption DEF Method
<1>4. status \in RowStatus /\ status # "absent" BY DEF RowStatus
<1>5. row \in Row /\ row # NoRow /\ row.status = status BY <1>1, <1>3, <1>4 DEF Row, NoRow
<1>6. /\ rows'[o] = row /\ cache'[o] = status
      /\ \A q \in OrderIds \ {o} : rows'[q] = rows[q] /\ cache'[q] = cache[q]
  BY <1>2 DEF Inv, TypeOK
<1>7. Grow BY <1>2, <1>6 DEF Grow
<1>8. TypeOK' BY <1>2, <1>4, <1>5 DEF Inv, TypeOK
<1>9. Known(o, rows[o].status)'
  <2>1. rows'[o].status = status /\ (method = "wallet" => rows'[o].funded)
    <3>1. row.status = status /\ row.funded = (method = "wallet") BY <1>1, Zenon
    <3> QED BY <1>6, <3>1, Zenon
  <2>2. status \notin {"accepted", "release_processing", "released"} OBVIOUS
  <2> QED BY <2>1, <2>2 DEF Known
<1>10. PaidRow(o)' BY <1>1, <1>6 DEF PaidRow
<1>11. \A q \in OrderIds :
         \/ rows'[q] = rows[q]
         \/ rows'[q] # NoRow /\ Known(q, rows[q].status)' /\ PaidRow(q)'
  BY <1>5, <1>6, <1>9, <1>10
<1>12. \A q \in OrderIds :
         \/ cache'[q] = cache[q] /\ rows[q] # NoRow
         \/ rows'[q] = NoRow /\ cache'[q] = "absent"
         \/ rows'[q] # NoRow /\ (cache'[q] # "absent" => Known(q, cache[q])')
  <2> TAKE q \in OrderIds
  <2>1. CASE q = o
    <3>1. Known(o, cache[o])' BY <1>5, <1>6, <1>9 DEF Known
    <3> QED BY <1>5, <1>6, <2>1, <3>1
  <2>2. CASE q # o BY <1>6, <2>2 DEF Inv, RowsFit
  <2> QED BY <2>1, <2>2
<1>13. \A q \in OrderIds : rows'[q].status \in Processing => rows'[q].status = rows[q].status
  BY <1>5, <1>6 DEF Processing
<1> DEFINE S == {}
<1>14. /\ S \in SUBSET Requests
       /\ \A s \in Requests \ S : req'[s] = req[s]
       /\ \A s \in S :
           /\ Fits(req[s])'
           /\ ~Running(req'[s])
           /\ req'[s].pc \in {"transfer", "settle"}
              /\ rows'[req'[s].order].method = "wallet" => PaidOut(req'[s].op, req'[s].order)
       /\ \A q \in OrderIds :
           <<"release", q>> \in orphans' => <<"release", q>> \in orphans \/ Consented(q)
       /\ faults' = 0 => faults = 0
       /\ faults' = 0 => \A q \in OrderIds :
           rows'[q].status \in Processing =>
             \/ \E s \in S : Works(req[s], q)'
             \/ rows'[q].status = rows[q].status /\ \A s \in S : ~Works(req[s], q)
  BY <1>2, <1>13
<1> HIDE DEF S
<1> QED BY <1>2, <1>7, <1>8, <1>11, <1>12, <1>14, OffChain

\* Every status a handler writes is one it may.
LEMMA Writing ==
  ASSUME Inv, UNCHANGED committed, NEW r \in Requests, req[r].pc \in Phase,
         NEW o, o = req[r].order, NEW status, Apply(r, status),
         \/ status \in {Writes(req[r].op, req[r].read), req[r].read}
         \/ /\ req[r].op \in Settlements /\ status = Final(req[r].op)
            /\ rows[o].method = "wallet" => PaidOut(req[r].op, o)
  PROVE  /\ rows' \in [OrderIds -> Row \cup {NoRow}] /\ Grow
         /\ \A q \in OrderIds \ {o} : rows'[q] = rows[q]
         /\ rows'[o] # NoRow
         /\ rows'[o].status = status
         /\ rows'[o].method = rows[o].method
         /\ Known(o, status)'
         /\ PaidRow(o)'
<1>1. PICK read, op : read = req[r].read /\ op = req[r].op OBVIOUS
<1>2. /\ req[r] \in Handler /\ o \in OrderIds /\ rows[o] # NoRow
      /\ read \in ReadIn(op) /\ Known(o, read) /\ (op = "accept" => req[r].consent)
  BY <1>1, Working
<1>3. op \in Operation /\ read \in RowStatus BY <1>1, <1>2 DEF Handler
<1>4. status \in RowStatus
  BY <1>1, <1>3 DEF Writes, Final, Operation, Steps, Updates, Settlements, RowStatus,
                    Processing
<1>5. /\ rows' \in [OrderIds -> Row \cup {NoRow}] /\ Grow
      /\ \A q \in OrderIds \ {o} : rows'[q] = rows[q]
      /\ rows'[o].status = status /\ rows'[o].method = rows[o].method
      /\ rows'[o].item = rows[o].item
      /\ req[r].consent => rows'[o].accepted
      /\ op = "verify" => rows'[o].funded
  BY <1>1, <1>2, <1>4, Applied DEF Inv
<1>6. Known(o, read)' /\ rows'[o] # NoRow BY <1>2, <1>5, KnownGrows DEF Grow
<1>7. read # "pending_payment" => rows'[o].funded BY <1>6 DEF Known
<1>8. read = "accepted" => rows'[o].accepted BY <1>6 DEF Known
<1>9. CASE status \in {Writes(op, read), read}
  <2>1. status # "pending_payment" => rows'[o].funded
    <3>1. read = "pending_payment" /\ status # "pending_payment" => op = "verify"
      BY <1>2, <1>3, <1>9 DEF ReadIn, Writes, Operation, Steps, Updates, Settlements
    <3> QED BY <1>5, <1>7, <3>1
  <2>2. status \in {"accepted", "release_processing", "released"} => rows'[o].accepted
    <3>1. status \in {"accepted", "release_processing", "released"} =>
            read = "accepted" \/ op = "accept"
      BY <1>2, <1>3, <1>9 DEF ReadIn, Writes, Operation, Steps, Updates, Settlements
    <3> QED BY <1>2, <1>5, <1>8, <3>1
  <2>3. status \notin {"released", "refunded"}
    BY <1>2, <1>3, <1>9 DEF ReadIn, Writes, Operation, Steps, Updates, Settlements
  <2>4. Known(o, status)' BY <2>1, <2>2 DEF Known
  <2>5. PaidRow(o)' BY <1>2, <1>5, <2>3 DEF PaidRow, Inv, SettledRowsArePaid
  <2> QED BY <1>1, <1>5, <1>6, <2>4, <2>5 DEF Known, PaidRow
<1>10. CASE /\ op \in Settlements /\ status = Final(op)
            /\ rows[o].method = "wallet" => PaidOut(op, o)
  <2>1. read # "pending_payment" /\ (op = "release" => read = "accepted")
    BY <1>2, <1>10 DEF ReadIn, Steps, Updates, Settlements
  <2>2. Known(o, status)' BY <1>7, <1>8, <1>10, <2>1 DEF Known, Final, Settlements
  <2>3. PaidRow(o)'
    BY <1>2, <1>5, <1>10 DEF PaidRow, PaidOut, Final, Settlements, Inv, SettledRowsArePaid
  <2> QED BY <1>1, <1>5, <1>6, <2>2, <2>3 DEF Known, PaidRow
<1> QED BY <1>1, <1>9, <1>10

\* A handler writes its row and goes on, or ends.
LEMMA Wrote ==
  ASSUME Inv, UNCHANGED cache, UNCHANGED orphans, UNCHANGED chain, NEW r \in Requests,
         NEW o \in OrderIds, o = req[r].order, Grow,
         rows' \in [OrderIds -> Row \cup {NoRow}],
         \A q \in OrderIds \ {o} : rows'[q] = rows[q],
         rows'[o] # NoRow, Known(o, rows[o].status)', PaidRow(o)',
         req' \in [Requests -> Handler \cup Loading \cup {Idle}],
         \A s \in Requests \ {r} : req'[s] = req[s],
         Fits(req[r])', ~Running(req'[r]),
         req'[r].pc \in {"transfer", "settle"} /\ rows'[req'[r].order].method = "wallet" =>
           PaidOut(req'[r].op, req'[r].order),
         faults' \in 0..MaxFaults, faults' = 0 => faults = 0,
         faults' = 0 /\ rows'[o].status \in Processing =>
           Works(req[r], o)' \/ (rows'[o].status = rows[o].status /\ ~Works(req[r], o))
  PROVE  Inv'
<1>1. TypeOK' BY DEF Inv, TypeOK
<1>2. \A q \in OrderIds :
         \/ rows'[q] = rows[q]
         \/ rows'[q] # NoRow /\ Known(q, rows[q].status)' /\ PaidRow(q)'
  OBVIOUS
<1>3. \A q \in OrderIds :
         \/ cache'[q] = cache[q] /\ rows[q] # NoRow
         \/ rows'[q] = NoRow /\ cache'[q] = "absent"
         \/ rows'[q] # NoRow /\ (cache'[q] # "absent" => Known(q, cache[q])')
  <2> TAKE q \in OrderIds
  <2>1. CASE rows[q] # NoRow BY <2>1
  <2>2. CASE rows[q] = NoRow
    <3>1. cache'[q] = "absent" BY <2>2 DEF Inv, RowsFit
    <3> QED BY <3>1
  <2> QED BY <2>1, <2>2
<1>4. \A q \in OrderIds : q # o => ~Works(req[r], q) BY DEF Works
<1> DEFINE S == {r}
<1>5. /\ S \in SUBSET Requests
      /\ \A s \in Requests \ S : req'[s] = req[s]
      /\ \A s \in S :
          /\ Fits(req[s])'
          /\ ~Running(req'[s])
          /\ req'[s].pc \in {"transfer", "settle"}
             /\ rows'[req'[s].order].method = "wallet" => PaidOut(req'[s].op, req'[s].order)
      /\ \A q \in OrderIds :
          <<"release", q>> \in orphans' => <<"release", q>> \in orphans \/ Consented(q)
  OBVIOUS
<1>6. faults' = 0 => \A q \in OrderIds :
          rows'[q].status \in Processing =>
            \/ \E s \in S : Works(req[s], q)'
            \/ rows'[q].status = rows[q].status /\ \A s \in S : ~Works(req[s], q)
  BY <1>4
<1> HIDE DEF S
<1> QED BY <1>1, <1>2, <1>3, <1>5, <1>6, OffChain

\* A handler ends without having written anything.
LEMMA Leaves ==
  ASSUME Inv, UNCHANGED <<rows, cache, orphans, chain>>, NEW r \in Requests, Reply(r),
         faults' \in 0..MaxFaults, faults' = 0 => faults = 0,
         faults' = 0 => \A o \in OrderIds : ~Works(req[r], o)
  PROVE  Inv'
<1>1. UNCHANGED rows /\ UNCHANGED cache /\ UNCHANGED orphans /\ UNCHANGED chain
  BY DEF chain
<1>2. /\ req' \in [Requests -> Handler \cup Loading \cup {Idle}]
      /\ \A s \in Requests \ {r} : req'[s] = req[s]
      /\ Fits(req[r])' /\ ~Running(req'[r])
      /\ req'[r].pc \notin {"transfer", "settle"}
  BY Reset DEF Inv
<1>3. TypeOK' BY <1>1, <1>2 DEF Inv, TypeOK
<1> QED BY <1>1, <1>2, <1>3, Quiet

LEMMA Failing ==
  /\ TypeOK /\ Fault => faults' \in 0..MaxFaults /\ faults' # 0
  /\ TypeOK /\ UNCHANGED faults => faults' \in 0..MaxFaults
BY ServiceAssumption DEF TypeOK, Fault

\* A handler's update is applied, but the handler throws: its answer was lost,
\* or it was the update that gives a claim back.
LEMMA WritesAndLeaves ==
  ASSUME Inv, UNCHANGED <<cache, orphans, chain>>, NEW r \in Requests, req[r].pc \in Phase,
         NEW o, o = req[r].order, NEW status, Apply(r, status), Reply(r),
         \/ status \in {Writes(req[r].op, req[r].read), req[r].read}
         \/ /\ req[r].op \in Settlements /\ status = Final(req[r].op)
            /\ rows[o].method = "wallet" => PaidOut(req[r].op, o),
         faults' \in 0..MaxFaults, faults' = 0 => faults = 0,
         faults' = 0 => status \notin Processing
  PROVE  Inv'
<1>1. UNCHANGED cache /\ UNCHANGED orphans /\ UNCHANGED chain /\ UNCHANGED committed
  BY DEF chain
<1>2. /\ rows' \in [OrderIds -> Row \cup {NoRow}] /\ Grow
      /\ \A q \in OrderIds \ {o} : rows'[q] = rows[q]
      /\ rows'[o] # NoRow /\ rows'[o].status = status
      /\ Known(o, status)' /\ PaidRow(o)'
  BY <1>1, Writing
<1>3. o \in OrderIds BY Working
<1>4. Known(o, rows[o].status)' BY <1>2 DEF Known
<1>5. /\ req' \in [Requests -> Handler \cup Loading \cup {Idle}]
      /\ \A s \in Requests \ {r} : req'[s] = req[s]
      /\ Fits(req[r])' /\ ~Running(req'[r])
      /\ req'[r].pc \notin {"transfer", "settle"}
  BY Reset DEF Inv
<1>6. ~(faults' = 0 /\ rows'[o].status \in Processing) BY <1>2
<1> QED BY <1>1, <1>2, <1>3, <1>4, <1>5, <1>6, Wrote

LEMMA WriteStep ==
  ASSUME Inv, NEW r \in Requests, Write(r)
  PROVE  Inv'
<1>1. PICK o, read, op : o = req[r].order /\ read = req[r].read /\ op = req[r].op OBVIOUS
<1>2. PICK status : status = Writes(op, read) OBVIOUS
<1>3. req[r].pc = "write" /\ req[r].pc \in Phase /\ UNCHANGED <<cache, orphans, chain>>
  BY DEF Write, At, Phase
<1>4. /\ req[r] \in Handler /\ o \in OrderIds /\ rows[o] # NoRow
      /\ rows[o] \in Row /\ op \in Operation
  BY <1>1, <1>3, Working DEF Inv, TypeOK, Handler
<1>5. \A q \in OrderIds : ~Works(req[r], q) BY <1>3 DEF Works
<1>6. CASE Reply(r) /\ UNCHANGED rows /\ (Fault \/ UNCHANGED faults)
  BY <1>3, <1>5, <1>6, Failing, Leaves DEF Inv
<1>7. CASE Apply(r, status) /\ Reply(r) /\ Fault
  <2>1. faults' \in 0..MaxFaults /\ faults' # 0 BY <1>7, Failing DEF Inv
  <2> QED BY <1>1, <1>2, <1>3, <1>7, <2>1, WritesAndLeaves
<1>8. CASE Apply(r, status) /\ Goto(r, NextPhase(r)) /\ UNCHANGED faults
  <2>1. PICK pc : pc = NextPhase(r) OBVIOUS
  <2>2. /\ op \notin Settlements => pc = "done"
        /\ op \in Settlements => pc = IF rows[o].method = "wallet" THEN "broadcast" ELSE "transfer"
    BY <1>1, <2>1 DEF NextPhase
  <2>3. /\ rows' \in [OrderIds -> Row \cup {NoRow}] /\ Grow
        /\ \A q \in OrderIds \ {o} : rows'[q] = rows[q]
        /\ rows'[o] # NoRow /\ rows'[o].status = status /\ rows'[o].method = rows[o].method
        /\ Known(o, status)' /\ PaidRow(o)'
    <3>1. UNCHANGED committed BY <1>3 DEF chain
    <3> QED BY <1>1, <1>2, <1>3, <1>8, <3>1, Writing
  <2>4. Known(o, rows[o].status)' BY <2>3 DEF Known
  <2>5. pc \in {"done", "broadcast", "transfer"} /\ pc \in Phase BY <2>2 DEF Phase
  <2>6. req[r].tx = "none" BY <1>3, Working DEF Fits, Phase
  <2>7. req' = [req EXCEPT ![r] = [req[r] EXCEPT !.pc = pc, !.tx = "none"]]
    <3>1. [req[r] EXCEPT !.pc = pc] = [req[r] EXCEPT !.pc = pc, !.tx = "none"]
      BY <1>4, <2>6 DEF Handler
    <3> QED BY <1>8, <2>1, <3>1 DEF Goto, Inv, TypeOK
  <2>8. req'[r].order = o /\ req'[r].op = op /\ req'[r].read = read /\ req'[r].pc = pc
    BY <1>1, <1>4, <2>7 DEF Inv, TypeOK, Handler
  <2>9. pc = "done" => Known(req[r].order, Result(req[r]))'
    BY <1>2, <2>2, <2>3, <2>8 DEF Result, Known
  <2>10. /\ req' \in [Requests -> Handler \cup Loading \cup {Idle}]
         /\ \A s \in Requests \ {r} : req'[s] = req[s]
         /\ req'[r].pc = pc /\ req'[r].tx = "none" /\ Fits(req[r])'
    BY <1>1, <1>3, <2>2, <2>3, <2>5, <2>7, <2>9, Proceeds
  <2>11. ~Running(req'[r]) BY <2>10 DEF Running
  <2>12. ~(req'[r].pc \in {"transfer", "settle"} /\ rows'[req'[r].order].method = "wallet")
    BY <2>2, <2>3, <2>5, <2>8
  <2>13. rows'[o].status \in Processing => Works(req[r], o)'
    <3>1. status \in Processing => op \in Settlements /\ status = Claimed(op)
      <4>1. read \in ReadIn(op) BY <1>1, <1>3, Working
      <4> QED BY <1>2, <1>4, <4>1
              DEF Writes, ReadIn, Claimed, Processing, Operation, Steps, Updates, Settlements
    <3> QED BY <2>2, <2>3, <2>8, <3>1 DEF Works
  <2>14. faults' \in 0..MaxFaults /\ (faults' = 0 => faults = 0) BY <1>8, Failing DEF Inv
  <2>15. UNCHANGED cache /\ UNCHANGED orphans /\ UNCHANGED chain BY <1>3 DEF chain
  <2> QED BY <1>1, <1>4, <2>3, <2>4, <2>10, <2>11, <2>12, <2>13, <2>14, <2>15, Wrote
<1> QED BY <1>1, <1>2, <1>6, <1>7, <1>8 DEF Write

\* What a handler between the contract's answer and the last update relies on.
LEMMA Settling ==
  ASSUME Inv, NEW r \in Requests, req[r].pc \in {"transfer", "settle", "restore"},
         NEW o, o = req[r].order, NEW op, op = req[r].op
  PROVE  /\ req[r] \in Handler /\ req[r].pc \in Phase /\ req[r].tx = "none"
         /\ o \in OrderIds /\ rows[o] # NoRow /\ rows[o] \in Row
         /\ op \in Settlements /\ req[r].read \in ReadIn(op)
         /\ Known(o, Final(op))
         /\ req[r].pc # "restore" /\ rows[o].method = "wallet" => PaidOut(op, o)
<1>1. req[r].pc \in Phase BY DEF Phase
<1>2. /\ req[r] \in Handler /\ o \in OrderIds /\ rows[o] # NoRow
      /\ req[r].read \in ReadIn(op) /\ Known(o, req[r].read) /\ Fits(req[r])
  BY <1>1, Working
<1>3. op \in Settlements /\ req[r].tx = "none" BY <1>1, <1>2 DEF Fits
<1>4. Known(o, Final(op))
  BY <1>2, <1>3 DEF Known, Final, ReadIn, Steps, Updates, Settlements
<1> QED BY <1>1, <1>2, <1>3, <1>4 DEF Inv, TypeOK, SettlingFits

\* The handler goes on to the phase pc.
LEMMA GoesOn ==
  ASSUME Inv, Grow, NEW r \in Requests, req[r].pc \in {"transfer", "settle"},
         NEW o, o = req[r].order, NEW op, op = req[r].op,
         NEW pc \in {"settle", "done"}, Goto(r, pc)
  PROVE  /\ req' \in [Requests -> Handler \cup Loading \cup {Idle}]
         /\ \A s \in Requests \ {r} : req'[s] = req[s]
         /\ req'[r].pc = pc /\ req'[r].order = o /\ req'[r].op = op
         /\ Fits(req[r])' /\ ~Running(req'[r])
<1>1. /\ req[r] \in Handler /\ req[r].pc \in Phase /\ req[r].tx = "none"
      /\ o \in OrderIds /\ rows[o] # NoRow /\ op \in Settlements /\ Known(o, Final(op))
  BY Settling
<1>2. pc \in Phase BY DEF Phase
<1>3. req' = [req EXCEPT ![r] = [req[r] EXCEPT !.pc = pc, !.tx = "none"]]
  <2>1. [req[r] EXCEPT !.pc = pc] = [req[r] EXCEPT !.pc = pc, !.tx = "none"]
    BY <1>1 DEF Handler
  <2> QED BY <2>1 DEF Goto, Inv, TypeOK
<1>4. req'[r].order = o /\ req'[r].op = op
  BY <1>1, <1>3 DEF Inv, TypeOK, Handler
<1>5. PICK status : status = Final(op) OBVIOUS
<1>6. Known(o, status)' BY <1>1, <1>5, KnownGrows
<1>7. Known(req[r].order, Result(req[r]))'
  BY <1>1, <1>4, <1>5, <1>6 DEF Result, Known
<1>8. /\ req' \in [Requests -> Handler \cup Loading \cup {Idle}]
      /\ \A s \in Requests \ {r} : req'[s] = req[s]
      /\ req'[r].pc = pc /\ req'[r].tx = "none" /\ Fits(req[r])'
  BY <1>1, <1>2, <1>3, <1>7, Proceeds
<1> QED BY <1>4, <1>8 DEF Running

LEMMA TransferStep ==
  ASSUME Inv, NEW r \in Requests, Transfer(r)
  PROVE  Inv'
<1>1. PICK o, op : o = req[r].order /\ op = req[r].op OBVIOUS
<1>2. req[r].pc = "transfer" /\ Goto(r, "settle")
      /\ UNCHANGED cache /\ UNCHANGED orphans /\ UNCHANGED chain
  BY DEF Transfer, At, chain
<1>3. /\ o \in OrderIds /\ rows[o] # NoRow /\ rows[o] \in Row /\ op \in Settlements
      /\ Known(o, Final(op)) /\ (rows[o].method = "wallet" => PaidOut(op, o))
  BY <1>1, <1>2, Settling
<1>4. PICK item \in {"escrow", "buyer", "seller"} :
        /\ rows' = [rows EXCEPT ![o] = [rows[o] EXCEPT !.item = item]]
        /\ \/ item = rows[o].item
           \/ item = IF op = "release" THEN "buyer" ELSE "seller"
  <2>1. CASE UNCHANGED rows
    <3>1. rows[o] = [rows[o] EXCEPT !.item = rows[o].item] BY <1>3 DEF Row
    <3>2. rows' = [rows EXCEPT ![o] = [rows[o] EXCEPT !.item = rows[o].item]]
      BY <1>3, <2>1, <3>1 DEF Inv, TypeOK
    <3> QED BY <1>3, <3>2 DEF Row
  <2>2. CASE rows' = [rows EXCEPT ![o].item = IF op = "release" THEN "buyer" ELSE "seller"]
    BY <1>3, <2>2 DEF Inv, TypeOK
  <2> QED BY <1>1, <2>1, <2>2 DEF Transfer
<1>5. /\ rows'[o] \in Row /\ rows'[o].item = item /\ rows'[o].status = rows[o].status
      /\ rows'[o].method = rows[o].method /\ rows'[o].accepted = rows[o].accepted
      /\ rows'[o].funded = rows[o].funded
      /\ \A q \in OrderIds \ {o} : rows'[q] = rows[q]
  BY <1>3, <1>4 DEF Inv, TypeOK, Row
<1>6. rows'[o] # NoRow
  <2>1. rows[o].status # "absent" BY <1>3 DEF Row, RowStatus, Processing
  <2> QED BY <1>5, <2>1 DEF NoRow
<1>7. rows' \in [OrderIds -> Row \cup {NoRow}] BY <1>4, <1>5 DEF Inv, TypeOK
<1>8. Grow
  <2>1. /\ rows'[o].method = rows[o].method
        /\ rows[o].accepted => rows'[o].accepted
        /\ rows[o].funded => rows'[o].funded
    BY <1>5, Zenon
  <2> QED BY <1>5, <1>6, <2>1 DEF Grow
<1>9. Known(o, rows[o].status)'
  <2>1. PICK status : status = rows[o].status OBVIOUS
  <2>2. Known(o, status) BY <1>3, <2>1 DEF Inv, RowsFit
  <2>3. Known(o, status)' BY <1>3, <1>8, <2>2, KnownGrows
  <2> QED BY <1>5, <2>1, <2>3 DEF Known
<1>10. PaidRow(o)'
  BY <1>2, <1>3, <1>4, <1>5
     DEF PaidRow, PaidOut, Settlements, Inv, SettledRowsArePaid, chain
<1>11. /\ req' \in [Requests -> Handler \cup Loading \cup {Idle}]
       /\ \A s \in Requests \ {r} : req'[s] = req[s]
       /\ req'[r].pc = "settle" /\ req'[r].order = o /\ req'[r].op = op
       /\ Fits(req[r])' /\ ~Running(req'[r])
  BY <1>1, <1>2, <1>8, GoesOn
<1>12. faults' \in 0..MaxFaults /\ (faults' = 0 => faults = 0)
  BY Failing DEF Transfer, Inv
<1>13. Works(req[r], o)' \/ (rows'[o].status = rows[o].status /\ ~Works(req[r], o))
  BY <1>1, <1>5, <1>11 DEF Works
<1>14. rows'[req'[r].order].method = "wallet" => PaidOut(req'[r].op, req'[r].order)
  BY <1>3, <1>5, <1>11
<1> QED BY <1>1, <1>2, <1>3, <1>5, <1>6, <1>7, <1>8, <1>9, <1>10, <1>11, <1>12, <1>13, <1>14,
           Wrote

LEMMA SettleStep ==
  ASSUME Inv, NEW r \in Requests, Settle(r)
  PROVE  Inv'
<1>1. PICK o, op, status : o = req[r].order /\ op = req[r].op /\ status = Final(op) OBVIOUS
<1>2. req[r].pc = "settle" /\ UNCHANGED cache /\ UNCHANGED orphans /\ UNCHANGED chain
  BY DEF Settle, At, chain
<1>3. /\ req[r].pc \in Phase /\ o \in OrderIds /\ rows[o] # NoRow /\ op \in Settlements
      /\ rows[o].method = "wallet" => PaidOut(op, o)
  BY <1>1, <1>2, Settling
<1>4. status \notin Processing BY <1>1 DEF Final, Processing
<1>5. CASE Apply(r, status) /\ Reply(r) /\ Fault
  <2>1. faults' \in 0..MaxFaults /\ faults' # 0 BY <1>5, Failing DEF Inv
  <2> QED BY <1>1, <1>2, <1>3, <1>5, <2>1, WritesAndLeaves
<1>6. CASE Reply(r) /\ Fault /\ UNCHANGED rows
  BY <1>2, <1>6, Failing, Leaves DEF Inv
<1>7. CASE Apply(r, status) /\ Goto(r, "done") /\ UNCHANGED faults
  <2>1. UNCHANGED committed BY <1>2 DEF chain
  <2>2. /\ rows' \in [OrderIds -> Row \cup {NoRow}] /\ Grow
        /\ \A q \in OrderIds \ {o} : rows'[q] = rows[q]
        /\ rows'[o] # NoRow /\ rows'[o].status = status
        /\ Known(o, status)' /\ PaidRow(o)'
    BY <1>1, <1>3, <1>7, <2>1, Writing
  <2>3. /\ req' \in [Requests -> Handler \cup Loading \cup {Idle}]
        /\ \A s \in Requests \ {r} : req'[s] = req[s]
        /\ req'[r].pc = "done" /\ Fits(req[r])' /\ ~Running(req'[r])
    BY <1>1, <1>2, <1>7, <2>2, GoesOn
  <2>4. Known(o, rows[o].status)' BY <2>2 DEF Known
  <2>5. faults' \in 0..MaxFaults /\ (faults' = 0 => faults = 0) BY <1>7, Failing DEF Inv
  <2> QED BY <1>1, <1>2, <1>3, <1>4, <2>2, <2>3, <2>4, <2>5, Wrote
<1>8. CASE rows[o].status # Claimed(op) /\ Goto(r, "done") /\ UNCHANGED <<rows, faults>>
  <2>1. Grow BY <1>8, GrowsNot
  <2>2. /\ req' \in [Requests -> Handler \cup Loading \cup {Idle}]
        /\ \A s \in Requests \ {r} : req'[s] = req[s]
        /\ req'[r].pc = "done" /\ Fits(req[r])' /\ ~Running(req'[r])
    BY <1>1, <1>2, <1>8, <2>1, GoesOn
  <2>3. \A q \in OrderIds : ~Works(req[r], q) BY <1>1, <1>8 DEF Works
  <2>4. TypeOK' BY <1>2, <1>8, <2>2 DEF Inv, TypeOK
  <2> QED BY <1>2, <1>8, <2>2, <2>3, <2>4, Quiet
<1> QED BY <1>1, <1>5, <1>6, <1>7, <1>8 DEF Settle

LEMMA RestoreStep ==
  ASSUME Inv, NEW r \in Requests, Restore(r)
  PROVE  Inv'
<1>1. PICK o, op, read : o = req[r].order /\ op = req[r].op /\ read = req[r].read OBVIOUS
<1>2. req[r].pc = "restore" /\ Reply(r) /\ UNCHANGED <<cache, orphans, chain>>
  BY DEF Restore, At
<1>3. /\ req[r].pc \in Phase /\ op \in Settlements /\ read \in ReadIn(op)
  BY <1>1, <1>2, Settling
<1>4. read \notin Processing
  BY <1>3 DEF ReadIn, Processing, Steps, Updates, Settlements
<1>5. CASE Apply(r, read) /\ UNCHANGED faults
  <2>1. faults' \in 0..MaxFaults BY <1>5, Failing DEF Inv
  <2> QED BY <1>1, <1>2, <1>3, <1>4, <1>5, <2>1, WritesAndLeaves
<1>6. CASE rows[o].status # Claimed(op) /\ UNCHANGED <<rows, faults>>
  <2>1. \A q \in OrderIds : ~Works(req[r], q) BY <1>1, <1>6 DEF Works
  <2>2. faults' \in 0..MaxFaults BY <1>6, Failing DEF Inv
  <2> QED BY <1>2, <1>6, <2>1, <2>2, Leaves
<1>7. CASE Fault /\ UNCHANGED rows BY <1>2, <1>7, Failing, Leaves DEF Inv
<1> QED BY <1>1, <1>5, <1>6, <1>7 DEF Restore

-----------------------------------------------------------------------------
(***************************************************************************)
(* The steps of the contract.                                              *)
(***************************************************************************)
LEMMA ChainFacts ==
  ASSUME P!IInv
  PROVE  /\ orders \in [OrderIds -> P!EscrowOrder]
         /\ paid \in [OrderIds -> [seller: Nat, buyer: Nat]]
         /\ committed.paid \in [OrderIds -> [seller: Nat, buyer: Nat]]
         /\ guard = {} => committed.paid = paid
         /\ \A o \in OrderIds :
              IF o \in guard
              THEN committed.paid[o].seller = 0 /\ committed.paid[o].buyer = 0
              ELSE paid[o] = committed.paid[o]
<1>1. P!Storage \in P!StorageType /\ committed \in P!StorageType
  BY DEF P!IInv, P!TypeOK
<1>2. /\ orders \in [OrderIds -> P!EscrowOrder]
      /\ paid \in [OrderIds -> [seller: Nat, buyer: Nat]]
      /\ committed.paid \in [OrderIds -> [seller: Nat, buyer: Nat]]
      /\ committed.orders \in [OrderIds -> P!EscrowOrder]
  BY <1>1 DEF P!Storage, P!StorageType
<1>3. guard = {} => committed.paid = paid
  BY DEF P!IInv, P!InTransaction, P!Storage
<1>4. ASSUME NEW o \in OrderIds, o \in guard
      PROVE  committed.paid[o].seller = 0 /\ committed.paid[o].buyer = 0
  <2>1. P!Live(committed.orders[o]) BY <1>4 DEF P!IInv, P!InTransaction, P!Settles
  <2>2. P!PaidIs(committed.orders[o], committed.paid[o])
    BY DEF P!IInv, P!SoundBefore, P!Sound
  <2> QED BY <2>1, <2>2 DEF P!PaidIs, P!Live, P!Settled
<1>5. ASSUME NEW o \in OrderIds, o \notin guard PROVE paid[o] = committed.paid[o]
  BY <1>5 DEF P!IInv, P!InTransaction
<1> QED BY <1>2, <1>3, <1>4, <1>5

\* What was settled on the chain was paid.
LEMMA SettledWasPaid ==
  ASSUME P!IInv, NEW o \in OrderIds
  PROVE  /\ orders[o].status = "ReleasedToSeller" => paid[o].seller > 0
         /\ orders[o].status = "RefundedToBuyer" => paid[o].buyer > 0
<1>1. P!PaidIs(orders[o], paid[o]) BY DEF P!IInv, P!SoundNow, P!Sound
<1>2. orders[o].status # "None" => orders[o].amount \in Nat \ {0}
  BY ChainFacts DEF P!EscrowOrder, P!NoOrder
<1> QED BY <1>1, <1>2 DEF P!PaidIs

\* What the calls of the relayer do to the payments.
LEMMA Executed ==
  ASSUME P!IInv, guard = {}, NEW op, NEW o \in OrderIds, Executes(op, o)
  PROVE  \/ /\ op \in {"ship", "inspect"}
            /\ guard' = {} /\ paid' = paid /\ committed'.paid = committed.paid
         \/ /\ op \in Settlements
            /\ guard' = {o} /\ committed' = committed
            /\ orders'[o].status =
                 IF op = "release" THEN "ReleasedToSeller" ELSE "RefundedToBuyer"
            /\ \A q \in OrderIds :
                 paid'[q].seller > 0 => paid[q].seller > 0 \/ (q = o /\ op = "release")
<1>1. CASE \/ op = "ship" /\ Chain!RecordShipment(Relayer, o)
           \/ op = "inspect" /\ Chain!ConfirmInspection(Relayer, o)
  <2>1. guard' = {} /\ paid' = paid /\ committed'.paid = paid'
    BY <1>1 DEF Chain!RecordShipment, Chain!ConfirmInspection, Chain!Advance, Chain!Update,
                Chain!Commit, Chain!Storage
  <2> QED BY <1>1, <2>1, ChainFacts
<1>2. CASE op = "release" /\ Chain!ReleaseToSeller(Relayer, o)
  <2>1. /\ orders' = [orders EXCEPT ![o] = Chain!Moved(@, "ReleasedToSeller", {"resolvedAt"})]
        /\ paid' = [paid EXCEPT ![o]["seller"] = @ + orders[o].amount]
        /\ guard' = {o} /\ committed' = committed
    BY <1>2 DEF Chain!ReleaseToSeller, Chain!BeginSettlement
  <2>2. orders'[o].status = "ReleasedToSeller"
    BY <2>1, ChainFacts DEF Chain!Moved, P!EscrowOrder, P!NoOrder
  <2>3. \A q \in OrderIds \ {o} : paid'[q] = paid[q] BY <2>1, ChainFacts
  <2> QED BY <1>2, <2>1, <2>2, <2>3 DEF Settlements
<1>3. CASE op = "refund" /\ Chain!RefundToBuyer(Relayer, o)
  <2>1. /\ orders' = [orders EXCEPT ![o] = Chain!Moved(@, "RefundedToBuyer", {"resolvedAt"})]
        /\ paid' = [paid EXCEPT ![o]["buyer"] = @ + orders[o].amount]
        /\ guard' = {o} /\ committed' = committed
    BY <1>3 DEF Chain!RefundToBuyer, Chain!BeginSettlement
  <2>2. orders'[o].status = "RefundedToBuyer"
    BY <2>1, ChainFacts DEF Chain!Moved, P!EscrowOrder, P!NoOrder
  <2>3. \A q \in OrderIds : paid'[q].seller = paid[q].seller BY <2>1, ChainFacts
  <2> QED BY <1>3, <2>1, <2>2, <2>3 DEF Settlements
<1> QED BY <1>1, <1>2, <1>3 DEF Executes

\* A step of the contract, and of the handler that learns of it.
LEMMA OnChain ==
  ASSUME Inv, TypeOK', UNCHANGED rows, UNCHANGED cache, UNCHANGED faults,
         orphans' \subseteq orphans, RunningFits',
         \A s \in Requests :
           \/ req'[s] = req[s]
           \/ /\ Fits(req[s])'
              /\ req'[s].pc \in {"transfer", "settle"} => PaidOut(req[s].op, req[s].order)'
              /\ \A o \in OrderIds : Works(req[s], o) => Works(req[s], o)',
         \A o \in OrderIds :
           /\ paid'[o].seller > 0 \/ committed'.paid[o].seller > 0
              => \/ <<"release", o>> \in orphans \/ paid[o].seller > 0
                 \/ committed.paid[o].seller > 0
                 \/ Consented(o)
           /\ committed.paid[o].seller > 0 => committed'.paid[o].seller > 0
           /\ committed.paid[o].buyer > 0 => committed'.paid[o].buyer > 0
  PROVE  Inv'
<1>1. TypeOK /\ RowsFit /\ JobsFit /\ PaymentsFit /\ SettlingFits
      /\ SettledRowsArePaid /\ ClaimHasHandler
  BY DEF Inv
<1>2. Grow BY GrowsNot
<1>3. RowsFit' BY <1>1 DEF RowsFit, Known
<1>4. JobsFit'
  <2> SUFFICES ASSUME NEW s \in Requests PROVE Fits(req[s])' BY DEF JobsFit
  <2>1. Fits(req[s]) BY <1>1 DEF JobsFit
  <2> QED BY <1>1, <1>2, <2>1, FitsGrows
<1>5. PaymentsFit'
  <2>1. \A o \in OrderIds :
           \/ <<"release", o>> \in orphans' \/ paid'[o].seller > 0
           \/ committed'.paid[o].seller > 0
           => \/ <<"release", o>> \in orphans \/ paid[o].seller > 0
              \/ committed.paid[o].seller > 0
              \/ Consented(o)
    OBVIOUS
  <2> QED BY <1>1, <1>2, <2>1, PaymentsStep
<1>6. SettlingFits'
  <2> SUFFICES ASSUME NEW s \in Requests, req'[s].pc \in {"transfer", "settle"},
                      rows'[req'[s].order].method = "wallet"
               PROVE  PaidOut(req[s].op, req[s].order)'
    BY DEF SettlingFits
  <2>1. CASE req'[s] = req[s]
    <3>1. PaidOut(req[s].op, req[s].order) BY <1>1, <2>1 DEF SettlingFits
    <3>2. req[s].order \in OrderIds BY <1>1, <2>1, Kinds
    <3> QED BY <2>1, <3>1, <3>2 DEF PaidOut
  <2>2. CASE req'[s] # req[s] BY <2>2
  <2> QED BY <2>1, <2>2
<1>7. SettledRowsArePaid' BY <1>1, PaidRowsStep
<1>8. ClaimHasHandler'
  <2> SUFFICES ASSUME faults' = 0, NEW o \in OrderIds, rows'[o].status \in Processing
               PROVE  \E s \in Requests : Works(req[s], o)'
    BY DEF ClaimHasHandler, Works
  <2>1. PICK s \in Requests : Works(req[s], o) BY <1>1 DEF ClaimHasHandler, Works
  <2>2. Works(req[s], o)' BY <2>1 DEF Works
  <2> QED BY <2>2
<1> QED BY <1>3, <1>4, <1>5, <1>6, <1>7, <1>8 DEF Inv

LEMMA NoneRuns ==
  ASSUME RunningFits, guard = {}, NEW r \in Requests
  PROVE  ~Running(req[r])
BY DEF RunningFits

LEMMA PartyCallsStep ==
  ASSUME Inv, P!IInv, NEW o \in OrderIds, PartyCalls(o)
  PROVE  Inv'
<1>1. guard = {} /\ UNCHANGED rows /\ UNCHANGED cache /\ UNCHANGED req /\ UNCHANGED orphans
      /\ UNCHANGED faults
  BY DEF PartyCalls, service
<1>2. paid' = paid /\ committed'.paid = paid'
  BY <1>1 DEF PartyCalls, Chain!Deposit, Chain!Store, Chain!RecordShipment,
         Chain!ConfirmDelivery, Chain!AcceptAsset, Chain!OpenDispute, Chain!Advance,
         Chain!Update, Chain!Commit, Chain!Storage
<1>3. committed'.paid = committed.paid BY <1>1, <1>2, ChainFacts
<1>4. RunningFits'
  <2>1. \A s \in Requests : ~Running(req'[s]) BY <1>1, NoneRuns DEF Inv
  <2> QED BY <2>1 DEF RunningFits, Running
<1>5. TypeOK' BY <1>1 DEF Inv, TypeOK
<1> QED BY <1>1, <1>2, <1>3, <1>4, <1>5, OnChain

LEMMA MineStep ==
  ASSUME Inv, P!IInv, NEW r \in Requests, Mine(r)
  PROVE  Inv'
<1>1. PICK o, op : o = req[r].order /\ op = req[r].op OBVIOUS
<1>2. /\ req[r].pc = "receipt" /\ req[r].tx = "mempool" /\ guard = {}
      /\ UNCHANGED rows /\ UNCHANGED cache /\ UNCHANGED orphans /\ UNCHANGED faults
  BY DEF Mine, At
<1>3. req[r].pc \in Phase BY <1>2 DEF Phase
<1>4. req[r] \in Handler /\ o \in OrderIds /\ op \in Settlements \cup {"ship", "inspect"}
  BY <1>1, <1>2, <1>3, Working, ReleasesConsented
<1>5. op = "release" => Consented(o) BY <1>1, <1>3, ReleasesConsented
<1>6. Grow BY <1>2, GrowsNot
<1>7. \A s \in Requests : ~Running(req[s]) BY <1>2, NoneRuns DEF Inv
<1>8. CASE Reverts(op, o) /\ Answer(r, FALSE) /\ UNCHANGED chain
  <2>1. /\ req' \in [Requests -> Handler \cup Loading \cup {Idle}]
        /\ \A s \in Requests \ {r} : req'[s] = req[s]
        /\ Fits(req[r])' /\ ~Running(req'[r]) /\ req'[r].pc \notin {"transfer", "settle"}
        /\ \A q \in OrderIds : Works(req[r], q) => Works(req[r], q)'
    BY <1>2, <1>8, Refused
  <2>2. TypeOK' BY <1>2, <2>1 DEF Inv, TypeOK
  <2> QED BY <1>2, <1>8, <2>1, <2>2, Quiet
<1>9. CASE Executes(op, o) /\ op \notin Settlements /\ Answer(r, TRUE)
  <2>1. guard' = {} /\ paid' = paid /\ committed'.paid = committed.paid
    BY <1>2, <1>4, <1>9, Executed
  <2>2. req' = [req EXCEPT ![r] = [req[r] EXCEPT !.pc = "write", !.tx = "none"]]
    BY <1>1, <1>9, AnswerShape DEF Inv
  <2>3. /\ "write" \in Phase
        /\ "write" \notin {"broadcast", "receipt", "transfer", "settle", "restore", "done"}
    BY DEF Phase
  <2>4. /\ req' \in [Requests -> Handler \cup Loading \cup {Idle}]
        /\ \A s \in Requests \ {r} : req'[s] = req[s]
        /\ req'[r].pc = "write" /\ Fits(req[r])'
    BY <1>3, <1>6, <2>2, <2>3, Proceeds
  <2>5. RunningFits'
    <3>1. \A s \in Requests : ~Running(req'[s]) BY <1>7, <2>4 DEF Running
    <3> QED BY <3>1 DEF RunningFits, Running
  <2>6. \A q \in OrderIds : ~Works(req[r], q) BY <1>1, <1>9 DEF Works
  <2>7. TypeOK' BY <1>2, <2>4 DEF Inv, TypeOK
  <2> QED BY <1>2, <2>1, <2>4, <2>5, <2>6, <2>7, OnChain
<1>10. CASE Executes(op, o) /\ op \in Settlements /\ req' = [req EXCEPT ![r].tx = "running"]
  <2>1. /\ guard' = {o} /\ committed' = committed
        /\ orders'[o].status = IF op = "release" THEN "ReleasedToSeller" ELSE "RefundedToBuyer"
        /\ \A q \in OrderIds :
             paid'[q].seller > 0 => paid[q].seller > 0 \/ (q = o /\ op = "release")
    BY <1>2, <1>4, <1>10, Executed DEF Settlements
  <2>2. req' = [req EXCEPT ![r] = [req[r] EXCEPT !.pc = "receipt", !.tx = "running"]]
    <3>1. [req[r] EXCEPT !.tx = "running"] = [req[r] EXCEPT !.pc = "receipt", !.tx = "running"]
      BY <1>2, <1>4 DEF Handler
    <3> QED BY <1>10, <3>1 DEF Inv, TypeOK
  <2>3. "receipt" \in Phase BY DEF Phase
  <2>4. /\ req' \in [Requests -> Handler \cup Loading \cup {Idle}]
        /\ \A s \in Requests \ {r} : req'[s] = req[s]
        /\ req'[r].pc = "receipt" /\ req'[r].order = o /\ req'[r].op = op
        /\ Fits(req[r])'
    BY <1>1, <1>3, <1>4, <1>6, <1>10, <2>2, <2>3, Proceeds
  <2>5. RunningFits'
    <3>1. \A s \in Requests : Running(req'[s]) => s = r BY <1>7, <2>4
    <3> QED BY <2>1, <2>4, <3>1 DEF RunningFits, Running
  <2>6. \A q \in OrderIds : Works(req[r], q) => Works(req[r], q)'
    BY <1>1, <1>2, <2>4 DEF Works
  <2>7. TypeOK' BY <1>2, <2>4 DEF Inv, TypeOK
  <2> QED BY <1>2, <1>5, <2>1, <2>4, <2>5, <2>6, <2>7, OnChain
<1> QED BY <1>1, <1>4, <1>8, <1>9, <1>10 DEF Mine

LEMMA MineOrphanStep ==
  ASSUME Inv, P!IInv, NEW op, NEW o \in OrderIds, MineOrphan(op, o)
  PROVE  Inv'
<1>1. /\ guard = {} /\ <<op, o>> \in orphans /\ orphans' = orphans \ {<<op, o>>}
      /\ UNCHANGED rows /\ UNCHANGED cache /\ UNCHANGED req /\ UNCHANGED faults
  BY DEF MineOrphan
<1>2. op = "release" => Consented(o) BY <1>1 DEF Inv, PaymentsFit
<1>3. \A s \in Requests : ~Running(req[s]) BY <1>1, NoneRuns DEF Inv
<1>4. RunningFits' BY <1>1, <1>3 DEF RunningFits, Running
<1>5. TypeOK' BY <1>1 DEF Inv, TypeOK
<1>6. CASE Executes(op, o)
  <2>1. CASE paid' = paid /\ committed'.paid = committed.paid
    BY <1>1, <1>4, <1>5, <2>1, OnChain
  <2>2. CASE /\ committed' = committed
             /\ \A q \in OrderIds :
                  paid'[q].seller > 0 => paid[q].seller > 0 \/ (q = o /\ op = "release")
    BY <1>1, <1>2, <1>4, <1>5, <2>2, OnChain
  <2> QED BY <1>1, <1>6, <2>1, <2>2, Executed
<1>7. CASE UNCHANGED chain BY <1>1, <1>4, <1>5, <1>7, OnChain DEF chain
<1> QED BY <1>6, <1>7 DEF MineOrphan

LEMMA PayeeAnswersStep ==
  ASSUME Inv, P!IInv, NEW o \in OrderIds, PayeeAnswers(o)
  PROVE  Inv'
<1>1. UNCHANGED rows /\ UNCHANGED cache /\ UNCHANGED orphans /\ UNCHANGED faults
  BY DEF PayeeAnswers
<1>2. Grow BY <1>1, GrowsNot
<1>3. PICK success \in BOOLEAN :
        /\ Inform(success)
        /\ IF success THEN Chain!PayeeAccepts(o) ELSE Chain!PayeeRejects(o)
  BY DEF PayeeAnswers
<1>4. /\ o \in guard /\ guard' = {}
      /\ success => paid' = paid /\ committed'.paid = paid
      /\ ~success => paid' = committed.paid /\ committed' = committed
  BY <1>3 DEF Chain!PayeeAccepts, Chain!PayeeRejects, Chain!Storage
<1>5. \A q \in OrderIds :
        /\ paid'[q].seller > 0 \/ committed'.paid[q].seller > 0
           => paid[q].seller > 0 \/ committed.paid[q].seller > 0
        /\ committed.paid[q].seller > 0 => committed'.paid[q].seller > 0
        /\ committed.paid[q].buyer > 0 => committed'.paid[q].buyer > 0
  <2> TAKE q \in OrderIds
  <2>1. CASE success
    <3>1. committed.paid[q].seller > 0 => paid[q].seller > 0 BY ChainFacts
    <3>2. committed.paid[q].buyer > 0 => paid[q].buyer > 0 BY ChainFacts
    <3> QED BY <1>4, <2>1, <3>1, <3>2
  <2>2. CASE ~success BY <1>4, <2>2
  <2> QED BY <2>1, <2>2
<1>6. CASE UNCHANGED req /\ \A s \in Requests : ~Running(req[s])
  <2>1. RunningFits' BY <1>6 DEF RunningFits, Running
  <2>2. TypeOK' BY <1>1, <1>6 DEF Inv, TypeOK
  <2> QED BY <1>1, <1>5, <1>6, <2>1, <2>2, OnChain
<1>7. ASSUME NEW r \in Requests, Running(req[r]), Answer(r, success) PROVE Inv'
  <2>1. req[r].pc = "receipt" /\ req[r].tx = "running" /\ req[r].pc \in Phase
    BY <1>7 DEF Running, Phase
  <2>2. PICK op : op = req[r].op OBVIOUS
  <2>3. o = req[r].order BY <1>4, <1>7 DEF Inv, RunningFits
  <2>4. op \in Settlements BY <2>1, <2>2, Working DEF Fits
  <2>5. orders[o].status = IF op = "release" THEN "ReleasedToSeller" ELSE "RefundedToBuyer"
    BY <1>7, <2>2, <2>3 DEF Inv, RunningFits
  <2>6. success => IF op = "release" THEN committed'.paid[o].seller > 0
                                     ELSE committed'.paid[o].buyer > 0
    BY <1>4, <2>5, SettledWasPaid
  <2>7. PICK pc : pc = IF success THEN "transfer" ELSE "restore" OBVIOUS
  <2>8. req' = [req EXCEPT ![r] = [req[r] EXCEPT !.pc = pc, !.tx = "none"]]
    BY <1>7, <2>2, <2>4, <2>7, AnswerShape DEF Inv
  <2>9. pc \in Phase /\ pc \in {"transfer", "restore"} BY <2>7 DEF Phase
  <2>10. /\ req' \in [Requests -> Handler \cup Loading \cup {Idle}]
         /\ \A s \in Requests \ {r} : req'[s] = req[s]
         /\ req'[r].pc = pc /\ req'[r].tx = "none"
         /\ req'[r].order = o /\ req'[r].op = op /\ Fits(req[r])'
    BY <1>2, <2>1, <2>2, <2>3, <2>4, <2>8, <2>9, Proceeds
  <2>11. RunningFits'
    <3>1. \A s \in Requests : ~Running(req'[s])
      <4> TAKE s \in Requests
      <4>1. CASE s = r BY <2>9, <2>10, <4>1 DEF Running
      <4>2. CASE s # r BY <1>7, <2>10, <4>2 DEF Inv, RunningFits
      <4> QED BY <4>1, <4>2
    <3> QED BY <3>1 DEF RunningFits, Running
  <2>12. req'[r].pc \in {"transfer", "settle"} => PaidOut(req[r].op, req[r].order)'
    BY <2>6, <2>7, <2>10 DEF PaidOut
  <2>13. \A q \in OrderIds : Works(req[r], q) => Works(req[r], q)'
    BY <1>1, <2>2, <2>3, <2>9, <2>10 DEF Works
  <2>14. TypeOK' BY <1>1, <2>10 DEF Inv, TypeOK
  <2> QED BY <1>1, <1>5, <2>10, <2>11, <2>12, <2>13, <2>14, OnChain
<1> QED BY <1>3, <1>6, <1>7 DEF Inform, Running, At

-----------------------------------------------------------------------------
(***************************************************************************)
(* The invariant.                                                          *)
(***************************************************************************)
IInv == Inv /\ P!IInv

LEMMA InitIInv == Init => IInv
<1> SUFFICES ASSUME Init PROVE Inv /\ P!IInv BY DEF IInv
<1>1. P!IInv BY ChainInit, Constants, P!InitIInv
<1>2. TypeOK BY ServiceAssumption DEF Init, TypeOK
<1>3. \A o \in OrderIds : rows[o] = NoRow /\ cache[o] = "absent" BY DEF Init
<1>4. \A r \in Requests : req[r] = Idle BY DEF Init
<1>5. \A r \in Requests : req[r].pc = "idle" BY <1>4, IdleFits
<1>6. RowsFit BY <1>3 DEF RowsFit
<1>7. JobsFit BY <1>5 DEF JobsFit, Fits, Phase
<1>8. PaymentsFit
  <2>1. /\ paid = [o \in OrderIds |-> [seller |-> 0, buyer |-> 0]]
        /\ committed.paid = paid /\ orphans = {}
    BY DEF Init, Chain!Init, Chain!Unpaid, Chain!Storage
  <2> QED BY <2>1 DEF PaymentsFit
<1>9. RunningFits BY <1>5 DEF RunningFits, Running
<1>10. SettlingFits BY <1>5 DEF SettlingFits
<1>11. SettledRowsArePaid BY <1>3 DEF SettledRowsArePaid, NoRow
<1>12. ClaimHasHandler BY <1>3 DEF ClaimHasHandler, NoRow, Processing
<1> QED BY <1>1, <1>2, <1>6, <1>7, <1>8, <1>9, <1>10, <1>11, <1>12 DEF Inv

LEMMA NextInv == Inv /\ P!IInv /\ [Next]_vars => Inv'
<1> SUFFICES ASSUME Inv, P!IInv, [Next]_vars PROVE Inv' OBVIOUS
<1>1. CASE \E o \in OrderIds, method \in Rails : CreateEscrowOrder(o, method)
  BY <1>1, CreateStep
<1>2. CASE \E r \in Requests, o \in OrderIds : Start(r, o) BY <1>2, StartStep
<1>3. CASE \E r \in Requests : Handle(r) \/ Abandon(r)
  BY <1>3, LoadStep, RefuseStep, WriteStep, TransferStep, SettleStep, RestoreStep, DoneStep,
     BroadcastStep, AbandonStep DEF Handle
<1>4. CASE Block BY <1>4, MineStep, MineOrphanStep, PayeeAnswersStep DEF Block
<1>5. CASE \E o \in OrderIds : PartyCalls(o) BY <1>5, PartyCallsStep
<1>6. CASE Restart BY <1>6, RestartStep
<1>7. CASE UNCHANGED vars
  <2>1. UNCHANGED rows /\ UNCHANGED cache /\ UNCHANGED req /\ UNCHANGED orphans
        /\ UNCHANGED faults /\ UNCHANGED chain
    BY <1>7 DEF vars, service, chain
  <2>2. UNCHANGED <<orders, paid, guard, committed>> BY <2>1 DEF chain
  <2>3. TypeOK' BY <2>1 DEF Inv, TypeOK
  <2>4. RunningFits' BY <2>1, <2>2 DEF Inv, RunningFits, Running
  <2> QED BY <2>1, <2>2, <2>3, <2>4, OnChain
<1> QED BY <1>1, <1>2, <1>3, <1>4, <1>5, <1>6, <1>7 DEF Next

\* The service's and the contract's invariants hold in every reachable state.
THEOREM Invariance == Spec => []IInv
<1>1. IInv /\ [Next]_vars => IInv'
  <2> SUFFICES ASSUME IInv, [Next]_vars PROVE IInv' OBVIOUS
  <2>1. [P!Next]_(P!vars) BY ChainNext DEF IInv, Inv
  <2>2. P!IInv' BY <2>1, Constants, P!NextIInv DEF IInv
  <2> QED BY <2>2, NextInv DEF IInv
<1> QED BY <1>1, InitIInv, PTL DEF Spec

\* Whatever the handlers, faults and lost transactions do, the records keep
\* their types: no handler is left in a phase its operation does not have.
THEOREM TypeCorrect == Spec => []TypeOK
<1>1. IInv => TypeOK BY DEF IInv, Inv
<1> QED BY <1>1, Invariance, PTL

\* The relayer's and the parties' transactions, orphaned ones too, are runs of
\* the contract alone: what EscrowContractProofs proves holds behind the service.
THEOREM ChainRefines == Spec => P!Spec
<1>1. IInv /\ [Next]_vars => [P!Next]_(P!vars) BY ChainNext DEF IInv, Inv
<1> QED BY <1>1, ChainInit, Invariance, PTL DEF Spec, P!Spec

\* Nothing pays the seller, on-chain or off-chain, and no handler is about to,
\* before the buyer accepted and the funding was verified: stale reads, caches
\* and transactions mined after their handler gave up included.
THEOREM ConsentBeforePayment == Spec => []SellerPaidOnlyWithConsent
<1>1. IInv => SellerPaidOnlyWithConsent
  <2> SUFFICES ASSUME IInv, NEW o \in OrderIds,
                      \/ rows[o].status \in {"release_processing", "released"}
                      \/ paid[o].seller > 0
                      \/ \E r \in Requests : Releasing(r, o)
               PROVE  Consented(o)
    BY DEF SellerPaidOnlyWithConsent, Consented
  <2>1. CASE rows[o].status \in {"release_processing", "released"}
    <3>1. rows[o] # NoRow BY <2>1 DEF NoRow
    <3>2. Known(o, rows[o].status) BY <3>1 DEF IInv, Inv, RowsFit
    <3> QED BY <2>1, <3>2 DEF Known, Consented
  <2>2. CASE paid[o].seller > 0 BY <2>2 DEF IInv, Inv, PaymentsFit
  <2>3. CASE \E r \in Requests : Releasing(r, o)
    BY <2>3, ReleasesConsented DEF IInv, Releasing, Phase
  <2> QED BY <2>1, <2>2, <2>3
<1> QED BY <1>1, Invariance, PTL

\* A wallet order the table calls released or refunded was paid by the contract:
\* neither competing settlements nor lost answers make the two diverge.
THEOREM SettledMeansPaid == Spec => []SettledRowsArePaid
<1>1. IInv => SettledRowsArePaid BY DEF IInv, Inv
<1> QED BY <1>1, Invariance, PTL

\* Without a fault, a row in processing always has a handler that will resolve it.
THEOREM ClaimsAreHandled == Spec => []ClaimHasHandler
<1>1. IInv => ClaimHasHandler BY DEF IInv, Inv
<1> QED BY <1>1, Invariance, PTL
=============================================================================
