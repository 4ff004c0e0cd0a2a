---------------------------- MODULE EscrowService ----------------------------
(***************************************************************************)
(* The off-chain escrow orders (Backend/src/services/escrowService.js) in  *)
(* front of the contract of EscrowContract.                                *)
(*                                                                         *)
(* The rows of the table escrow_orders are the durable state; ordersMap is *)
(* a cache of them.  Every HTTP handler reads the row, decides on what it  *)
(* read, and then writes across several awaits: each slot of `req' is one  *)
(* handler in flight, and each action below ends at an await.  A handler   *)
(* that calls the contract waits for the receipt of its transaction, which *)
(* may be mined after the handler gave up on it.                           *)
(***************************************************************************)
EXTENDS Naturals, FiniteSets

CONSTANTS
  OrderIds,   \* order_id of rows, and the number the contract derives from it
  Requests,   \* slots for handlers in flight
  Relayer,    \* the platform's wallet: the contract's owner
  Buyer, Seller,     \* the wallets of an order's parties
  Contracts,  \* those of the two that have code
  Zero,       \* address(0)
  Rails,      \* payment methods of the orders created
  Requested,  \* operations the requests ask for
  MaxFaults   \* bound on crashes, database failures and lost answers

ASSUME ServiceAssumption ==
  /\ IsFiniteSet(OrderIds)
  /\ Zero \notin {Relayer, Buyer, Seller}
  /\ Cardinality({Relayer, Buyer, Seller}) = 3
  /\ Contracts \subseteq {Buyer, Seller}
  /\ Rails \subseteq {"wallet", "bank"}
  /\ Requested \subseteq {"verify", "ship", "inspect", "deliver", "accept", "note",
                          "dispatch", "release", "refund", "dispute"}
  /\ MaxFaults \in Nat

VARIABLES
  rows,      \* escrow_orders: status, method, and what happened to the order
  cache,     \* ordersMap: the status it holds for an order
  req,       \* the handlers in flight
  orphans,   \* relayer transactions in the mempool nobody waits for
  faults,    \* crashes, failures and lost answers so far
  orders, owner, held, paid, guard, committed     \* the contract

service == <<rows, cache, req, orphans, faults>>
chain == <<orders, owner, held, paid, guard, committed>>
vars == <<service, chain>>

Price == 1

Chain == INSTANCE EscrowContract
  WITH Accounts <- {Relayer, Buyer, Seller}, InitialOwner <- Relayer, Values <- {Price}

Method == {"wallet", "bank"}
Processing == {"release_processing", "refund_processing"}
RowStatus ==
  {"pending_payment", "payment_secured", "in_transit", "in_inspection", "delivered",
   "accepted", "disputed", "released", "refunded"} \cup Processing

Steps == {"ship", "inspect", "deliver", "accept"}     \* progressEscrowStep 2..5
Updates == {"note", "dispatch"}       \* addSellerEscrowUpdate without, with a carrier
Settlements == {"release", "refund"}
Operation == {"verify", "dispute"} \cup Steps \cup Updates \cup Settlements
Party == {"buyer", "seller", "admin"}

(***************************************************************************)
(* The tables of the handlers: who may ask (the check on requester), in    *)
(* which status the row must have been read, and what is written.          *)
(***************************************************************************)
MayRequestLoosely(op) ==
  CASE op \in {"verify", "inspect"} \cup Settlements -> {"admin"}
    [] op = "ship" -> {"seller", "admin"}
    [] op \in {"deliver", "accept"} -> {"buyer", "seller"}
    [] op \in Updates -> {"seller"}
    [] op = "dispute" -> Party

MayRequest(op) ==
  CASE op \in {"verify", "inspect"} \cup Settlements -> {"admin"}
    [] op = "ship" -> {"seller", "admin"}
    [] op \in {"deliver", "accept"} -> {"buyer"}
    [] op \in Updates -> {"seller"}
    [] op = "dispute" -> Party

ReadIn(op) ==
  CASE op = "verify" -> {"pending_payment"}
    [] op \in {"ship", "dispatch"} -> {"payment_secured"}
    [] op = "inspect" -> {"payment_secured", "in_transit"}
    [] op = "deliver" -> {"in_transit", "in_inspection"}
    [] op = "accept" -> {"delivered"}
    [] op = "note" -> {"pending_payment", "payment_secured", "in_transit"}
    [] op = "release" -> {"accepted"}
    [] op = "refund" -> {"payment_secured", "in_transit", "in_inspection", "delivered",
                         "accepted", "disputed"}
    [] op = "dispute" -> {"payment_secured", "in_transit", "in_inspection", "delivered",
                          "accepted"}

Writes(op, from) ==
  CASE op = "verify" -> "payment_secured"
    [] op \in {"ship", "dispatch"} -> "in_transit"
    [] op = "inspect" -> "in_inspection"
    [] op = "deliver" -> "delivered"
    [] op = "accept" -> "accepted"
    [] op = "note" -> from
    [] op = "release" -> "release_processing"
    [] op = "refund" -> "refund_processing"
    [] op = "dispute" -> "disputed"

\* The statuses in which the update of the row still finds it.  The update of
\* progressEscrowStep selects the row by order_id alone.
Matches(op, from) ==
  CASE op \in Steps -> RowStatus
    [] op \in Updates -> {"pending_payment", "payment_secured", "in_transit"}
    [] OTHER -> {from}

\* Bank orders take no part in refunds, wallet orders are not verified by hand.
Methods(op) ==
  CASE op = "verify" -> {"bank"}
    [] op = "refund" -> {"wallet"}
    [] OTHER -> Method

-----------------------------------------------------------------------------
NoRow == [status |-> "absent", method |-> "bank", accepted |-> FALSE, funded |-> FALSE,
          item |-> "escrow"]

\* `accepted' and `funded' remember that the buyer accepted the collectible,
\* and that the deposit or the settlement was verified; `item' is the owner the
\* table assets gives the collectible, in escrow since the checkout.
Row == [status: RowStatus, method: Method, accepted: BOOLEAN, funded: BOOLEAN,
        item: {"escrow", "buyer", "seller"}]

Idle == [pc |-> "idle"]

Phase == {"broadcast", "receipt", "write", "transfer", "settle", "restore", "done"}

\* `read' is the status the handler read, `consent' whether the buyer himself
\* asks to accept; `tx' follows the handler's transaction.
Loading == [pc: {"load"}, order: OrderIds, read: RowStatus \cup {"unread"}]

Handler ==
  [pc: Phase, order: OrderIds, read: RowStatus, op: Operation, consent: BOOLEAN,
   tx: {"none", "mempool", "running"}]

(***************************************************************************)
(* The type invariant (EscrowContract has one for the contract's part).    *)
(***************************************************************************)
TypeOK ==
  /\ rows \in [OrderIds -> Row \cup {NoRow}]
  /\ cache \in [OrderIds -> RowStatus \cup {"absent"}]
  /\ req \in [Requests -> Handler \cup Loading \cup {Idle}]
  /\ orphans \subseteq (Settlements \cup {"ship", "inspect"}) \X OrderIds
  /\ faults \in 0..MaxFaults

Init ==
  /\ rows = [o \in OrderIds |-> NoRow]
  /\ cache = [o \in OrderIds |-> "absent"]
  /\ req = [r \in Requests |-> Idle]
  /\ orphans = {}
  /\ faults = 0
  /\ Chain!Init

-----------------------------------------------------------------------------
At(r, pc) == req[r].pc = pc
Goto(r, pc) == req' = [req EXCEPT ![r].pc = pc]
Reply(r) == req' = [req EXCEPT ![r] = Idle]

Fault == faults < MaxFaults /\ faults' = faults + 1

(***************************************************************************)
(* createEscrowOrder, called by the checkout.  The deposit behind a wallet *)
(* order was made before the order had an identifier, so the contract need *)
(* not know an order of this number.                                       *)
(***************************************************************************)
CreateEscrowOrder(o, method) ==
  /\ rows[o] = NoRow
  /\ LET status == IF method = "wallet" THEN "payment_secured" ELSE "pending_payment"
     IN /\ rows' = [rows EXCEPT ![o] = [status |-> status, method |-> method,
                      accepted |-> FALSE, funded |-> method = "wallet",
                      item |-> "escrow"]]
        /\ cache' = [cache EXCEPT ![o] = status]
  /\ UNCHANGED <<req, orphans, faults, chain>>

-----------------------------------------------------------------------------
(***************************************************************************)
(* A handler starts with getEscrowOrder.                                   *)
(***************************************************************************)
Start(r, o) ==
  /\ req[r] = Idle
  /\ rows[o] # NoRow
  /\ \/ /\ req' = [req EXCEPT ![r] = [pc |-> "load", order |-> o, read |-> rows[o].status]]
        /\ UNCHANGED faults
     \/ /\ req' = [req EXCEPT ![r] = [pc |-> "load", order |-> o, read |-> "unread"]]
        /\ Fault
  /\ UNCHANGED <<rows, cache, orphans, chain>>

\* The checks of operation op, asked for by a party, on what was read.  A failed
\* read falls back to the cache.
FirstPhase(op) == IF op \in {"ship", "inspect"} THEN "broadcast" ELSE "write"

Read(r) == IF req[r].read = "unread" THEN cache[req[r].order] ELSE req[r].read

Permits(op, by, o, read) ==
  /\ read \in ReadIn(op)
  /\ by \in MayRequest(op)
  /\ rows[o].method \in Methods(op)

Load(r, op, by) ==
  /\ At(r, "load")
  /\ LET o == req[r].order
     IN /\ Permits(op, by, o, Read(r))
        /\ cache' = [cache EXCEPT ![o] = Read(r)]
        /\ req' = [req EXCEPT ![r] =
             [pc |-> FirstPhase(op), order |-> o, read |-> Read(r), op |-> op,
              consent |-> op = "accept" /\ by = "buyer", tx |-> "none"]]
  /\ UNCHANGED <<rows, orphans, faults, chain>>

\* An operation that is not permitted, or a mere view of the order.
Refuse(r) ==
  /\ At(r, "load")
  /\ cache' = [cache EXCEPT ![req[r].order] = Read(r)]
  /\ Reply(r)
  /\ UNCHANGED <<rows, orphans, faults, chain>>

-----------------------------------------------------------------------------
(***************************************************************************)
(* Writing the row.  The answer may be lost after the database applied the *)
(* update, or the update may fail; the handler throws in both cases.       *)
(***************************************************************************)
Apply(r, status) ==
  LET o == req[r].order
  IN rows' = [rows EXCEPT ![o].status = status,
                          ![o].accepted = @ \/ req[r].consent,
                          ![o].funded = @ \/ (req[r].op = "verify")]

NextPhase(r) ==
  CASE req[r].op \notin Settlements -> "done"
    [] req[r].op \in Settlements /\ rows[req[r].order].method = "wallet" -> "broadcast"
    [] OTHER -> "transfer"

Write(r) ==
  /\ At(r, "write")
  /\ LET h == req[r]
         found == rows[h.order].status \in Matches(h.op, h.read)
     IN \/ found /\ Apply(r, Writes(h.op, h.read)) /\ Goto(r, NextPhase(r)) /\ UNCHANGED faults
        \/ ~found /\ Reply(r) /\ UNCHANGED <<rows, faults>>
        \/ found /\ Apply(r, Writes(h.op, h.read)) /\ Reply(r) /\ Fault
        \/ Reply(r) /\ Fault /\ UNCHANGED rows
  /\ UNCHANGED <<cache, orphans, chain>>

Claimed(op) == IF op = "release" THEN "release_processing" ELSE "refund_processing"
Final(op) == IF op = "release" THEN "released" ELSE "refunded"

\* The collectible goes to the buyer of a released order and back to the seller
\* of a refunded one.  A failure is logged and the settlement goes on.
Transfer(r) ==
  /\ At(r, "transfer")
  /\ LET h == req[r]
     IN \/ /\ rows' = [rows EXCEPT ![h.order].item =
                         IF h.op = "release" THEN "buyer" ELSE "seller"]
           /\ UNCHANGED faults
        \/ Fault /\ UNCHANGED rows
  /\ Goto(r, "settle")
  /\ UNCHANGED <<cache, orphans, chain>>

\* The last update of a settlement.  Zero rows updated is not an error.
Settle(r) ==
  /\ At(r, "settle")
  /\ LET h == req[r]
         found == rows[h.order].status = Claimed(h.op)
     IN \/ found /\ Apply(r, Final(h.op)) /\ Goto(r, "done") /\ UNCHANGED faults
        \/ ~found /\ Goto(r, "done") /\ UNCHANGED <<rows, faults>>
        \/ found /\ Apply(r, Final(h.op)) /\ Reply(r) /\ Fault
        \/ Reply(r) /\ Fault /\ UNCHANGED rows
  /\ UNCHANGED <<cache, orphans, chain>>

RestoreForgotten(r) ==
  /\ At(r, "restore")
  /\ Reply(r)
  /\ UNCHANGED <<rows, cache, orphans, faults, chain>>

\* The chain call failed: give the claim back, whatever the database answers.
Restore(r) ==
  /\ At(r, "restore")
  /\ LET h == req[r]
         found == rows[h.order].status = Claimed(h.op)
     IN \/ found /\ Apply(r, h.read) /\ UNCHANGED faults
        \/ ~found /\ UNCHANGED <<rows, faults>>
        \/ Fault /\ UNCHANGED rows
  /\ Reply(r)
  /\ UNCHANGED <<cache, orphans, chain>>

Done(r) ==
  /\ At(r, "done")
  /\ LET h == req[r]
     IN cache' = [cache EXCEPT ![h.order] =
                    IF h.op \in Settlements THEN Final(h.op) ELSE Writes(h.op, h.read)]
  /\ Reply(r)
  /\ UNCHANGED <<rows, orphans, faults, chain>>

-----------------------------------------------------------------------------
(***************************************************************************)
(* Calls to the contract (web3Service).  deliver, accept and dispute call  *)
(* functions the contract allows to the parties only: the relayer's call   *)
(* always reverts and the handler ignores that, so it is left out here.    *)
(***************************************************************************)
AnswerUnchecked(r, success) ==
  req' = [req EXCEPT ![r].pc = IF req[r].op \in Settlements THEN "transfer" ELSE "write",
                     ![r].tx = "none"]

Answer(r, success) ==
  LET pc == CASE req[r].op \notin Settlements -> "write"
              [] req[r].op \in Settlements /\ success -> "transfer"
              [] OTHER -> "restore"
  IN req' = [req EXCEPT ![r].pc = pc, ![r].tx = "none"]

\* The node takes the transaction, or the relayer or the node is unavailable.
Broadcast(r) ==
  /\ At(r, "broadcast")
  /\ \/ req' = [req EXCEPT ![r].pc = "receipt", ![r].tx = "mempool"]
     \/ Answer(r, FALSE)
  /\ UNCHANGED <<rows, cache, orphans, faults, chain>>

\* tx.wait(1) throws though the transaction may still be mined.
Abandon(r) ==
  /\ req[r].pc = "receipt" /\ req[r].tx = "mempool"
  /\ orphans' = orphans \cup {<<req[r].op, req[r].order>>}
  /\ Answer(r, FALSE)
  /\ Fault
  /\ UNCHANGED <<rows, cache, chain>>

\* What the contract's functions accept from its owner.
Executes(op, o) ==
  \/ op = "ship" /\ Chain!RecordShipment(Relayer, o)
  \/ op = "inspect" /\ Chain!ConfirmInspection(Relayer, o)
  \/ op = "release" /\ Chain!ReleaseToSeller(Relayer, o)
  \/ op = "refund" /\ Chain!RefundToBuyer(Relayer, o)

Reverts(op, o) ==
  CASE op = "ship" -> orders[o].status # "PaymentLocked"
    [] op = "inspect" -> orders[o].status \notin {"PaymentLocked", "InTransit"}
    [] op = "release" -> orders[o].status # "Accepted"
    [] op = "refund" -> orders[o].status \in {"None"} \cup Chain!Settled

Mine(r) ==
  /\ At(r, "receipt")
  /\ req[r].tx = "mempool"
  /\ guard = {}
  /\ LET h == req[r]
     IN \/ /\ Executes(h.op, h.order)
           /\ IF h.op \in Settlements THEN req' = [req EXCEPT ![r].tx = "running"]
                                      ELSE Answer(r, TRUE)
        \/ Reverts(h.op, h.order) /\ Answer(r, FALSE) /\ UNCHANGED chain
  /\ UNCHANGED <<rows, cache, orphans, faults>>

MineOrphan(op, o) ==
  /\ <<op, o>> \in orphans
  /\ guard = {}
  /\ \/ Executes(op, o)
     \/ Reverts(op, o) /\ UNCHANGED chain
  /\ orphans' = orphans \ {<<op, o>>}
  /\ UNCHANGED <<rows, cache, req, faults>>

\* The payee's answer ends the transaction that is settling the order, and the
\* handler waiting for it, if there still is one, learns the outcome.
Inform(success) ==
  LET waiting == {r \in Requests : At(r, "receipt") /\ req[r].tx = "running"}
  IN IF waiting = {} THEN UNCHANGED req
     ELSE \E r \in waiting : Answer(r, success)

PayeeAnswers(o) ==
  /\ \/ Chain!PayeeAccepts(o) /\ Inform(TRUE)
     \/ Chain!PayeeRejects(o) /\ Inform(FALSE)
  /\ UNCHANGED <<rows, cache, orphans, faults>>

\* The parties' own transactions.
PartyCalls(o) ==
  /\ guard = {}
  /\ \/ Chain!Deposit(Buyer, o, Seller, Price)
     \/ Chain!RecordShipment(Seller, o)
     \/ Chain!ConfirmDelivery(Buyer, o)
     \/ Chain!AcceptAsset(Buyer, o)
     \/ Chain!OpenDispute(Buyer, o)
     \/ Chain!OpenDispute(Seller, o)
  /\ UNCHANGED service

-----------------------------------------------------------------------------
\* The process stops and starts again: handlers are gone, transactions are
\* not, and the cache is filled from the table unless that read fails.
Restart ==
  /\ Fault
  /\ req' = [r \in Requests |-> Idle]
  /\ orphans' = orphans \cup {<<req[r].op, req[r].order>> :
                                r \in {s \in Requests : At(s, "receipt") /\ req[s].tx = "mempool"}}
  /\ \/ cache' = [o \in OrderIds |-> rows[o].status]
     \/ cache' = [o \in OrderIds |-> "absent"]
  /\ UNCHANGED <<rows, chain>>

Handle(r) ==
  \/ \E op \in Requested, by \in Party : Load(r, op, by)
  \/ Refuse(r) \/ Write(r) \/ Transfer(r) \/ Settle(r) \/ Restore(r) \/ Done(r)
  \/ Broadcast(r)

Block ==
  \/ \E r \in Requests : Mine(r)
  \/ \E op \in Settlements \cup {"ship", "inspect"}, o \in OrderIds : MineOrphan(op, o)
  \/ \E o \in OrderIds : PayeeAnswers(o)

Next ==
  \/ \E o \in OrderIds, method \in Rails : CreateEscrowOrder(o, method)
  \/ \E r \in Requests, o \in OrderIds : Start(r, o)
  \/ \E r \in Requests : Handle(r) \/ Abandon(r)
  \/ Block
  \/ \E o \in OrderIds : PartyCalls(o)
  \/ Restart

\* The event loop runs every handler whose await has an answer.  The network
\* mines every transaction of the relayer, though other settlements may keep
\* getting in before it, and a payee's code ends.
Fairness ==
  /\ \A r \in Requests : WF_vars(Handle(r)) /\ SF_vars(Mine(r))
  /\ \A o \in OrderIds : WF_vars(PayeeAnswers(o))

Spec == Init /\ [][Next]_vars
LiveSpec == Spec /\ Fairness

-----------------------------------------------------------------------------
(***************************************************************************)
(* Properties.                                                             *)
(***************************************************************************)
Releasing(r, o) ==
  /\ req[r].pc \in {"broadcast", "receipt", "transfer", "settle"}
  /\ req[r].op = "release" /\ req[r].order = o

\* Money goes to the seller only after the buyer accepted the collectible and
\* the payment was verified: a row is never released or claimed for release
\* before, and the platform's wallet never pays a seller on-chain before,
\* however the handlers interleave and whatever they read.
SellerPaidOnlyWithConsent ==
  \A o \in OrderIds :
    \/ rows[o].status \in {"release_processing", "released"}
    \/ paid[o].seller > 0
    \/ \E r \in Requests : Releasing(r, o)
    => rows[o].accepted /\ rows[o].funded

\* A wallet order is shown as released or refunded, and its collectible leaves
\* the escrow for the buyer or the seller, only if the contract really paid the
\* other one: competing, lost and late settlements never make them diverge.
SettledRowsArePaid ==
  \A o \in OrderIds :
    rows[o].method = "wallet" =>
      /\ rows[o].status = "released" \/ rows[o].item = "buyer" => committed.paid[o].seller > 0
      /\ rows[o].status = "refunded" \/ rows[o].item = "seller" => committed.paid[o].buyer > 0

\* As long as nothing failed, a claimed settlement has a handler working on it:
\* only a crash or a lost database answer strands an order in processing.
ClaimHasHandler ==
  faults = 0 =>
    \A o \in OrderIds :
      rows[o].status \in Processing =>
        \E r \in Requests :
          /\ req[r].pc \in {"broadcast", "receipt", "transfer", "settle", "restore"}
          /\ req[r].op \in Settlements /\ req[r].order = o
          /\ Claimed(req[r].op) = rows[o].status

\* A claimed settlement is resolved: when nothing fails, a row never stays in
\* processing, whoever else works on the order.
ClaimResolves ==
  \A o \in OrderIds : rows[o].status \in Processing ~> rows[o].status \notin Processing

\* "Must resolve dispute before progressing custody": the only way out of a
\* dispute is the refund, so a disputed row stays disputed until a refund
\* claims it (a failed refund gives it back).
DisputeStays ==
  [][\A o \in OrderIds :
       rows[o].status = "disputed" => rows'[o].status \in {"disputed", "refund_processing"}]_vars
=============================================================================
