----------------------------- MODULE ShareLedger -----------------------------
(***************************************************************************)
(* The share ledger of one fractional asset                                *)
(* (Backend/src/services/investmentPositionService.js and the functions of *)
(* 20261031_atomic_investment_and_share_sales.sql and                      *)
(* 20261028_seller_delist_and_redemption.sql).                             *)
(*                                                                         *)
(* The rows of investor_positions and share_redemption_requests are        *)
(* durable; cachedPositions and cachedRedemptionRequests are copies in the *)
(* memory of the one server process.  Every operation takes the asset's    *)
(* lock, a queue in memory (withAssetLock), but most of them read what     *)
(* they decide on before they have it.  Each operation first calls its     *)
(* atomic function of the database and falls back to separate writes when  *)
(* the call does not succeed, for whatever reason.                         *)
(*                                                                         *)
(* The module Checkout adds the handler that calls it and the assets row's *)
(* other writers.                                                          *)
(***************************************************************************)
EXTENDS Naturals, FiniteSets, Sequences, Totals

CONSTANTS
  Investors,  \* holders of shares
  Buyers,     \* buyers of the whole collectible
  Shares,     \* assets.shares
  Scripts,    \* the requests a behaviour may serve: a set of functions on slots
  Openings,   \* initial states of the ledger: allow_investment and positions
  MaxFaults   \* bound on restarts, failures and lost answers

ASSUME LedgerAssumption ==
  /\ Investors \cap Buyers = {}
  /\ Shares \in Nat \ {0}
  /\ MaxFaults \in Nat

VARIABLES
  asset,      \* the row of assets: status, allow_investment, shares_sold
  position,   \* rows of investor_positions, each with its first cached copy
  request,    \* redemption requests: status in the database and in the cache
  orders,     \* escrow_orders created by the checkout
  checkout,   \* activeCheckoutLocks holds the asset
  queue,      \* the asset's lock: the holder, then those who wait
  store,      \* paymentIdempotencyStore, in memory
  keys,       \* payment_idempotency, durable
  refs,       \* settlement references of completed vault deposits (unique index)
  req,        \* the requests in flight
  faults,     \* faults so far
  slips,      \* history: the unusual things that happened
  bought,     \* history: shares allocated to an investor
  allotted,   \* history: how often shares were allocated under a key
  paidOut,    \* history: shares of an investor paid for by a buyout
  settled     \* history: shares of an investor paid for by a redemption

ledger == <<asset, position, request, keys>>
history == <<bought, allotted, paidOut, settled>>
vars == <<asset, position, request, orders, checkout, queue, store, keys, refs, req,
          faults, slips, bought, allotted, paidOut, settled>>

Slots == UNION {DOMAIN script : script \in Scripts}
Keys == UNION {{script[s].key : s \in DOMAIN script} : script \in Scripts}
Cap == IF Shares \div 4 > 1 THEN Shares \div 4 ELSE 1     \* 25%, at least one share

Retired == {"retired_bought_out", "retired_delisted", "retired_sold"}
PositionStatus == {"active"} \cup Retired
Open == {"pending_review"}
RowStatus == Open \cup {"completed", "cancelled"}
CachedStatus == RowStatus \cup {"cancelled_due_to_buyout", "cancelled_due_to_delist"}

NoCopy == [held |-> 0, reserved |-> 0, status |-> "absent"]
NoSnapshot == [status |-> "none", invest |-> FALSE, sold |-> 0]

\* The shares in some of the positions.
Count(rows, P) == Total([p \in DOMAIN rows |-> IF p \in P THEN rows[p].held ELSE 0])

-----------------------------------------------------------------------------
(***************************************************************************)
(* What the requests of a behaviour ask for, and a listing they meet:      *)
(* active, with shares in active positions within the cap, which           *)
(* shares_sold covers and the cache knows unless the server was restarted. *)
(***************************************************************************)
Jobs ==
  [op : {"invest", "buy", "redeem", "cancel", "settle", "delist", "release"},
   who : Investors \cup Buyers, n : Nat, key : Keys, on : Nat, rail : {"wallet", "bank"}]

ASSUME ScriptsAssumption ==
  \A script \in Scripts : \A s \in DOMAIN script :
    script[s] \in Jobs /\ (script[s].op = "invest" => script[s].who \in Investors)

OpeningRows ==
  [investor : Investors, held : Nat, reserved : {0}, status : {"active"},
   copy : {NoCopy} \cup [held : Nat, reserved : {0}, status : {"active"}]]

ASSUME OpeningsAssumption ==
  \A opening \in Openings :
    /\ opening.asset \in [status : {"active"}, invest : BOOLEAN, sold : 0..Shares]
    /\ opening.position \in Seq(OpeningRows)
    /\ opening.slips \subseteq {"restart"}
    /\ \A p \in DOMAIN opening.position :
         \/ /\ opening.position[p].copy # NoCopy
            /\ opening.position[p].copy.held = opening.position[p].held
         \/ opening.position[p].copy = NoCopy /\ opening.slips = {"restart"}
    /\ \A i \in Investors :
         Count(opening.position,
               {p \in DOMAIN opening.position : opening.position[p].investor = i}) <= Cap
    /\ Count(opening.position, DOMAIN opening.position) <= opening.asset.sold

-----------------------------------------------------------------------------
(***************************************************************************)
(* Reading the ledger: getPositionsForAsset, getActivePositionsForAsset.   *)
(***************************************************************************)
Positions == DOMAIN position
Active == {p \in Positions : position[p].status = "active" /\ position[p].held > 0}
Held(i) == Count(position, {p \in Active : position[p].investor = i})
Ledger == Count(position, Active)
Shareholders == {position[p].investor : p \in Active}
Sold(a) == IF a.sold > Ledger THEN a.sold ELSE Ledger

At(s, pc) == req[s].pc = pc
Goto(s, pc) == req' = [req EXCEPT ![s].pc = pc]
Job(s) == req[s].job
Fault == faults < MaxFaults /\ faults' = faults + 1
Slip(name) == slips' = slips \cup {name}

(***************************************************************************)
(* withAssetLock: a request runs when it is at the head of the queue.      *)
(***************************************************************************)
Wait(s, pc) == queue' = Append(queue, s) /\ Goto(s, pc)
Holds(s) == queue # <<>> /\ Head(queue) = s
Release == queue' = Tail(queue)

-----------------------------------------------------------------------------
(***************************************************************************)
(* recordInvestmentPosition.  A key seen in memory answers at once, without *)
(* the lock.                                                               *)
(***************************************************************************)
StartAllocation(s) ==
  /\ At(s, "allocate")
  /\ IF Job(s).key \in store
     THEN Goto(s, "holding") /\ UNCHANGED queue
     ELSE Wait(s, "purchase")
  /\ UNCHANGED <<ledger, orders, checkout, store, refs, faults, slips, history>>

\* An earlier request with this key had its shares, as memory or the database knows.
KnownInMemory(key) == key \in store
Known(key) == key \in store \cup keys

DuplicatePurchase(s) ==
  /\ At(s, "purchase") /\ Holds(s)
  /\ Known(Job(s).key)
  /\ store' = store \cup {Job(s).key}
  /\ Release
  /\ Goto(s, "holding")
  /\ UNCHANGED <<ledger, orders, checkout, refs, faults, slips, history>>

\* purchase_asset_shares_atomic.
MayPurchase(job) ==
  /\ asset.invest /\ asset.status = "active"
  /\ job.n <= Shares - asset.sold
  /\ Held(job.who) + job.n <= Cap

Funded(sold) == IF sold >= Shares THEN "funded" ELSE "active"

\* The row the function adds to: the investor's active position, if any.
Merged(job) == {p \in Positions : position[p].status = "active"
                                  /\ position[p].investor = job.who}

NewPosition(job, copy) ==
  [investor |-> job.who, held |-> job.n, reserved |-> 0, status |-> "active",
   copy |-> copy]
CopyOf(job) == [held |-> job.n, reserved |-> 0, status |-> "active"]

\* The row after the purchase, and what the cache finds under its id: the record
\* pushed for this purchase unless an older one is found first.
Purchased(job, cached) ==
  IF Merged(job) = {}
  THEN Append(position, NewPosition(job, IF cached THEN CopyOf(job) ELSE NoCopy))
  ELSE LET p == CHOOSE q \in Merged(job) : TRUE
       IN [position EXCEPT ![p].held = @ + job.n,
             ![p].copy = IF cached /\ @ = NoCopy THEN CopyOf(job) ELSE @]

PurchaseRpc(s) ==
  LET job == Job(s)
  IN /\ MayPurchase(job)
     /\ asset' = [asset EXCEPT !.sold = @ + job.n, !.status = Funded(asset.sold + job.n)]
     /\ keys' = keys \cup {job.key}
     /\ bought' = [bought EXCEPT ![job.who] = @ + job.n]
     /\ allotted' = [allotted EXCEPT ![job.key] = @ + 1]
     /\ UNCHANGED <<request, paidOut, settled>>

Purchase(s) ==
  /\ At(s, "purchase") /\ Holds(s)
  /\ ~Known(Job(s).key)
  /\ PurchaseRpc(s)
  /\ position' = Purchased(Job(s), TRUE)
  /\ store' = store \cup {Job(s).key}
  /\ slips' = slips \cup {"merged" : p \in Merged(Job(s))}
  /\ Release
  /\ Goto(s, "holding")
  /\ UNCHANGED <<orders, checkout, refs, faults>>

\* The function did its work and the answer was lost, ...
LosePurchaseAnswer(s) ==
  /\ At(s, "purchase") /\ Holds(s)
  /\ ~Known(Job(s).key)
  /\ PurchaseRpc(s)
  /\ position' = Purchased(Job(s), FALSE)
  /\ Goto(s, "fallback")
  /\ Fault /\ Slip("answerLost")
  /\ UNCHANGED <<orders, checkout, queue, store, refs>>

\* ... it rejected the purchase, or it could not be reached.
RejectPurchase(s) ==
  /\ At(s, "purchase") /\ Holds(s)
  /\ ~Known(Job(s).key)
  /\ IF MayPurchase(Job(s)) THEN Fault /\ Slip("unreachable")
                            ELSE UNCHANGED <<faults, slips>>
  /\ Goto(s, "fallback")
  /\ UNCHANGED <<ledger, orders, checkout, queue, store, refs, history>>

\* The fallback reads and checks on its own, ...
MayFallBackUncapped(job) ==
  /\ asset.invest /\ asset.status = "active"
  /\ job.n <= Shares - Sold(asset)
  /\ job.n <= Cap

MayFallBack(job) ==
  /\ asset.invest /\ asset.status = "active"
  /\ job.n <= Shares - Sold(asset)
  /\ Held(job.who) + job.n <= Cap

\* ... gives up, which processPayment swallows, ...
GiveUpHolding(s) == Goto(s, "leave") /\ UNCHANGED queue
GiveUp(s) == Goto(s, "leave") /\ Release

Fallback(s) ==
  /\ At(s, "fallback") /\ Holds(s)
  /\ IF MayFallBack(Job(s))
     THEN /\ req' = [req EXCEPT ![s].pc = "allot", ![s].next = Sold(asset) + Job(s).n]
          /\ UNCHANGED queue
     ELSE GiveUp(s)
  /\ UNCHANGED <<ledger, orders, checkout, store, refs, faults, slips, history>>

\* ... or writes the asset and a new position, ...
MarkedSold(s) == [asset EXCEPT !.sold = req[s].next, !.status = Funded(req[s].next)]

Allotted(s) ==
  LET job == Job(s)
  IN /\ At(s, "allot") /\ Holds(s)
     /\ store' = store \cup {job.key}
     /\ bought' = [bought EXCEPT ![job.who] = @ + job.n]
     /\ allotted' = [allotted EXCEPT ![job.key] = @ + 1]
     /\ Release
     /\ Goto(s, "holding")
     /\ UNCHANGED <<request, orders, checkout, keys, refs, paidOut, settled>>

Allot(s) ==
  /\ Allotted(s)
  /\ \/ asset' = MarkedSold(s) /\ Slip("fallback") /\ UNCHANGED faults
     \/ UNCHANGED asset /\ slips' = slips \cup {"fallback", "unmarked"} /\ Fault
  /\ position' = Append(position, NewPosition(Job(s), CopyOf(Job(s))))

\* ... whose errors it ignores.  A position that is in memory only is not read
\* while the table has one of this asset (getPositionsForAsset).
AllotUnwritten(s) ==
  /\ Allotted(s)
  /\ Positions # {}
  /\ asset' \in {asset, MarkedSold(s)}
  /\ slips' = slips \cup {"fallback", "unwritten"} /\ Fault
  /\ UNCHANGED position

-----------------------------------------------------------------------------
(***************************************************************************)
(* requestShareRedemption.  The quote is computed before the lock.         *)
(***************************************************************************)
Redeemable(p, n) ==
  /\ p \in Positions
  /\ position[p].status = "active"
  /\ n <= position[p].held - position[p].reserved
  /\ asset.status \notin {"delisted", "sold"}

QuoteRedemption(s) ==
  /\ At(s, "new") /\ Job(s).op = "redeem"
  /\ IF Redeemable(Job(s).on, Job(s).n)
     THEN /\ queue' = Append(queue, s)
          /\ req' = [req EXCEPT ![s].pc = "reserve",
                                ![s].next = position[Job(s).on].reserved]
     ELSE Goto(s, "end") /\ UNCHANGED queue
  /\ UNCHANGED <<ledger, orders, checkout, store, refs, faults, slips, history>>

NewRequest(job, db, cached) == [on |-> job.on, n |-> job.n, db |-> db, cached |-> cached]

\* request_share_redemption_atomic inserts the row and the handler caches it.
Reserve(s) ==
  LET job == Job(s)
  IN /\ At(s, "reserve") /\ Holds(s)
     /\ Redeemable(job.on, job.n)
     /\ position' = [position EXCEPT ![job.on].reserved = @ + job.n]
     /\ request' = Append(request, NewRequest(job, "pending_review", "pending_review"))
     /\ Release
     /\ Goto(s, "end")
     /\ UNCHANGED <<asset, keys, orders, checkout, store, refs, faults, slips, history>>

\* The copy does not learn of what Reserve does, so that the reservation computed
\* from it may forget some of what the row had reserved.
Forgets(p, due) == IF position'[p].reserved < due THEN {"forgotten"} ELSE {}

\* The database refuses to reserve more than is held.
Checked(row, reserved) == IF reserved <= row.held THEN reserved ELSE row.reserved

\* The function refused, or could not be reached.  The fallback reserves on the
\* quote without another look at the position, and its request has an id the table
\* rejects: it stays in memory.
ReserveAnyway(s) ==
  LET job == Job(s)
      p == job.on
      cached == position[p].copy
      reserved == (IF cached = NoCopy THEN req[s].next ELSE cached.reserved) + job.n
  IN /\ At(s, "reserve") /\ Holds(s)
     /\ IF Redeemable(p, job.n) THEN Fault ELSE UNCHANGED faults
     /\ position' = [position EXCEPT
          ![p].reserved = Checked(position[p], reserved),
          ![p].copy = IF @ = NoCopy THEN @ ELSE [@ EXCEPT !.reserved = reserved]]
     /\ request' = Append(request, NewRequest(job, "none", "pending_review"))
     /\ slips' = slips \cup {"reservedAnyway"} \cup Forgets(p, position[p].reserved + job.n)
     /\ Release
     /\ Goto(s, "end")
     /\ UNCHANGED <<asset, keys, orders, checkout, store, refs, history>>

(***************************************************************************)
(* cancelShareRedemption and settleShareRedemption find the request in the *)
(* cache, else in the database, check its status, and then wait for the    *)
(* lock; they do not look at the status again.                             *)
(***************************************************************************)
StatusFound(k) == IF request[k].cached # "none" THEN request[k].cached ELSE request[k].db

Stops(op) == IF op = "cancel" THEN {"completed", "cancelled"}
             ELSE {"completed", "cancelled", "rejected"}

FindRequest(s) ==
  /\ At(s, "new") /\ Job(s).op \in {"cancel", "settle"}
  /\ LET k == Job(s).on
     IN IF k \in DOMAIN request /\ StatusFound(k) \notin Stops(Job(s).op) \cup {"none"}
        THEN Wait(s, Job(s).op)
        ELSE Goto(s, "end") /\ UNCHANGED queue
  /\ UNCHANGED <<ledger, orders, checkout, store, refs, faults, slips, history>>

Less(a, b) == IF a > b THEN a - b ELSE 0

\* The request's status is written wherever the request is.
Close(k, status) ==
  request' = [request EXCEPT ![k].cached = IF @ = "none" THEN @ ELSE status,
                             ![k].db = IF @ = "none" THEN @ ELSE status]

\* Not pending any more: another request, a buyout or a delisting came first.
Overtaken(k) == ~({request[k].db, request[k].cached} \subseteq Open \cup {"none"})

\* What cancel_share_redemption_atomic makes of the row, when it succeeds, ...
CancelledRow(k) ==
  LET row == position[request[k].on]
  IN IF request[k].db \in Open THEN [row EXCEPT !.reserved = Less(@, request[k].n)] ELSE row

\* ... and then in any case what the cache says.
CancelRedemption(s) ==
  LET k == Job(s).on
      p == request[k].on
      copy == position[p].copy
      reserved == Less(copy.reserved, request[k].n)
  IN /\ At(s, "cancel") /\ Holds(s)
     /\ position' = [position EXCEPT
          ![p].reserved = Checked(CancelledRow(k), reserved),
          ![p].copy = IF @ = NoCopy THEN @ ELSE [@ EXCEPT !.reserved = reserved]]
     /\ Close(k, "cancelled")
     /\ slips' = slips \cup (IF Overtaken(k) THEN {"overtaken"} ELSE {})
                       \cup Forgets(p, Less(position[p].reserved, request[k].n))
     /\ Release
     /\ Goto(s, "end")
     /\ UNCHANGED <<asset, keys, orders, checkout, store, refs, faults, history>>

\* What settle_share_redemption_atomic makes of the row, when it succeeds.
SettledRow(k) ==
  LET row == position[request[k].on]
      n == request[k].n
  IN IF request[k].db \in Open
     THEN [row EXCEPT !.held = Less(@, n), !.reserved = Less(@, n),
                      !.status = IF row.held <= n THEN "retired_sold" ELSE "active"]
     ELSE row

SettledCopyReservedOnly(k) ==
  LET copy == position[request[k].on].copy
  IN IF copy = NoCopy THEN NoCopy ELSE [copy EXCEPT !.reserved = Less(@, request[k].n)]

SettledCopy(k) ==
  LET copy == position[request[k].on].copy
      n == request[k].n
  IN IF copy = NoCopy THEN NoCopy
     ELSE [held |-> Less(copy.held, n), reserved |-> Less(copy.reserved, n),
           status |-> IF copy.held <= n THEN "retired_sold" ELSE copy.status]

\* The row is then overwritten with the cached copy, or with zeros if there is
\* none, unless the database's check refuses that.
Overwritten(row, copy) ==
  IF copy.reserved <= copy.held
  THEN [row EXCEPT !.held = copy.held, !.reserved = copy.reserved, !.copy = copy,
          !.status = IF copy # NoCopy /\ copy.held = 0 THEN "retired_sold" ELSE "active"]
  ELSE [row EXCEPT !.copy = copy]

\* The proceeds become a deposit that awaits review.
SettleRedemption(s) ==
  LET k == Job(s).on
      p == request[k].on
  IN /\ At(s, "settle") /\ Holds(s)
     /\ position' = [position EXCEPT ![p] = Overwritten(SettledRow(k), SettledCopy(k))]
     /\ Close(k, "completed")
     /\ settled' = [settled EXCEPT ![position[p].investor] = @ + request[k].n]
     /\ slips' = slips \cup (IF Overtaken(k) THEN {"overtaken"} ELSE {})
                       \cup Forgets(p, Less(position[p].reserved, request[k].n))
     /\ Release
     /\ Goto(s, "end")
     /\ UNCHANGED <<asset, keys, orders, checkout, store, refs, faults, bought, allotted, paidOut>>

-----------------------------------------------------------------------------
(***************************************************************************)
(* Retiring every active position, with its cached copy.                   *)
(***************************************************************************)
RetireAll(status) ==
  position' = [p \in Positions |->
    [position[p] EXCEPT !.status = IF @ = "active" THEN status ELSE @,
       !.copy = IF @.status = "active" THEN [@ EXCEPT !.status = status] ELSE @]]

\* Only the cached requests are walked, and the table rejects the new status.
CancelCached(status) ==
  request' = [k \in DOMAIN request |->
    [request[k] EXCEPT !.cached = IF @ \in Open THEN status ELSE @]]

(***************************************************************************)
(* delistAsset and delistAssetWithRedemption.  The asset passed on was     *)
(* read before the lock; when delist_asset_and_redeem rejects, because the *)
(* listing is not active any more, the fallback delists it all the same.   *)
(***************************************************************************)
StartDelisting(s) ==
  /\ At(s, "new") /\ Job(s).op = "delist"
  /\ IF asset.status = "active" THEN Wait(s, "delist")
                                ELSE Goto(s, "end") /\ UNCHANGED queue
  /\ UNCHANGED <<ledger, orders, checkout, store, refs, faults, slips, history>>

RefuseDelisting(s) ==        \* the seller's funds for the investors are not verified
  /\ At(s, "delist") /\ Holds(s)
  /\ Active # {}
  /\ Release
  /\ Goto(s, "end")
  /\ UNCHANGED <<ledger, orders, checkout, store, refs, faults, slips, history>>

Delist(s) ==
  /\ At(s, "delist") /\ Holds(s)
  /\ asset' = [asset EXCEPT !.status = "delisted", !.invest = FALSE]
  /\ RetireAll("retired_delisted")
  /\ CancelCached("cancelled_due_to_delist")
  /\ slips' = slips \cup IF asset.status # "active" THEN {"delistedAnyway"} ELSE {}
  /\ Release
  /\ Goto(s, "end")
  /\ UNCHANGED <<keys, orders, checkout, store, refs, faults, history>>

(***************************************************************************)
(* The part of releaseEscrow that transfers the asset, after the funds of  *)
(* the order moved, and processOutrightBuyoutAllocations.  Whatever fails  *)
(* here, the order ends up released.                                       *)
(***************************************************************************)
Released(o) == orders' = [orders EXCEPT ![o].status = "released"]

StartRelease(s) ==
  /\ At(s, "new") /\ Job(s).op = "release"
  /\ LET o == Job(s).on
     IN IF o \in DOMAIN orders /\ orders[o].kind = "whole" /\ orders[o].status = "open"
        THEN /\ orders' = [orders EXCEPT ![o].status = "releasing"]
             /\ Goto(s, "transfer")
        ELSE Goto(s, "end") /\ UNCHANGED orders
  /\ UNCHANGED <<ledger, checkout, queue, store, refs, faults, slips, history>>

Transfer(s) ==
  /\ At(s, "transfer")
  /\ IF asset.invest
     THEN Wait(s, "distribute") /\ UNCHANGED <<asset, orders>>
     ELSE /\ asset' = [asset EXCEPT !.status = "sold"]
          /\ Released(Job(s).on)
          /\ Goto(s, "end")
          /\ UNCHANGED queue
  /\ UNCHANGED <<position, request, keys, checkout, store, refs, faults, slips, history>>

Distribute(s) ==
  /\ At(s, "distribute") /\ Holds(s)
  /\ CancelCached("cancelled_due_to_buyout")
  /\ req' = [req EXCEPT ![s].pc = "paying", ![s].due = Shareholders]
  /\ UNCHANGED <<asset, position, keys, orders, checkout, queue, store, refs, faults,
                 slips, history>>

\* depositFunds: the database takes one completed deposit per reference.
Buyout(o) == <<"BUYOUT", o>>

PayInvestor(s, i) ==
  /\ At(s, "paying") /\ Holds(s)
  /\ i \in req[s].due
  /\ Buyout(Job(s).on) \notin refs
  /\ refs' = refs \cup {Buyout(Job(s).on)}
  /\ paidOut' = [paidOut EXCEPT ![i] = @ + Held(i)]
  /\ req' = [req EXCEPT ![s].due = @ \ {i}]
  /\ UNCHANGED <<ledger, orders, checkout, queue, store, faults, slips, bought, allotted, settled>>

\* A payment is refused or fails: `Old ownership and investor positions preserved'.
AbandonBuyout(s) ==
  /\ At(s, "paying") /\ Holds(s)
  /\ IF req[s].due # {} /\ Buyout(Job(s).on) \in refs THEN UNCHANGED faults ELSE Fault
  /\ Slip("unpaid")
  /\ Released(Job(s).on)
  /\ Release
  /\ Goto(s, "end")
  /\ UNCHANGED <<ledger, checkout, store, refs, history>>

\* The seller is paid, and only then the positions end and the asset is sold.
SomePaid(s) == TRUE
AllPaid(s) == req[s].due = {}

CompleteBuyout(s) ==
  /\ At(s, "paying") /\ Holds(s)
  /\ AllPaid(s)
  /\ RetireAll("retired_bought_out")
  /\ CancelCached("cancelled_due_to_buyout")
  /\ asset' = [asset EXCEPT !.status = "sold", !.invest = FALSE]
  /\ Released(Job(s).on)
  /\ Release
  /\ Goto(s, "end")
  /\ UNCHANGED <<keys, checkout, store, refs, faults, slips, history>>

-----------------------------------------------------------------------------
(***************************************************************************)
(* A restart of the server: the memory and the requests in flight are gone.*)
(***************************************************************************)
Dead(s) == IF At(s, "new") THEN req[s] ELSE [req[s] EXCEPT !.pc = "end"]

Restart ==
  /\ Fault /\ Slip("restart")
  /\ position' = [p \in Positions |-> [position[p] EXCEPT !.copy = NoCopy]]
  /\ request' = [k \in DOMAIN request |-> [request[k] EXCEPT !.cached = "none"]]
  /\ store' = {}
  /\ checkout' = FALSE
  /\ queue' = <<>>
  /\ req' = [s \in DOMAIN req |-> Dead(s)]
  /\ UNCHANGED <<asset, keys, orders, refs, history>>

LedgerStep(s) ==
  \/ StartAllocation(s) \/ DuplicatePurchase(s) \/ Purchase(s)
  \/ RejectPurchase(s) \/ Fallback(s) \/ Allot(s)
  \/ QuoteRedemption(s) \/ Reserve(s) \/ ReserveAnyway(s)
  \/ FindRequest(s) \/ CancelRedemption(s) \/ SettleRedemption(s)
  \/ StartDelisting(s) \/ RefuseDelisting(s) \/ Delist(s)
  \/ StartRelease(s) \/ Transfer(s) \/ Distribute(s)
  \/ (\E i \in Investors : PayInvestor(s, i)) \/ AbandonBuyout(s) \/ CompleteBuyout(s)

=============================================================================
