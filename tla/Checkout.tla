------------------------------- MODULE Checkout -------------------------------
(***************************************************************************)
(* processPayment (Backend/src/controllers/paymentController.js) for the   *)
(* asset of ShareLedger: a buyer of the whole collectible claims the row   *)
(* of assets first (active to in_escrow), pays, and creates an escrow      *)
(* order; an investor pays, creates an order, has the shares allocated by  *)
(* recordInvestmentPosition and then writes shares_sold from the snapshot  *)
(* it took at the start.  activeCheckoutLocks is meant to admit one        *)
(* request per asset.                                                      *)
(***************************************************************************)
EXTENDS ShareLedger

Leave(s) == Goto(s, "end") /\ checkout' = FALSE      \* finally, whoever holds it

\* unlockAssetIfLocked, in a handler that claimed the asset.
KeepClaim(s) == UNCHANGED asset
Unlock(s) == asset' = IF Job(s).op = "buy" THEN [asset EXCEPT !.status = "active"] ELSE asset

-----------------------------------------------------------------------------
\* A request that meets the lock answers 409 from inside the try block.
EnterUnlocked(s) ==
  /\ At(s, "new") /\ Job(s).op \in {"buy", "invest"}
  /\ checkout' = TRUE
  /\ Goto(s, "read")
  /\ UNCHANGED <<ledger, orders, queue, store, refs, faults, slips, history>>

Enter(s) ==
  /\ At(s, "new") /\ Job(s).op \in {"buy", "invest"}
  /\ ~checkout
  /\ checkout' = TRUE
  /\ Goto(s, "read")
  /\ UNCHANGED <<ledger, orders, queue, store, refs, faults, slips, history>>

TurnAway(s) ==
  /\ At(s, "new") /\ Job(s).op \in {"buy", "invest"}
  /\ checkout
  /\ Leave(s)
  /\ Slip("met")
  /\ UNCHANGED <<ledger, orders, queue, store, refs, faults, history>>

\* The rules of a fractional investment, on the asset and its positions.
MayInvestBySnapshot(job) ==
  /\ asset.invest
  /\ job.n <= Shares - asset.sold
  /\ Held(job.who) + job.n <= Cap

MayInvest(job) ==
  /\ asset.invest
  /\ job.n <= Shares - Sold(asset)
  /\ Held(job.who) + job.n <= Cap

ReadAsset(s) ==
  /\ At(s, "read")
  /\ IF /\ asset.status \notin {"sold", "in_escrow"}
        /\ Job(s).op = "invest" => MayInvest(Job(s))
     THEN /\ req' = [req EXCEPT ![s].pc = IF Job(s).op = "buy" THEN "claim" ELSE "pay",
                                ![s].snap = asset]
          /\ UNCHANGED checkout
     ELSE Leave(s)
  /\ UNCHANGED <<ledger, orders, queue, store, refs, faults, slips, history>>

\* The conditional update that locks the asset for a buyer.
AnyStatus == TRUE
Claimable == asset.status = "active"

Claim(s) ==
  /\ At(s, "claim")
  /\ IF Claimable
     THEN /\ asset' = [asset EXCEPT !.status = "in_escrow"]
          /\ Goto(s, "pay")
          /\ UNCHANGED checkout
     ELSE Leave(s) /\ UNCHANGED asset
  /\ UNCHANGED <<position, request, keys, orders, queue, store, refs, faults, slips,
                 history>>

\* The payment is verified (wallet), or merely announced (bank).
Pay(s) ==
  /\ At(s, "pay")
  /\ Goto(s, "order")
  /\ UNCHANGED <<ledger, orders, checkout, queue, store, refs, faults, slips, history>>

\* It is not verified, or the order cannot be written.
Refuse(s) ==
  /\ At(s, "pay") \/ At(s, "order")
  /\ Unlock(s)
  /\ Leave(s)
  /\ UNCHANGED <<position, request, keys, orders, queue, store, refs, faults, slips,
                 history>>

\* An exception in the payment rail reaches the outer catch, which does not unlock.
Throw(s) ==
  /\ At(s, "pay")
  /\ Leave(s)
  /\ Fault /\ Slip("exception")
  /\ UNCHANGED <<ledger, orders, queue, store, refs, history>>

NewOrder(job) ==
  [kind |-> IF job.op = "buy" THEN "whole" ELSE "shares", who |-> job.who,
   status |-> "open"]

\* createEscrowOrder.  Shares are allocated for settled payments only.
CreateOrder(s) ==
  /\ At(s, "order")
  /\ orders' = Append(orders, NewOrder(Job(s)))
  /\ IF Job(s).op = "invest" /\ Job(s).rail = "wallet"
     THEN Goto(s, "allocate") /\ UNCHANGED checkout
     ELSE Leave(s)
  /\ UNCHANGED <<ledger, queue, store, refs, faults, slips, history>>

\* shares_sold from the snapshot, which the database's check may refuse.
StaleSold(s) == req[s].snap.sold
NewSold(s) == req[s].snap.sold + Job(s).n

WriteSold(s) ==
  LET sold == NewSold(s)
  IN /\ At(s, "holding")
     /\ asset' = IF sold > Shares THEN asset
                 ELSE [asset EXCEPT !.sold = sold,
                         !.status = IF sold = Shares THEN "funded" ELSE @]
     /\ Goto(s, "leave")
     /\ UNCHANGED <<position, request, keys, orders, checkout, queue, store, refs, faults,
                    slips, history>>

Finish(s) ==
  /\ At(s, "leave")
  /\ Leave(s)
  /\ UNCHANGED <<ledger, orders, queue, store, refs, faults, slips, history>>

CheckoutStep(s) ==
  \/ Enter(s) \/ TurnAway(s) \/ ReadAsset(s) \/ Claim(s) \/ Pay(s) \/ Refuse(s)
  \/ CreateOrder(s) \/ WriteSold(s) \/ Finish(s)

-----------------------------------------------------------------------------
Fresh(job) == [job |-> job, pc |-> "new", snap |-> NoSnapshot, next |-> 0, due |-> {}]

Init ==
  /\ \E opening \in Openings :
       /\ asset = opening.asset
       /\ position = opening.position
       /\ slips = opening.slips
       /\ bought = [i \in Investors |->
            Count(position, {p \in Positions : position[p].investor = i})]
  /\ request = <<>>
  /\ orders = <<>>
  /\ checkout = FALSE
  /\ queue = <<>>
  /\ store = {}
  /\ keys = {}
  /\ refs = {}
  /\ \E script \in Scripts : req = [s \in DOMAIN script |-> Fresh(script[s])]
  /\ faults = 0
  /\ allotted = [k \in Keys |-> 0]
  /\ paidOut = [i \in Investors |-> 0]
  /\ settled = [i \in Investors |-> 0]

Begin(s) == \/ Enter(s) \/ TurnAway(s) \/ QuoteRedemption(s) \/ FindRequest(s)
            \/ StartDelisting(s) \/ StartRelease(s)

Next ==
  \/ \E s \in DOMAIN req : \/ LedgerStep(s) \/ CheckoutStep(s)
                           \/ LosePurchaseAnswer(s) \/ AllotUnwritten(s) \/ Throw(s)
  \/ Restart

\* A request that began goes on to its end; nothing makes one begin.
Progress(s) == ~At(s, "new") /\ (LedgerStep(s) \/ CheckoutStep(s))

Spec == Init /\ [][Next]_vars
FairSpec == Spec /\ \A s \in Slots : WF_vars(s \in DOMAIN req /\ Progress(s))

-----------------------------------------------------------------------------
PCs == {"new", "read", "claim", "pay", "order", "allocate", "purchase", "fallback",
        "allot", "holding", "leave", "reserve", "cancel", "settle", "delist", "transfer",
        "distribute", "paying", "end"}

(***************************************************************************)
(* The type invariant of Checkout and ShareLedger.                         *)
(***************************************************************************)
TypeOK ==
  /\ asset \in [status: {"active", "funded", "in_escrow", "sold", "delisted"},
                invest: BOOLEAN, sold: 0..Shares]
  /\ \A p \in Positions :
       /\ position[p].investor \in Investors
       /\ position[p].held \in 0..Shares
       /\ position[p].reserved \in 0..position[p].held
       /\ position[p].status \in PositionStatus
       /\ position[p].copy.status \in PositionStatus \cup {"absent"}
  /\ \A k \in DOMAIN request :
       /\ request[k].on \in Positions
       /\ request[k].db \in RowStatus \cup {"none"}
       /\ request[k].cached \in CachedStatus \cup {"none"}
  /\ \A o \in DOMAIN orders : orders[o].status \in {"open", "releasing", "released"}
  /\ \A s \in DOMAIN req : req[s].pc \in PCs
  /\ checkout \in BOOLEAN
  /\ faults \in 0..MaxFaults

-----------------------------------------------------------------------------
Happened(names) == slips \cap names # {}

OpenOrders ==
  {o \in DOMAIN orders : orders[o].kind = "whole" /\ orders[o].status # "released"}
Recorded(i, Statuses) ==
  Count(position,
    {p \in Positions : position[p].investor = i /\ position[p].status \in Statuses})

(***************************************************************************)
(* No investor holds more than a quarter of the shares, whichever of the   *)
(* three checks let the purchase through, and whatever was lost between    *)
(* them.                                                                   *)
(***************************************************************************)
CapHolds == \A i \in Investors : Held(i) <= Cap

(***************************************************************************)
(* Never more shares are held than the asset has, although shares_sold may *)
(* fall behind the ledger after a lost answer, unless the checkout's lock  *)
(* was given away by a request it turned away.                             *)
(***************************************************************************)
SupplyHolds == Ledger <= Shares \/ Happened({"met"})

(***************************************************************************)
(* shares_sold, which three writers overwrite with values of their own,    *)
(* covers the shares in the ledger, unless the checkout's lock was given   *)
(* away, a lost answer made the fallback allocate once more, or the        *)
(* fallback could not write it.                                            *)
(***************************************************************************)
SoldCoversLedger == Ledger <= asset.sold \/ Happened({"answerLost", "met", "unmarked"})

(***************************************************************************)
(* A client that retries with its key has shares allocated once, also      *)
(* across a restart, unless an answer of the database was lost, or the     *)
(* fallback (which records the key in memory only) ran before the restart. *)
(***************************************************************************)
AllocatedOnce ==
  \A k \in Keys : \/ allotted[k] <= 1
                  \/ Happened({"answerLost"})
                  \/ {"fallback", "restart"} \subseteq slips

(***************************************************************************)
(* The collectible is never in two open orders of whole-item buyers,       *)
(* unless the checkout's lock was given away and the fallback, which does  *)
(* not look at the status again, put a claimed collectible back on sale.   *)
(***************************************************************************)
BackOnSale == {"met", "fallback"} \subseteq slips
OneOpenOrder == Cardinality(OpenOrders) <= 1 \/ BackOnSale

(***************************************************************************)
(* A collectible taken off the market is in an order or in a checkout on   *)
(* its way to one, so that a failed checkout puts it back on sale; except  *)
(* after an exception, a restart, or a buyout that could not be paid out.  *)
(***************************************************************************)
EscrowHasOrder ==
  asset.status = "in_escrow" =>
    \/ OpenOrders # {}
    \/ \E s \in DOMAIN req : Job(s).op = "buy" /\ req[s].pc \in {"pay", "order"}
    \/ Happened({"exception", "restart", "unpaid"})

(***************************************************************************)
(* Shares are conserved: what an investor bought is in his positions, also *)
(* those a buyout or delisting ended, or was settled.  It fails once the   *)
(* cache lost or never had a position's true number (a restart, a lost     *)
(* answer, a second purchase into the same row, a reservation the copy did *)
(* not learn of), when the fallback could not write the position, and when *)
(* a request is settled or cancelled after something else had ended it.    *)
(***************************************************************************)
SharesConserved ==
  \A i \in Investors : \/ Recorded(i, PositionStatus) + settled[i] = bought[i]
                       \/ Happened({"restart", "answerLost", "merged", "overtaken",
                                   "forgotten", "unwritten"})

(***************************************************************************)
(* A position a buyout ended was paid for: payouts come before retirement, *)
(* and a payout that fails leaves every position as it was.                *)
(***************************************************************************)
RetiredMeansPaid ==
  \A i \in Investors : Recorded(i, {"retired_bought_out"}) <= paidOut[i]

(***************************************************************************)
(* What was sold does not come back on the market, whoever still acts on   *)
(* an older status, except by a delisting that had read the asset as       *)
(* active; and, if the checkout's lock was given away, by the shares_sold  *)
(* of an investor who paid before (the asset counts as funded) or by a     *)
(* failed checkout of a collectible that the fallback put back on sale.    *)
(***************************************************************************)
SoldStays ==
  [][asset.status = "sold" =>
       \/ asset'.status = "sold"
       \/ "delistedAnyway" \in slips'
       \/ asset'.status = "funded" /\ "met" \in slips'
       \/ BackOnSale']_vars

(***************************************************************************)
(* withAssetLock loses nobody and keeps nobody waiting for a request that  *)
(* is gone: those in the locked part of an operation are the queue, each   *)
(* once, so that its head can always go on.                                *)
(***************************************************************************)
Locked == {"purchase", "fallback", "allot", "reserve", "cancel", "settle", "delist",
           "distribute", "paying"}
QueueServed ==
  /\ \A s \in DOMAIN req : req[s].pc \in Locked <=> \E i \in DOMAIN queue : queue[i] = s
  /\ \A i, j \in DOMAIN queue : queue[i] = queue[j] => i = j

(***************************************************************************)
(* Requirement 3 of processOutrightBuyoutAllocations: when an order for    *)
(* the whole collectible is released, each shareholder is paid (unless the *)
(* seller's delisting, already waiting for the lock, redeems him first).   *)
(***************************************************************************)
ReleasingFrom(i) ==
  asset.invest /\ Held(i) > 0 /\ \E o \in DOMAIN orders : orders[o].status = "releasing"
EveryShareholderPaid ==
  \A i \in Investors : ReleasingFrom(i) ~> (paidOut[i] > 0 \/ asset.status = "delisted")

=============================================================================
