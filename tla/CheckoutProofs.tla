--------------------------- MODULE CheckoutProofs ---------------------------
(***************************************************************************)
(* Proofs about Checkout and its share ledger, for any number of           *)
(* investors, buyers, shares, positions, requests, keys and faults,        *)
(* whatever the scripts ask for: every invariant the model is checked      *)
(* for, and SoldStays.                                                     *)
(*                                                                         *)
(* The argument: the queue of the asset's lock holds those who are past    *)
(* the wait, so that its holder is alone in the steps that rely on what    *)
(* they read (QueueInv).  As long as the checkout's lock was not given     *)
(* away, one request is inside (CheckoutInv), and what it read when it     *)
(* entered (the shares sold, that no order is open) still holds when it    *)
(* writes (SupplyInv, SoldInv, TakenInv).  Where the database's function   *)
(* or the fallback checks again, the check and the write are one step or   *)
(* under the asset's lock (CapInv, OnceInv).  ConservedInv follows the     *)
(* shares that requests ask back: as long as the cached copy of a row      *)
(* agrees with it, what the requests nothing has ended ask for is reserved *)
(* in the row, so that a settlement never takes more than there is.        *)
(***************************************************************************)
EXTENDS Checkout, TotalsProofs, SequenceTheorems

(* The values of the variables.                                            *)
Copies == {NoCopy} \cup [held : Nat, reserved : Nat, status : PositionStatus]
Rows ==
  [investor : Investors, held : Nat, reserved : Nat, status : PositionStatus,
   copy : Copies]
Requests == [on : Nat, n : Nat, db : RowStatus \cup {"none"}, cached : CachedStatus \cup {"none"}]
Orders ==
  [kind : {"whole", "shares"}, who : Investors \cup Buyers,
   status : {"open", "releasing", "released"}]
AssetStatus == {"active", "funded", "in_escrow", "sold", "delisted"}
Visits ==
  [job : Jobs, pc : PCs, next : Nat, due : SUBSET Investors,
   snap : [status : AssetStatus \cup {"none"}, invest : BOOLEAN, sold : 0..Shares]]

Types ==
  /\ asset \in [status : AssetStatus, invest : BOOLEAN, sold : 0..Shares]
  /\ position \in Seq(Rows)
  /\ request \in Seq(Requests)
  /\ orders \in Seq(Orders)
  /\ checkout \in BOOLEAN
  /\ queue \in Seq(DOMAIN req)
  /\ store \subseteq Keys /\ keys \subseteq Keys
  /\ req \in [DOMAIN req -> Visits]
  /\ faults \in 0..MaxFaults
  /\ bought \in [Investors -> Nat] /\ settled \in [Investors -> Nat]
  /\ paidOut \in [Investors -> Nat] /\ allotted \in [Keys -> Nat]

(* What the position of a request in its handler says of its job.          *)
Selling == {"transfer", "distribute", "paying"}
Allotting == {"allocate", "purchase", "fallback", "allot", "holding"}
Shopping == {"read", "claim", "pay", "order", "leave"} \cup Allotting

Fits(s) ==
  /\ At(s, "new") => req[s].next = 0
  /\ Job(s).op = "invest" => Job(s).who \in Investors
  /\ req[s].pc \in Shopping => Job(s).op \in {"buy", "invest"}
  /\ req[s].pc \in Allotting => Job(s).op = "invest"
  /\ req[s].pc = "claim" => Job(s).op = "buy"
  /\ req[s].pc = "reserve" => Job(s).on \in Positions
  /\ req[s].pc \in {"cancel", "settle"} => Job(s).on \in DOMAIN request
  /\ req[s].pc = "allot" => req[s].next <= Shares
  /\ req[s].pc \in Selling =>
       /\ Job(s).on \in DOMAIN orders
       /\ orders[Job(s).on].kind = "whole" /\ orders[Job(s).on].status = "releasing"

(* No row has more reserved, nor a copy more shares, than it holds.        *)
RowsInv ==
  /\ \A p \in Positions :
       /\ position[p].reserved <= position[p].held
       /\ position[p].copy.held <= position[p].held
  /\ \A k \in DOMAIN request : request[k].on \in Positions

TypeInv ==
  /\ Types
  /\ RowsInv
  /\ \A s \in DOMAIN req : Fits(s)
  /\ \A s, t \in DOMAIN req :
       req[s].pc \in Selling /\ req[t].pc \in Selling /\ Job(s).on = Job(t).on => s = t

(* The queue holds those who wait or work under the asset's lock, and who  *)
(* is in the middle of its work holds the lock.                            *)
QueueInv ==
  /\ QueueServed
  /\ \A s \in DOMAIN req : req[s].pc \in {"fallback", "allot", "paying"} => Holds(s)

(* One request is in the checkout, while its lock was not given away.      *)
Shop == {s \in DOMAIN req : req[s].pc \in Shopping}
CheckoutInv ==
  Happened({"met"}) \/
    /\ Shop # {} => checkout
    /\ \A s, t \in Shop : s = t

(* The buyers who claimed the collectible and have no order yet.           *)
Claimed(s) == Job(s).op = "buy" /\ req[s].pc \in {"pay", "order"}
Claims == {s \in DOMAIN req : Claimed(s)}

(* One buyer of the whole at a time, ...                                   *)
OneBuyer ==
  /\ \A s, t \in Claims : s = t
  /\ \A o1, o2 \in OpenOrders : o1 = o2
  /\ Claims # {} => OpenOrders = {}
  /\ Claims # {} \/ OpenOrders # {} => asset.status # "active"
  /\ asset.status = "sold" => Claims = {}

(* ... whom no investor puts out, since none is in the checkout with him.  *)
Investing(s) == Job(s).op = "invest" /\ req[s].pc \in {"pay", "order"} \cup Allotting
NoInvestor ==
  /\ Claims # {} \/ OpenOrders # {} => asset.status \in {"in_escrow", "sold", "delisted"}
  /\ \A s \in DOMAIN req : Investing(s) => OpenOrders = {} /\ asset.status # "sold"

TakenInv ==
  /\ BackOnSale \/ OneBuyer
  /\ Happened({"met"}) \/ NoInvestor
  /\ asset.status \in {"sold", "delisted"} => ~asset.invest

(* A key has shares allocated once, and then memory or the database knows  *)
(* it; who is about to allocate has looked.                                *)
OnceInv ==
  \/ Happened({"answerLost"}) \/ {"fallback", "restart"} \subseteq slips
  \/ /\ \A k \in Keys :
          /\ allotted[k] <= 1
          /\ allotted[k] = 1 => k \in keys \/ (k \in store /\ "fallback" \in slips)
     /\ \A s \in DOMAIN req : req[s].pc \in {"fallback", "allot"} => ~Known(Job(s).key)

(* The shares of an investor and of all in the rows, also those that ended:*)
(* no purchase passes the cap, nor the shares there are, nor those that    *)
(* shares_sold counts, ...                                                 *)
Bought(i) == Count(position, {p \in Positions : position[p].investor = i})
All == Count(position, Positions)

CapInv ==
  /\ \A i \in Investors : Bought(i) <= Cap
  /\ asset.invest => \A p \in Positions : position[p].status = "active" \/ position[p].held = 0
  /\ \A s \in DOMAIN req : At(s, "allot") => Bought(Job(s).who) + Job(s).n <= Cap

SupplyInv ==
  Happened({"met"}) \/
    /\ All <= Shares
    /\ \A s \in DOMAIN req :
         Job(s).op = "invest" /\ req[s].pc \in {"pay", "order", "allocate", "purchase", "allot"} =>
           All + Job(s).n <= Shares

(* ... and the snapshot of who is inside is still what the asset says.     *)
SoldInv ==
  Happened({"met", "answerLost", "unmarked"}) \/
    /\ All <= asset.sold
    /\ \A s \in DOMAIN req : Job(s).op = "invest" =>
         /\ req[s].pc \in {"pay", "order", "allocate", "purchase", "fallback", "allot"} =>
              asset.sold = req[s].snap.sold
         /\ req[s].pc = "allot" => req[s].next = req[s].snap.sold + Job(s).n
         /\ req[s].pc = "holding" => All <= req[s].snap.sold + Job(s).n

(* The shares asked back, in requests that nothing has ended.              *)
Live(row) == {row.db, row.cached} \subseteq Open \cup {"none"}
Weight(rows, p) ==
  [k \in DOMAIN rows |-> IF rows[k].on = p /\ Live(rows[k]) THEN rows[k].n ELSE 0]
Pending(p) == Total(Weight(request, p))

(* While the copies agree with the rows, nothing was lost, and what is     *)
(* asked back is reserved.                                                 *)
Uncertain == {"restart", "answerLost", "merged", "overtaken", "forgotten", "unwritten"}
Exact ==
  /\ \A i \in Investors : Bought(i) + settled[i] = bought[i]
  /\ \A k \in DOMAIN request : request[k].cached # "none"
  /\ \A p \in Positions :
       /\ position[p].copy # NoCopy
       /\ position[p].copy.held = position[p].held
       /\ position[p].copy.reserved <= position[p].reserved
       /\ Pending(p) <= position[p].reserved

ConservedInv == Happened(Uncertain) \/ Exact

(* Who is no longer due was paid for what he holds.                        *)
PaidInv ==
  /\ RetiredMeansPaid
  /\ \A s \in DOMAIN req : At(s, "paying") => \A i \in Investors \ req[s].due :
       Recorded(i, {"retired_bought_out"}) + Held(i) <= paidOut[i]

-----------------------------------------------------------------------------
(***************************************************************************)
(* Counting shares.                                                        *)
(***************************************************************************)
LEMMA RowsAre ==
  ASSUME NEW rows \in Seq(Rows)
  PROVE  /\ DOMAIN rows = 1..Len(rows) /\ Len(rows) \in Nat
         /\ IsFiniteSet(DOMAIN rows)
         /\ \A p \in DOMAIN rows : rows[p] \in Rows /\ rows[p].held \in Nat
<1>1. DOMAIN rows = 1..Len(rows) /\ Len(rows) \in Nat
  OBVIOUS
<1>2. IsFiniteSet(1..Len(rows))
  BY <1>1, FS_Interval
<1>3. \A p \in DOMAIN rows : rows[p] \in Rows
  OBVIOUS
<1> QED BY <1>1, <1>2, <1>3 DEF Rows

LEMMA HeldOf ==
  ASSUME NEW rows \in Seq(Rows), NEW P
  PROVE  [p \in DOMAIN rows |-> IF p \in P THEN rows[p].held ELSE 0] \in [DOMAIN rows -> Nat]
BY RowsAre

LEMMA CountType ==
  ASSUME NEW rows \in Seq(Rows), NEW P
  PROVE  Count(rows, P) \in Nat
BY HeldOf, RowsAre, TotalType DEF Count

LEMMA CountZero ==
  ASSUME NEW rows \in Seq(Rows), NEW P,
         \A p \in DOMAIN rows : p \in P => rows[p].held = 0
  PROVE  Count(rows, P) = 0
<1> DEFINE f == [p \in DOMAIN rows |-> IF p \in P THEN rows[p].held ELSE 0]
<1>1. f \in [DOMAIN rows -> Nat] /\ \A p \in DOMAIN rows : f[p] = 0
  BY HeldOf
<1> HIDE DEF f
<1>2. Total(f) = 0
  BY <1>1, TotalZero
<1> QED BY <1>2 DEF Count, f

LEMMA CountLeq ==
  ASSUME NEW rows \in Seq(Rows), NEW P, NEW rows2 \in Seq(Rows), NEW P2,
         DOMAIN rows2 = DOMAIN rows,
         \A p \in DOMAIN rows : p \in P /\ rows[p].held > 0 =>
           p \in P2 /\ rows[p].held <= rows2[p].held
  PROVE  Count(rows, P) <= Count(rows2, P2)
<1> DEFINE f == [p \in DOMAIN rows |-> IF p \in P THEN rows[p].held ELSE 0]
           g == [p \in DOMAIN rows2 |-> IF p \in P2 THEN rows2[p].held ELSE 0]
<1>1. f \in [DOMAIN rows -> Nat] /\ g \in [DOMAIN rows -> Nat]
  BY HeldOf
<1>2. \A p \in DOMAIN rows : f[p] <= g[p]
  BY RowsAre
<1> HIDE DEF f, g
<1>3. Total(f) <= Total(g)
  BY <1>1, <1>2, RowsAre, TotalLeq
<1> QED BY <1>3 DEF Count, f, g

LEMMA CountSame ==
  ASSUME NEW rows \in Seq(Rows), NEW P, NEW rows2 \in Seq(Rows), NEW P2,
         DOMAIN rows2 = DOMAIN rows,
         \A p \in DOMAIN rows : rows[p].held = rows2[p].held
                                /\ (rows[p].held > 0 => (p \in P <=> p \in P2))
  PROVE  Count(rows, P) = Count(rows2, P2)
<1>1. Count(rows, P) <= Count(rows2, P2)
  <2>1. \A p \in DOMAIN rows : p \in P /\ rows[p].held > 0 =>
          p \in P2 /\ rows[p].held <= rows2[p].held
    BY RowsAre
  <2> QED BY <2>1, CountLeq
<1>2. Count(rows2, P2) <= Count(rows, P)
  <2>1. \A p \in DOMAIN rows : p \in P2 /\ rows2[p].held > 0 =>
          p \in P /\ rows2[p].held <= rows[p].held
    BY RowsAre
  <2> QED BY <2>1, CountLeq
<1> QED BY <1>1, <1>2, CountType

LEMMA CountPut ==
  ASSUME NEW rows \in Seq(Rows), NEW P, NEW rows2 \in Seq(Rows), NEW P2,
         DOMAIN rows2 = DOMAIN rows, NEW p \in DOMAIN rows,
         \A q \in DOMAIN rows : q # p => rows[q].held = rows2[q].held /\ (q \in P <=> q \in P2)
  PROVE  Count(rows2, P2) = Count(rows, P) - (IF p \in P THEN rows[p].held ELSE 0)
                                           + (IF p \in P2 THEN rows2[p].held ELSE 0)
<1> DEFINE f == [q \in DOMAIN rows |-> IF q \in P THEN rows[q].held ELSE 0]
           g == [q \in DOMAIN rows2 |-> IF q \in P2 THEN rows2[q].held ELSE 0]
<1>1. f \in [DOMAIN rows -> Nat] /\ g \in [DOMAIN rows -> Nat]
  BY HeldOf
<1>2. \A q \in DOMAIN rows : q # p => f[q] = g[q]
  OBVIOUS
<1>3. f[p] = (IF p \in P THEN rows[p].held ELSE 0)
      /\ g[p] = (IF p \in P2 THEN rows2[p].held ELSE 0)
  OBVIOUS
<1> HIDE DEF f, g
<1>4. g = [f EXCEPT ![p] = g[p]] /\ g[p] \in Nat
  BY <1>1, <1>2
<1>0. PICK S : S = DOMAIN rows
  OBVIOUS
<1>5. Total([f EXCEPT ![p] = g[p]]) = Total(f) - f[p] + g[p]
  <2>1. IsFiniteSet(S) /\ f \in [S -> Nat] /\ p \in S
    BY <1>0, <1>1, RowsAre, Zenon
  <2>2. g[p] \in Nat
    BY <1>4
  <2> QED BY <2>1, <2>2, TotalPut, Zenon
<1>6. Total(g) = Total(f) - f[p] + g[p]
  BY <1>4, <1>5, Zenon
<1> QED BY <1>3, <1>6 DEF Count, f, g

LEMMA CountAppend ==
  ASSUME NEW rows \in Seq(Rows), NEW P, NEW r \in Rows, NEW P2,
         \A q \in DOMAIN rows : q \in P <=> q \in P2
  PROVE  Count(Append(rows, r), P2)
           = Count(rows, P) + (IF Len(rows) + 1 \in P2 THEN r.held ELSE 0)
<1> DEFINE rows2 == Append(rows, r)
           y == Len(rows) + 1
           f == [q \in DOMAIN rows |-> IF q \in P THEN rows[q].held ELSE 0]
           g == [q \in DOMAIN rows2 |-> IF q \in P2 THEN rows2[q].held ELSE 0]
<1>1. /\ rows2 \in Seq(Rows) /\ DOMAIN rows2 = DOMAIN rows \cup {y}
      /\ y \notin DOMAIN rows
      /\ rows2[y] = r /\ \A q \in DOMAIN rows : rows2[q] = rows[q]
  BY RowsAre
<1> HIDE DEF rows2, y
<1>2. f \in [DOMAIN rows -> Nat] /\ g \in [DOMAIN rows2 -> Nat]
  BY <1>1, HeldOf
<1>3. (\A q \in DOMAIN rows : g[q] = f[q]) /\ g[y] = (IF y \in P2 THEN r.held ELSE 0)
  BY <1>1
<1> HIDE DEF f, g
<1>4. PICK S : S = DOMAIN rows
  OBVIOUS
<1>5. Total(g) = Total(f) + g[y]
  <2>1. IsFiniteSet(S)
    BY <1>4, RowsAre, Zenon
  <2>2. f \in [S -> Nat] /\ g \in [S \cup {y} -> Nat]
    BY <1>1, <1>2, <1>4, Zenon
  <2>3. y \notin S
    BY <1>1, <1>4
  <2>4. \A q \in S : g[q] = f[q]
    BY <1>3, <1>4
  <2>5. \A u \in [S -> Nat], v \in [S \cup {y} -> Nat] :
          (\A q \in S : v[q] = u[q]) => Total(v) = Total(u) + v[y]
    BY <2>1, <2>3, TotalGrow, Zenon
  <2> QED BY <2>2, <2>4, <2>5
<1>6. Total(g) = Total(f) + (IF y \in P2 THEN r.held ELSE 0)
  BY <1>3, <1>5, Zenon
<1> QED BY <1>6 DEF Count, f, g, rows2, y

LEMMA CountPlus ==
  ASSUME NEW rows \in Seq(Rows), NEW P, NEW Q, NEW R,
         \A p \in DOMAIN rows : p \in R /\ rows[p].held > 0 => p \in P \/ p \in Q,
         \A p \in DOMAIN rows : p \in P \/ p \in Q => p \in R,
         \A p \in DOMAIN rows : ~(p \in P /\ p \in Q)
  PROVE  Count(rows, R) = Count(rows, P) + Count(rows, Q)
<1> DEFINE f == [q \in DOMAIN rows |-> IF q \in P THEN rows[q].held ELSE 0]
           g == [q \in DOMAIN rows |-> IF q \in Q THEN rows[q].held ELSE 0]
           h == [q \in DOMAIN rows |-> IF q \in R THEN rows[q].held ELSE 0]
<1>1. f \in [DOMAIN rows -> Nat] /\ g \in [DOMAIN rows -> Nat] /\ h \in [DOMAIN rows -> Nat]
  BY HeldOf
<1>2. \A q \in DOMAIN rows : (f[q] = 0 /\ h[q] = g[q]) \/ (g[q] = 0 /\ h[q] = f[q])
  BY RowsAre
<1> HIDE DEF f, g, h
<1>3. PICK S : S = DOMAIN rows
  OBVIOUS
<1>4. IsFiniteSet(S)
  BY <1>3, RowsAre, Zenon
<1>5. f \in [S -> Nat] /\ g \in [S -> Nat] /\ h \in [S -> Nat]
  BY <1>1, <1>3
<1>6. \A q \in S : (f[q] = 0 /\ h[q] = g[q]) \/ (g[q] = 0 /\ h[q] = f[q])
  BY <1>2, <1>3
<1>7. Total(h) = Total(f) + Total(g)
  <2>1. \A u, v, w \in [S -> Nat] :
          (\A q \in S : (u[q] = 0 /\ w[q] = v[q]) \/ (v[q] = 0 /\ w[q] = u[q]))
            => Total(w) = Total(u) + Total(v)
    BY <1>4, TotalPlus, Zenon
  <2> QED BY <1>5, <1>6, <2>1
<1> QED BY <1>7 DEF Count, f, g, h

-----------------------------------------------------------------------------
(***************************************************************************)
(* Sequences of records.                                                   *)
(***************************************************************************)
LEMMA PutRow ==
  ASSUME NEW R, NEW rows \in Seq(R), NEW p \in DOMAIN rows, NEW r \in R
  PROVE  LET new == [rows EXCEPT ![p] = r]
         IN /\ new \in Seq(R) /\ DOMAIN new = DOMAIN rows
            /\ new[p] = r /\ \A q \in DOMAIN rows : q # p => new[q] = rows[q]
<1>1. [rows EXCEPT ![p] = r] \in Seq(R)
  BY ExceptSeq, LenProperties
<1> QED BY <1>1

LEMMA MapRows ==
  ASSUME NEW R, NEW rows \in Seq(R), NEW F, F = [p \in DOMAIN rows |-> F[p]],
         \A p \in DOMAIN rows : F[p] \in R
  PROVE  F \in Seq(R) /\ DOMAIN F = DOMAIN rows
<1>1. DOMAIN rows = 1..Len(rows) /\ Len(rows) \in Nat
  OBVIOUS
<1>2. F \in [1..Len(rows) -> R]
  BY <1>1
<1> QED BY <1>1, <1>2

LEMMA AppendRow ==
  ASSUME NEW R, NEW rows \in Seq(R), NEW r \in R
  PROVE  LET new == Append(rows, r)
             y == Len(rows) + 1
         IN /\ new \in Seq(R) /\ DOMAIN new = DOMAIN rows \cup {y}
            /\ y \notin DOMAIN rows /\ y \in Nat
            /\ new[y] = r /\ \A q \in DOMAIN rows : new[q] = rows[q]
OBVIOUS

LEMMA CounterType ==
  ASSUME NEW D, NEW f \in [D -> Nat], NEW x \in D, NEW n \in Nat
  PROVE  LET new == [f EXCEPT ![x] = f[x] + n]
         IN /\ new \in [D -> Nat] /\ new[x] = f[x] + n /\ \A y \in D : y # x => new[y] = f[y]
OBVIOUS

-----------------------------------------------------------------------------
(***************************************************************************)
(* Moving on changes where a request is, and nothing else.                 *)
(***************************************************************************)
LEMMA Moved ==
  ASSUME Types, NEW s \in DOMAIN req, NEW pc \in PCs, Goto(s, pc)
  PROVE  /\ DOMAIN req' = DOMAIN req /\ req' \in [DOMAIN req -> Visits]
         /\ req'[s].pc = pc
         /\ \A t \in DOMAIN req :
              /\ req'[t].job = req[t].job /\ req'[t].snap = req[t].snap
              /\ req'[t].next = req[t].next /\ req'[t].due = req[t].due
              /\ t # s => req'[t].pc = req[t].pc
<1>1. req \in [DOMAIN req -> Visits]
  BY DEF Types
<1>2. \A t \in DOMAIN req : req[t] \in Visits
  BY <1>1
<1>3. req' = [req EXCEPT ![s] = [req[s] EXCEPT !.pc = pc]]
  BY DEF Goto
<1>4. [req[s] EXCEPT !.pc = pc] \in Visits
  BY <1>2 DEF Visits
<1>5. [req[s] EXCEPT !.pc = pc].pc = pc
  BY <1>2 DEF Visits
<1>6. LET r == [req[s] EXCEPT !.pc = pc]
      IN r.job = req[s].job /\ r.snap = req[s].snap /\ r.next = req[s].next /\ r.due = req[s].due
  BY <1>2 DEF Visits
<1> QED BY <1>1, <1>2, <1>3, <1>4, <1>5, <1>6

-----------------------------------------------------------------------------
(***************************************************************************)
(* The types.                                                              *)
(***************************************************************************)

(* The other requests, when s takes a step that loses no row, request or   *)
(* order of theirs.                                                        *)
LEMMA FitsStep ==
  ASSUME TypeInv, NEW s \in DOMAIN req, DOMAIN req' = DOMAIN req,
         \A t \in DOMAIN req : req'[t].job = req[t].job,
         \A t \in DOMAIN req : t # s => req'[t].pc = req[t].pc /\ req'[t].next = req[t].next,
         Positions \subseteq Positions', DOMAIN request \subseteq DOMAIN request',
         \A t \in DOMAIN req : t # s /\ req[t].pc \in Selling =>
           Job(t).on \in DOMAIN orders' /\ orders'[Job(t).on] = orders[Job(t).on],
         Fits(s)',
         req'[s].pc \in Selling =>
           req[s].pc \in Selling \/ orders[Job(s).on].status = "open"
  PROVE  /\ \A t \in DOMAIN req' : Fits(t)'
         /\ \A t, u \in DOMAIN req' :
              req'[t].pc \in Selling /\ req'[u].pc \in Selling /\ Job(t)'.on = Job(u)'.on => t = u
<1>1. ASSUME NEW t \in DOMAIN req, t # s PROVE Fits(t)'
  <2>1. Fits(t)
    BY DEF TypeInv
  <2> QED BY <1>1, <2>1 DEF Fits, At, Job
<1>2. ASSUME NEW t \in DOMAIN req, NEW u \in DOMAIN req,
             req'[t].pc \in Selling /\ req'[u].pc \in Selling /\ Job(t)'.on = Job(u)'.on
      PROVE  t = u
  <2>1. Fits(t) /\ Fits(u)
    BY DEF TypeInv
  <2>2. CASE t # s /\ u # s
    BY <1>2, <2>2 DEF TypeInv, Job
  <2>3. CASE t = s /\ u # s
    BY <1>2, <2>1, <2>3 DEF TypeInv, Job, Fits, Selling
  <2>4. CASE t # s /\ u = s
    BY <1>2, <2>1, <2>4 DEF TypeInv, Job, Fits, Selling
  <2> QED BY <2>2, <2>3, <2>4
<1> QED BY <1>1, <1>2

(* A step that changes no row, no request and no order.                    *)
LEMMA PlainStep ==
  ASSUME TypeInv, NEW s \in DOMAIN req, DOMAIN req' = DOMAIN req,
         req' \in [DOMAIN req -> Visits],
         \A t \in DOMAIN req : req'[t].job = req[t].job,
         \A t \in DOMAIN req : t # s => req'[t].pc = req[t].pc /\ req'[t].next = req[t].next,
         UNCHANGED <<position, request, orders>>,
         asset' \in [status : AssetStatus, invest : BOOLEAN, sold : 0..Shares],
         checkout' \in BOOLEAN, queue' \in Seq(DOMAIN req),
         store' \subseteq Keys, keys' \subseteq Keys, faults' \in 0..MaxFaults,
         bought' \in [Investors -> Nat] /\ settled' \in [Investors -> Nat],
         paidOut' \in [Investors -> Nat] /\ allotted' \in [Keys -> Nat],
         Fits(s)',
         req'[s].pc \in Selling => req[s].pc \in Selling
  PROVE  TypeInv'
<1>1. Types'
  BY DEF TypeInv, Types
<1>2. RowsInv'
  BY DEF TypeInv, RowsInv, Positions
<1>3. \A t \in DOMAIN req : Fits(t)
  BY DEF TypeInv
<1>4. \A t \in DOMAIN req : t # s /\ req[t].pc \in Selling =>
        Job(t).on \in DOMAIN orders' /\ orders'[Job(t).on] = orders[Job(t).on]
  BY <1>3 DEF Fits
<1>5. Positions \subseteq Positions' /\ DOMAIN request \subseteq DOMAIN request'
  BY DEF Positions
<1> QED BY <1>1, <1>2, <1>4, <1>5, FitsStep DEF TypeInv

(* ... and that only moves on and leaves the counters alone.               *)
LEMMA PlainMove ==
  ASSUME TypeInv, NEW s \in DOMAIN req, NEW pc \in PCs \ Selling, Goto(s, pc), Fits(s)',
         UNCHANGED <<position, request, orders, keys, bought, settled, paidOut, allotted>>,
         asset' \in [status : AssetStatus, invest : BOOLEAN, sold : 0..Shares],
         checkout' \in BOOLEAN, queue' \in Seq(DOMAIN req), store' \subseteq Keys,
         faults' \in 0..MaxFaults
  PROVE  TypeInv'
<1>1. Types
  BY DEF TypeInv
<1>2. /\ DOMAIN req' = DOMAIN req /\ req' \in [DOMAIN req -> Visits]
      /\ req'[s].pc = pc
      /\ \A t \in DOMAIN req :
           /\ req'[t].job = req[t].job /\ req'[t].next = req[t].next
           /\ t # s => req'[t].pc = req[t].pc
  BY <1>1, Moved
<1>3. UNCHANGED <<position, request, orders>>
  OBVIOUS
<1>4. /\ keys' \subseteq Keys
      /\ bought' \in [Investors -> Nat] /\ settled' \in [Investors -> Nat]
      /\ paidOut' \in [Investors -> Nat] /\ allotted' \in [Keys -> Nat]
  BY <1>1 DEF Types
<1> QED BY <1>2, <1>3, <1>4, PlainStep

(* The steps of the checkout.                                              *)
LEMMA EnterTypes ==
  ASSUME TypeInv, NEW s \in DOMAIN req, Enter(s)
  PROVE  TypeInv'
<1> USE DEF TypeInv
<1>1. Goto(s, "read") /\ "read" \in PCs \ Selling /\ Types /\ Fits(s)
  BY DEF Enter, PCs, Selling
<1>2. Fits(s)'
  BY <1>1, Moved DEF Fits, Enter, ledger, history, At, Job, Shopping, Allotting, Selling
<1> QED BY <1>1, <1>2, PlainMove DEF Enter, ledger, history, Types

LEMMA QueueTypes ==
  ASSUME Types, NEW s \in DOMAIN req
  PROVE  /\ Append(queue, s) \in Seq(DOMAIN req)
         /\ Holds(s) => Tail(queue) \in Seq(DOMAIN req)
BY DEF Types, Holds

LEMMA TurnAwayTypes ==
  ASSUME TypeInv, NEW s \in DOMAIN req, TurnAway(s)
  PROVE  TypeInv'
<1> USE DEF TypeInv
<1>1. Goto(s, "end") /\ "end" \in PCs \ Selling /\ Types /\ Fits(s)
  BY DEF TurnAway, Leave, PCs, Selling
<1>2. Fits(s)'
  BY <1>1, Moved DEF Fits, TurnAway, ledger, history, At, Job, Shopping, Allotting, Selling
<1> QED BY <1>1, <1>2, PlainMove DEF TurnAway, Leave, ledger, history, Types

LEMMA PayTypes ==
  ASSUME TypeInv, NEW s \in DOMAIN req, Pay(s)
  PROVE  TypeInv'
<1> USE DEF TypeInv
<1>1. Goto(s, "order") /\ "order" \in PCs \ Selling /\ Types /\ Fits(s)
  BY DEF Pay, PCs, Selling
<1>2. Fits(s)'
  BY <1>1, Moved DEF Fits, Pay, ledger, history, At, Job, Shopping, Allotting, Selling
<1> QED BY <1>1, <1>2, PlainMove DEF Pay, ledger, history, Types

LEMMA ClaimTypes ==
  ASSUME TypeInv, NEW s \in DOMAIN req, Claim(s)
  PROVE  TypeInv'
<1> USE DEF TypeInv
<1>1. Types /\ Fits(s) /\ {"pay", "end"} \subseteq PCs \ Selling
  BY DEF PCs, Selling
<1>2. asset' \in [status : AssetStatus, invest : BOOLEAN, sold : 0..Shares]
  BY <1>1 DEF Claim, Types, AssetStatus
<1>3. checkout' \in BOOLEAN
  BY <1>1 DEF Claim, Types, Leave
<1>4. CASE Goto(s, "pay")
  <2>1. Fits(s)'
    BY <1>1, <1>4, Moved DEF Fits, Claim, history, At, Job, Shopping, Allotting, Selling
  <2> QED BY <1>1, <1>2, <1>3, <1>4, <2>1, PlainMove DEF Claim, history, Types
<1>5. CASE Goto(s, "end")
  <2>1. Fits(s)'
    BY <1>1, <1>5, Moved DEF Fits, Claim, history, At, Job, Shopping, Allotting, Selling
  <2> QED BY <1>1, <1>2, <1>3, <1>5, <2>1, PlainMove DEF Claim, history, Types
<1> QED BY <1>4, <1>5 DEF Claim, Leave

LEMMA RefuseTypes ==
  ASSUME TypeInv, NEW s \in DOMAIN req, Refuse(s)
  PROVE  TypeInv'
<1> USE DEF TypeInv
<1>1. Goto(s, "end") /\ "end" \in PCs \ Selling /\ Types /\ Fits(s)
  BY DEF Refuse, Leave, PCs, Selling
<1>2. Fits(s)'
  BY <1>1, Moved DEF Fits, Refuse, history, At, Job, Shopping, Allotting, Selling
<1>3. asset' \in [status : AssetStatus, invest : BOOLEAN, sold : 0..Shares]
  BY <1>1 DEF Refuse, Unlock, Types, AssetStatus
<1> QED BY <1>1, <1>2, <1>3, PlainMove DEF Refuse, Leave, history, Types

LEMMA ThrowTypes ==
  ASSUME TypeInv, NEW s \in DOMAIN req, Throw(s)
  PROVE  TypeInv'
<1> USE DEF TypeInv
<1>1. Goto(s, "end") /\ "end" \in PCs \ Selling /\ Types /\ Fits(s)
  BY DEF Throw, Leave, PCs, Selling
<1>2. Fits(s)'
  BY <1>1, Moved DEF Fits, Throw, ledger, history, At, Job, Shopping, Allotting, Selling
<1>3. faults' \in 0..MaxFaults
  BY <1>1, LedgerAssumption DEF Throw, Fault, Types
<1> QED BY <1>1, <1>2, <1>3, PlainMove DEF Throw, Leave, ledger, history, Types

LEMMA WriteSoldTypes ==
  ASSUME TypeInv, NEW s \in DOMAIN req, WriteSold(s)
  PROVE  TypeInv'
<1> USE DEF TypeInv
<1>1. Goto(s, "leave") /\ "leave" \in PCs \ Selling /\ Types /\ Fits(s)
  BY DEF WriteSold, PCs, Selling
<1>2. Fits(s)'
  BY <1>1, Moved DEF Fits, WriteSold, history, At, Job, Shopping, Allotting, Selling
<1>3. asset' \in [status : AssetStatus, invest : BOOLEAN, sold : 0..Shares]
  <2>1. req[s] \in Visits
    BY <1>1 DEF Types
  <2>2. NewSold(s) \in Nat
    BY <2>1 DEF NewSold, Job, Visits, Jobs
  <2>3. asset' = asset
        \/ /\ NewSold(s) <= Shares
           /\ \/ asset' = [asset EXCEPT !.sold = NewSold(s), !.status = "funded"]
              \/ asset' = [asset EXCEPT !.sold = NewSold(s), !.status = asset.status]
    <3>1. CASE NewSold(s) > Shares
      BY <3>1 DEF WriteSold
    <3>2. CASE ~(NewSold(s) > Shares)
      <4>1. NewSold(s) <= Shares
        BY <2>2, <3>2, LedgerAssumption
      <4> QED BY <3>2, <4>1 DEF WriteSold
    <3> QED BY <3>1, <3>2
  <2>4. NewSold(s) <= Shares => NewSold(s) \in 0..Shares
    BY <2>2, LedgerAssumption
  <2> QED BY <1>1, <2>3, <2>4 DEF Types, AssetStatus
<1> QED BY <1>1, <1>2, <1>3, PlainMove DEF WriteSold, history, Types

LEMMA FinishTypes ==
  ASSUME TypeInv, NEW s \in DOMAIN req, Finish(s)
  PROVE  TypeInv'
<1> USE DEF TypeInv
<1>1. Goto(s, "end") /\ "end" \in PCs \ Selling /\ Types /\ Fits(s)
  BY DEF Finish, Leave, PCs, Selling
<1>2. Fits(s)'
  BY <1>1, Moved DEF Fits, Finish, ledger, history, At, Job, Shopping, Allotting, Selling
<1> QED BY <1>1, <1>2, PlainMove DEF Finish, Leave, ledger, history, Types

(* A request that stays out of the checkout's and the ledger's tables but  *)
(* notes something of its own (the snapshot, the new total, the investors  *)
(* still to be paid).                                                      *)
LEMMA NoteStep ==
  ASSUME TypeInv, NEW s \in DOMAIN req, NEW r \in Visits, req' = [req EXCEPT ![s] = r],
         r.job = req[s].job, Fits(s)', r.pc \in Selling => req[s].pc \in Selling,
         UNCHANGED <<asset, position, request, orders, store, keys, faults, bought, settled,
                     allotted>>,
         checkout' \in BOOLEAN, queue' \in Seq(DOMAIN req), paidOut' \in [Investors -> Nat]
  PROVE  TypeInv'
<1>1. Types
  BY DEF TypeInv
<1>2. req \in [DOMAIN req -> Visits]
  BY <1>1 DEF Types
<1>3. /\ DOMAIN req' = DOMAIN req /\ req' \in [DOMAIN req -> Visits]
      /\ req'[s] = r
      /\ \A t \in DOMAIN req :
           /\ req'[t].job = req[t].job
           /\ t # s => req'[t].pc = req[t].pc /\ req'[t].next = req[t].next
  BY <1>2
<1>4. UNCHANGED <<position, request, orders>>
  OBVIOUS
<1>5. /\ keys' \subseteq Keys /\ store' \subseteq Keys /\ faults' \in 0..MaxFaults
      /\ bought' \in [Investors -> Nat] /\ settled' \in [Investors -> Nat]
      /\ allotted' \in [Keys -> Nat]
      /\ asset' \in [status : AssetStatus, invest : BOOLEAN, sold : 0..Shares]
  BY <1>1 DEF Types
<1> QED BY <1>3, <1>4, <1>5, PlainStep

LEMMA ReadAssetTypes ==
  ASSUME TypeInv, NEW s \in DOMAIN req, ReadAsset(s)
  PROVE  TypeInv'
<1>1. Types /\ Fits(s) /\ req \in [DOMAIN req -> Visits] /\ req[s] \in Visits
  BY DEF TypeInv, Types
<1>2. CASE Leave(s)
  <2>1. Goto(s, "end") /\ "end" \in PCs \ Selling
    BY <1>2 DEF Leave, PCs, Selling
  <2>2. Fits(s)'
    BY <1>1, <2>1, Moved DEF Fits, ReadAsset, ledger, history, At, Job, Shopping, Allotting, Selling
  <2> QED BY <1>1, <1>2, <2>1, <2>2, PlainMove DEF ReadAsset, Leave, ledger, history, Types
<1>3. CASE ~Leave(s)
  <2> DEFINE pc == IF Job(s).op = "buy" THEN "claim" ELSE "pay"
             r == [req[s] EXCEPT !.pc = pc, !.snap = asset]
  <2>1. req' = [req EXCEPT ![s] = r] /\ checkout' = checkout
    BY <1>3 DEF ReadAsset
  <2>2. r \in Visits /\ r.job = req[s].job /\ r.pc = pc /\ r.next = req[s].next
    BY <1>1 DEF Types, Visits, PCs, AssetStatus
  <2> HIDE DEF r
  <2>3. req'[s] = r
    BY <1>1, <2>1
  <2>4. Fits(s)' /\ r.pc \notin Selling
    BY <1>1, <2>2, <2>3 DEF Fits, ReadAsset, ledger, history, At, Job, Shopping, Allotting, Selling
  <2>5. /\ UNCHANGED <<asset, position, request, orders, store, keys, faults, bought, settled,
                       allotted>>
        /\ checkout' \in BOOLEAN /\ queue' \in Seq(DOMAIN req) /\ paidOut' \in [Investors -> Nat]
    BY <1>1, <2>1 DEF ReadAsset, ledger, history, Types
  <2> QED BY <2>1, <2>2, <2>4, <2>5, NoteStep
<1> QED BY <1>2, <1>3

(* The steps of the ledger that write none of its rows.                    *)
LEMMA StartAllocationTypes ==
  ASSUME TypeInv, NEW s \in DOMAIN req, StartAllocation(s)
  PROVE  TypeInv'
<1>1. Types /\ Fits(s) /\ {"holding", "purchase"} \subseteq PCs \ Selling
  BY DEF TypeInv, PCs, Selling
<1>2. queue' \in Seq(DOMAIN req)
  BY <1>1, QueueTypes DEF StartAllocation, Wait, Types
<1>3. PICK pc \in {"holding", "purchase"} : Goto(s, pc)
  BY DEF StartAllocation, Wait
<1>4. Fits(s)'
  BY <1>1, <1>3, Moved DEF Fits, StartAllocation, ledger, history, At, Job, Shopping, Allotting, Selling
<1> QED BY <1>1, <1>2, <1>3, <1>4, PlainMove DEF StartAllocation, ledger, history, Types

LEMMA DuplicatePurchaseTypes ==
  ASSUME TypeInv, NEW s \in DOMAIN req, DuplicatePurchase(s)
  PROVE  TypeInv'
<1>1. Types /\ Fits(s) /\ "holding" \in PCs \ Selling /\ Goto(s, "holding")
  BY DEF TypeInv, PCs, Selling, DuplicatePurchase
<1>2. queue' \in Seq(DOMAIN req)
  BY <1>1, QueueTypes DEF DuplicatePurchase, Release
<1>3. store' \subseteq Keys
  BY <1>1 DEF DuplicatePurchase, Types, Job, Visits, Jobs
<1>4. Fits(s)'
  BY <1>1, Moved DEF Fits, DuplicatePurchase, ledger, history, At, Job, Shopping, Allotting, Selling
<1> QED BY <1>1, <1>2, <1>3, <1>4, PlainMove DEF DuplicatePurchase, ledger, history, Types

LEMMA RejectPurchaseTypes ==
  ASSUME TypeInv, NEW s \in DOMAIN req, RejectPurchase(s)
  PROVE  TypeInv'
<1>1. Types /\ Fits(s) /\ "fallback" \in PCs \ Selling /\ Goto(s, "fallback")
  BY DEF TypeInv, PCs, Selling, RejectPurchase
<1>2. faults' \in 0..MaxFaults
  BY <1>1, LedgerAssumption DEF RejectPurchase, Fault, Types
<1>3. Fits(s)'
  BY <1>1, Moved DEF Fits, RejectPurchase, ledger, history, At, Job, Shopping, Allotting, Selling
<1> QED BY <1>1, <1>2, <1>3, PlainMove DEF RejectPurchase, ledger, history, Types

LEMMA FindRequestTypes ==
  ASSUME TypeInv, NEW s \in DOMAIN req, FindRequest(s)
  PROVE  TypeInv'
<1>1. Types /\ Fits(s) /\ {"cancel", "settle", "end"} \subseteq PCs \ Selling
  BY DEF TypeInv, PCs, Selling
<1>2. queue' \in Seq(DOMAIN req)
  BY <1>1, QueueTypes DEF FindRequest, Wait, Types
<1>3. PICK pc \in {"cancel", "settle", "end"} : Goto(s, pc) /\ (pc # "end" => Job(s).on \in DOMAIN request)
  BY DEF FindRequest, Wait
<1>4. Fits(s)'
  BY <1>1, <1>3, Moved DEF Fits, FindRequest, ledger, history, At, Job, Shopping, Allotting, Selling
<1> QED BY <1>1, <1>2, <1>3, <1>4, PlainMove DEF FindRequest, ledger, history, Types

LEMMA StartDelistingTypes ==
  ASSUME TypeInv, NEW s \in DOMAIN req, StartDelisting(s)
  PROVE  TypeInv'
<1>1. Types /\ Fits(s) /\ {"delist", "end"} \subseteq PCs \ Selling
  BY DEF TypeInv, PCs, Selling
<1>2. queue' \in Seq(DOMAIN req)
  BY <1>1, QueueTypes DEF StartDelisting, Wait, Types
<1>3. PICK pc \in {"delist", "end"} : Goto(s, pc)
  BY DEF StartDelisting, Wait
<1>4. Fits(s)'
  BY <1>1, <1>3, Moved DEF Fits, StartDelisting, ledger, history, At, Job, Shopping, Allotting, Selling
<1> QED BY <1>1, <1>2, <1>3, <1>4, PlainMove DEF StartDelisting, ledger, history, Types

LEMMA RefuseDelistingTypes ==
  ASSUME TypeInv, NEW s \in DOMAIN req, RefuseDelisting(s)
  PROVE  TypeInv'
<1>1. Types /\ Fits(s) /\ "end" \in PCs \ Selling /\ Goto(s, "end")
  BY DEF TypeInv, PCs, Selling, RefuseDelisting
<1>2. queue' \in Seq(DOMAIN req)
  BY <1>1, QueueTypes DEF RefuseDelisting, Release
<1>3. Fits(s)'
  BY <1>1, Moved DEF Fits, RefuseDelisting, ledger, history, At, Job, Shopping, Allotting, Selling
<1> QED BY <1>1, <1>2, <1>3, PlainMove DEF RefuseDelisting, ledger, history, Types

LEMMA SoldType ==
  ASSUME Types
  PROVE  Sold(asset) \in Nat /\ asset.sold <= Sold(asset) /\ Ledger <= Sold(asset)
         /\ (Ledger <= asset.sold => Sold(asset) = asset.sold)
<1>1. Ledger \in Nat /\ asset.sold \in Nat
  BY CountType, LedgerAssumption DEF Ledger, Types
<1> QED BY <1>1 DEF Sold

LEMMA FallbackTypes ==
  ASSUME TypeInv, NEW s \in DOMAIN req, Fallback(s)
  PROVE  TypeInv'
<1>1. Types /\ Fits(s) /\ {"allot", "leave"} \subseteq PCs \ Selling /\ req[s] \in Visits
      /\ req \in [DOMAIN req -> Visits]
  BY DEF TypeInv, Types, PCs, Selling
<1>2. queue' \in Seq(DOMAIN req)
  BY <1>1, QueueTypes DEF Fallback, GiveUp, Release, Types
<1>3. CASE MayFallBack(Job(s))
  <2> DEFINE r == [req[s] EXCEPT !.pc = "allot", !.next = Sold(asset) + Job(s).n]
  <2>1. req' = [req EXCEPT ![s] = r] /\ Job(s).n \in Nat
    BY <1>1, <1>3 DEF Fallback, Job, Visits, Jobs
  <2>2. r \in Visits /\ r.job = req[s].job /\ r.pc = "allot" /\ r.next = Sold(asset) + Job(s).n
    <3>1. Sold(asset) + Job(s).n \in Nat
      BY <1>1, <2>1, SoldType
    <3> QED BY <1>1, <3>1 DEF Visits, PCs
  <2>3. Sold(asset) + Job(s).n <= Shares
    BY <1>1, <1>3, <2>1, SoldType, LedgerAssumption DEF MayFallBack
  <2> HIDE DEF r
  <2>4. req'[s] = r
    BY <1>1, <2>1
  <2>5. Fits(s)' /\ r.pc \notin Selling
    BY <1>1, <2>2, <2>3, <2>4 DEF Fits, Fallback, ledger, history, At, Job, Shopping, Allotting, Selling
  <2>6. /\ UNCHANGED <<asset, position, request, orders, store, keys, faults, bought, settled,
                       allotted>>
        /\ checkout' \in BOOLEAN /\ paidOut' \in [Investors -> Nat]
    BY <1>1 DEF Fallback, ledger, history, Types
  <2> QED BY <1>2, <2>1, <2>2, <2>5, <2>6, NoteStep
<1>4. CASE ~MayFallBack(Job(s))
  <2>1. Goto(s, "leave")
    BY <1>4 DEF Fallback, GiveUp
  <2>2. Fits(s)'
    BY <1>1, <2>1, Moved DEF Fits, Fallback, ledger, history, At, Job, Shopping, Allotting, Selling
  <2> QED BY <1>1, <1>2, <2>1, <2>2, PlainMove DEF Fallback, ledger, history, Types
<1> QED BY <1>3, <1>4

LEMMA QuoteRedemptionTypes ==
  ASSUME TypeInv, NEW s \in DOMAIN req, QuoteRedemption(s)
  PROVE  TypeInv'
<1>1. Types /\ Fits(s) /\ {"reserve", "end"} \subseteq PCs \ Selling /\ req[s] \in Visits
      /\ req \in [DOMAIN req -> Visits]
  BY DEF TypeInv, Types, PCs, Selling
<1>2. queue' \in Seq(DOMAIN req)
  BY <1>1, QueueTypes DEF QuoteRedemption, Types
<1>3. CASE Redeemable(Job(s).on, Job(s).n)
  <2> DEFINE r == [req[s] EXCEPT !.pc = "reserve", !.next = position[Job(s).on].reserved]
  <2>1. req' = [req EXCEPT ![s] = r]
    BY <1>1, <1>3 DEF QuoteRedemption
  <2>2. Job(s).on \in Positions /\ position[Job(s).on] \in Rows
    BY <1>1, <1>3 DEF Redeemable, Types, Positions
  <2>3. r \in Visits /\ r.job = req[s].job /\ r.pc = "reserve"
    BY <1>1, <2>2 DEF Visits, PCs, Rows
  <2> HIDE DEF r
  <2>4. req'[s] = r
    BY <1>1, <2>1
  <2>5. Fits(s)' /\ r.pc \notin Selling
    BY <1>1, <2>2, <2>3, <2>4 DEF Fits, QuoteRedemption, ledger, history, At, Job, Shopping, Allotting,
       Selling, Positions
  <2>6. /\ UNCHANGED <<asset, position, request, orders, store, keys, faults, bought, settled,
                       allotted>>
        /\ checkout' \in BOOLEAN /\ paidOut' \in [Investors -> Nat]
    BY <1>1 DEF QuoteRedemption, ledger, history, Types
  <2> QED BY <1>2, <2>1, <2>3, <2>5, <2>6, NoteStep
<1>4. CASE ~Redeemable(Job(s).on, Job(s).n)
  <2>1. Goto(s, "end")
    BY <1>4 DEF QuoteRedemption
  <2>2. Fits(s)'
    BY <1>1, <2>1, Moved DEF Fits, QuoteRedemption, ledger, history, At, Job, Shopping, Allotting, Selling
  <2> QED BY <1>1, <1>2, <2>1, <2>2, PlainMove DEF QuoteRedemption, ledger, history, Types
<1> QED BY <1>3, <1>4

LEMMA PayInvestorTypes ==
  ASSUME TypeInv, NEW s \in DOMAIN req, NEW i \in Investors, PayInvestor(s, i)
  PROVE  TypeInv'
<1>1. Types /\ Fits(s) /\ req[s] \in Visits /\ req \in [DOMAIN req -> Visits]
  BY DEF TypeInv, Types
<1> DEFINE r == [req[s] EXCEPT !.due = req[s].due \ {i}]
<1>2. req' = [req EXCEPT ![s] = r]
  BY DEF PayInvestor
<1>3. r \in Visits /\ r.job = req[s].job /\ r.pc = req[s].pc /\ r.next = req[s].next
  BY <1>1 DEF Visits
<1> HIDE DEF r
<1>4. req'[s] = r
  BY <1>1, <1>2
<1>5. Fits(s)'
  BY <1>1, <1>3, <1>4 DEF Fits, PayInvestor, ledger, history, At, Job, Positions
<1>6. Held(i) \in Nat
  BY <1>1, CountType DEF Held, Types
<1>7. /\ UNCHANGED <<asset, position, request, orders, store, keys, faults, bought, settled,
                     allotted>>
      /\ checkout' \in BOOLEAN /\ queue' \in Seq(DOMAIN req) /\ paidOut' \in [Investors -> Nat]
  BY <1>1, <1>6 DEF PayInvestor, ledger, history, Types
<1> QED BY <1>2, <1>3, <1>5, <1>7, NoteStep

(* The steps that write orders.                                            *)
LEMMA OrderStep ==
  ASSUME TypeInv, NEW s \in DOMAIN req, NEW pc \in PCs, Goto(s, pc), Fits(s)',
         UNCHANGED <<position, request, keys, store, bought, settled, paidOut, allotted>>,
         orders' \in Seq(Orders),
         \A t \in DOMAIN req : t # s /\ req[t].pc \in Selling =>
           Job(t).on \in DOMAIN orders' /\ orders'[Job(t).on] = orders[Job(t).on],
         pc \in Selling => req[s].pc \in Selling \/ orders[Job(s).on].status = "open",
         asset' \in [status : AssetStatus, invest : BOOLEAN, sold : 0..Shares],
         checkout' \in BOOLEAN, queue' \in Seq(DOMAIN req), faults' \in 0..MaxFaults
  PROVE  TypeInv'
<1>1. Types
  BY DEF TypeInv
<1>2. /\ DOMAIN req' = DOMAIN req /\ req' \in [DOMAIN req -> Visits]
      /\ req'[s].pc = pc
      /\ \A t \in DOMAIN req :
           /\ req'[t].job = req[t].job /\ req'[t].next = req[t].next
           /\ t # s => req'[t].pc = req[t].pc
  BY <1>1, Moved
<1>3. Types'
  BY <1>1, <1>2 DEF Types
<1>4. RowsInv'
  BY DEF TypeInv, RowsInv, Positions
<1>5. Positions \subseteq Positions' /\ DOMAIN request \subseteq DOMAIN request'
  BY DEF Positions
<1>6. /\ \A t \in DOMAIN req' : Fits(t)'
      /\ \A t, u \in DOMAIN req' :
           req'[t].pc \in Selling /\ req'[u].pc \in Selling /\ Job(t)'.on = Job(u)'.on => t = u
  BY <1>2, <1>5, FitsStep
<1> QED BY <1>3, <1>4, <1>6 DEF TypeInv

LEMMA CreateOrderTypes ==
  ASSUME TypeInv, NEW s \in DOMAIN req, CreateOrder(s)
  PROVE  TypeInv'
<1>1. Types /\ Fits(s) /\ {"allocate", "end"} \subseteq PCs \ Selling /\ req[s] \in Visits
  BY DEF TypeInv, Types, PCs, Selling
<1>2. NewOrder(Job(s)) \in Orders /\ orders \in Seq(Orders)
  BY <1>1 DEF NewOrder, Orders, Visits, Job, Jobs, Types
<1>3. /\ orders' \in Seq(Orders) /\ DOMAIN orders' = DOMAIN orders \cup {Len(orders) + 1}
      /\ \A o \in DOMAIN orders : orders'[o] = orders[o]
  BY <1>2, AppendRow DEF CreateOrder
<1>4. \A t \in DOMAIN req : t # s /\ req[t].pc \in Selling =>
        Job(t).on \in DOMAIN orders' /\ orders'[Job(t).on] = orders[Job(t).on]
  BY <1>3 DEF TypeInv, Fits
<1>5. PICK pc \in {"allocate", "end"} : Goto(s, pc) /\ (pc # "end" => Job(s).op = "invest")
  BY DEF CreateOrder, Leave
<1>6. Fits(s)'
  BY <1>1, <1>5, Moved DEF Fits, CreateOrder, ledger, history, At, Job, Shopping, Allotting, Selling
<1>7. checkout' \in BOOLEAN
  BY <1>1 DEF CreateOrder, Leave, Types
<1>8. /\ UNCHANGED <<position, request, keys, store, bought, settled, paidOut, allotted>>
      /\ asset' \in [status : AssetStatus, invest : BOOLEAN, sold : 0..Shares]
      /\ queue' \in Seq(DOMAIN req) /\ faults' \in 0..MaxFaults
  BY <1>1 DEF CreateOrder, ledger, history, Types
<1> QED BY <1>1, <1>3, <1>4, <1>5, <1>6, <1>7, <1>8, OrderStep

LEMMA StartReleaseTypes ==
  ASSUME TypeInv, NEW s \in DOMAIN req, StartRelease(s)
  PROVE  TypeInv'
<1>1. Types /\ Fits(s) /\ {"transfer", "end"} \subseteq PCs /\ "end" \notin Selling /\ req[s] \in Visits
  BY DEF TypeInv, Types, PCs, Selling
<1> DEFINE o == Job(s).on
<1>2. /\ UNCHANGED <<position, request, keys, store, bought, settled, paidOut, allotted>>
      /\ asset' \in [status : AssetStatus, invest : BOOLEAN, sold : 0..Shares]
      /\ queue' \in Seq(DOMAIN req) /\ faults' \in 0..MaxFaults /\ checkout' \in BOOLEAN
  BY <1>1 DEF StartRelease, ledger, history, Types
<1>3. \A t \in DOMAIN req : req[t].pc \in Selling =>
        Job(t).on \in DOMAIN orders /\ orders[Job(t).on].status = "releasing"
  BY DEF TypeInv, Fits
<1>4. CASE o \in DOMAIN orders /\ orders[o].kind = "whole" /\ orders[o].status = "open"
  <2> DEFINE new == [orders[o] EXCEPT !.status = "releasing"]
  <2>1. Goto(s, "transfer") /\ orders' = [orders EXCEPT ![o] = new]
    BY <1>4 DEF StartRelease
  <2>2. orders \in Seq(Orders) /\ orders[o] \in Orders
    BY <1>1, <1>4 DEF Types
  <2>3. new \in Orders /\ new.status = "releasing" /\ new.kind = "whole"
    BY <1>4, <2>2 DEF Orders
  <2> HIDE DEF new
  <2>4. /\ orders' \in Seq(Orders) /\ DOMAIN orders' = DOMAIN orders /\ orders'[o] = new
        /\ \A q \in DOMAIN orders : q # o => orders'[q] = orders[q]
    BY <1>4, <2>1, <2>2, <2>3, PutRow
  <2>5. \A t \in DOMAIN req : t # s /\ req[t].pc \in Selling =>
          Job(t).on \in DOMAIN orders' /\ orders'[Job(t).on] = orders[Job(t).on]
    <3>1. \A t \in DOMAIN req : req[t].pc \in Selling => Job(t).on # o
      BY <1>3, <1>4
    <3> QED BY <1>3, <2>4, <3>1
  <2>6. Fits(s)'
    BY <1>1, <1>4, <2>1, <2>3, <2>4, Moved DEF Fits, StartRelease, ledger, At, Job, Shopping,
       Allotting, Selling
  <2>7. orders[Job(s).on].status = "open"
    BY <1>4
  <2> QED BY <1>1, <1>2, <2>1, <2>4, <2>5, <2>6, <2>7, OrderStep
<1>5. CASE ~(o \in DOMAIN orders /\ orders[o].kind = "whole" /\ orders[o].status = "open")
  <2>1. Goto(s, "end") /\ orders' = orders
    BY <1>5 DEF StartRelease
  <2>2. Fits(s)'
    BY <1>1, <2>1, Moved DEF Fits, StartRelease, ledger, At, Job, Shopping, Allotting, Selling
  <2>3. orders' \in Seq(Orders)
    BY <1>1, <2>1 DEF Types
  <2> QED BY <1>1, <1>2, <1>3, <2>1, <2>2, <2>3, OrderStep
<1> QED BY <1>4, <1>5

(* The order of a request that sells becomes released.                     *)
LEMMA ReleasedOrder ==
  ASSUME TypeInv, NEW s \in DOMAIN req, req[s].pc \in Selling, Released(Job(s).on)
  PROVE  /\ orders' \in Seq(Orders) /\ DOMAIN orders' = DOMAIN orders
         /\ Job(s).on \in DOMAIN orders
         /\ orders'[Job(s).on].status = "released" /\ orders'[Job(s).on].kind = "whole"
         /\ \A o \in DOMAIN orders : o # Job(s).on => orders'[o] = orders[o]
         /\ \A t \in DOMAIN req : t # s /\ req[t].pc \in Selling =>
              Job(t).on \in DOMAIN orders' /\ orders'[Job(t).on] = orders[Job(t).on]
<1> DEFINE o == Job(s).on
           new == [orders[o] EXCEPT !.status = "released"]
<1>1. /\ o \in DOMAIN orders /\ orders[o].kind = "whole"
      /\ orders \in Seq(Orders) /\ orders[o] \in Orders
  BY DEF TypeInv, Types, Fits
<1>2. orders' = [orders EXCEPT ![o] = new]
  BY DEF Released
<1>3. new \in Orders /\ new.status = "released" /\ new.kind = "whole"
  BY <1>1 DEF Orders
<1> HIDE DEF new
<1>4. /\ orders' \in Seq(Orders) /\ DOMAIN orders' = DOMAIN orders /\ orders'[o] = new
      /\ \A q \in DOMAIN orders : q # o => orders'[q] = orders[q]
  BY <1>1, <1>2, <1>3, PutRow
<1>5. \A t \in DOMAIN req : t # s /\ req[t].pc \in Selling =>
        Job(t).on \in DOMAIN orders /\ Job(t).on # o
  BY DEF TypeInv, Fits
<1> QED BY <1>1, <1>3, <1>4, <1>5

LEMMA TransferTypes ==
  ASSUME TypeInv, NEW s \in DOMAIN req, Transfer(s)
  PROVE  TypeInv'
<1>1. Types /\ Fits(s) /\ {"distribute", "end"} \subseteq PCs /\ req[s] \in Visits
      /\ req[s].pc \in Selling
  BY DEF TypeInv, Types, PCs, Selling, Transfer, At
<1>2. /\ UNCHANGED <<position, request, keys, store, bought, settled, paidOut, allotted>>
      /\ faults' \in 0..MaxFaults /\ checkout' \in BOOLEAN
  BY <1>1 DEF Transfer, history, Types
<1>3. asset' \in [status : AssetStatus, invest : BOOLEAN, sold : 0..Shares]
  BY <1>1 DEF Transfer, Types, AssetStatus
<1>4. queue' \in Seq(DOMAIN req)
  BY <1>1, QueueTypes DEF Transfer, Wait, Types
<1>5. CASE asset.invest
  <2>1. Goto(s, "distribute") /\ orders' = orders
    BY <1>5 DEF Transfer, Wait
  <2>2. Fits(s)'
    BY <1>1, <2>1, Moved DEF Fits, Transfer, At, Job, Shopping, Allotting, Selling
  <2>3. orders' \in Seq(Orders)
    BY <1>1, <2>1 DEF Types
  <2>4. \A t \in DOMAIN req : req[t].pc \in Selling => Job(t).on \in DOMAIN orders
    BY DEF TypeInv, Fits
  <2> QED BY <1>1, <1>2, <1>3, <1>4, <2>1, <2>2, <2>3, <2>4, OrderStep
<1>6. CASE ~asset.invest
  <2>1. Goto(s, "end") /\ Released(Job(s).on)
    BY <1>6 DEF Transfer
  <2>2. Fits(s)'
    BY <1>1, <2>1, Moved DEF Fits, Transfer, At, Job, Shopping, Allotting, Selling
  <2> QED BY <1>1, <1>2, <1>3, <1>4, <2>1, <2>2, ReleasedOrder, OrderStep
<1> QED BY <1>5, <1>6

LEMMA AbandonBuyoutTypes ==
  ASSUME TypeInv, NEW s \in DOMAIN req, AbandonBuyout(s)
  PROVE  TypeInv'
<1>1. Types /\ Fits(s) /\ "end" \in PCs /\ req[s].pc \in Selling
  BY DEF TypeInv, PCs, Selling, AbandonBuyout, At
<1>2. /\ UNCHANGED <<position, request, keys, store, bought, settled, paidOut, allotted>>
      /\ asset' \in [status : AssetStatus, invest : BOOLEAN, sold : 0..Shares]
      /\ checkout' \in BOOLEAN
  BY <1>1 DEF AbandonBuyout, ledger, history, Types
<1>3. faults' \in 0..MaxFaults
  BY <1>1, LedgerAssumption DEF AbandonBuyout, Fault, Types
<1>4. queue' \in Seq(DOMAIN req)
  BY <1>1, QueueTypes DEF AbandonBuyout, Release
<1>5. Goto(s, "end") /\ Released(Job(s).on)
  BY DEF AbandonBuyout
<1>6. Fits(s)'
  BY <1>1, <1>5, Moved DEF Fits, AbandonBuyout, At, Job, Shopping, Allotting, Selling
<1> QED BY <1>1, <1>2, <1>3, <1>4, <1>5, <1>6, ReleasedOrder, OrderStep

-----------------------------------------------------------------------------
(***************************************************************************)
(* What the steps of the ledger write to its rows.                         *)
(***************************************************************************)

(* The rows after an allocation of n shares: a new one, or the investor's  *)
(* active one with more.                                                   *)
Appended(job) ==
  \E copy \in {NoCopy, CopyOf(job)} : position' = Append(position, NewPosition(job, copy))
Enlarged(job, p) ==
  LET old == position[p]
      new == position'[p]
  IN /\ p \in Merged(job)
     /\ DOMAIN position' = Positions
     /\ \A q \in Positions : q # p => position'[q] = position[q]
     /\ new.investor = job.who /\ new.status = "active" /\ new.reserved = old.reserved
     /\ new.held = old.held + job.n
     /\ new.copy = old.copy \/ (old.copy = NoCopy /\ new.copy = CopyOf(job))

LEMMA NewPositionType ==
  ASSUME NEW job \in Jobs, job.who \in Investors, NEW copy \in {NoCopy, CopyOf(job)}
  PROVE  /\ NewPosition(job, copy) \in Rows
         /\ NewPosition(job, copy).investor = job.who /\ NewPosition(job, copy).held = job.n
         /\ NewPosition(job, copy).reserved = 0 /\ NewPosition(job, copy).status = "active"
         /\ NewPosition(job, copy).copy = copy
         /\ copy.held <= job.n /\ job.n \in Nat
BY DEF NewPosition, NoCopy, CopyOf, Rows, Copies, Jobs, PositionStatus

LEMMA PurchasedRows ==
  ASSUME Types, NEW job \in Jobs, job.who \in Investors, NEW cached \in BOOLEAN,
         position' = Purchased(job, cached)
  PROVE  /\ position' \in Seq(Rows) /\ Positions \subseteq DOMAIN position'
         /\ (Merged(job) = {} /\ Appended(job)) \/ \E p \in Positions : Enlarged(job, p)
<1>1. position \in Seq(Rows)
  BY DEF Types
<1>2. CASE Merged(job) = {}
  <2> DEFINE copy == IF cached THEN CopyOf(job) ELSE NoCopy
  <2>1. position' = Append(position, NewPosition(job, copy)) /\ copy \in {NoCopy, CopyOf(job)}
    BY <1>2 DEF Purchased
  <2>2. NewPosition(job, copy) \in Rows
    BY <2>1, NewPositionType
  <2> QED BY <1>1, <1>2, <2>1, <2>2, AppendRow DEF Appended, Positions
<1>3. CASE Merged(job) # {}
  <2> DEFINE p == CHOOSE q \in Merged(job) : TRUE
             old == position[p]
             copy == IF cached /\ old.copy = NoCopy THEN CopyOf(job) ELSE old.copy
             new == [old EXCEPT !.held = old.held + job.n, !.copy = copy]
  <2>1. p \in Merged(job) /\ p \in Positions
    BY <1>3 DEF Merged
  <2>2. old \in Rows
    BY <1>1, <2>1 DEF Positions
  <2>3. position' = [position EXCEPT ![p] = new]
    BY <1>3 DEF Purchased
  <2>4. new \in Rows /\ new.investor = old.investor /\ new.status = old.status
        /\ new.reserved = old.reserved /\ new.held = old.held + job.n /\ new.copy = copy
    <3>1. copy \in Copies
      BY <2>2 DEF Rows, Copies, CopyOf, Jobs, PositionStatus
    <3>2. old.held + job.n \in Nat
      BY <2>2 DEF Rows, Jobs
    <3> HIDE DEF copy, p
    <3> QED BY <2>2, <3>1, <3>2 DEF Rows
  <2> HIDE DEF new, p
  <2>5. /\ position' \in Seq(Rows) /\ DOMAIN position' = DOMAIN position
        /\ position'[p] = new /\ \A q \in DOMAIN position : q # p => position'[q] = position[q]
    BY <1>1, <2>1, <2>3, <2>4, PutRow DEF Positions
  <2>6. Enlarged(job, p)
    BY <2>1, <2>4, <2>5 DEF Enlarged, Positions, Merged
  <2> QED BY <2>1, <2>5, <2>6 DEF Positions
<1> QED BY <1>2, <1>3

(* One row replaced, with no more shares than before.                      *)
Lessened(old, new) ==
  /\ new.investor = old.investor /\ new.held <= old.held
  /\ new.reserved <= new.held /\ new.copy.held <= new.held
  /\ new.status = "active" \/ (new.status = old.status /\ new.held = old.held) \/ new.held = 0

Reduced(p) ==
  /\ p \in Positions /\ DOMAIN position' = Positions
  /\ position' \in Seq(Rows)
  /\ \A q \in Positions : q # p => position'[q] = position[q]
  /\ Lessened(position[p], position'[p])

LEMMA RowType ==
  ASSUME Types, RowsInv, NEW p \in Positions
  PROVE  /\ position \in Seq(Rows) /\ position[p] \in Rows
         /\ position[p].held \in Nat /\ position[p].reserved \in Nat
         /\ position[p].reserved <= position[p].held
         /\ position[p].copy.held <= position[p].held
         /\ position[p].copy.held \in Nat /\ position[p].copy.reserved \in Nat
         /\ position[p].copy \in Copies
<1>1. /\ position \in Seq(Rows) /\ position[p] \in Rows /\ position[p].reserved <= position[p].held
      /\ position[p].copy.held <= position[p].held
  BY DEF Types, RowsInv, Positions
<1>2. position[p].copy \in Copies
  BY <1>1 DEF Rows
<1>3. position[p].copy.held \in Nat /\ position[p].copy.reserved \in Nat
  BY <1>2 DEF Copies, NoCopy
<1> QED BY <1>1, <1>2, <1>3 DEF Rows

LEMMA ReducedBy ==
  ASSUME Types, NEW p \in Positions, NEW new \in Rows, Lessened(position[p], new),
         position' = [position EXCEPT ![p] = new]
  PROVE  Reduced(p) /\ position'[p] = new
<1>1. position \in Seq(Rows) /\ p \in DOMAIN position
  BY DEF Types, Positions
<1>2. /\ position' \in Seq(Rows) /\ DOMAIN position' = DOMAIN position
      /\ position'[p] = new /\ \A q \in DOMAIN position : q # p => position'[q] = position[q]
  BY <1>1, PutRow
<1> QED BY <1>2 DEF Reduced, Positions

LEMMA LessType ==
  ASSUME NEW a \in Nat, NEW b \in Nat
  PROVE  Less(a, b) \in Nat /\ Less(a, b) <= a /\ (b <= a => Less(a, b) = a - b)
         /\ (a <= b => Less(a, b) = 0)
         /\ \A c \in Nat : c <= a => Less(c, b) <= Less(a, b)
BY DEF Less

(* The steps that change a reservation, and with it perhaps the copy's.    *)
LEMMA ReserveRow ==
  ASSUME TypeInv, NEW s \in DOMAIN req, Reserve(s)
  PROVE  LET p == Job(s).on
         IN /\ p \in Positions /\ position[p].status = "active" /\ Reduced(p)
            /\ position'[p].held = position[p].held /\ position'[p].copy = position[p].copy
            /\ position'[p].status = position[p].status
            /\ position'[p].reserved = position[p].reserved + Job(s).n
            /\ Job(s).n \in Nat
<1> DEFINE p == Job(s).on
           n == position[p].reserved + Job(s).n
           new == [position[p] EXCEPT !.reserved = n]
<1>1. p \in Positions /\ position[p].status = "active" /\ Job(s).n \in Nat
      /\ Job(s).n <= position[p].held - position[p].reserved
  BY DEF Reserve, Redeemable, TypeInv, Types, Visits, Job, Jobs
<1>2. Types /\ RowsInv
  BY DEF TypeInv
<1>3. n \in Nat /\ n <= position[p].held
  BY <1>1, <1>2, RowType
<1>4. /\ new \in Rows /\ new.reserved = n /\ new.copy = position[p].copy
      /\ new.held = position[p].held /\ new.status = position[p].status
      /\ new.investor = position[p].investor
  BY <1>1, <1>2, <1>3, RowType DEF Rows
<1>5. position' = [position EXCEPT ![p] = new]
  BY DEF Reserve
<1> HIDE DEF n, p, new
<1>6. Lessened(position[p], new)
  BY <1>1, <1>2, <1>3, <1>4, RowType DEF Lessened
<1>7. Reduced(p) /\ position'[p] = new
  BY <1>1, <1>2, <1>4, <1>5, <1>6, ReducedBy
<1> QED BY <1>1, <1>4, <1>7 DEF n, p

(* A row and its copy with a reservation computed from the copy.           *)
Reserving(row, old, reserved) ==
  [old EXCEPT !.reserved = Checked(row, reserved),
     !.copy = IF old.copy = NoCopy THEN old.copy ELSE [old.copy EXCEPT !.reserved = reserved]]

LEMMA ReservingType ==
  ASSUME Types, RowsInv, NEW p \in Positions, NEW row \in Rows, NEW reserved \in Nat,
         row.held = position[p].held, row.reserved <= row.held
  PROVE  LET old == position[p]
             new == Reserving(row, old, reserved)
         IN /\ new \in Rows /\ Lessened(old, new)
            /\ new.held = old.held /\ new.status = old.status
            /\ new.reserved = Checked(row, reserved)
            /\ (old.copy = NoCopy => new.copy = NoCopy)
            /\ (old.copy # NoCopy => new.copy # NoCopy /\ new.copy.reserved = reserved)
            /\ new.copy.held = old.copy.held
<1> DEFINE old == position[p]
           copy == IF old.copy = NoCopy THEN old.copy ELSE [old.copy EXCEPT !.reserved = reserved]
           n == Checked(row, reserved)
           new == [old EXCEPT !.reserved = n, !.copy = copy]
<1>1. old \in Rows /\ old.copy \in Copies /\ old.held \in Nat /\ old.copy.held <= old.held
  BY RowType
<1>2. n \in Nat /\ n <= old.held
  BY <1>1 DEF Checked, Rows
<1>3. /\ copy \in Copies /\ copy.held = old.copy.held
      /\ (copy = NoCopy <=> old.copy = NoCopy)
      /\ (old.copy # NoCopy => copy.reserved = reserved)
  BY <1>1 DEF Copies, NoCopy, PositionStatus, Retired
<1> HIDE DEF n, copy, old
<1>4. /\ new \in Rows /\ new.held = old.held /\ new.status = old.status
      /\ new.investor = old.investor /\ new.reserved = n /\ new.copy = copy
  BY <1>1, <1>2, <1>3 DEF Rows
<1> HIDE DEF new
<1>5. Lessened(old, new)
  BY <1>1, <1>2, <1>3, <1>4 DEF Lessened
<1>6. new = Reserving(row, old, reserved)
  BY DEF new, copy, n, Reserving
<1> QED BY <1>3, <1>4, <1>5, <1>6 DEF n, old

LEMMA ReserveAnywayRow ==
  ASSUME TypeInv, NEW s \in DOMAIN req, ReserveAnyway(s)
  PROVE  LET p == Job(s).on
             old == position[p]
             new == position'[p]
             reserved == old.copy.reserved + Job(s).n
         IN /\ p \in Positions /\ Reduced(p)
            /\ new.held = old.held /\ new.status = old.status
            /\ new.copy.held = old.copy.held
            /\ (old.copy = NoCopy => new.copy = NoCopy)
            /\ (old.copy # NoCopy => new.copy # NoCopy /\ new.copy.reserved = reserved
                                     /\ new.reserved = Checked(old, reserved))
            /\ Job(s).n \in Nat
<1> DEFINE p == Job(s).on
           old == position[p]
           reserved == (IF old.copy = NoCopy THEN req[s].next ELSE old.copy.reserved) + Job(s).n
           new == Reserving(old, old, reserved)
<1>1. Types /\ RowsInv /\ p \in Positions /\ req[s].next \in Nat /\ Job(s).n \in Nat
  BY DEF TypeInv, Types, Fits, ReserveAnyway, At, Visits, Job, Jobs
<1>2. /\ old \in Rows /\ old.reserved <= old.held /\ old.copy.reserved \in Nat
  BY <1>1, RowType
<1>3. reserved \in Nat
  BY <1>1, <1>2
<1>4. position' = [position EXCEPT ![p] = new]
  BY <1>2 DEF ReserveAnyway, Reserving
<1>5. old.copy # NoCopy => reserved = old.copy.reserved + Job(s).n
  OBVIOUS
<1> HIDE DEF reserved, p
<1>6. /\ new \in Rows /\ Lessened(old, new)
      /\ new.held = old.held /\ new.status = old.status
      /\ new.reserved = Checked(old, reserved)
      /\ (old.copy = NoCopy => new.copy = NoCopy)
      /\ (old.copy # NoCopy => new.copy # NoCopy /\ new.copy.reserved = reserved)
      /\ new.copy.held = old.copy.held
  BY <1>1, <1>2, <1>3, ReservingType
<1> HIDE DEF new
<1>7. Reduced(p) /\ position'[p] = new
  BY <1>1, <1>4, <1>6, ReducedBy
<1> QED BY <1>1, <1>5, <1>6, <1>7 DEF p

LEMMA CancelRow ==
  ASSUME TypeInv, NEW s \in DOMAIN req, CancelRedemption(s)
  PROVE  LET k == Job(s).on
             p == request[k].on
             old == position[p]
             new == position'[p]
             reserved == Less(old.copy.reserved, request[k].n)
         IN /\ k \in DOMAIN request /\ p \in Positions /\ Reduced(p)
            /\ new.held = old.held /\ new.status = old.status
            /\ new.copy.held = old.copy.held
            /\ (old.copy = NoCopy => new.copy = NoCopy)
            /\ (old.copy # NoCopy => new.copy # NoCopy /\ new.copy.reserved = reserved)
            /\ (reserved <= old.held => new.reserved = reserved)
            /\ reserved \in Nat /\ request[k].n \in Nat
<1> DEFINE k == Job(s).on
           p == request[k].on
           old == position[p]
           row == CancelledRow(k)
           reserved == Less(old.copy.reserved, request[k].n)
           new == Reserving(row, old, reserved)
<1>1. Types /\ RowsInv /\ k \in DOMAIN request /\ p \in Positions /\ request[k].n \in Nat
  <2>1. Types /\ RowsInv /\ k \in DOMAIN request
    BY DEF TypeInv, Fits, CancelRedemption, At
  <2>2. request[k] \in Requests
    BY <2>1 DEF Types
  <2> QED BY <2>1, <2>2 DEF Requests, RowsInv
<1>2. /\ old \in Rows /\ old.reserved <= old.held /\ old.copy.reserved \in Nat
      /\ old.reserved \in Nat /\ old.held \in Nat
  BY <1>1, RowType
<1>3. reserved \in Nat
  BY <1>1, <1>2, LessType
<1>4. row \in Rows /\ row.held = old.held /\ row.reserved <= row.held
  <2> HIDE DEF reserved, new
  <2>1. PICK r \in Nat : r = Less(old.reserved, request[k].n) /\ r <= old.reserved
    <3>1. \A a, b \in Nat : Less(a, b) \in Nat /\ Less(a, b) <= a
      BY LessType
    <3> QED BY <1>1, <1>2, <3>1
  <2>2. r <= old.held
    BY <1>2, <2>1
  <2> QED BY <1>2, <2>1, <2>2 DEF CancelledRow, Rows
<1>5. position' = [position EXCEPT ![p] = new]
  BY <1>2 DEF CancelRedemption, Reserving
<1>6. reserved <= old.held => Checked(row, reserved) = reserved
  BY <1>4 DEF Checked
<1> HIDE DEF reserved, p, row
<1>7. /\ new \in Rows /\ Lessened(old, new)
      /\ new.held = old.held /\ new.status = old.status
      /\ new.reserved = Checked(row, reserved)
      /\ (old.copy = NoCopy => new.copy = NoCopy)
      /\ (old.copy # NoCopy => new.copy # NoCopy /\ new.copy.reserved = reserved)
      /\ new.copy.held = old.copy.held
  BY <1>1, <1>2, <1>3, <1>4, ReservingType
<1> HIDE DEF new
<1>8. Reduced(p) /\ position'[p] = new
  BY <1>1, <1>5, <1>7, ReducedBy
<1> QED BY <1>1, <1>3, <1>6, <1>7, <1>8 DEF p, reserved

(* A settlement: the row loses the shares, twice, and takes the copy's     *)
(* numbers if the database accepts them.                                   *)
LEMMA SettleRow ==
  ASSUME TypeInv, NEW s \in DOMAIN req, SettleRedemption(s)
  PROVE  LET k == Job(s).on
             p == request[k].on
             old == position[p]
             new == position'[p]
             n == request[k].n
         IN /\ k \in DOMAIN request /\ p \in Positions /\ Reduced(p) /\ n \in Nat
            /\ (old.copy # NoCopy => new.copy # NoCopy)
            /\ (old.copy # NoCopy /\ Less(old.copy.reserved, n) <= Less(old.copy.held, n) =>
                  /\ new.held = Less(old.copy.held, n) /\ new.reserved = Less(old.copy.reserved, n)
                  /\ new.copy.held = new.held /\ new.copy.reserved = new.reserved)
<1> DEFINE k == Job(s).on
           p == request[k].on
           old == position[p]
           n == request[k].n
           row == SettledRow(k)
           copy == SettledCopy(k)
           new == Overwritten(row, copy)
<1>1. Types /\ RowsInv /\ k \in DOMAIN request /\ p \in Positions /\ n \in Nat
  <2>1. Types /\ RowsInv /\ k \in DOMAIN request
    BY DEF TypeInv, Fits, SettleRedemption, At
  <2>2. request[k] \in Requests
    BY <2>1 DEF Types
  <2> QED BY <2>1, <2>2 DEF Requests, RowsInv
<1>2. /\ old \in Rows /\ old.reserved <= old.held /\ old.copy.reserved \in Nat
      /\ old.reserved \in Nat /\ old.held \in Nat /\ old.copy \in Copies
      /\ old.copy.held \in Nat /\ old.copy.held <= old.held
  BY <1>1, RowType
<1>3. \A a, b \in Nat : Less(a, b) \in Nat /\ Less(a, b) <= a
                        /\ \A c \in Nat : c <= a => Less(c, b) <= Less(a, b)
  BY LessType
<1>4. position' = [position EXCEPT ![p] = new]
  BY DEF SettleRedemption
<1>5. PICK held, reserved, copied, booked \in Nat :
        /\ held = Less(old.held, n) /\ reserved = Less(old.reserved, n)
        /\ copied = Less(old.copy.held, n) /\ booked = Less(old.copy.reserved, n)
        /\ held <= old.held /\ reserved <= held /\ copied <= held /\ copied <= old.copy.held
  <2> HIDE DEF p, n
  <2>1. Less(old.held, n) \in Nat /\ Less(old.held, n) <= old.held
    BY <1>1, <1>2, <1>3
  <2>2. Less(old.reserved, n) \in Nat /\ Less(old.reserved, n) <= Less(old.held, n)
    BY <1>1, <1>2, <1>3
  <2>3. Less(old.copy.held, n) \in Nat /\ Less(old.copy.held, n) <= Less(old.held, n)
        /\ Less(old.copy.held, n) <= old.copy.held
    BY <1>1, <1>2, <1>3
  <2>4. Less(old.copy.reserved, n) \in Nat
    BY <1>1, <1>2, <1>3
  <2> QED BY <2>1, <2>2, <2>3, <2>4
<1>6. \/ row = old
      \/ row = [old EXCEPT !.held = held, !.reserved = reserved,
                  !.status = IF old.held <= n THEN "retired_sold" ELSE "active"]
  BY <1>5 DEF SettledRow
<1>7. \/ copy = NoCopy /\ old.copy = NoCopy
      \/ /\ old.copy # NoCopy
         /\ copy = [held |-> copied, reserved |-> booked,
                    status |-> IF old.copy.held <= n THEN "retired_sold" ELSE old.copy.status]
  BY <1>5 DEF SettledCopy
<1>8. old.held <= n => held = 0
  BY <1>1, <1>2, <1>5 DEF Less
<1> HIDE DEF p, n, row, copy, k
<1>9. /\ row \in Rows /\ row.investor = old.investor /\ row.held <= old.held
      /\ row.reserved <= row.held /\ copied <= row.held
      /\ row.status = "active" \/ (row.status = old.status /\ row.held = old.held) \/ row.held = 0
  <2>1. CASE row = old
    BY <1>2, <1>5, <2>1
  <2>2. CASE row = [old EXCEPT !.held = held, !.reserved = reserved,
                      !.status = IF old.held <= n THEN "retired_sold" ELSE "active"]
    <3>1. PICK status \in {"retired_sold", "active"} :
            status = (IF old.held <= n THEN "retired_sold" ELSE "active")
      OBVIOUS
    <3>2. row = [old EXCEPT !.held = held, !.reserved = reserved, !.status = status]
      BY <2>2, <3>1
    <3>3. /\ row \in Rows /\ row.investor = old.investor /\ row.held = held
          /\ row.reserved = reserved /\ row.status = status
      BY <1>2, <1>5, <3>2 DEF Rows, PositionStatus, Retired
    <3> QED BY <1>5, <1>8, <3>1, <3>3
  <2> QED BY <1>6, <2>1, <2>2
<1>10. /\ copy \in Copies /\ (old.copy # NoCopy <=> copy # NoCopy)
       /\ copy.held <= row.held /\ copy.held \in Nat /\ copy.reserved \in Nat
       /\ (old.copy # NoCopy => copy.held = copied /\ copy.reserved = booked)
  BY <1>2, <1>5, <1>7, <1>9 DEF Copies, NoCopy, PositionStatus, Retired, Rows
<1>11. CASE copy.reserved <= copy.held
  <2> DEFINE status == IF copy # NoCopy /\ copy.held = 0 THEN "retired_sold" ELSE "active"
  <2>1. new = [row EXCEPT !.held = copy.held, !.reserved = copy.reserved, !.copy = copy,
                 !.status = status]
    BY <1>11 DEF Overwritten
  <2>2. /\ new \in Rows /\ new.investor = row.investor /\ new.held = copy.held
        /\ new.reserved = copy.reserved /\ new.copy = copy /\ new.status = status
    BY <1>9, <1>10, <2>1 DEF Rows, PositionStatus, Retired
  <2> HIDE DEF new
  <2>3. Lessened(old, new)
    BY <1>2, <1>9, <1>10, <1>11, <2>2 DEF Lessened, Rows
  <2>4. Reduced(p) /\ position'[p] = new
    BY <1>1, <1>4, <2>2, <2>3, ReducedBy
  <2> QED BY <1>1, <1>5, <1>10, <2>2, <2>4 DEF p, n, k
<1>12. CASE ~(copy.reserved <= copy.held)
  <2>1. new = [row EXCEPT !.copy = copy]
    BY <1>12 DEF Overwritten
  <2>2. /\ new \in Rows /\ new.investor = row.investor /\ new.held = row.held
        /\ new.reserved = row.reserved /\ new.copy = copy /\ new.status = row.status
    BY <1>9, <1>10, <2>1 DEF Rows
  <2> HIDE DEF new
  <2>3. Lessened(old, new)
    BY <1>2, <1>9, <1>10, <2>2 DEF Lessened, Rows
  <2>4. Reduced(p) /\ position'[p] = new
    BY <1>1, <1>4, <2>2, <2>3, ReducedBy
  <2> QED BY <1>1, <1>5, <1>10, <1>12, <2>2, <2>4 DEF p, n, k
<1> QED BY <1>11, <1>12

(* A buyout or delisting ends every active position.                       *)
LEMMA RetiredRows ==
  ASSUME Types, RowsInv, NEW status \in Retired, RetireAll(status)
  PROVE  /\ position' \in Seq(Rows) /\ DOMAIN position' = Positions
         /\ \A p \in Positions :
              /\ position'[p].investor = position[p].investor
              /\ position'[p].held = position[p].held
              /\ position'[p].reserved = position[p].reserved
              /\ position'[p].status = (IF position[p].status = "active" THEN status
                                        ELSE position[p].status)
              /\ position'[p].copy.held = position[p].copy.held
              /\ position'[p].copy.reserved = position[p].copy.reserved
              /\ (position'[p].copy = NoCopy <=> position[p].copy = NoCopy)
<1> DEFINE new(p) ==
      [position[p] EXCEPT
         !.status = IF @ = "active" THEN status ELSE @,
         !.copy = IF @.status = "active" THEN [@ EXCEPT !.status = status] ELSE @]
<1>1. position' = [p \in Positions |-> new(p)]
  BY DEF RetireAll
<1>2. ASSUME NEW p \in Positions
      PROVE  /\ new(p) \in Rows
             /\ new(p).investor = position[p].investor
             /\ new(p).held = position[p].held
             /\ new(p).reserved = position[p].reserved
             /\ new(p).status = (IF position[p].status = "active" THEN status
                                 ELSE position[p].status)
             /\ new(p).copy.held = position[p].copy.held
             /\ new(p).copy.reserved = position[p].copy.reserved
             /\ (new(p).copy = NoCopy <=> position[p].copy = NoCopy)
  <2> DEFINE copy == IF position[p].copy.status = "active"
                     THEN [position[p].copy EXCEPT !.status = status] ELSE position[p].copy
  <2>1. position[p] \in Rows /\ position[p].copy \in Copies
    BY RowType
  <2>2. /\ copy \in Copies /\ copy.held = position[p].copy.held
        /\ copy.reserved = position[p].copy.reserved
        /\ (copy = NoCopy <=> position[p].copy = NoCopy)
    BY <2>1 DEF Copies, NoCopy, PositionStatus, Retired
  <2> HIDE DEF copy
  <2>3. new(p) = [position[p] EXCEPT
                    !.status = IF position[p].status = "active" THEN status ELSE position[p].status,
                    !.copy = copy]
    BY <2>1 DEF copy, Rows
  <2> HIDE DEF new
  <2> QED BY <2>1, <2>2, <2>3 DEF Rows, PositionStatus
<1> HIDE DEF new
<1>3. position \in Seq(Rows) /\ Positions = DOMAIN position
  BY DEF Types, Positions
<1>4. position' = [p \in DOMAIN position |-> position'[p]] /\ \A p \in DOMAIN position : position'[p] \in Rows
  BY <1>1, <1>2, <1>3
<1>5. position' \in Seq(Rows) /\ DOMAIN position' = DOMAIN position
  BY <1>3, <1>4, MapRows
<1> QED BY <1>1, <1>2, <1>3, <1>5

LEMMA GrownRows ==
  ASSUME Types, RowsInv, NEW job \in Jobs, job.who \in Investors,
         Appended(job) \/ (position' \in Seq(Rows) /\ \E p \in Positions : Enlarged(job, p))
  PROVE  /\ position' \in Seq(Rows) /\ Positions \subseteq Positions'
         /\ \A p \in Positions' : position'[p].reserved <= position'[p].held
                                  /\ position'[p].copy.held <= position'[p].held
<1>1. position \in Seq(Rows)
  BY DEF Types
<1>2. CASE Appended(job)
  <2>1. PICK copy \in {NoCopy, CopyOf(job)} : position' = Append(position, NewPosition(job, copy))
    BY <1>2 DEF Appended
  <2> DEFINE row == NewPosition(job, copy)
             y == Len(position) + 1
  <2>2. row \in Rows /\ row.held = job.n /\ row.reserved = 0 /\ row.copy.held <= job.n /\ job.n \in Nat
    BY NewPositionType
  <2> HIDE DEF row
  <2>3. /\ position' \in Seq(Rows) /\ DOMAIN position' = DOMAIN position \cup {y}
        /\ position'[y] = row /\ \A q \in DOMAIN position : position'[q] = position[q]
    BY <1>1, <2>1, <2>2, AppendRow DEF row
  <2> QED BY <2>2, <2>3, RowType DEF Positions
<1>3. CASE position' \in Seq(Rows) /\ \E p \in Positions : Enlarged(job, p)
  <2>1. PICK p \in Positions : Enlarged(job, p)
    BY <1>3
  <2>2. job.n \in Nat /\ CopyOf(job).held = job.n
    BY DEF Jobs, CopyOf
  <2>3. position'[p].reserved <= position'[p].held /\ position'[p].copy.held <= position'[p].held
    BY <2>1, <2>2, RowType DEF Enlarged
  <2> QED BY <1>3, <2>1, <2>3, RowType DEF Enlarged, Positions
<1> QED BY <1>2, <1>3

LEMMA ReducedRows ==
  ASSUME Types, RowsInv, NEW p \in Positions, Reduced(p)
  PROVE  /\ position' \in Seq(Rows) /\ Positions' = Positions
         /\ \A q \in Positions' : position'[q].reserved <= position'[q].held
                                  /\ position'[q].copy.held <= position'[q].held
BY RowType DEF Reduced, Lessened, Positions

(* A step of a request that writes rows.                                   *)
LEMMA RowStep ==
  ASSUME TypeInv, NEW s \in DOMAIN req, NEW pc \in PCs \ Selling, Goto(s, pc), Fits(s)',
         position' \in Seq(Rows), Positions \subseteq Positions',
         \A p \in Positions' : position'[p].reserved <= position'[p].held
                               /\ position'[p].copy.held <= position'[p].held,
         request' \in Seq(Requests), DOMAIN request \subseteq DOMAIN request',
         \A k \in DOMAIN request' : request'[k].on \in Positions',
         orders' \in Seq(Orders),
         \A t \in DOMAIN req : t # s /\ req[t].pc \in Selling =>
           Job(t).on \in DOMAIN orders' /\ orders'[Job(t).on] = orders[Job(t).on],
         asset' \in [status : AssetStatus, invest : BOOLEAN, sold : 0..Shares],
         checkout' = checkout, queue' \in Seq(DOMAIN req), store' \subseteq Keys,
         keys' \subseteq Keys, faults' \in 0..MaxFaults,
         bought' \in [Investors -> Nat] /\ settled' \in [Investors -> Nat],
         paidOut' = paidOut, allotted' \in [Keys -> Nat]
  PROVE  TypeInv'
<1>1. Types
  BY DEF TypeInv
<1>2. /\ DOMAIN req' = DOMAIN req /\ req' \in [DOMAIN req -> Visits]
      /\ req'[s].pc = pc
      /\ \A t \in DOMAIN req :
           /\ req'[t].job = req[t].job /\ req'[t].next = req[t].next
           /\ t # s => req'[t].pc = req[t].pc
  BY <1>1, Moved
<1>3. Types'
  BY <1>1, <1>2 DEF Types
<1>4. RowsInv'
  BY DEF RowsInv
<1>5. /\ \A t \in DOMAIN req' : Fits(t)'
      /\ \A t, u \in DOMAIN req' :
           req'[t].pc \in Selling /\ req'[u].pc \in Selling /\ Job(t)'.on = Job(u)'.on => t = u
  BY <1>2, FitsStep
<1> QED BY <1>3, <1>4, <1>5 DEF TypeInv

LEMMA SameOrders ==
  ASSUME TypeInv, orders' = orders
  PROVE  /\ orders' \in Seq(Orders)
         /\ \A t \in DOMAIN req : req[t].pc \in Selling =>
              Job(t).on \in DOMAIN orders' /\ orders'[Job(t).on] = orders[Job(t).on]
BY DEF TypeInv, Types, Fits

LEMMA SameRequests ==
  ASSUME TypeInv, request' = request, Positions \subseteq Positions'
  PROVE  /\ request' \in Seq(Requests) /\ DOMAIN request \subseteq DOMAIN request'
         /\ \A k \in DOMAIN request' : request'[k].on \in Positions'
BY DEF TypeInv, Types, RowsInv

(* Allocations.                                                            *)
Allocating(s) == Purchase(s) \/ LosePurchaseAnswer(s) \/ Allot(s)

LEMMA AllocatingRows ==
  ASSUME TypeInv, NEW s \in DOMAIN req, Allocating(s)
  PROVE  /\ Job(s) \in Jobs /\ Job(s).who \in Investors /\ Job(s).key \in Keys /\ Job(s).n \in Nat
         /\ Job(s).op = "invest"
         /\ Appended(Job(s)) \/ (position' \in Seq(Rows) /\ \E p \in Positions : Enlarged(Job(s), p))
<1>1. Types /\ Fits(s) /\ req[s] \in Visits
  BY DEF TypeInv, Types
<1>2. /\ Job(s) \in Jobs /\ Job(s).key \in Keys /\ Job(s).n \in Nat
  BY <1>1 DEF Visits, Job, Jobs
<1>3. Job(s).op = "invest" /\ Job(s).who \in Investors
  BY <1>1 DEF Allocating, Purchase, LosePurchaseAnswer, Allot, Allotted, At, Fits, Allotting
<1>4. CASE Purchase(s)
  <2>1. position' = Purchased(Job(s), TRUE)
    BY <1>4 DEF Purchase
  <2> QED BY <1>1, <1>2, <1>3, <2>1, PurchasedRows
<1>5. CASE LosePurchaseAnswer(s)
  <2>1. position' = Purchased(Job(s), FALSE)
    BY <1>5 DEF LosePurchaseAnswer
  <2> QED BY <1>1, <1>2, <1>3, <2>1, PurchasedRows
<1>6. CASE Allot(s)
  BY <1>2, <1>3, <1>6 DEF Allot, Appended
<1> QED BY <1>4, <1>5, <1>6 DEF Allocating

LEMMA AllocatingTypes ==
  ASSUME TypeInv, NEW s \in DOMAIN req, Allocating(s)
  PROVE  TypeInv'
<1>1. Types /\ RowsInv /\ Fits(s) /\ req[s] \in Visits /\ {"holding", "fallback"} \subseteq PCs \ Selling
  BY DEF TypeInv, Types, PCs, Selling
<1>2. /\ Job(s) \in Jobs /\ Job(s).who \in Investors /\ Job(s).key \in Keys /\ Job(s).n \in Nat
      /\ Appended(Job(s)) \/ (position' \in Seq(Rows) /\ \E p \in Positions : Enlarged(Job(s), p))
  BY AllocatingRows
<1>3. /\ position' \in Seq(Rows) /\ Positions \subseteq Positions'
      /\ \A p \in Positions' : position'[p].reserved <= position'[p].held
                               /\ position'[p].copy.held <= position'[p].held
  BY <1>1, <1>2, GrownRows
<1>4. request' = request /\ orders' = orders /\ checkout' = checkout /\ paidOut' = paidOut
      /\ settled' = settled
  BY DEF Allocating, Purchase, LosePurchaseAnswer, Allot, Allotted, PurchaseRpc
<1>5. PICK pc \in {"holding", "fallback"} : Goto(s, pc)
  BY DEF Allocating, Purchase, LosePurchaseAnswer, Allot, Allotted
<1>6. Fits(s)'
  <2>1. req[s].pc \in Allotting /\ Job(s).op = "invest"
    BY AllocatingRows DEF Allocating, Purchase, LosePurchaseAnswer, Allot, Allotted, At, Allotting
  <2> QED BY <1>1, <1>2, <1>4, <1>5, <2>1, Moved DEF Fits, At, Job, Shopping, Allotting, Selling
<1>7. asset' \in [status : AssetStatus, invest : BOOLEAN, sold : 0..Shares]
  <2>1. asset' = asset
        \/ \E sold \in 0..Shares : asset' = [asset EXCEPT !.sold = sold, !.status = Funded(sold)]
    <3>1. CASE Purchase(s) \/ LosePurchaseAnswer(s)
      <4>1. asset' = [asset EXCEPT !.sold = asset.sold + Job(s).n,
                                   !.status = Funded(asset.sold + Job(s).n)]
            /\ Job(s).n <= Shares - asset.sold
        BY <1>1, <3>1 DEF Purchase, LosePurchaseAnswer, PurchaseRpc, MayPurchase, Types
      <4>2. asset.sold + Job(s).n \in 0..Shares
        <5>1. asset.sold \in 0..Shares /\ Shares \in Nat
          BY <1>1, LedgerAssumption DEF Types
        <5> QED BY <1>2, <4>1, <5>1
      <4> QED BY <4>1, <4>2
    <3>2. CASE Allot(s)
      <4>1. req[s].next \in 0..Shares
        BY <1>1, <3>2, LedgerAssumption DEF Allot, Allotted, Fits, At, Visits
      <4> QED BY <3>2, <4>1 DEF Allot, Allotted, MarkedSold
    <3> QED BY <3>1, <3>2 DEF Allocating
  <2> QED BY <1>1, <2>1 DEF Types, AssetStatus, Funded
<1>8. queue' \in Seq(DOMAIN req)
  BY <1>1, QueueTypes DEF Allocating, Purchase, LosePurchaseAnswer, Allot, Allotted, Release, Types
<1>9. store' \subseteq Keys /\ keys' \subseteq Keys
  BY <1>1, <1>2 DEF Allocating, Purchase, LosePurchaseAnswer, Allot, Allotted, PurchaseRpc, Types
<1>10. faults' \in 0..MaxFaults
  <2>1. faults' = faults \/ Fault
    BY DEF Allocating, Purchase, LosePurchaseAnswer, Allot, Allotted
  <2> QED BY <1>1, <2>1, LedgerAssumption DEF Fault, Types
<1>11. bought' \in [Investors -> Nat] /\ allotted' \in [Keys -> Nat] /\ settled' \in [Investors -> Nat]
  <2>1. /\ bought' = [bought EXCEPT ![Job(s).who] = @ + Job(s).n]
        /\ allotted' = [allotted EXCEPT ![Job(s).key] = @ + 1]
    BY DEF Allocating, Purchase, LosePurchaseAnswer, Allot, Allotted, PurchaseRpc
  <2>2. /\ bought \in [Investors -> Nat] /\ allotted \in [Keys -> Nat]
        /\ settled \in [Investors -> Nat]
    BY <1>1 DEF Types
  <2>3. bought' \in [Investors -> Nat]
    BY <1>2, <2>1, <2>2, CounterType
  <2>4. allotted' \in [Keys -> Nat]
    BY <1>2, <2>1, <2>2, CounterType
  <2> QED BY <1>4, <2>2, <2>3, <2>4
<1>12. /\ orders' \in Seq(Orders)
       /\ \A t \in DOMAIN req : req[t].pc \in Selling =>
            Job(t).on \in DOMAIN orders' /\ orders'[Job(t).on] = orders[Job(t).on]
  BY <1>4, SameOrders
<1>13. /\ request' \in Seq(Requests) /\ DOMAIN request \subseteq DOMAIN request'
       /\ \A k \in DOMAIN request' : request'[k].on \in Positions'
  BY <1>3, <1>4, SameRequests
<1> QED BY <1>1, <1>3, <1>4, <1>5, <1>6, <1>7, <1>8, <1>9, <1>10, <1>11, <1>12, <1>13, RowStep

LEMMA AllotUnwrittenTypes ==
  ASSUME TypeInv, NEW s \in DOMAIN req, AllotUnwritten(s)
  PROVE  TypeInv'
<1>1. Types /\ RowsInv /\ Fits(s) /\ req[s] \in Visits /\ "holding" \in PCs \ Selling
  BY DEF TypeInv, Types, PCs, Selling
<1>2. At(s, "allot") /\ Goto(s, "holding") /\ Job(s).op = "invest" /\ Job(s).who \in Investors
      /\ Job(s).key \in Keys /\ Job(s).n \in Nat
  BY <1>1 DEF AllotUnwritten, Allotted, At, Fits, Allotting, Visits, Job, Jobs
<1>3. /\ position' = position /\ request' = request /\ orders' = orders /\ checkout' = checkout
      /\ paidOut' = paidOut /\ settled' = settled /\ keys' = keys
  BY DEF AllotUnwritten, Allotted
<1>4. /\ position' \in Seq(Rows) /\ Positions \subseteq Positions'
      /\ \A p \in Positions' : position'[p].reserved <= position'[p].held
                               /\ position'[p].copy.held <= position'[p].held
  BY <1>1, <1>3 DEF Types, RowsInv, Positions
<1>5. Fits(s)'
  BY <1>1, <1>2, <1>3, Moved DEF Fits, At, Job, Shopping, Allotting, Selling
<1>6. asset' \in [status : AssetStatus, invest : BOOLEAN, sold : 0..Shares]
  <2>1. req[s].next \in 0..Shares
    BY <1>1, <1>2, LedgerAssumption DEF Fits, At, Visits
  <2> QED BY <1>1, <2>1 DEF AllotUnwritten, MarkedSold, Types, AssetStatus, Funded
<1>7. queue' \in Seq(DOMAIN req)
  BY <1>1, QueueTypes DEF AllotUnwritten, Allotted, Release, Types
<1>8. store' \subseteq Keys /\ keys' \subseteq Keys /\ faults' \in 0..MaxFaults
  <2>1. store' = store \cup {Job(s).key} /\ faults < MaxFaults /\ faults' = faults + 1
    BY DEF AllotUnwritten, Allotted, Fault
  <2> QED BY <1>1, <1>2, <1>3, <2>1, LedgerAssumption DEF Types
<1>9. bought' \in [Investors -> Nat] /\ settled' \in [Investors -> Nat]
  <2>1. bought' = [bought EXCEPT ![Job(s).who] = @ + Job(s).n]
    BY DEF AllotUnwritten, Allotted
  <2>2. bought \in [Investors -> Nat] /\ settled \in [Investors -> Nat]
    BY <1>1 DEF Types
  <2>3. bought' \in [Investors -> Nat]
    BY <1>2, <2>1, <2>2, CounterType
  <2> QED BY <1>3, <2>2, <2>3
<1>10. allotted' \in [Keys -> Nat]
  <2>1. allotted' = [allotted EXCEPT ![Job(s).key] = @ + 1] /\ allotted \in [Keys -> Nat]
    BY <1>1 DEF AllotUnwritten, Allotted, Types
  <2> QED BY <1>2, <2>1, CounterType
<1>11. /\ orders' \in Seq(Orders)
       /\ \A t \in DOMAIN req : req[t].pc \in Selling =>
            Job(t).on \in DOMAIN orders' /\ orders'[Job(t).on] = orders[Job(t).on]
  BY <1>3, SameOrders
<1>12. /\ request' \in Seq(Requests) /\ DOMAIN request \subseteq DOMAIN request'
       /\ \A k \in DOMAIN request' : request'[k].on \in Positions'
  BY <1>3, <1>4, SameRequests
<1> QED BY <1>1, <1>2, <1>3, <1>4, <1>5, <1>6, <1>7, <1>8, <1>9, <1>10, <1>11, <1>12, RowStep

(* Redemptions.                                                            *)
LEMMA RequestType ==
  ASSUME Types, NEW job \in Jobs, NEW db \in {"none", "pending_review"}
  PROVE  LET new == NewRequest(job, db, "pending_review")
         IN /\ new \in Requests /\ new.on = job.on /\ new.n = job.n /\ new.db = db
            /\ new.cached = "pending_review"
BY DEF NewRequest, Requests, Jobs, RowStatus, CachedStatus, Open

LEMMA AppendedRequest ==
  ASSUME TypeInv, NEW job \in Jobs, job.on \in Positions, NEW db \in {"none", "pending_review"},
         request' = Append(request, NewRequest(job, db, "pending_review")), Positions' = Positions
  PROVE  LET y == Len(request) + 1
         IN /\ request' \in Seq(Requests) /\ DOMAIN request' = DOMAIN request \cup {y}
            /\ y \notin DOMAIN request
            /\ request'[y].on = job.on /\ request'[y].n = job.n
            /\ request'[y].db = db /\ request'[y].cached = "pending_review"
            /\ \A k \in DOMAIN request : request'[k] = request[k]
            /\ \A k \in DOMAIN request' : request'[k].on \in Positions'
<1> DEFINE new == NewRequest(job, db, "pending_review")
           y == Len(request) + 1
<1>1. request \in Seq(Requests) /\ \A k \in DOMAIN request : request[k].on \in Positions
  BY DEF TypeInv, Types, RowsInv
<1>2. /\ new \in Requests /\ new.on = job.on /\ new.n = job.n /\ new.db = db
      /\ new.cached = "pending_review"
  BY RequestType DEF TypeInv
<1>3. request' = Append(request, new)
  OBVIOUS
<1> HIDE DEF new
<1>4. /\ request' \in Seq(Requests) /\ DOMAIN request' = DOMAIN request \cup {y}
      /\ y \notin DOMAIN request
      /\ request'[y] = new /\ \A q \in DOMAIN request : request'[q] = request[q]
  BY <1>1, <1>2, <1>3, AppendRow
<1> QED BY <1>1, <1>2, <1>4

LEMMA ClosedRequest ==
  ASSUME TypeInv, NEW k \in DOMAIN request, NEW status \in {"cancelled", "completed"},
         Close(k, status), Positions' = Positions
  PROVE  /\ request' \in Seq(Requests) /\ DOMAIN request' = DOMAIN request
         /\ \A j \in DOMAIN request : request'[j].on = request[j].on /\ request'[j].n = request[j].n
         /\ \A j \in DOMAIN request : j # k => request'[j] = request[j]
         /\ request'[k].cached \in {"none", status} /\ request'[k].db \in {"none", status}
         /\ (request'[k].cached = "none" <=> request[k].cached = "none")
         /\ \A j \in DOMAIN request' : request'[j].on \in Positions'
<1>1. request \in Seq(Requests) /\ \A j \in DOMAIN request : request[j].on \in Positions
  BY DEF TypeInv, Types, RowsInv
<1>2. request[k] \in Requests
  BY <1>1
<1> DEFINE new == [request[k] EXCEPT
                     !.cached = IF request[k].cached = "none" THEN "none" ELSE status,
                     !.db = IF request[k].db = "none" THEN "none" ELSE status]
<1>3. request' = [request EXCEPT ![k] = new]
  BY <1>2 DEF Close, Requests
<1>4. /\ new \in Requests /\ new.on = request[k].on /\ new.n = request[k].n
      /\ new.cached \in {"none", status} /\ new.db \in {"none", status}
      /\ (new.cached = "none" <=> request[k].cached = "none")
  BY <1>2 DEF Requests, RowStatus, CachedStatus, Open
<1> HIDE DEF new
<1>5. /\ request' \in Seq(Requests) /\ DOMAIN request' = DOMAIN request
      /\ request'[k] = new /\ \A q \in DOMAIN request : q # k => request'[q] = request[q]
  BY <1>1, <1>3, <1>4, PutRow
<1> QED BY <1>1, <1>4, <1>5

LEMMA CancelledRequests ==
  ASSUME TypeInv, NEW status \in {"cancelled_due_to_buyout", "cancelled_due_to_delist"},
         CancelCached(status), Positions' = Positions
  PROVE  /\ request' \in Seq(Requests) /\ DOMAIN request' = DOMAIN request
         /\ \A k \in DOMAIN request :
              /\ request'[k].on = request[k].on /\ request'[k].n = request[k].n
              /\ request'[k].db = request[k].db
              /\ request'[k].cached \in {request[k].cached, status}
         /\ \A k \in DOMAIN request' : request'[k].on \in Positions'
<1>1. request \in Seq(Requests) /\ \A k \in DOMAIN request : request[k].on \in Positions
  BY DEF TypeInv, Types, RowsInv
<1> DEFINE new(k) == [request[k] EXCEPT !.cached = IF @ \in Open THEN status ELSE @]
<1>2. request' = [k \in DOMAIN request |-> new(k)]
  BY DEF CancelCached
<1>3. ASSUME NEW k \in DOMAIN request
      PROVE  /\ new(k) \in Requests /\ new(k).on = request[k].on /\ new(k).n = request[k].n
             /\ new(k).db = request[k].db /\ new(k).cached \in {request[k].cached, status}
  <2>1. request[k] \in Requests
    BY <1>1
  <2> QED BY <2>1 DEF Requests, CachedStatus
<1> HIDE DEF new
<1>4. request' = [k \in DOMAIN request |-> request'[k]] /\ \A k \in DOMAIN request : request'[k] \in Requests
  BY <1>2, <1>3
<1>5. request' \in Seq(Requests) /\ DOMAIN request' = DOMAIN request
  BY <1>1, <1>4, MapRows
<1> QED BY <1>1, <1>2, <1>3, <1>5

LEMMA ReserveTypes ==
  ASSUME TypeInv, NEW s \in DOMAIN req, Reserve(s) \/ ReserveAnyway(s)
  PROVE  TypeInv'
<1>1. Types /\ RowsInv /\ Fits(s) /\ req[s] \in Visits /\ "end" \in PCs \ Selling /\ Job(s) \in Jobs
  BY DEF TypeInv, Types, PCs, Selling, Visits, Job
<1> DEFINE p == Job(s).on
<1>2. p \in Positions /\ Reduced(p)
  BY ReserveRow, ReserveAnywayRow
<1>3. /\ position' \in Seq(Rows) /\ Positions' = Positions
      /\ \A q \in Positions' : position'[q].reserved <= position'[q].held
                               /\ position'[q].copy.held <= position'[q].held
  BY <1>1, <1>2, ReducedRows
<1>4. PICK db \in {"none", "pending_review"} :
        request' = Append(request, NewRequest(Job(s), db, "pending_review"))
  BY DEF Reserve, ReserveAnyway
<1>5. /\ request' \in Seq(Requests) /\ DOMAIN request \subseteq DOMAIN request'
      /\ \A k \in DOMAIN request' : request'[k].on \in Positions'
  BY <1>1, <1>2, <1>3, <1>4, AppendedRequest
<1>6. /\ UNCHANGED <<asset, orders, keys, checkout, store, bought, settled, paidOut, allotted>>
      /\ Goto(s, "end") /\ Release /\ Holds(s) /\ (faults' = faults \/ Fault)
  BY DEF Reserve, ReserveAnyway, history
<1>7. queue' \in Seq(DOMAIN req)
  BY <1>1, <1>6, QueueTypes DEF Release
<1>8. faults' \in 0..MaxFaults
  BY <1>1, <1>6, LedgerAssumption DEF Fault, Types
<1>9. Fits(s)'
  BY <1>1, <1>6, Moved DEF Fits, At, Job, Shopping, Allotting, Selling
<1>10. /\ orders' \in Seq(Orders)
       /\ \A t \in DOMAIN req : req[t].pc \in Selling =>
            Job(t).on \in DOMAIN orders' /\ orders'[Job(t).on] = orders[Job(t).on]
  BY <1>6, SameOrders
<1>11. /\ asset' \in [status : AssetStatus, invest : BOOLEAN, sold : 0..Shares]
       /\ store' \subseteq Keys /\ keys' \subseteq Keys
       /\ bought' \in [Investors -> Nat] /\ settled' \in [Investors -> Nat]
       /\ allotted' \in [Keys -> Nat]
  BY <1>1, <1>6 DEF Types
<1> QED BY <1>1, <1>3, <1>5, <1>6, <1>7, <1>8, <1>9, <1>10, <1>11, RowStep

LEMMA CloseTypes ==
  ASSUME TypeInv, NEW s \in DOMAIN req, CancelRedemption(s) \/ SettleRedemption(s)
  PROVE  TypeInv'
<1>1. Types /\ RowsInv /\ Fits(s) /\ req[s] \in Visits /\ "end" \in PCs \ Selling
  BY DEF TypeInv, Types, PCs, Selling
<1> DEFINE k == Job(s).on
           p == request[k].on
<1>2. k \in DOMAIN request /\ p \in Positions /\ Reduced(p) /\ request[k].n \in Nat
  BY CancelRow, SettleRow
<1>3. /\ position' \in Seq(Rows) /\ Positions' = Positions
      /\ \A q \in Positions' : position'[q].reserved <= position'[q].held
                               /\ position'[q].copy.held <= position'[q].held
  BY <1>1, <1>2, ReducedRows
<1>4. PICK status \in {"cancelled", "completed"} : Close(k, status)
  BY DEF CancelRedemption, SettleRedemption
<1>5. /\ request' \in Seq(Requests) /\ DOMAIN request \subseteq DOMAIN request'
      /\ \A j \in DOMAIN request' : request'[j].on \in Positions'
  BY <1>1, <1>2, <1>3, <1>4, ClosedRequest
<1>6. /\ UNCHANGED <<asset, orders, keys, checkout, store, faults, bought, paidOut, allotted>>
      /\ Goto(s, "end") /\ Release /\ Holds(s)
  BY DEF CancelRedemption, SettleRedemption, history
<1>7. queue' \in Seq(DOMAIN req)
  BY <1>1, <1>6, QueueTypes DEF Release
<1>8. settled' \in [Investors -> Nat]
  <2>1. position[p].investor \in Investors
    BY <1>1, <1>2, RowType DEF Rows
  <2> HIDE DEF p
  <2>2. settled' = settled \/ settled' = [settled EXCEPT ![position[p].investor] = @ + request[k].n]
    BY DEF CancelRedemption, SettleRedemption, history, p
  <2>3. settled \in [Investors -> Nat]
    BY <1>1 DEF Types
  <2> QED BY <1>2, <2>1, <2>2, <2>3, CounterType
<1>9. Fits(s)'
  BY <1>1, <1>6, Moved DEF Fits, At, Job, Shopping, Allotting, Selling
<1>10. /\ orders' \in Seq(Orders)
       /\ \A t \in DOMAIN req : req[t].pc \in Selling =>
            Job(t).on \in DOMAIN orders' /\ orders'[Job(t).on] = orders[Job(t).on]
  BY <1>6, SameOrders
<1>11. /\ asset' \in [status : AssetStatus, invest : BOOLEAN, sold : 0..Shares]
       /\ store' \subseteq Keys /\ keys' \subseteq Keys /\ faults' \in 0..MaxFaults
       /\ bought' \in [Investors -> Nat] /\ allotted' \in [Keys -> Nat]
  BY <1>1, <1>6 DEF Types
<1> QED BY <1>1, <1>3, <1>5, <1>6, <1>7, <1>8, <1>9, <1>10, <1>11, RowStep

(* Ends of the listing.                                                    *)
LEMMA EndTypes ==
  ASSUME TypeInv, NEW s \in DOMAIN req, Delist(s) \/ CompleteBuyout(s)
  PROVE  TypeInv'
<1>1. Types /\ RowsInv /\ Fits(s) /\ req[s] \in Visits /\ "end" \in PCs \ Selling
  BY DEF TypeInv, Types, PCs, Selling
<1>2. PICK status \in {"retired_delisted", "retired_bought_out"} : RetireAll(status)
  BY DEF Delist, CompleteBuyout
<1>3. /\ position' \in Seq(Rows) /\ Positions' = Positions
      /\ \A q \in Positions' : position'[q].reserved <= position'[q].held
                               /\ position'[q].copy.held <= position'[q].held
  <2>1. status \in Retired
    BY DEF Retired
  <2>2. /\ position' \in Seq(Rows) /\ DOMAIN position' = Positions
        /\ \A p \in Positions :
             /\ position'[p].held = position[p].held
             /\ position'[p].reserved = position[p].reserved
             /\ position'[p].copy.held = position[p].copy.held
    BY <1>1, <1>2, <2>1, RetiredRows
  <2> QED BY <1>1, <2>2, RowType DEF Positions
<1>4. PICK ended \in {"cancelled_due_to_buyout", "cancelled_due_to_delist"} : CancelCached(ended)
  BY DEF Delist, CompleteBuyout
<1>5. /\ request' \in Seq(Requests) /\ DOMAIN request \subseteq DOMAIN request'
      /\ \A k \in DOMAIN request' : request'[k].on \in Positions'
  BY <1>1, <1>3, <1>4, CancelledRequests
<1>6. /\ UNCHANGED <<keys, checkout, store, faults, bought, settled, paidOut, allotted>>
      /\ Goto(s, "end") /\ Release /\ Holds(s)
  BY DEF Delist, CompleteBuyout, history
<1>7. queue' \in Seq(DOMAIN req)
  BY <1>1, <1>6, QueueTypes DEF Release
<1>8. asset' \in [status : AssetStatus, invest : BOOLEAN, sold : 0..Shares]
  BY <1>1 DEF Delist, CompleteBuyout, Types, AssetStatus
<1>9. Fits(s)'
  BY <1>1, <1>6, Moved DEF Fits, At, Job, Shopping, Allotting, Selling
<1>10. /\ orders' \in Seq(Orders)
       /\ \A t \in DOMAIN req : t # s /\ req[t].pc \in Selling =>
            Job(t).on \in DOMAIN orders' /\ orders'[Job(t).on] = orders[Job(t).on]
  <2>1. CASE Delist(s)
    BY <2>1, SameOrders DEF Delist
  <2>2. CASE CompleteBuyout(s)
    BY <2>2, ReleasedOrder DEF CompleteBuyout, At, Selling
  <2> QED BY <2>1, <2>2
<1>11. /\ store' \subseteq Keys /\ keys' \subseteq Keys /\ faults' \in 0..MaxFaults
       /\ bought' \in [Investors -> Nat] /\ settled' \in [Investors -> Nat]
       /\ allotted' \in [Keys -> Nat]
  BY <1>1, <1>6 DEF Types
<1> QED BY <1>1, <1>3, <1>5, <1>6, <1>7, <1>8, <1>9, <1>10, <1>11, RowStep

LEMMA ShareholdersType ==
  ASSUME Types
  PROVE  Shareholders \subseteq Investors
<1>1. ASSUME NEW p \in Active PROVE position[p].investor \in Investors
  <2>1. position \in Seq(Rows) /\ p \in DOMAIN position
    BY DEF Types, Active, Positions
  <2>2. position[p] \in Rows
    BY <2>1, RowsAre
  <2> QED BY <2>2 DEF Rows
<1> QED BY <1>1 DEF Shareholders

LEMMA DistributeTypes ==
  ASSUME TypeInv, NEW s \in DOMAIN req, Distribute(s)
  PROVE  TypeInv'
<1>1. Types /\ RowsInv /\ Fits(s) /\ req[s] \in Visits /\ req \in [DOMAIN req -> Visits]
      /\ req[s].pc \in Selling
  BY DEF TypeInv, Types, Selling, Distribute, At
<1> DEFINE r == [req[s] EXCEPT !.pc = "paying", !.due = Shareholders]
<1>2. req' = [req EXCEPT ![s] = r]
  BY DEF Distribute
<1>3. r \in Visits /\ r.job = req[s].job /\ r.pc = "paying" /\ r.next = req[s].next
  BY <1>1, ShareholdersType DEF Visits, PCs
<1> HIDE DEF r
<1>4. /\ DOMAIN req' = DOMAIN req /\ req' \in [DOMAIN req -> Visits] /\ req'[s] = r
      /\ \A t \in DOMAIN req :
           /\ req'[t].job = req[t].job
           /\ t # s => req'[t].pc = req[t].pc /\ req'[t].next = req[t].next
  BY <1>1, <1>2, <1>3
<1>5. UNCHANGED <<asset, position, orders, keys, checkout, queue, store, faults, bought, settled,
                  paidOut, allotted>>
  BY DEF Distribute, history
<1>6. /\ request' \in Seq(Requests) /\ DOMAIN request' = DOMAIN request
      /\ \A k \in DOMAIN request' : request'[k].on \in Positions'
  BY <1>5, CancelledRequests DEF Distribute, Positions
<1>7. Types' /\ RowsInv'
  BY <1>1, <1>4, <1>5, <1>6 DEF Types, RowsInv, Positions
<1>8. Fits(s)'
  BY <1>1, <1>3, <1>4, <1>5 DEF Fits, At, Job, Shopping, Allotting, Selling
<1>9. \A t \in DOMAIN req : t # s /\ req[t].pc \in Selling =>
        Job(t).on \in DOMAIN orders' /\ orders'[Job(t).on] = orders[Job(t).on]
  BY <1>5, SameOrders
<1>10. Positions \subseteq Positions'
  BY <1>5 DEF Positions
<1>11. /\ \A t \in DOMAIN req' : Fits(t)'
       /\ \A t, u \in DOMAIN req' :
            req'[t].pc \in Selling /\ req'[u].pc \in Selling /\ Job(t)'.on = Job(u)'.on => t = u
  BY <1>1, <1>4, <1>6, <1>8, <1>9, <1>10, FitsStep
<1> QED BY <1>7, <1>11 DEF TypeInv

(* A restart keeps the tables and the requests that did not begin.         *)
LEMMA RestartRows ==
  ASSUME Types, RowsInv, Restart
  PROVE  /\ position' \in Seq(Rows) /\ DOMAIN position' = Positions
         /\ \A p \in Positions :
              /\ position'[p].investor = position[p].investor
              /\ position'[p].held = position[p].held
              /\ position'[p].reserved = position[p].reserved
              /\ position'[p].status = position[p].status
              /\ position'[p].copy = NoCopy
<1> DEFINE new(p) == [position[p] EXCEPT !.copy = NoCopy]
<1>1. position' = [p \in Positions |-> new(p)]
  BY DEF Restart
<1>2. ASSUME NEW p \in Positions
      PROVE  /\ new(p) \in Rows /\ new(p).investor = position[p].investor
             /\ new(p).held = position[p].held /\ new(p).reserved = position[p].reserved
             /\ new(p).status = position[p].status /\ new(p).copy = NoCopy
  BY RowType DEF Rows, Copies
<1> HIDE DEF new
<1>3. position \in Seq(Rows) /\ Positions = DOMAIN position
  BY DEF Types, Positions
<1>4. position' = [p \in DOMAIN position |-> position'[p]] /\ \A p \in DOMAIN position : position'[p] \in Rows
  BY <1>1, <1>2, <1>3
<1>5. position' \in Seq(Rows) /\ DOMAIN position' = DOMAIN position
  BY <1>3, <1>4, MapRows
<1> QED BY <1>1, <1>2, <1>3, <1>5

LEMMA RestartReq ==
  ASSUME Types, Restart
  PROVE  /\ DOMAIN req' = DOMAIN req /\ req' \in [DOMAIN req -> Visits]
         /\ \A s \in DOMAIN req :
              /\ req'[s].job = req[s].job /\ req'[s].next = req[s].next
              /\ req'[s].pc = (IF At(s, "new") THEN "new" ELSE "end")
<1>1. \A s \in DOMAIN req : req[s] \in Visits
  BY DEF Types
<1>2. ASSUME NEW s \in DOMAIN req
      PROVE  /\ Dead(s) \in Visits /\ Dead(s).job = req[s].job /\ Dead(s).next = req[s].next
             /\ Dead(s).pc = (IF At(s, "new") THEN "new" ELSE "end")
  BY <1>1 DEF Dead, At, Visits, PCs
<1> QED BY <1>2 DEF Restart

LEMMA RestartTypes ==
  ASSUME TypeInv, Restart
  PROVE  TypeInv'
<1>1. Types /\ RowsInv /\ \A s \in DOMAIN req : Fits(s)
  BY DEF TypeInv
<1>2. /\ position' \in Seq(Rows) /\ Positions' = Positions
      /\ \A p \in Positions : /\ position'[p].reserved <= position'[p].held
                              /\ position'[p].copy.held <= position'[p].held
  BY <1>1, RestartRows, RowType DEF Positions, NoCopy
<1>3. /\ request' \in Seq(Requests) /\ DOMAIN request' = DOMAIN request
      /\ \A k \in DOMAIN request : request'[k].on = request[k].on
  <2> DEFINE new(k) == [request[k] EXCEPT !.cached = "none"]
  <2>1. request' = [k \in DOMAIN request |-> new(k)]
    BY DEF Restart
  <2>2. ASSUME NEW k \in DOMAIN request
        PROVE  new(k) \in Requests /\ new(k).on = request[k].on
    <3>1. request[k] \in Requests
      BY <1>1 DEF Types
    <3> QED BY <3>1 DEF Requests
  <2> HIDE DEF new
  <2>3. request' = [k \in DOMAIN request |-> request'[k]] /\ \A k \in DOMAIN request : request'[k] \in Requests
    BY <2>1, <2>2
  <2>4. request \in Seq(Requests)
    BY <1>1 DEF Types
  <2> QED BY <2>1, <2>2, <2>3, <2>4, MapRows
<1>4. /\ DOMAIN req' = DOMAIN req /\ req' \in [DOMAIN req -> Visits]
      /\ \A s \in DOMAIN req :
           /\ req'[s].job = req[s].job /\ req'[s].next = req[s].next
           /\ req'[s].pc = (IF At(s, "new") THEN "new" ELSE "end")
  BY <1>1, RestartReq
<1>5. Types'
  <2>1. faults' \in 0..MaxFaults
    BY <1>1, LedgerAssumption DEF Restart, Fault, Types
  <2>2. queue' \in Seq(DOMAIN req')
    BY DEF Restart
  <2> QED BY <1>1, <1>2, <1>3, <1>4, <2>1, <2>2 DEF Restart, Types, history
<1>6. RowsInv'
  BY <1>1, <1>2, <1>3 DEF RowsInv
<1>7. \A s \in DOMAIN req : req'[s].pc \notin Selling /\ Fits(s)'
  BY <1>1, <1>4 DEF Fits, At, Job, Shopping, Allotting, Selling
<1> QED BY <1>4, <1>5, <1>6, <1>7 DEF TypeInv

LEMMA InitTypes ==
  ASSUME Init
  PROVE  TypeInv
<1>1. PICK opening \in Openings : asset = opening.asset /\ position = opening.position
                                  /\ slips = opening.slips
                                  /\ bought = [i \in Investors |->
                                       Count(position, {p \in Positions : position[p].investor = i})]
  BY DEF Init
<1>2. asset \in [status : {"active"}, invest : BOOLEAN, sold : 0..Shares]
      /\ position \in Seq(OpeningRows)
      /\ \A p \in DOMAIN position : position[p].copy.held = position[p].held \/ position[p].copy = NoCopy
  BY <1>1, OpeningsAssumption
<1>3. PICK script \in Scripts : req = [s \in DOMAIN script |-> Fresh(script[s])]
  BY DEF Init
<1>4. \A s \in DOMAIN script : script[s] \in Jobs /\ (script[s].op = "invest" => script[s].who \in Investors)
  BY <1>3, ScriptsAssumption
<1>5. asset \in [status : AssetStatus, invest : BOOLEAN, sold : 0..Shares]
  BY <1>2 DEF AssetStatus
<1>6. position \in Seq(Rows)
      /\ \A p \in Positions : position[p].reserved <= position[p].held
                              /\ position[p].copy.held <= position[p].held
  <2>1. \A r \in OpeningRows : r \in Rows /\ r.reserved = 0 /\ r.held \in Nat
    BY DEF OpeningRows, Rows, Copies, PositionStatus
  <2>2. \A p \in DOMAIN position : position[p] \in OpeningRows
    BY <1>2
  <2>3. DOMAIN position = 1..Len(position) /\ Len(position) \in Nat
        /\ position = [p \in DOMAIN position |-> position[p]]
    BY <1>2
  <2>4. position \in Seq(Rows)
    BY <2>1, <2>2, <2>3
  <2> QED BY <1>2, <2>1, <2>2, <2>4 DEF Positions, NoCopy
<1>7. bought \in [Investors -> Nat]
  BY <1>1, <1>6, CountType
<1>8. req \in [DOMAIN req -> Visits] /\ DOMAIN req = DOMAIN script
      /\ \A s \in DOMAIN req : req[s].job = script[s] /\ req[s].pc = "new" /\ req[s].next = 0
  <2>1. \A s \in DOMAIN script : Fresh(script[s]) \in Visits
    BY <1>4, LedgerAssumption DEF Fresh, Visits, PCs, NoSnapshot
  <2> QED BY <1>3, <2>1 DEF Fresh
<1>9. Types
  <2>1. /\ request = <<>> /\ orders = <<>> /\ queue = <<>> /\ checkout = FALSE
        /\ store = {} /\ keys = {} /\ faults = 0 /\ allotted = [k \in Keys |-> 0]
        /\ paidOut = [i \in Investors |-> 0] /\ settled = [i \in Investors |-> 0]
    BY DEF Init
  <2>2. request \in Seq(Requests) /\ orders \in Seq(Orders) /\ queue \in Seq(DOMAIN req)
    BY <2>1
  <2>3. /\ checkout \in BOOLEAN /\ store \subseteq Keys /\ keys \subseteq Keys
        /\ faults \in 0..MaxFaults
    <3>1. checkout \in BOOLEAN
      BY <2>1, Zenon
    <3>2. faults \in 0..MaxFaults
      BY <2>1, LedgerAssumption
    <3> QED BY <2>1, <3>1, <3>2
  <2>4. /\ settled \in [Investors -> Nat] /\ paidOut \in [Investors -> Nat]
        /\ allotted \in [Keys -> Nat]
    BY <2>1
  <2> QED BY <1>5, <1>6, <1>7, <1>8, <2>2, <2>3, <2>4 DEF Types
<1>10. RowsInv
  BY <1>6 DEF RowsInv, Init
<1>11. \A s \in DOMAIN req : Fits(s) /\ req[s].pc \notin Selling
  BY <1>4, <1>8 DEF Fits, At, Job, Shopping, Allotting, Selling
<1> QED BY <1>9, <1>10, <1>11 DEF TypeInv

LEMMA TypesStep ==
  ASSUME TypeInv, [Next]_vars
  PROVE  TypeInv'
<1>1. CASE UNCHANGED vars
  BY <1>1 DEF vars, TypeInv, Types, RowsInv, Fits, At, Job, Positions
<1>2. CASE Restart
  BY <1>2, RestartTypes
<1>3. ASSUME NEW s \in DOMAIN req, LedgerStep(s) PROVE TypeInv'
  BY <1>3, StartAllocationTypes, DuplicatePurchaseTypes, AllocatingTypes, RejectPurchaseTypes,
     FallbackTypes, QuoteRedemptionTypes, ReserveTypes, FindRequestTypes, CloseTypes,
     StartDelistingTypes, RefuseDelistingTypes, EndTypes, StartReleaseTypes, TransferTypes,
     DistributeTypes, PayInvestorTypes, AbandonBuyoutTypes
     DEF LedgerStep, Allocating
<1>4. ASSUME NEW s \in DOMAIN req, CheckoutStep(s) PROVE TypeInv'
  BY <1>4, EnterTypes, TurnAwayTypes, ReadAssetTypes, ClaimTypes, PayTypes, RefuseTypes,
     CreateOrderTypes, WriteSoldTypes, FinishTypes
     DEF CheckoutStep
<1>5. ASSUME NEW s \in DOMAIN req, LosePurchaseAnswer(s) \/ AllotUnwritten(s) \/ Throw(s)
      PROVE  TypeInv'
  BY <1>5, AllocatingTypes, AllotUnwrittenTypes, ThrowTypes DEF Allocating
<1> QED BY <1>1, <1>2, <1>3, <1>4, <1>5 DEF Next

-----------------------------------------------------------------------------
(***************************************************************************)
(* The course of a request: a step changes no other request, and what it   *)
(* does to the queue fits where the request goes.                          *)
(***************************************************************************)
Step(s) ==
  LedgerStep(s) \/ CheckoutStep(s) \/ LosePurchaseAnswer(s) \/ AllotUnwritten(s) \/ Throw(s)
Heads == {"fallback", "allot", "paying"}

Others(s) ==
  /\ DOMAIN req' = DOMAIN req
  /\ \A t \in DOMAIN req : t # s => req'[t] = req[t]
  /\ req'[s].job = req[s].job

Queueing(s) ==
  \/ /\ queue' = queue
     /\ req'[s].pc \in Locked <=> req[s].pc \in Locked
     /\ req'[s].pc \in Heads => Holds(s)
  \/ /\ queue' = Append(queue, s)
     /\ req[s].pc \notin Locked /\ req'[s].pc \in Locked \ Heads
  \/ /\ Holds(s) /\ queue' = Tail(queue)
     /\ req'[s].pc \notin Locked

LEMMA GoOn ==
  ASSUME Types, NEW s \in DOMAIN req, NEW pc \in PCs, Goto(s, pc)
  PROVE  /\ Others(s) /\ req'[s].pc = pc /\ req'[s].snap = req[s].snap
         /\ req'[s].next = req[s].next /\ req'[s].due = req[s].due
<1>1. req \in [DOMAIN req -> Visits]
  BY DEF Types
<1>2. \A t \in DOMAIN req : t # s => req'[t] = req[t]
  BY <1>1 DEF Goto
<1> QED BY <1>2, Moved DEF Others

LEMMA GoNoting ==
  ASSUME Types, NEW s \in DOMAIN req, NEW r, req' = [req EXCEPT ![s] = r], r.job = req[s].job
  PROVE  Others(s) /\ req'[s] = r
<1>1. req \in [DOMAIN req -> Visits]
  BY DEF Types
<1> QED BY <1>1 DEF Others

(* The steps that only go on, to where they go.                            *)
Goes(s, pc) ==
  \/ Enter(s) /\ pc = "read"
  \/ TurnAway(s) /\ pc = "end"
  \/ Pay(s) /\ pc = "order"
  \/ Refuse(s) /\ pc = "end"
  \/ Throw(s) /\ pc = "end"
  \/ WriteSold(s) /\ pc = "leave"
  \/ Finish(s) /\ pc = "end"
  \/ Claim(s) /\ pc \in {"pay", "end"}
  \/ CreateOrder(s) /\ pc \in {"allocate", "end"}
  \/ StartRelease(s) /\ pc \in {"transfer", "end"}

LEMMA GoesTo ==
  ASSUME NEW s, Enter(s) \/ TurnAway(s) \/ Pay(s) \/ Refuse(s) \/ Throw(s) \/ WriteSold(s)
                \/ Finish(s) \/ Claim(s) \/ CreateOrder(s) \/ StartRelease(s)
  PROVE  \E pc \in PCs \ Locked : Goes(s, pc) /\ Goto(s, pc) /\ queue' = queue /\ req[s].pc \notin Locked
<1> USE DEF Goes, PCs, Locked, Leave, At
<1>1. CASE Enter(s)
  BY <1>1 DEF Enter
<1>2. CASE TurnAway(s)
  BY <1>2 DEF TurnAway
<1>3. CASE Pay(s)
  BY <1>3 DEF Pay
<1>4. CASE Refuse(s)
  BY <1>4 DEF Refuse
<1>5. CASE Throw(s)
  BY <1>5 DEF Throw
<1>6. CASE WriteSold(s)
  BY <1>6 DEF WriteSold
<1>7. CASE Finish(s)
  BY <1>7 DEF Finish
<1>8. CASE Claim(s)
  BY <1>8 DEF Claim
<1>9. CASE CreateOrder(s)
  BY <1>9 DEF CreateOrder
<1>10. CASE StartRelease(s)
  BY <1>10 DEF StartRelease
<1> QED BY <1>1, <1>2, <1>3, <1>4, <1>5, <1>6, <1>7, <1>8, <1>9, <1>10

LEMMA Course ==
  ASSUME TypeInv, NEW s \in DOMAIN req, Step(s)
  PROVE  /\ Others(s) /\ Queueing(s)
         /\ ReadAsset(s) \/ req'[s].snap = req[s].snap
         /\ Fallback(s) \/ req[s].pc = "new" \/ req'[s].next = req[s].next
         /\ Distribute(s) \/ req[s].pc = "paying" \/ req'[s].due = req[s].due
<1>1. Types /\ req[s] \in Visits
  BY DEF TypeInv, Types
<1>2. CASE Enter(s) \/ TurnAway(s) \/ Pay(s) \/ Refuse(s) \/ Throw(s) \/ WriteSold(s)
           \/ Finish(s) \/ Claim(s) \/ CreateOrder(s) \/ StartRelease(s)
  <2>1. PICK pc \in PCs \ Locked : Goto(s, pc) /\ queue' = queue /\ req[s].pc \notin Locked
    BY <1>2, GoesTo
  <2> QED BY <1>1, <2>1, GoOn DEF Queueing, Heads, Locked
<1>3. CASE ReadAsset(s)
  <2>1. queue' = queue /\ req[s].pc = "read"
    BY <1>3 DEF ReadAsset, At
  <2>2. CASE Leave(s)
    BY <1>1, <1>3, <2>1, <2>2, GoOn DEF Leave, Queueing, Heads, Locked, PCs
  <2>3. CASE ~Leave(s)
    <3> DEFINE r == [req[s] EXCEPT !.pc = IF Job(s).op = "buy" THEN "claim" ELSE "pay",
                                   !.snap = asset]
    <3>1. req' = [req EXCEPT ![s] = r]
      BY <1>3, <2>3 DEF ReadAsset
    <3>2. r.job = req[s].job /\ r.pc \in {"claim", "pay"} /\ r.next = req[s].next /\ r.due = req[s].due
      BY <1>1 DEF Visits
    <3> HIDE DEF r
    <3>3. Others(s) /\ req'[s] = r
      BY <1>1, <3>1, <3>2, GoNoting
    <3> QED BY <1>3, <2>1, <3>2, <3>3 DEF Queueing, Heads, Locked
  <2> QED BY <2>2, <2>3
<1>4. CASE StartAllocation(s) \/ FindRequest(s) \/ StartDelisting(s) \/ Transfer(s)
  <2>1. PICK pc \in PCs : Goto(s, pc) /\ req[s].pc \notin Locked
          /\ \/ queue' = queue /\ pc \notin Locked
             \/ queue' = Append(queue, s) /\ pc \in Locked \ Heads
    <3> USE DEF PCs, Locked, Heads, At, Wait
    <3>1. CASE StartAllocation(s)
      BY <3>1 DEF StartAllocation
    <3>2. CASE FindRequest(s)
      BY <3>2 DEF FindRequest
    <3>3. CASE StartDelisting(s)
      BY <3>3 DEF StartDelisting
    <3>4. CASE Transfer(s)
      BY <3>4 DEF Transfer
    <3> QED BY <1>4, <3>1, <3>2, <3>3, <3>4
  <2> QED BY <1>1, <2>1, GoOn DEF Queueing, Heads, Locked
<1>5. CASE QuoteRedemption(s)
  <2>1. req[s].pc = "new"
    BY <1>5 DEF QuoteRedemption, At
  <2>2. CASE Redeemable(Job(s).on, Job(s).n)
    <3> DEFINE r == [req[s] EXCEPT !.pc = "reserve", !.next = position[Job(s).on].reserved]
    <3>1. req' = [req EXCEPT ![s] = r] /\ queue' = Append(queue, s)
      BY <1>5, <2>2 DEF QuoteRedemption
    <3>2. r.job = req[s].job /\ r.pc = "reserve" /\ r.snap = req[s].snap /\ r.due = req[s].due
      BY <1>1 DEF Visits
    <3> HIDE DEF r
    <3>3. Others(s) /\ req'[s] = r
      BY <1>1, <3>1, <3>2, GoNoting
    <3> QED BY <2>1, <3>1, <3>2, <3>3 DEF Queueing, Heads, Locked
  <2>3. CASE ~Redeemable(Job(s).on, Job(s).n)
    <3>1. Goto(s, "end") /\ queue' = queue
      BY <1>5, <2>3 DEF QuoteRedemption
    <3> QED BY <1>1, <2>1, <3>1, GoOn DEF Queueing, Heads, Locked, PCs
  <2> QED BY <2>2, <2>3
<1>6. CASE \/ DuplicatePurchase(s) \/ Purchase(s) \/ Allot(s) \/ AllotUnwritten(s)
           \/ Reserve(s) \/ ReserveAnyway(s)
           \/ CancelRedemption(s) \/ SettleRedemption(s) \/ RefuseDelisting(s) \/ Delist(s)
           \/ AbandonBuyout(s) \/ CompleteBuyout(s)
  <2>1. PICK pc \in {"holding", "end"} : Goto(s, pc) /\ Holds(s) /\ Release
    BY <1>6 DEF DuplicatePurchase, Purchase, Allot, AllotUnwritten, Allotted, Reserve,
                ReserveAnyway, CancelRedemption, SettleRedemption, RefuseDelisting, Delist,
                AbandonBuyout, CompleteBuyout
  <2> QED BY <1>1, <2>1, GoOn DEF Release, Queueing, Locked, PCs
<1>7. CASE RejectPurchase(s) \/ LosePurchaseAnswer(s)
  <2>1. Goto(s, "fallback") /\ queue' = queue /\ Holds(s) /\ req[s].pc = "purchase"
    BY <1>7 DEF RejectPurchase, LosePurchaseAnswer, At
  <2> QED BY <1>1, <2>1, GoOn DEF Queueing, Heads, Locked, PCs
<1>8. CASE Fallback(s)
  <2>1. Holds(s) /\ req[s].pc = "fallback"
    BY <1>8 DEF Fallback, At
  <2>2. CASE MayFallBack(Job(s))
    <3> DEFINE r == [req[s] EXCEPT !.pc = "allot", !.next = Sold(asset) + Job(s).n]
    <3>1. req' = [req EXCEPT ![s] = r] /\ queue' = queue
      BY <1>8, <2>2 DEF Fallback
    <3>2. r.job = req[s].job /\ r.pc = "allot" /\ r.snap = req[s].snap /\ r.due = req[s].due
      BY <1>1 DEF Visits
    <3> HIDE DEF r
    <3>3. Others(s) /\ req'[s] = r
      BY <1>1, <3>1, <3>2, GoNoting
    <3> QED BY <1>8, <2>1, <3>1, <3>2, <3>3 DEF Queueing, Heads, Locked
  <2>3. CASE ~MayFallBack(Job(s))
    <3>1. Goto(s, "leave") /\ Release
      BY <1>8, <2>3 DEF Fallback, GiveUp
    <3> QED BY <1>1, <1>8, <2>1, <3>1, GoOn DEF Release, Queueing, Heads, Locked, PCs
  <2> QED BY <2>2, <2>3
<1>9. CASE Distribute(s)
  <2> DEFINE r == [req[s] EXCEPT !.pc = "paying", !.due = Shareholders]
  <2>1. req' = [req EXCEPT ![s] = r] /\ queue' = queue /\ Holds(s) /\ req[s].pc = "distribute"
    BY <1>9 DEF Distribute, At
  <2>2. r.job = req[s].job /\ r.pc = "paying" /\ r.snap = req[s].snap /\ r.next = req[s].next
    BY <1>1 DEF Visits
  <2> HIDE DEF r
  <2>3. Others(s) /\ req'[s] = r
    BY <1>1, <2>1, <2>2, GoNoting
  <2> QED BY <1>9, <2>1, <2>2, <2>3 DEF Queueing, Heads, Locked
<1>10. ASSUME NEW i \in Investors, PayInvestor(s, i)
       PROVE  /\ Others(s) /\ Queueing(s) /\ req'[s].snap = req[s].snap
              /\ req'[s].next = req[s].next /\ req[s].pc = "paying"
  <2> DEFINE r == [req[s] EXCEPT !.due = req[s].due \ {i}]
  <2>1. req' = [req EXCEPT ![s] = r] /\ queue' = queue /\ Holds(s) /\ req[s].pc = "paying"
    BY <1>10 DEF PayInvestor, At
  <2>2. r.job = req[s].job /\ r.pc = req[s].pc /\ r.snap = req[s].snap /\ r.next = req[s].next
    BY <1>1 DEF Visits
  <2> HIDE DEF r
  <2>3. Others(s) /\ req'[s] = r
    BY <1>1, <2>1, <2>2, GoNoting
  <2> QED BY <2>1, <2>2, <2>3 DEF Queueing, Heads, Locked
<1> QED BY <1>2, <1>3, <1>4, <1>5, <1>6, <1>7, <1>8, <1>9, <1>10 DEF Step, LedgerStep, CheckoutStep

(* The queue of the asset's lock.                                          *)
LEMMA QueueInvStep ==
  ASSUME TypeInv, QueueInv, NEW s \in DOMAIN req, Others(s), Queueing(s)
  PROVE  QueueInv'
<1>1. queue \in Seq(DOMAIN req) /\ req'[s].job = req[s].job
  BY DEF TypeInv, Types, Others
<1> USE DEF QueueInv, QueueServed, Others, Queueing, Heads, Locked, Holds
<1>2. CASE queue' = queue
  BY <1>1, <1>2
<1>3. CASE queue' = Append(queue, s) /\ req[s].pc \notin Locked /\ req'[s].pc \in Locked \ Heads
  <2>1. /\ DOMAIN queue' = DOMAIN queue \cup {Len(queue) + 1} /\ Len(queue) + 1 \notin DOMAIN queue
        /\ queue'[Len(queue) + 1] = s /\ \A i \in DOMAIN queue : queue'[i] = queue[i]
        /\ (queue # <<>> => Head(queue') = Head(queue) /\ queue' # <<>>)
        /\ (queue = <<>> => DOMAIN queue = {})
    BY <1>1, <1>3
  <2>2. \A i \in DOMAIN queue : queue[i] # s
    BY <1>3
  <2>3. QueueServed'
    BY <1>3, <2>1, <2>2
  <2>4. \A t \in DOMAIN req : req'[t].pc \in Heads => Holds(t)'
    BY <1>3, <2>1
  <2> QED BY <2>3, <2>4
<1>4. CASE Holds(s) /\ queue' = Tail(queue) /\ req'[s].pc \notin Locked
  <2>1. /\ Len(queue) \in Nat /\ DOMAIN queue = 1..Len(queue) /\ queue[1] = s /\ 1 \in DOMAIN queue
        /\ DOMAIN queue' = 1..(Len(queue) - 1)
        /\ \A i \in DOMAIN queue' : queue'[i] = queue[i + 1] /\ i + 1 \in DOMAIN queue
        /\ \A i \in DOMAIN queue : i # 1 => i - 1 \in DOMAIN queue' /\ queue'[i - 1] = queue[i]
    BY <1>1, <1>4
  <2>0. \A i, j \in DOMAIN queue : queue[i] = queue[j] => i = j
    OBVIOUS
  <2>2. ASSUME NEW i \in DOMAIN queue' PROVE queue'[i] # s
    <3> HIDE DEF QueueInv, QueueServed, Others, Holds
    <3>1. i \in 1..(Len(queue) - 1) /\ i + 1 \in DOMAIN queue /\ queue'[i] = queue[i + 1]
      BY <2>1
    <3>2. i + 1 # 1
      <4>1. \A l \in Nat : \A x \in 1..(l - 1) : x + 1 # 1
        OBVIOUS
      <4> QED BY <2>1, <3>1, <4>1, Zenon
    <3>3. queue[i + 1] # queue[1]
      BY <2>0, <2>1, <3>1, <3>2
    <3> QED BY <2>1, <3>1, <3>3
  <2>3. \A t \in DOMAIN req : t # s =>
          ((\E i \in DOMAIN queue' : queue'[i] = t) <=> \E i \in DOMAIN queue : queue[i] = t)
    <3> HIDE DEF QueueInv, QueueServed
    <3>1. \A i \in DOMAIN queue' : \E j \in DOMAIN queue : queue'[i] = queue[j]
      BY <2>1
    <3>2. \A i \in DOMAIN queue : queue[i] # s => \E j \in DOMAIN queue' : queue'[j] = queue[i]
      BY <2>1
    <3> QED BY <3>1, <3>2
  <2>4. ASSUME NEW i \in DOMAIN queue', NEW j \in DOMAIN queue', queue'[i] = queue'[j] PROVE i = j
    <3> HIDE DEF QueueInv, QueueServed, Others, Holds
    <3>1. i \in 1..(Len(queue) - 1) /\ i + 1 \in DOMAIN queue /\ queue'[i] = queue[i + 1]
      BY <2>1
    <3>2. j \in 1..(Len(queue) - 1) /\ j + 1 \in DOMAIN queue /\ queue'[j] = queue[j + 1]
      BY <2>1
    <3>3. queue[i + 1] = queue[j + 1]
      BY <2>4, <3>1, <3>2
    <3>4. i + 1 = j + 1
      BY <2>0, <3>1, <3>2, <3>3
    <3>5. \A l \in Nat : \A x, y \in 1..(l - 1) : x + 1 = y + 1 => x = y
      OBVIOUS
    <3> QED BY <2>1, <3>1, <3>2, <3>4, <3>5, Zenon
  <2>5. \A t \in DOMAIN req : t # s => req'[t].pc \notin Heads
    BY <1>4
  <2> QED BY <1>4, <2>2, <2>3, <2>4, <2>5
<1> QED BY <1>2, <1>3, <1>4

LEMMA RestartServes ==
  ASSUME TypeInv, Restart
  PROVE  QueueInv'
<1>1. /\ DOMAIN req' = DOMAIN req
      /\ \A s \in DOMAIN req : req'[s].pc \in {"new", "end"}
  BY RestartReq DEF TypeInv
<1>2. queue' = <<>>
  BY DEF Restart
<1> QED BY <1>1, <1>2 DEF QueueInv, QueueServed, Locked

-----------------------------------------------------------------------------
(***************************************************************************)
(* What a step does to the numbers of shares.                              *)
(***************************************************************************)
Kept == \* rows that keep their investors and shares
  /\ position' \in Seq(Rows) /\ DOMAIN position' = Positions
  /\ \A p \in Positions : position'[p].investor = position[p].investor
                          /\ position'[p].held = position[p].held

LEMMA KeptCounts ==
  ASSUME Types, Kept
  PROVE  All' = All /\ \A i \in Investors : Bought(i)' = Bought(i)
<1>1. position \in Seq(Rows) /\ position' \in Seq(Rows) /\ DOMAIN position' = DOMAIN position
      /\ \A p \in DOMAIN position : position'[p].investor = position[p].investor
                                    /\ position'[p].held = position[p].held
  BY DEF Types, Kept, Positions
<1>2. Count(position', DOMAIN position') = Count(position, DOMAIN position)
  BY <1>1, CountSame
<1>3. ASSUME NEW i \in Investors
      PROVE  Count(position', {p \in DOMAIN position' : position'[p].investor = i})
               = Count(position, {p \in DOMAIN position : position[p].investor = i})
  BY <1>1, CountSame
<1> QED BY <1>2, <1>3 DEF All, Bought, Positions

LEMMA ReducedCounts ==
  ASSUME Types, NEW p \in Positions, Reduced(p)
  PROVE  All' <= All /\ \A i \in Investors : Bought(i)' <= Bought(i)
<1>1. position \in Seq(Rows) /\ position' \in Seq(Rows) /\ DOMAIN position' = DOMAIN position
      /\ \A q \in DOMAIN position : position'[q].investor = position[q].investor
                                    /\ position'[q].held <= position[q].held
  <2>1. position \in Seq(Rows) /\ position' \in Seq(Rows) /\ DOMAIN position' = DOMAIN position
    BY DEF Types, Reduced, Positions
  <2>2. ASSUME NEW q \in DOMAIN position
        PROVE  position'[q].investor = position[q].investor /\ position'[q].held <= position[q].held
    <3>1. CASE q = p
      BY <3>1 DEF Reduced, Lessened
    <3>2. CASE q # p
      <4>1. position'[q] = position[q]
        BY <2>2, <3>2 DEF Reduced, Positions
      <4>2. position[q].held \in Nat
        BY <2>1, <2>2, RowsAre
      <4> QED BY <4>1, <4>2
    <3> QED BY <3>1, <3>2
  <2> QED BY <2>1, <2>2
<1>2. Count(position', DOMAIN position') <= Count(position, DOMAIN position)
  BY <1>1, CountLeq
<1>3. ASSUME NEW i \in Investors
      PROVE  Count(position', {q \in DOMAIN position' : position'[q].investor = i})
               <= Count(position, {q \in DOMAIN position : position[q].investor = i})
  BY <1>1, CountLeq
<1> QED BY <1>2, <1>3 DEF All, Bought, Positions

Grown(job) ==
  \/ Appended(job)
  \/ position' \in Seq(Rows) /\ \E p \in Positions : Enlarged(job, p)

LEMMA GrownCounts ==
  ASSUME Types, NEW job \in Jobs, job.who \in Investors, Grown(job)
  PROVE  /\ All' = All + job.n
         /\ \A i \in Investors : Bought(i)' = Bought(i) + IF i = job.who THEN job.n ELSE 0
<1>1. position \in Seq(Rows) /\ job.n \in Nat
  BY DEF Types, Jobs
<1> DEFINE Of(i) == {p \in DOMAIN position : position[p].investor = i}
<1>2. Count(position, DOMAIN position) \in Nat /\ \A i \in Investors : Count(position, Of(i)) \in Nat
  BY <1>1, CountType
<1>3. CASE Appended(job)
  <2>1. PICK copy \in {NoCopy, CopyOf(job)} : position' = Append(position, NewPosition(job, copy))
    BY <1>3 DEF Appended
  <2> DEFINE row == NewPosition(job, copy)
             y == Len(position) + 1
  <2>2. row \in Rows /\ row.investor = job.who /\ row.held = job.n
    BY NewPositionType
  <2> HIDE DEF row
  <2>3. /\ DOMAIN position' = DOMAIN position \cup {y} /\ y \notin DOMAIN position
        /\ position'[y] = row /\ \A q \in DOMAIN position : position'[q] = position[q]
    BY <1>1, <2>1, <2>2, AppendRow DEF row
  <2> HIDE DEF y
  <2>4. Count(position', DOMAIN position') = Count(position, DOMAIN position) + job.n
    BY <1>1, <2>1, <2>2, <2>3, CountAppend DEF row, y
  <2>5. ASSUME NEW i \in Investors
        PROVE  Count(position', {q \in DOMAIN position' : position'[q].investor = i})
                 = Count(position, Of(i)) + IF i = job.who THEN job.n ELSE 0
    <3> DEFINE P2 == {q \in DOMAIN position' : position'[q].investor = i}
    <3>1. (\A q \in DOMAIN position : q \in Of(i) <=> q \in P2) /\ (y \in P2 <=> i = job.who)
      BY <2>2, <2>3
    <3> HIDE DEF P2, Of
    <3>2. Count(Append(position, row), P2)
            = Count(position, Of(i)) + (IF Len(position) + 1 \in P2 THEN row.held ELSE 0)
      BY <1>1, <2>2, <3>1, CountAppend
    <3>3. Count(position', P2) = Count(position, Of(i)) + IF i = job.who THEN job.n ELSE 0
      BY <2>1, <2>2, <3>1, <3>2 DEF row, y
    <3> QED BY <3>3 DEF P2
  <2> QED BY <2>4, <2>5 DEF All, Bought, Positions
<1>4. CASE position' \in Seq(Rows) /\ \E p \in Positions : Enlarged(job, p)
  <2>1. PICK p \in Positions : Enlarged(job, p)
    BY <1>4
  <2>2. /\ DOMAIN position' = DOMAIN position /\ p \in DOMAIN position
        /\ position[p].investor = job.who /\ position'[p].investor = job.who
        /\ position'[p].held = position[p].held + job.n /\ position[p].held \in Nat
        /\ \A q \in DOMAIN position : q # p => position'[q] = position[q]
    BY <1>1, <2>1, RowsAre DEF Enlarged, Merged, Positions
  <2>3. Count(position', DOMAIN position')
          = Count(position, DOMAIN position) - position[p].held + position'[p].held
    <3>1. \A q \in DOMAIN position : q # p =>
            position[q].held = position'[q].held /\ (q \in DOMAIN position <=> q \in DOMAIN position')
      BY <2>2
    <3>2. Count(position', DOMAIN position')
            = Count(position, DOMAIN position) - (IF p \in DOMAIN position THEN position[p].held ELSE 0)
                + (IF p \in DOMAIN position' THEN position'[p].held ELSE 0)
      BY <1>1, <1>4, <2>2, <3>1, CountPut
    <3> QED BY <2>2, <3>2
  <2>4. ASSUME NEW i \in Investors
        PROVE  Count(position', {q \in DOMAIN position' : position'[q].investor = i})
                 = Count(position, Of(i)) + IF i = job.who THEN job.n ELSE 0
    <3> DEFINE P2 == {q \in DOMAIN position' : position'[q].investor = i}
    <3>1. /\ \A q \in DOMAIN position : q # p => position[q].held = position'[q].held
                                                 /\ (q \in Of(i) <=> q \in P2)
          /\ (p \in Of(i) <=> i = job.who) /\ (p \in P2 <=> i = job.who)
      BY <2>2
    <3> HIDE DEF P2, Of
    <3>2. Count(position', P2)
            = Count(position, Of(i)) - (IF p \in Of(i) THEN position[p].held ELSE 0)
                + (IF p \in P2 THEN position'[p].held ELSE 0)
      BY <1>1, <1>4, <2>2, <3>1, CountPut
    <3>3. Count(position', P2) = Count(position, Of(i)) + IF i = job.who THEN job.n ELSE 0
      BY <1>1, <1>2, <2>2, <3>1, <3>2
    <3> QED BY <3>3 DEF P2
  <2>5. Count(position', DOMAIN position') = Count(position, DOMAIN position) + job.n
    BY <1>1, <1>2, <2>2, <2>3
  <2> QED BY <2>4, <2>5 DEF All, Bought, Positions
<1> QED BY <1>3, <1>4 DEF Grown

LEMMA RowsMove ==
  ASSUME TypeInv, NEW s \in DOMAIN req, Step(s)
  PROVE  \/ UNCHANGED <<position, bought, settled, allotted>>
         \/ Allocating(s)
         \/ AllotUnwritten(s) /\ UNCHANGED <<position, settled>>
         \/ Holds(s) /\ (Reserve(s) \/ ReserveAnyway(s) \/ CancelRedemption(s) \/ SettleRedemption(s))
         \/ Holds(s) /\ (Delist(s) \/ CompleteBuyout(s))
<1> USE DEF ledger, history
<1>1. CASE CheckoutStep(s) \/ Throw(s)
  BY <1>1 DEF CheckoutStep, Throw, Enter, TurnAway, ReadAsset, Claim, Pay, Refuse, CreateOrder,
              WriteSold, Finish
<1>2. CASE \/ StartAllocation(s) \/ DuplicatePurchase(s) \/ RejectPurchase(s) \/ Fallback(s)
           \/ QuoteRedemption(s) \/ FindRequest(s) \/ StartDelisting(s) \/ RefuseDelisting(s)
           \/ StartRelease(s) \/ Transfer(s) \/ Distribute(s)
           \/ (\E i \in Investors : PayInvestor(s, i)) \/ AbandonBuyout(s)
  BY <1>2 DEF StartAllocation, DuplicatePurchase, RejectPurchase, Fallback, QuoteRedemption,
              FindRequest, StartDelisting, RefuseDelisting, StartRelease, Transfer, Distribute,
              PayInvestor, AbandonBuyout
<1>3. CASE \/ Reserve(s) \/ ReserveAnyway(s) \/ CancelRedemption(s) \/ SettleRedemption(s)
           \/ Delist(s) \/ CompleteBuyout(s)
  BY <1>3 DEF Reserve, ReserveAnyway, CancelRedemption, SettleRedemption, Delist, CompleteBuyout
<1>4. CASE AllotUnwritten(s)
  BY <1>4 DEF AllotUnwritten, Allotted
<1> QED BY <1>1, <1>2, <1>3, <1>4 DEF Step, LedgerStep, Allocating

LEMMA CountsStep ==
  ASSUME TypeInv, NEW s \in DOMAIN req, Step(s), ~Allocating(s)
  PROVE  All' <= All /\ \A i \in Investors : Bought(i)' <= Bought(i)
<1>1. Types /\ RowsInv /\ position \in Seq(Rows)
  BY DEF TypeInv, Types
<1>2. All \in Nat /\ \A i \in Investors : Bought(i) \in Nat
  BY <1>1, CountType DEF All, Bought
<1>3. CASE position' = position
  BY <1>2, <1>3 DEF All, Bought, Positions
<1>4. CASE Reserve(s) \/ ReserveAnyway(s) \/ CancelRedemption(s) \/ SettleRedemption(s)
  <2>1. PICK p \in Positions : Reduced(p)
    BY <1>4, ReserveRow, ReserveAnywayRow, CancelRow, SettleRow
  <2> QED BY <1>1, <2>1, ReducedCounts
<1>5. CASE Delist(s) \/ CompleteBuyout(s)
  <2>1. PICK status \in Retired : RetireAll(status)
    BY <1>5 DEF Delist, CompleteBuyout, Retired
  <2>2. Kept
    BY <1>1, <2>1, RetiredRows DEF Kept
  <2> QED BY <1>1, <1>2, <2>2, KeptCounts
<1> QED BY <1>3, <1>4, <1>5, RowsMove

LEMMA AllocatingCounts ==
  ASSUME TypeInv, NEW s \in DOMAIN req, Allocating(s)
  PROVE  /\ Job(s).who \in Investors /\ Job(s).n \in Nat /\ Job(s).key \in Keys /\ Holds(s)
         /\ Job(s).op = "invest"
         /\ All' = All + Job(s).n
         /\ \A i \in Investors : Bought(i)' = Bought(i) + IF i = Job(s).who THEN Job(s).n ELSE 0
<1>1. /\ Job(s) \in Jobs /\ Job(s).who \in Investors /\ Job(s).n \in Nat /\ Grown(Job(s))
      /\ Job(s).key \in Keys /\ Job(s).op = "invest"
  BY AllocatingRows DEF Grown
<1>2. Types
  BY DEF TypeInv
<1>3. Holds(s)
  BY DEF Allocating, Purchase, LosePurchaseAnswer, Allot, Allotted
<1> DEFINE job == Job(s)
<1>4. job \in Jobs /\ job.who \in Investors /\ Grown(job)
  BY <1>1
<1> HIDE DEF job
<1>5. /\ All' = All + job.n
      /\ \A i \in Investors : Bought(i)' = Bought(i) + IF i = job.who THEN job.n ELSE 0
  BY <1>2, <1>4, GrownCounts
<1> QED BY <1>1, <1>3, <1>5 DEF job

(* What is held is what was bought and is still there.                     *)
LEMMA HeldBought ==
  ASSUME Types, NEW i \in Investors
  PROVE  /\ Held(i) \in Nat /\ Bought(i) \in Nat /\ Held(i) <= Bought(i)
         /\ Ledger \in Nat /\ All \in Nat /\ Ledger <= All
         /\ ((\A p \in Positions : position[p].status = "active" \/ position[p].held = 0) =>
               Held(i) = Bought(i) /\ Ledger = All)
<1>1. position \in Seq(Rows) /\ \A p \in Positions : position[p].held \in Nat
  BY RowsAre DEF Types, Positions
<1> DEFINE A == {p \in Active : position[p].investor = i}
           B == {p \in Positions : position[p].investor = i}
<1>2. Count(position, A) \in Nat /\ Count(position, B) \in Nat
      /\ Count(position, Active) \in Nat /\ Count(position, Positions) \in Nat
  BY <1>1, CountType
<1>3. Count(position, A) <= Count(position, B)
  BY <1>1, CountLeq DEF Active, Positions
<1>4. Count(position, Active) <= Count(position, Positions)
  BY <1>1, CountLeq DEF Active, Positions
<1>5. ASSUME \A p \in Positions : position[p].status = "active" \/ position[p].held = 0
      PROVE  Count(position, A) = Count(position, B) /\ Count(position, Active) = Count(position, Positions)
  <2>1. \A p \in DOMAIN position : position[p].held = position[p].held
          /\ (position[p].held > 0 => (p \in A <=> p \in B) /\ (p \in Active <=> p \in Positions))
    BY <1>1, <1>5 DEF Active, Positions
  <2> HIDE DEF A, B
  <2> QED BY <1>1, <2>1, CountSame
<1> QED BY <1>2, <1>3, <1>4, <1>5 DEF Held, Bought, Ledger, All

LEMMA CapType ==
  Cap \in Nat
BY LedgerAssumption DEF Cap

(* Who is alone with the lock stays so.                                    *)
LEMMA AloneWithLock ==
  ASSUME QueueInv, NEW s \in DOMAIN req, NEW t \in DOMAIN req, Holds(s),
         req[t].pc \in {"fallback", "allot", "paying"}
  PROVE  s = t
BY DEF QueueInv, Holds

(* By which step a request gets where.                                     *)
LEMMA Ways ==
  ASSUME TypeInv, NEW s \in DOMAIN req, Step(s)
  PROVE  /\ req'[s].pc \notin {"new", "cancelled"}
         /\ req'[s].pc = "read" => Enter(s)
         /\ req'[s].pc = "claim" => ReadAsset(s) /\ ~Leave(s) /\ Job(s).op = "buy"
         /\ req'[s].pc = "pay" => (Claim(s) /\ Claimable) \/ (ReadAsset(s) /\ ~Leave(s) /\ Job(s).op # "buy")
         /\ req'[s].pc = "order" => Pay(s)
         /\ req'[s].pc = "allocate" => CreateOrder(s) /\ Job(s).op = "invest" /\ Job(s).rail = "wallet"
         /\ req'[s].pc = "purchase" => StartAllocation(s)
         /\ req'[s].pc = "fallback" => RejectPurchase(s) \/ LosePurchaseAnswer(s)
         /\ req'[s].pc = "allot" =>
              Fallback(s) /\ MayFallBack(Job(s)) /\ req'[s].next = Sold(asset) + Job(s).n
         /\ req'[s].pc = "holding" =>
              \/ Purchase(s) \/ Allot(s) \/ AllotUnwritten(s) \/ DuplicatePurchase(s)
              \/ StartAllocation(s) /\ Job(s).key \in store
         /\ req'[s].pc = "leave" => WriteSold(s) \/ (Fallback(s) /\ ~MayFallBack(Job(s)))
         /\ req'[s].pc = "transfer" => StartRelease(s)
         /\ req'[s].pc = "distribute" => Transfer(s)
         /\ req'[s].pc = "paying" => \/ Distribute(s) /\ req'[s].due = Shareholders
                                     \/ \E i \in req[s].due : PayInvestor(s, i) /\ req'[s].due = req[s].due \ {i}
<1>1. Types /\ req[s] \in Visits
  BY DEF TypeInv, Types
<1>2. CASE Enter(s) \/ TurnAway(s) \/ Pay(s) \/ Refuse(s) \/ Throw(s) \/ WriteSold(s)
           \/ Finish(s) \/ StartRelease(s)
  <2>1. PICK pc \in PCs \ Locked : Goes(s, pc) /\ Goto(s, pc)
    BY <1>2, GoesTo
  <2>2. req'[s].pc = pc /\ pc \notin {"new", "cancelled"}
    BY <1>1, <2>1, GoOn DEF Goes
  <2>3. \/ pc = "end" \/ (pc = "read" /\ Enter(s)) \/ (pc = "order" /\ Pay(s))
        \/ (pc = "leave" /\ WriteSold(s)) \/ (pc = "transfer" /\ StartRelease(s))
    <3>1. CASE Claim(s) \/ CreateOrder(s)
      BY <1>2, <3>1 DEF Claim, CreateOrder, Enter, TurnAway, Pay, Refuse, Throw, WriteSold, Finish,
                        StartRelease, At
    <3> QED BY <2>1, <3>1 DEF Goes
  <2> QED BY <2>2, <2>3
<1>3. CASE Claim(s)
  <2>1. \/ Claimable /\ Goto(s, "pay")
        \/ Goto(s, "end")
    BY <1>3 DEF Claim, Leave
  <2> QED BY <1>1, <1>3, <2>1, GoOn DEF PCs
<1>4. CASE CreateOrder(s)
  <2>1. \/ Job(s).op = "invest" /\ Job(s).rail = "wallet" /\ Goto(s, "allocate")
        \/ Goto(s, "end")
    BY <1>4 DEF CreateOrder, Leave
  <2> QED BY <1>1, <1>4, <2>1, GoOn DEF PCs
<1>5. CASE ReadAsset(s)
  <2>1. CASE Leave(s)
    BY <1>1, <2>1, GoOn DEF Leave, PCs
  <2>2. CASE ~Leave(s)
    <3> DEFINE pc == IF Job(s).op = "buy" THEN "claim" ELSE "pay"
               r == [req[s] EXCEPT !.pc = pc, !.snap = asset]
    <3>1. req' = [req EXCEPT ![s] = r]
      BY <1>5, <2>2 DEF ReadAsset
    <3>2. r.job = req[s].job /\ r.pc = pc
      BY <1>1 DEF Visits
    <3> HIDE DEF r
    <3>3. req'[s].pc = pc
      BY <1>1, <3>1, <3>2, GoNoting
    <3> QED BY <1>5, <2>2, <3>3
  <2> QED BY <2>1, <2>2
<1>6. CASE StartAllocation(s)
  <2>1. \/ Job(s).key \in store /\ Goto(s, "holding")
        \/ Goto(s, "purchase")
    BY <1>6 DEF StartAllocation, Wait
  <2> QED BY <1>1, <1>6, <2>1, GoOn DEF PCs
<1>7. CASE FindRequest(s) \/ StartDelisting(s) \/ Transfer(s)
  <2>1. PICK pc \in {"cancel", "settle", "end", "delist", "distribute"} :
          Goto(s, pc) /\ (pc = "distribute" => Transfer(s))
    BY <1>7 DEF FindRequest, StartDelisting, Transfer, Wait
  <2> QED BY <1>1, <2>1, GoOn DEF PCs
<1>8. CASE QuoteRedemption(s)
  <2>1. CASE Redeemable(Job(s).on, Job(s).n)
    <3> DEFINE r == [req[s] EXCEPT !.pc = "reserve", !.next = position[Job(s).on].reserved]
    <3>1. req' = [req EXCEPT ![s] = r]
      BY <1>8, <2>1 DEF QuoteRedemption
    <3>2. r.job = req[s].job /\ r.pc = "reserve"
      BY <1>1 DEF Visits
    <3> HIDE DEF r
    <3>3. req'[s] = r
      BY <1>1, <3>1, <3>2, GoNoting
    <3> QED BY <3>2, <3>3
  <2>2. CASE ~Redeemable(Job(s).on, Job(s).n)
    <3>1. Goto(s, "end")
      BY <1>8, <2>2 DEF QuoteRedemption
    <3> QED BY <1>1, <3>1, GoOn DEF PCs
  <2> QED BY <2>1, <2>2
<1>9. CASE \/ Reserve(s) \/ ReserveAnyway(s)
           \/ CancelRedemption(s) \/ SettleRedemption(s) \/ RefuseDelisting(s) \/ Delist(s)
           \/ AbandonBuyout(s) \/ CompleteBuyout(s)
  <2>1. Goto(s, "end")
    BY <1>9 DEF Reserve, ReserveAnyway, CancelRedemption, SettleRedemption, RefuseDelisting,
                Delist, AbandonBuyout, CompleteBuyout
  <2> QED BY <1>1, <2>1, GoOn DEF PCs
<1>10. CASE DuplicatePurchase(s) \/ Purchase(s) \/ Allot(s) \/ AllotUnwritten(s)
  <2>1. Goto(s, "holding")
    BY <1>10 DEF DuplicatePurchase, Purchase, Allot, AllotUnwritten, Allotted
  <2> QED BY <1>1, <1>10, <2>1, GoOn DEF PCs
<1>11. CASE RejectPurchase(s) \/ LosePurchaseAnswer(s)
  <2>1. Goto(s, "fallback")
    BY <1>11 DEF RejectPurchase, LosePurchaseAnswer
  <2> QED BY <1>1, <1>11, <2>1, GoOn DEF PCs
<1>12. CASE Fallback(s)
  <2>1. CASE MayFallBack(Job(s))
    <3> DEFINE r == [req[s] EXCEPT !.pc = "allot", !.next = Sold(asset) + Job(s).n]
    <3>1. req' = [req EXCEPT ![s] = r]
      BY <1>12, <2>1 DEF Fallback
    <3>2. r.job = req[s].job /\ r.pc = "allot" /\ r.next = Sold(asset) + Job(s).n
      BY <1>1 DEF Visits
    <3> HIDE DEF r
    <3>3. req'[s] = r
      BY <1>1, <3>1, <3>2, GoNoting
    <3> QED BY <1>12, <2>1, <3>2, <3>3
  <2>2. CASE ~MayFallBack(Job(s))
    <3>1. Goto(s, "leave")
      BY <1>12, <2>2 DEF Fallback, GiveUp
    <3> QED BY <1>1, <1>12, <2>2, <3>1, GoOn DEF PCs
  <2> QED BY <2>1, <2>2
<1>13. CASE Distribute(s)
  <2> DEFINE r == [req[s] EXCEPT !.pc = "paying", !.due = Shareholders]
  <2>1. req' = [req EXCEPT ![s] = r]
    BY <1>13 DEF Distribute
  <2>2. r.job = req[s].job /\ r.pc = "paying" /\ r.due = Shareholders
    BY <1>1 DEF Visits
  <2> HIDE DEF r
  <2>3. req'[s] = r
    BY <1>1, <2>1, <2>2, GoNoting
  <2> QED BY <1>13, <2>2, <2>3
<1>14. ASSUME NEW i \in Investors, PayInvestor(s, i)
       PROVE  req'[s].pc = "paying" /\ i \in req[s].due /\ req'[s].due = req[s].due \ {i}
  <2> DEFINE r == [req[s] EXCEPT !.due = req[s].due \ {i}]
  <2>1. req' = [req EXCEPT ![s] = r] /\ req[s].pc = "paying" /\ i \in req[s].due
    BY <1>14 DEF PayInvestor, At
  <2>2. r.job = req[s].job /\ r.pc = req[s].pc /\ r.due = req[s].due \ {i}
    BY <1>1 DEF Visits
  <2> HIDE DEF r
  <2>3. req'[s] = r
    BY <1>1, <2>1, <2>2, GoNoting
  <2> QED BY <2>1, <2>2, <2>3
<1>15. CASE \E i \in Investors : PayInvestor(s, i)
  BY <1>14, <1>15
<1> QED BY <1>2, <1>3, <1>4, <1>5, <1>6, <1>7, <1>8, <1>9, <1>10, <1>11, <1>12, <1>13, <1>15
        DEF Step, LedgerStep, CheckoutStep

(* What a step writes to the asset's row.                                  *)
LEMMA AssetMoves ==
  ASSUME TypeInv, NEW s \in DOMAIN req, Step(s)
  PROVE  /\ asset'.invest => asset.invest
         /\ \/ asset'.status = asset.status
            \/ Claim(s) /\ asset.status = "active" /\ asset'.status = "in_escrow"
            \/ Refuse(s) /\ Job(s).op = "buy" /\ asset'.status = "active"
            \/ (Purchase(s) \/ LosePurchaseAnswer(s))
                 /\ asset.status = "active" /\ asset'.status = "funded"
            \/ (Allot(s) \/ AllotUnwritten(s)) /\ asset'.status \in {"active", "funded"}
            \/ WriteSold(s) /\ asset'.status = "funded"
            \/ Delist(s) /\ asset'.status = "delisted" /\ ~asset'.invest
            \/ (Transfer(s) \/ CompleteBuyout(s)) /\ asset'.status = "sold" /\ ~asset'.invest
         /\ Purchase(s) \/ LosePurchaseAnswer(s) => asset.status = "active"
         /\ \/ asset'.sold = asset.sold
            \/ (Purchase(s) \/ LosePurchaseAnswer(s)) /\ asset'.sold = asset.sold + Job(s).n
            \/ (Allot(s) \/ AllotUnwritten(s)) /\ asset'.sold = req[s].next
            \/ WriteSold(s) /\ NewSold(s) <= Shares /\ asset'.sold = NewSold(s)
<1>1. asset \in [status : AssetStatus, invest : BOOLEAN, sold : 0..Shares]
  BY DEF TypeInv, Types
<1>0. ASSUME Purchase(s) \/ LosePurchaseAnswer(s) PROVE req[s].pc = "purchase"
  BY <1>0 DEF Purchase, LosePurchaseAnswer, At
<1>2. CASE Claim(s)
  <2>1. asset' = asset \/ (asset.status = "active" /\ asset' = [asset EXCEPT !.status = "in_escrow"])
    BY <1>2 DEF Claim, Claimable
  <2>2. req[s].pc = "claim"
    BY <1>2 DEF Claim, At
  <2> QED BY <1>0, <1>1, <1>2, <2>1, <2>2
<1>3. CASE Refuse(s)
  <2>1. asset' = asset \/ (Job(s).op = "buy" /\ asset' = [asset EXCEPT !.status = "active"])
    BY <1>3 DEF Refuse, Unlock
  <2>2. req[s].pc \in {"pay", "order"}
    BY <1>3 DEF Refuse, At
  <2> QED BY <1>0, <1>1, <1>3, <2>1, <2>2
<1>4. CASE WriteSold(s)
  <2>1. NewSold(s) \in Nat /\ Shares \in Nat
    <3>1. req[s] \in Visits
      BY DEF TypeInv, Types
    <3> QED BY <3>1, LedgerAssumption DEF NewSold, Job, Visits, Jobs
  <2>2. \/ asset' = asset
        \/ /\ NewSold(s) <= Shares
           /\ asset' = [asset EXCEPT !.sold = NewSold(s),
                          !.status = IF NewSold(s) = Shares THEN "funded" ELSE @]
    BY <1>4, <2>1 DEF WriteSold
  <2>3. req[s].pc = "holding"
    BY <1>4 DEF WriteSold, At
  <2>4. CASE asset' = asset
    BY <1>0, <2>3, <2>4
  <2>5. CASE NewSold(s) <= Shares /\ NewSold(s) = Shares
               /\ asset' = [asset EXCEPT !.sold = NewSold(s), !.status = "funded"]
    BY <1>0, <1>1, <1>4, <2>3, <2>5
  <2>6. CASE NewSold(s) <= Shares /\ asset' = [asset EXCEPT !.sold = NewSold(s)]
    BY <1>0, <1>1, <1>4, <2>3, <2>6
  <2> QED BY <1>1, <2>2, <2>4, <2>5, <2>6
<1>5. CASE Purchase(s) \/ LosePurchaseAnswer(s)
  <2>1. asset.status = "active"
        /\ asset' = [asset EXCEPT !.sold = asset.sold + Job(s).n, !.status = Funded(asset.sold + Job(s).n)]
    BY <1>1, <1>5 DEF Purchase, LosePurchaseAnswer, PurchaseRpc, MayPurchase
  <2>2. Funded(asset.sold + Job(s).n) \in {"funded", "active"}
    BY DEF Funded
  <2> QED BY <1>1, <1>5, <2>1, <2>2
<1>6. CASE Allot(s) \/ AllotUnwritten(s)
  <2>1. \/ asset' = asset
        \/ asset' = [asset EXCEPT !.sold = req[s].next, !.status = Funded(req[s].next)]
    BY <1>6 DEF Allot, AllotUnwritten, MarkedSold
  <2>2. Funded(req[s].next) \in {"funded", "active"} /\ req[s].pc = "allot"
    BY <1>6 DEF Funded, Allot, AllotUnwritten, Allotted, At
  <2> QED BY <1>0, <1>1, <1>6, <2>1, <2>2
<1>7. CASE Delist(s)
  BY <1>1, <1>7 DEF Delist, Purchase, LosePurchaseAnswer, At
<1>8. CASE Transfer(s)
  BY <1>1, <1>8 DEF Transfer, Purchase, LosePurchaseAnswer, At
<1>9. CASE CompleteBuyout(s)
  BY <1>1, <1>9 DEF CompleteBuyout, Purchase, LosePurchaseAnswer, At
<1>10. CASE asset' = asset
  BY <1>5, <1>10
<1>11. \/ Claim(s) \/ Refuse(s) \/ WriteSold(s) \/ Allocating(s) \/ AllotUnwritten(s) \/ Delist(s) \/ Transfer(s)
       \/ CompleteBuyout(s) \/ asset' = asset
  BY DEF Step, LedgerStep, CheckoutStep, Allocating, ledger, history, Enter, TurnAway, ReadAsset, Pay, Throw,
         CreateOrder, Finish, StartAllocation, DuplicatePurchase, RejectPurchase, Fallback,
         QuoteRedemption, Reserve, ReserveAnyway, FindRequest, CancelRedemption, SettleRedemption,
         StartDelisting, RefuseDelisting, StartRelease, Distribute, PayInvestor, AbandonBuyout
<1> QED BY <1>2, <1>3, <1>4, <1>5, <1>6, <1>7, <1>8, <1>9, <1>10, <1>11 DEF Allocating

-----------------------------------------------------------------------------
(***************************************************************************)
(* The cap.                                                                *)
(***************************************************************************)
LEMMA CapStep ==
  ASSUME TypeInv, QueueInv, CapInv, NEW s \in DOMAIN req, Step(s)
  PROVE  CapInv'
<1>1. Types /\ RowsInv
  BY DEF TypeInv
<1>2. Others(s) /\ (asset'.invest => asset.invest)
  BY Course, AssetMoves
<1>3. asset.invest => \A i \in Investors : Held(i) = Bought(i)
  BY <1>1, HeldBought DEF CapInv
<1>4. Cap \in Nat /\ \A i \in Investors : Bought(i) \in Nat /\ Bought(i)' \in Nat
  <2>1. TypeInv'
    BY TypesStep DEF Next, Step
  <2> QED BY <1>1, <2>1, CapType, HeldBought, CountType DEF Bought, TypeInv, Types
<1>5. CASE Allocating(s)
  <2>1. /\ Job(s).who \in Investors /\ Job(s).n \in Nat /\ Holds(s)
        /\ \A i \in Investors : Bought(i)' = Bought(i) + IF i = Job(s).who THEN Job(s).n ELSE 0
    BY <1>5, AllocatingCounts
  <2>2. Bought(Job(s).who) + Job(s).n <= Cap
    <3>1. CASE Purchase(s) \/ LosePurchaseAnswer(s)
      BY <1>3, <2>1, <3>1 DEF Purchase, LosePurchaseAnswer, PurchaseRpc, MayPurchase
    <3>2. CASE Allot(s)
      BY <3>2 DEF Allot, Allotted, CapInv
    <3> QED BY <1>5, <3>1, <3>2 DEF Allocating
  <2>3. \A i \in Investors : Bought(i)' <= Cap
    BY <1>4, <2>1, <2>2 DEF CapInv
  <2>4. asset'.invest => \A p \in Positions' : position'[p].status = "active" \/ position'[p].held = 0
    <3>1. ASSUME asset.invest
          PROVE  \A p \in Positions' : position'[p].status = "active" \/ position'[p].held = 0
      <4>1. \A p \in Positions : position[p].status = "active" \/ position[p].held = 0
        BY <3>1 DEF CapInv
      <4>2. Grown(Job(s)) /\ Job(s) \in Jobs
        BY <1>5, AllocatingRows DEF Grown
      <4>3. CASE Appended(Job(s))
        <5>1. PICK copy \in {NoCopy, CopyOf(Job(s))} : position' = Append(position, NewPosition(Job(s), copy))
          BY <4>3 DEF Appended
        <5> DEFINE row == NewPosition(Job(s), copy)
                   y == Len(position) + 1
        <5>2. row \in Rows /\ row.status = "active"
          BY <2>1, <4>2, NewPositionType
        <5> HIDE DEF row
        <5>3. /\ DOMAIN position' = DOMAIN position \cup {y} /\ position'[y] = row
              /\ \A q \in DOMAIN position : position'[q] = position[q]
          BY <1>1, <5>1, <5>2, AppendRow DEF row, Types
        <5> QED BY <4>1, <5>2, <5>3 DEF Positions
      <4>4. CASE \E p \in Positions : Enlarged(Job(s), p)
        <5>1. PICK p \in Positions : Enlarged(Job(s), p)
          BY <4>4
        <5> QED BY <4>1, <5>1 DEF Enlarged, Positions
      <4> QED BY <4>2, <4>3, <4>4 DEF Grown
    <3> QED BY <1>2, <3>1
  <2>5. \A t \in DOMAIN req' : req'[t].pc # "allot"
    <3>1. req'[s].pc # "allot"
      BY <1>5, Ways DEF Allocating, Fallback, Purchase, LosePurchaseAnswer, Allot, Allotted, At
    <3>2. \A t \in DOMAIN req : t # s => req[t].pc # "allot"
      BY <2>1, AloneWithLock
    <3> QED BY <1>2, <3>1, <3>2 DEF Others
  <2> QED BY <2>3, <2>4, <2>5 DEF CapInv, At
<1>6. CASE ~Allocating(s)
  <2>1. \A i \in Investors : Bought(i)' <= Bought(i)
    BY <1>6, CountsStep
  <2>2. \A i \in Investors : Bought(i)' <= Cap
    BY <1>4, <2>1 DEF CapInv
  <2>3. asset'.invest => \A p \in Positions' : position'[p].status = "active" \/ position'[p].held = 0
    <3>1. CASE position' = position
      BY <1>2, <3>1 DEF CapInv, Positions
    <3>2. CASE Reserve(s) \/ ReserveAnyway(s) \/ CancelRedemption(s) \/ SettleRedemption(s)
      <4>1. PICK p \in Positions : Reduced(p)
        BY <3>2, ReserveRow, ReserveAnywayRow, CancelRow, SettleRow
      <4>2. position[p].held \in Nat
        BY <1>1, RowType
      <4> QED BY <1>2, <4>1, <4>2 DEF CapInv, Reduced, Lessened, Positions
    <3>3. CASE Delist(s) \/ CompleteBuyout(s)
      BY <1>1, <3>3 DEF Delist, CompleteBuyout, Types
    <3> QED BY <1>6, <3>1, <3>2, <3>3, RowsMove
  <2>4. ASSUME NEW t \in DOMAIN req, req'[t].pc = "allot"
        PROVE  /\ req'[t].job.who \in Investors
               /\ \A i \in Investors : i = req'[t].job.who => Bought(i)' + req'[t].job.n <= Cap
    <3>0. TypeInv'
      BY TypesStep DEF Next, Step
    <3>1. req'[t].job = req[t].job /\ req[t] \in Visits
      BY <1>1, <1>2 DEF Others, Types
    <3>2. Job(t).op = "invest" /\ Job(t).who \in Investors /\ Job(t).n \in Nat
      <4>1. Fits(t)'
        BY <1>2, <3>0 DEF TypeInv, Others
      <4> QED BY <2>4, <3>1, <4>1 DEF Fits, Allotting, Shopping, Job, Visits, Jobs
    <3>3. Bought(Job(t).who) + Job(t).n <= Cap
      <4>1. CASE t = s
        <5>1. MayFallBack(Job(s))
          BY <2>4, <4>1, Ways
        <5> QED BY <1>3, <3>2, <4>1, <5>1 DEF MayFallBack
      <4>2. CASE t # s
        BY <1>2, <2>4, <4>2 DEF Others, CapInv, At
      <4> QED BY <4>1, <4>2
    <3>4. ASSUME NEW i \in Investors, i = Job(t).who PROVE Bought(i)' + Job(t).n <= Cap
      <4>1. /\ Bought(i)' <= Bought(i) /\ Bought(i) + Job(t).n <= Cap
            /\ Bought(i) \in Nat /\ Bought(i)' \in Nat
        BY <1>4, <2>1, <3>3, <3>4
      <4> QED BY <1>4, <3>2, <4>1
    <3> QED BY <3>1, <3>2, <3>4 DEF Job
  <2>5. \A t \in DOMAIN req' : At(t, "allot")' => Bought(Job(t).who)' + Job(t)'.n <= Cap
    BY <1>2, <2>4 DEF At, Job, Others, Bought
  <2> QED BY <2>2, <2>3, <2>5 DEF CapInv
<1> QED BY <1>5, <1>6

-----------------------------------------------------------------------------
(***************************************************************************)
(* The checkout's lock.                                                    *)
(***************************************************************************)
LEMMA SlipsStay ==
  ASSUME NEW s \in DOMAIN req, Step(s)
  PROVE  /\ slips \subseteq slips'
         /\ TurnAway(s) => "met" \in slips'
         /\ LosePurchaseAnswer(s) => "answerLost" \in slips'
         /\ Allot(s) \/ AllotUnwritten(s) => "fallback" \in slips'
         /\ Allot(s) /\ asset' # MarkedSold(s) => "unmarked" \in slips'
         /\ AllotUnwritten(s) => "unwritten" \in slips'
         /\ Throw(s) => "exception" \in slips'
         /\ AbandonBuyout(s) => "unpaid" \in slips'
         /\ Delist(s) /\ asset.status # "active" => "delistedAnyway" \in slips'
<1> USE DEF Slip, ledger, history
<1>1. TurnAway(s) => "met" \in slips'
  BY DEF TurnAway
<1>2. LosePurchaseAnswer(s) => "answerLost" \in slips'
  BY DEF LosePurchaseAnswer
<1>3. /\ Allot(s) \/ AllotUnwritten(s) => "fallback" \in slips'
      /\ Allot(s) /\ asset' # MarkedSold(s) => "unmarked" \in slips'
      /\ AllotUnwritten(s) => "unwritten" \in slips'
  BY DEF Allot, AllotUnwritten
<1>4. Throw(s) => "exception" \in slips'
  BY DEF Throw
<1>5. AbandonBuyout(s) => "unpaid" \in slips'
  BY DEF AbandonBuyout
<1>6. Delist(s) /\ asset.status # "active" => "delistedAnyway" \in slips'
  BY DEF Delist
<1>7. slips \subseteq slips'
  BY DEF Step, LedgerStep, CheckoutStep, Enter, TurnAway, ReadAsset, Claim, Pay, Refuse, Throw,
         CreateOrder, WriteSold, Finish, StartAllocation, DuplicatePurchase, Purchase,
         LosePurchaseAnswer, RejectPurchase, Fallback, Allot, AllotUnwritten, Allotted,
         QuoteRedemption, Reserve, ReserveAnyway, FindRequest, CancelRedemption, SettleRedemption,
         StartDelisting, RefuseDelisting, Delist, StartRelease, Transfer, Distribute, PayInvestor,
         AbandonBuyout, CompleteBuyout
<1> QED BY <1>1, <1>2, <1>3, <1>4, <1>5, <1>6, <1>7

LEMMA CheckoutMoves ==
  ASSUME TypeInv, NEW s \in DOMAIN req, Step(s)
  PROVE  /\ \/ checkout' = checkout
            \/ Enter(s) \/ TurnAway(s)
            \/ req[s].pc \in Shopping /\ req'[s].pc = "end"
         /\ req'[s].pc \in Shopping => req[s].pc \in Shopping \/ Enter(s)
         /\ Enter(s) => ~checkout /\ checkout' /\ req'[s].pc = "read"
<1>1. Types
  BY DEF TypeInv
<1>2. \/ checkout' = checkout \/ Enter(s) \/ TurnAway(s)
      \/ ReadAsset(s) \/ Claim(s) \/ Refuse(s) \/ Throw(s) \/ CreateOrder(s) \/ Finish(s)
  BY DEF Step, LedgerStep, CheckoutStep, Enter, TurnAway, ReadAsset, Claim, Pay, Refuse, Throw,
         CreateOrder, WriteSold, Finish, StartAllocation, DuplicatePurchase, Purchase,
         LosePurchaseAnswer, RejectPurchase, Fallback, Allot, AllotUnwritten, Allotted,
         QuoteRedemption, Reserve, ReserveAnyway, FindRequest, CancelRedemption, SettleRedemption,
         StartDelisting, RefuseDelisting, Delist, StartRelease, Transfer, Distribute, PayInvestor,
         AbandonBuyout, CompleteBuyout, ledger, history
<1>3. ASSUME ReadAsset(s) \/ Claim(s) \/ Refuse(s) \/ Throw(s) \/ CreateOrder(s) \/ Finish(s)
      PROVE  checkout' = checkout \/ (req[s].pc \in Shopping /\ req'[s].pc = "end")
  <2>1. req[s].pc \in Shopping
    BY <1>3 DEF ReadAsset, Claim, Refuse, Throw, CreateOrder, Finish, At, Shopping
  <2>2. checkout' = checkout \/ Goto(s, "end")
    BY <1>3 DEF ReadAsset, Claim, Refuse, Throw, CreateOrder, Finish, Leave
  <2>3. Goto(s, "end") => req'[s].pc = "end"
    BY <1>1, GoOn DEF PCs
  <2> QED BY <2>1, <2>2, <2>3
<1>4. req'[s].pc \in Shopping => req[s].pc \in Shopping \/ Enter(s)
  <2>1. \/ ReadAsset(s) \/ Claim(s) \/ Pay(s) \/ CreateOrder(s) \/ StartAllocation(s)
        \/ RejectPurchase(s) \/ LosePurchaseAnswer(s) \/ Fallback(s) \/ Purchase(s) \/ Allot(s)
        \/ AllotUnwritten(s) \/ DuplicatePurchase(s) \/ WriteSold(s)
        => req[s].pc \in Shopping
    BY DEF ReadAsset, Claim, Pay, CreateOrder, StartAllocation, RejectPurchase, LosePurchaseAnswer,
           Fallback, Purchase, Allot, AllotUnwritten, Allotted, DuplicatePurchase, WriteSold, At,
           Shopping, Allotting
  <2> QED BY <2>1, Ways DEF Shopping, Allotting
<1>5. Enter(s) => ~checkout /\ checkout' /\ req'[s].pc = "read"
  BY <1>1, GoOn DEF Enter, PCs
<1> QED BY <1>2, <1>3, <1>4, <1>5

LEMMA CheckoutInvStep ==
  ASSUME TypeInv, CheckoutInv, NEW s \in DOMAIN req, Step(s)
  PROVE  CheckoutInv'
<1>1. SUFFICES ASSUME ~Happened({"met"})' PROVE (Shop # {} => checkout)' /\ (\A t, u \in Shop : t = u)'
  BY DEF CheckoutInv
<1>2. slips \subseteq slips' /\ ~TurnAway(s)
  BY <1>1, SlipsStay DEF Happened
<1>3. (Shop # {} => checkout) /\ \A t, u \in Shop : t = u
  BY <1>1, <1>2 DEF CheckoutInv, Happened
<1>4. Others(s)
  BY Course
<1>5. \A t \in DOMAIN req : t # s => (t \in Shop' <=> t \in Shop)
  BY <1>4 DEF Others, Shop
<1>6. Shop' \subseteq DOMAIN req /\ (s \in Shop' <=> req'[s].pc \in Shopping) /\ (s \in Shop <=> req[s].pc \in Shopping)
  BY <1>4 DEF Others, Shop
<1>7. CASE Enter(s)
  BY <1>3, <1>5, <1>6, <1>7, CheckoutMoves
<1>8. CASE ~Enter(s) /\ checkout' = checkout
  BY <1>3, <1>5, <1>6, <1>8, CheckoutMoves
<1>9. CASE req[s].pc \in Shopping /\ req'[s].pc = "end"
  BY <1>3, <1>5, <1>6, <1>9 DEF Shopping, Allotting
<1> QED BY <1>2, <1>7, <1>8, <1>9, CheckoutMoves

-----------------------------------------------------------------------------
(***************************************************************************)
(* Claims and open orders.                                                 *)
(***************************************************************************)
LEMMA OrdersMove ==
  ASSUME TypeInv, NEW s \in DOMAIN req, Step(s)
  PROVE  \/ OpenOrders' = OpenOrders
         \/ CreateOrder(s) /\ Job(s).op = "buy" /\ \E o : OpenOrders' = OpenOrders \cup {o}
         \/ /\ Transfer(s) \/ AbandonBuyout(s) \/ CompleteBuyout(s)
            /\ \E o \in OpenOrders : OpenOrders' = OpenOrders \ {o}
<1>1. Types /\ Fits(s) /\ orders \in Seq(Orders) /\ req[s] \in Visits
  BY DEF TypeInv, Types
<1>2. CASE orders' = orders
  BY <1>2 DEF OpenOrders
<1>3. CASE CreateOrder(s)
  <2> DEFINE new == NewOrder(Job(s))
             o == Len(orders) + 1
  <2>1. new \in Orders /\ new.status = "open" /\ (new.kind = "whole" <=> Job(s).op = "buy")
    BY <1>1 DEF NewOrder, Orders, Visits, Job, Jobs
  <2>2. orders' = Append(orders, new)
    BY <1>3 DEF CreateOrder
  <2> HIDE DEF new
  <2>3. /\ DOMAIN orders' = DOMAIN orders \cup {o} /\ o \notin DOMAIN orders /\ orders'[o] = new
        /\ \A k \in DOMAIN orders : orders'[k] = orders[k]
    BY <1>1, <2>1, <2>2, AppendRow
  <2> HIDE DEF o
  <2>4. OpenOrders' = IF Job(s).op = "buy" THEN OpenOrders \cup {o} ELSE OpenOrders
    BY <2>1, <2>3 DEF OpenOrders
  <2> QED BY <1>3, <2>4
<1>4. CASE StartRelease(s)
  <2> DEFINE o == Job(s).on
             new == [orders[o] EXCEPT !.status = "releasing"]
  <2>1. CASE /\ o \in DOMAIN orders /\ orders[o].kind = "whole" /\ orders[o].status = "open"
             /\ orders' = [orders EXCEPT ![o].status = "releasing"]
    <3>1. orders' = [orders EXCEPT ![o] = new] /\ orders[o] \in Orders
      BY <1>1, <2>1
    <3>2. new \in Orders /\ new.status = "releasing" /\ new.kind = "whole"
      BY <2>1, <3>1 DEF Orders
    <3>3. o \in DOMAIN orders /\ orders[o].kind = "whole" /\ orders[o].status # "released"
      BY <2>1
    <3> HIDE DEF o, new
    <3>4. /\ DOMAIN orders' = DOMAIN orders /\ orders'[o] = new
          /\ \A k \in DOMAIN orders : k # o => orders'[k] = orders[k]
      BY <1>1, <3>1, <3>2, <3>3, PutRow
    <3>5. OpenOrders' = OpenOrders
      BY <3>2, <3>3, <3>4 DEF OpenOrders
    <3> QED BY <3>5
  <2> QED BY <1>2, <1>4, <2>1 DEF StartRelease
<1>5. ASSUME req[s].pc \in Selling, Released(Job(s).on)
      PROVE  \E o \in OpenOrders : OpenOrders' = OpenOrders \ {o}
  <2>1. PICK o : o = Job(s).on
    OBVIOUS
  <2>2. /\ DOMAIN orders' = DOMAIN orders /\ o \in DOMAIN orders
        /\ orders'[o].status = "released"
        /\ \A k \in DOMAIN orders : k # o => orders'[k] = orders[k]
    BY <1>5, <2>1, ReleasedOrder
  <2>3. o \in OpenOrders
    BY <1>1, <1>5, <2>1, <2>2 DEF OpenOrders, Fits
  <2>4. OpenOrders' = OpenOrders \ {o}
    BY <2>2 DEF OpenOrders
  <2> QED BY <2>3, <2>4
<1>6. CASE Transfer(s)
  <2>1. req[s].pc \in Selling /\ (orders' = orders \/ Released(Job(s).on))
    BY <1>6 DEF Transfer, At, Selling
  <2> QED BY <1>2, <1>5, <1>6, <2>1
<1>7. CASE AbandonBuyout(s) \/ CompleteBuyout(s)
  <2>1. req[s].pc \in Selling /\ Released(Job(s).on)
    BY <1>7 DEF AbandonBuyout, CompleteBuyout, At, Selling
  <2> QED BY <1>5, <1>7, <2>1
<1>8. \/ orders' = orders \/ CreateOrder(s) \/ StartRelease(s) \/ Transfer(s) \/ AbandonBuyout(s) \/ CompleteBuyout(s)
  BY DEF Step, LedgerStep, CheckoutStep, Enter, TurnAway, ReadAsset, Claim, Pay, Refuse, Throw,
         WriteSold, Finish, StartAllocation, DuplicatePurchase, Purchase,
         LosePurchaseAnswer, RejectPurchase, Fallback, Allot, AllotUnwritten, Allotted,
         QuoteRedemption, Reserve, ReserveAnyway, FindRequest, CancelRedemption, SettleRedemption,
         StartDelisting, RefuseDelisting, Delist, Distribute, PayInvestor
<1> QED BY <1>2, <1>3, <1>4, <1>6, <1>7, <1>8

LEMMA ClaimsMove ==
  ASSUME TypeInv, NEW s \in DOMAIN req, Step(s)
  PROVE  /\ \A t \in DOMAIN req : t # s => (t \in Claims' <=> t \in Claims)
         /\ Claims' \subseteq DOMAIN req /\ Claims \subseteq Shop
         /\ s \in Claims' => s \in Claims \/ (Claim(s) /\ asset.status = "active")
         /\ Claim(s) => s \notin Claims
         /\ CreateOrder(s) => s \notin Claims' /\ (Job(s).op = "buy" => s \in Claims)
         /\ Refuse(s) => s \notin Claims' /\ (Job(s).op = "buy" => s \in Claims)
<1>1. Types /\ Others(s)
  BY Course DEF TypeInv
<1>2. Claims \subseteq Shop
  BY DEF Claims, Claimed, Shop, Shopping
<1>3. s \in Claims <=> Job(s).op = "buy" /\ req[s].pc \in {"pay", "order"}
  BY DEF Claims, Claimed
<1>4. s \in Claims' <=> Job(s).op = "buy" /\ req'[s].pc \in {"pay", "order"}
  BY <1>1 DEF Claims, Claimed, Job, Others
<1>5. s \in Claims' => s \in Claims \/ (Claim(s) /\ asset.status = "active")
  <2>1. CASE Pay(s)
    BY <1>3, <1>4, <2>1 DEF Pay, At
  <2>2. Claimable => asset.status = "active"
    BY DEF Claimable
  <2> QED BY <1>3, <1>4, <2>1, <2>2, Ways
<1>6. Claim(s) => s \notin Claims
  BY <1>3 DEF Claim, At
<1>7. CreateOrder(s) => s \notin Claims' /\ (Job(s).op = "buy" => s \in Claims)
  <2>1. ASSUME CreateOrder(s) PROVE ~Pay(s) /\ ~Claim(s) /\ ~ReadAsset(s)
    BY <2>1 DEF CreateOrder, Pay, Claim, ReadAsset, At
  <2> QED BY <1>3, <1>4, <2>1, Ways DEF CreateOrder, At
<1>8. Refuse(s) => s \notin Claims' /\ (Job(s).op = "buy" => s \in Claims)
  <2>1. Refuse(s) => req'[s].pc = "end"
    BY <1>1, GoOn DEF Refuse, Leave, PCs
  <2> QED BY <1>3, <1>4, <2>1 DEF Refuse, At
<1>9. \A t \in DOMAIN req : t # s => (t \in Claims' <=> t \in Claims)
  BY <1>1 DEF Others, Claims, Claimed, Job
<1>10. Claims' \subseteq DOMAIN req
  BY <1>1 DEF Others, Claims
<1> QED BY <1>2, <1>5, <1>6, <1>7, <1>8, <1>9, <1>10

LEMMA InvestingMoves ==
  ASSUME TypeInv, NEW s \in DOMAIN req, Step(s)
  PROVE  /\ Purchase(s) \/ LosePurchaseAnswer(s) \/ Allot(s) \/ AllotUnwritten(s) \/ WriteSold(s) =>
              Investing(s)
         /\ Investing(s) => s \in Shop /\ s \notin Claims
         /\ Investing(s)' => Investing(s) \/ (ReadAsset(s) /\ ~Leave(s) /\ Job(s).op = "invest")
         /\ \A t \in DOMAIN req : t # s => (Investing(t)' <=> Investing(t))
<1>1. Types /\ Others(s) /\ Fits(s)
  BY Course DEF TypeInv
<1>2. Purchase(s) \/ LosePurchaseAnswer(s) \/ Allot(s) \/ AllotUnwritten(s) \/ WriteSold(s) =>
        Investing(s)
  BY <1>1 DEF Purchase, LosePurchaseAnswer, Allot, AllotUnwritten, Allotted, WriteSold, At,
              Investing, Fits, Allotting
<1>3. Investing(s) => s \in Shop /\ s \notin Claims
  BY DEF Investing, Shop, Claims, Claimed, Shopping
<1>4. ASSUME Investing(s)', ~Investing(s)
      PROVE  ReadAsset(s) /\ ~Leave(s) /\ Job(s).op = "invest"
  <2>1. Job(s).op = "invest" /\ req'[s].pc \in {"pay", "order"} \cup Allotting
    BY <1>1, <1>4 DEF Investing, Job, Others
  <2>2. req[s].pc \notin {"pay", "order"} \cup Allotting
    BY <1>4, <2>1 DEF Investing
  <2>3. ~Pay(s) /\ ~CreateOrder(s) /\ ~StartAllocation(s) /\ ~RejectPurchase(s)
        /\ ~LosePurchaseAnswer(s) /\ ~Fallback(s) /\ ~Purchase(s) /\ ~Allot(s)
        /\ ~AllotUnwritten(s) /\ ~DuplicatePurchase(s)
    BY <2>2 DEF Pay, CreateOrder, StartAllocation, RejectPurchase, LosePurchaseAnswer, Fallback,
                Purchase, Allot, AllotUnwritten, Allotted, DuplicatePurchase, At, Allotting
  <2>4. Claim(s) => Job(s).op = "buy"
    BY <1>1 DEF Claim, At, Fits
  <2> QED BY <2>1, <2>3, <2>4, Ways DEF Allotting
<1>5. \A t \in DOMAIN req : t # s => (Investing(t)' <=> Investing(t))
  BY <1>1 DEF Others, Investing, Job
<1> QED BY <1>2, <1>3, <1>4, <1>5

LEMMA OneBuyerStep ==
  ASSUME TypeInv, CheckoutInv, TakenInv, NEW s \in DOMAIN req, Step(s), ~BackOnSale'
  PROVE  OneBuyer'
<1>1. slips \subseteq slips' /\ ~BackOnSale
  BY SlipsStay DEF BackOnSale
<1>2. OneBuyer
  BY <1>1 DEF TakenInv
<1>3. CASE Claim(s) /\ asset.status = "active"
  <2>1. Claims = {} /\ OpenOrders = {}
    BY <1>2, <1>3 DEF OneBuyer
  <2>2. Claims' \subseteq {s}
    BY <2>1, ClaimsMove
  <2>3. asset'.status = "in_escrow" /\ OpenOrders' = OpenOrders
    BY <1>3 DEF Claim, Claimable, OpenOrders, TypeInv, Types
  <2> QED BY <2>1, <2>2, <2>3 DEF OneBuyer
<1>4. CASE CreateOrder(s) /\ Job(s).op = "buy"
  <2>1. Claims = {s} /\ OpenOrders = {} /\ asset.status \notin {"active", "sold"}
    BY <1>2, <1>4, ClaimsMove DEF OneBuyer
  <2>2. Claims' = {}
    BY <1>4, <2>1, ClaimsMove
  <2>3. asset' = asset
    BY <1>4 DEF CreateOrder, ledger
  <2>4. \A o1, o2 \in OpenOrders' : o1 = o2
    <3>1. OpenOrders' = OpenOrders \/ \E o : OpenOrders' = OpenOrders \cup {o}
      <4>1. ~Transfer(s) /\ ~AbandonBuyout(s) /\ ~CompleteBuyout(s)
        BY <1>4 DEF CreateOrder, Transfer, AbandonBuyout, CompleteBuyout, At
      <4> QED BY <4>1, OrdersMove
    <3> QED BY <2>1, <3>1
  <2> QED BY <2>1, <2>2, <2>3, <2>4 DEF OneBuyer
<1>5. CASE ~(Claim(s) /\ asset.status = "active") /\ ~(CreateOrder(s) /\ Job(s).op = "buy")
  <2>1. Claims' \subseteq Claims
    BY <1>5, ClaimsMove DEF Claims, TypeInv
  <2>2. OpenOrders' \subseteq OpenOrders
    BY <1>5, OrdersMove
  <2>3. (\A t, u \in Claims' : t = u) /\ (\A o1, o2 \in OpenOrders' : o1 = o2)
        /\ (Claims' # {} => OpenOrders' = {})
    BY <1>2, <2>1, <2>2 DEF OneBuyer
  <2>4. CASE asset'.status = asset.status
    BY <1>2, <2>1, <2>2, <2>3, <2>4 DEF OneBuyer
  <2>5. CASE Refuse(s) /\ Job(s).op = "buy" /\ asset'.status = "active"
    <3>1. Claims = {s} /\ OpenOrders = {}
      BY <1>2, <2>5, ClaimsMove DEF OneBuyer
    <3>2. Claims' = {}
      BY <2>1, <2>5, <3>1, ClaimsMove
    <3> QED BY <2>2, <2>5, <3>1, <3>2 DEF OneBuyer
  <2>6. CASE asset.status = "active" /\ asset'.status = "funded"
    BY <1>2, <2>1, <2>2, <2>6 DEF OneBuyer
  <2>7. CASE (Allot(s) \/ AllotUnwritten(s)) /\ asset'.status \in {"active", "funded"}
    <3>1. "met" \notin slips
      BY <1>1, <2>7, SlipsStay DEF BackOnSale
    <3>2. OpenOrders = {} /\ s \in Shop /\ s \notin Claims
      BY <2>7, <3>1, InvestingMoves DEF TakenInv, NoInvestor, Happened
    <3>3. Claims = {}
      BY <3>1, <3>2, ClaimsMove DEF CheckoutInv, Happened
    <3> QED BY <2>1, <2>2, <2>7, <3>2, <3>3 DEF OneBuyer
  <2>8. CASE asset'.status \in {"funded", "delisted"}
    BY <2>3, <2>8 DEF OneBuyer
  <2>9. CASE (Transfer(s) \/ CompleteBuyout(s)) /\ asset'.status = "sold"
    <3>1. OpenOrders # {}
      <4>1. req[s].pc \in Selling /\ Fits(s)
        BY <2>9 DEF Transfer, CompleteBuyout, At, Selling, TypeInv
      <4> QED BY <4>1 DEF Fits, OpenOrders
    <3>2. Claims = {}
      BY <1>2, <3>1 DEF OneBuyer
    <3> QED BY <2>1, <2>3, <2>9, <3>2 DEF OneBuyer
  <2> QED BY <1>5, <2>4, <2>5, <2>6, <2>7, <2>8, <2>9, AssetMoves
<1> QED BY <1>3, <1>4, <1>5

LEMMA NoInvestorStep ==
  ASSUME TypeInv, CheckoutInv, TakenInv, NEW s \in DOMAIN req, Step(s), ~Happened({"met"})'
  PROVE  NoInvestor'
<1>1. slips \subseteq slips' /\ ~Happened({"met"})
  BY SlipsStay DEF Happened
<1>2. OneBuyer /\ NoInvestor /\ \A t, u \in Shop : t = u
  BY <1>1 DEF TakenInv, CheckoutInv, BackOnSale, Happened
<1>3. Others(s)
  BY Course
<1>4. \A t \in DOMAIN req : Investing(t) => t \in Shop
  BY DEF Investing, Shop, Shopping
<1>5. asset'.invest => asset.invest
  BY AssetMoves
<1>6. (Claims # {} \/ OpenOrders # {} => asset.status \in {"in_escrow", "sold", "delisted"})'
  <2>1. CASE Claim(s) /\ asset.status = "active"
    <3>1. asset'.status = "in_escrow"
      BY <2>1 DEF Claim, Claimable, TypeInv, Types
    <3> QED BY <3>1
  <2>2. CASE CreateOrder(s) /\ Job(s).op = "buy"
    <3>1. s \in Claims /\ asset' = asset
      BY <2>2, ClaimsMove DEF CreateOrder, ledger
    <3> QED BY <1>2, <3>1 DEF NoInvestor
  <2>3. CASE ~(Claim(s) /\ asset.status = "active") /\ ~(CreateOrder(s) /\ Job(s).op = "buy")
    <3>1. Claims' \subseteq Claims /\ OpenOrders' \subseteq OpenOrders
      BY <2>3, ClaimsMove, OrdersMove
    <3>2. CASE asset'.status = asset.status
      BY <1>2, <3>1, <3>2 DEF NoInvestor
    <3>3. CASE Refuse(s) /\ Job(s).op = "buy"
      <4>1. s \in Claims /\ s \notin Claims'
        BY <3>3, ClaimsMove
      <4>2. Claims = {s} /\ OpenOrders = {}
        BY <1>2, <4>1 DEF OneBuyer
      <4> QED BY <3>1, <4>1, <4>2
    <3>4. CASE Purchase(s) \/ LosePurchaseAnswer(s) \/ Allot(s) \/ AllotUnwritten(s) \/ WriteSold(s)
      <4>1. OpenOrders = {} /\ s \in Shop /\ s \notin Claims
        BY <1>2, <3>4, InvestingMoves DEF NoInvestor
      <4>2. Claims = {}
        BY <1>2, <4>1, ClaimsMove
      <4> QED BY <3>1, <4>1, <4>2
    <3>5. CASE asset'.status \in {"delisted", "sold"}
      BY <3>5
    <3> QED BY <2>3, <3>2, <3>3, <3>4, <3>5, AssetMoves
  <2> QED BY <2>1, <2>2, <2>3
<1>7. ASSUME NEW t \in DOMAIN req, Investing(t)'
      PROVE  OpenOrders' = {} /\ asset'.status # "sold"
  <2>1. CASE Investing(t)
    <3>1. OpenOrders = {} /\ asset.status # "sold" /\ t \in Shop /\ t \notin Claims
      BY <1>2, <1>4, <2>1, InvestingMoves DEF NoInvestor, Investing, Claims, Claimed
    <3>2. OpenOrders' = {}
      <4>1. CASE CreateOrder(s) /\ Job(s).op = "buy"
        <5>1. s \in Claims /\ s \in Shop
          BY <4>1, ClaimsMove
        <5> QED BY <1>2, <3>1, <5>1
      <4> QED BY <3>1, <4>1, OrdersMove
    <3>3. asset'.status # "sold"
      <4>1. ~Transfer(s) /\ ~CompleteBuyout(s)
        <5>1. req[s].pc \in Selling => OpenOrders # {}
          BY DEF TypeInv, Fits, OpenOrders
        <5> QED BY <3>1, <5>1 DEF Transfer, CompleteBuyout, At, Selling
      <4> QED BY <3>1, <4>1, AssetMoves
    <3> QED BY <3>2, <3>3
  <2>2. CASE ~Investing(t)
    <3>1. t = s /\ ReadAsset(s) /\ ~Leave(s) /\ Job(s).op = "invest"
      BY <1>7, <2>2, InvestingMoves
    <3>2. asset.invest /\ asset.status \notin {"sold", "in_escrow"}
      BY <3>1 DEF ReadAsset, MayInvest
    <3>3. asset.status \notin {"sold", "in_escrow", "delisted"}
      BY <3>2 DEF TakenInv
    <3>4. OpenOrders = {}
      BY <1>2, <3>3 DEF NoInvestor
    <3>5. OpenOrders' = OpenOrders /\ asset' = asset
      BY <3>1 DEF ReadAsset, ledger, OpenOrders
    <3> QED BY <3>3, <3>4, <3>5
  <2> QED BY <2>1, <2>2
<1> QED BY <1>3, <1>6, <1>7 DEF NoInvestor, Others

LEMMA TakenStep ==
  ASSUME TypeInv, CheckoutInv, TakenInv, NEW s \in DOMAIN req, Step(s)
  PROVE  TakenInv'
<1>1. (asset.status \in {"sold", "delisted"} => ~asset.invest)'
  BY AssetMoves DEF TakenInv
<1> QED BY <1>1, OneBuyerStep, NoInvestorStep DEF TakenInv

(* SoldStays, step by step.                                                *)
LEMMA SoldStep ==
  ASSUME TypeInv, TakenInv, NEW s \in DOMAIN req, Step(s), asset.status = "sold"
  PROVE  \/ asset'.status = "sold"
         \/ "delistedAnyway" \in slips'
         \/ asset'.status = "funded" /\ "met" \in slips'
         \/ BackOnSale'
<1>1. slips \subseteq slips'
  BY SlipsStay
<1>2. CASE Refuse(s) /\ Job(s).op = "buy"
  <2>1. Claims # {}
    BY <1>2, ClaimsMove
  <2>2. BackOnSale
    BY <2>1 DEF TakenInv, OneBuyer
  <2> QED BY <1>1, <2>2 DEF BackOnSale
<1>3. CASE Allot(s) \/ AllotUnwritten(s) \/ WriteSold(s)
  <2>1. Investing(s)
    BY <1>3, InvestingMoves
  <2>2. "met" \in slips'
    BY <1>1, <2>1 DEF TakenInv, NoInvestor, Happened
  <2>3. CASE Allot(s) \/ AllotUnwritten(s)
    BY <2>2, <2>3, SlipsStay DEF BackOnSale
  <2>4. CASE WriteSold(s)
    <3>1. asset'.status \in {"sold", "funded"}
      <4>1. ~Claim(s) /\ ~Refuse(s) /\ ~Purchase(s) /\ ~LosePurchaseAnswer(s) /\ ~Allot(s)
            /\ ~AllotUnwritten(s) /\ ~Delist(s) /\ ~Transfer(s) /\ ~CompleteBuyout(s)
        BY <2>4 DEF WriteSold, Claim, Refuse, Purchase, LosePurchaseAnswer, Allot, AllotUnwritten,
                    Allotted, Delist, Transfer, CompleteBuyout, At
      <4> QED BY <4>1, AssetMoves
    <3> QED BY <2>2, <3>1
  <2> QED BY <1>3, <2>3, <2>4
<1>4. CASE Delist(s)
  BY <1>4, SlipsStay
<1> QED BY <1>2, <1>3, <1>4, AssetMoves

(* EscrowHasOrder, step by step.                                           *)
LEMMA EscrowStep ==
  ASSUME TypeInv, EscrowHasOrder, NEW s \in DOMAIN req, Step(s)
  PROVE  EscrowHasOrder'
<1>1. SUFFICES ASSUME asset'.status = "in_escrow", ~Happened({"exception", "restart", "unpaid"})'
               PROVE  OpenOrders' # {} \/ Claims' # {}
  <2>1. Claims' # {} => (\E t \in DOMAIN req : Job(t).op = "buy" /\ req[t].pc \in {"pay", "order"})'
    BY DEF Claims, Claimed
  <2> QED BY <2>1 DEF EscrowHasOrder
<1>2. slips \subseteq slips' /\ ~Throw(s) /\ ~AbandonBuyout(s)
  BY <1>1, SlipsStay DEF Happened
<1>3. CASE Claim(s) /\ asset.status = "active"
  <2>1. Goto(s, "pay") /\ Types /\ Fits(s) /\ At(s, "claim")
    BY <1>3 DEF Claim, Claimable, TypeInv
  <2>2. s \in Claims'
    BY <2>1, GoOn DEF Claims, Claimed, Others, Fits, At, Job, PCs
  <2> QED BY <2>2
<1>4. CASE ~(Claim(s) /\ asset.status = "active")
  <2>1. asset.status = "in_escrow"
    BY <1>1, <1>4, AssetMoves
  <2>2. OpenOrders # {} \/ Claims # {}
    BY <1>1, <1>2, <2>1 DEF EscrowHasOrder, Happened, Claims, Claimed
  <2>3. ~Transfer(s) \/ orders' = orders
    BY <1>1 DEF Transfer, TypeInv, Types
  <2>4. ~CompleteBuyout(s)
    BY <1>1 DEF CompleteBuyout, TypeInv, Types
  <2>5. CASE OpenOrders # {}
    <3>1. CASE Transfer(s)
      BY <2>3, <2>5, <3>1 DEF OpenOrders
    <3> QED BY <1>2, <2>4, <2>5, <3>1, OrdersMove
  <2>6. CASE OpenOrders = {} /\ \E t \in Claims : t # s
    BY <2>6, ClaimsMove DEF Claims
  <2>7. CASE s \in Claims
    <3>1. Job(s).op = "buy" /\ req[s].pc \in {"pay", "order"}
      BY <2>7 DEF Claims, Claimed
    <3>2. CASE Pay(s)
      <4>1. s \in Claims'
        BY <3>1, <3>2, GoOn DEF Pay, Claims, Claimed, Others, Job, PCs, TypeInv
      <4> QED BY <4>1
    <3>3. CASE Refuse(s)
      BY <1>1, <3>1, <3>3 DEF Refuse, Unlock, TypeInv, Types
    <3>4. CASE CreateOrder(s)
      <4> DEFINE new == NewOrder(Job(s))
      <4>1. orders' = Append(orders, new) /\ orders \in Seq(Orders) /\ req[s] \in Visits
        BY <3>4 DEF CreateOrder, TypeInv, Types
      <4>2. new.kind = "whole" /\ new.status = "open" /\ new \in Orders
        BY <3>1, <4>1 DEF NewOrder, Orders, Visits, Job, Jobs
      <4> HIDE DEF new
      <4>3. Len(orders) + 1 \in OpenOrders'
        BY <4>1, <4>2, AppendRow DEF OpenOrders
      <4> QED BY <4>3
    <3>5. Pay(s) \/ Refuse(s) \/ CreateOrder(s)
      BY <1>2, <3>1 DEF Step, LedgerStep, CheckoutStep, Enter, TurnAway, ReadAsset, Claim, Pay,
         WriteSold, Finish, StartAllocation, DuplicatePurchase, Purchase,
         LosePurchaseAnswer, RejectPurchase, Fallback, Allot, AllotUnwritten, Allotted,
         QuoteRedemption, Reserve, ReserveAnyway, FindRequest, CancelRedemption, SettleRedemption,
         StartDelisting, RefuseDelisting, Delist, StartRelease, Transfer, Distribute, PayInvestor,
         AbandonBuyout, CompleteBuyout, At
    <3> QED BY <3>2, <3>3, <3>4, <3>5
  <2> QED BY <2>2, <2>5, <2>6, <2>7
<1> QED BY <1>3, <1>4

-----------------------------------------------------------------------------
(***************************************************************************)
(* One allocation a key.                                                   *)
(***************************************************************************)
LEMMA StoreMoves ==
  ASSUME TypeInv, NEW s \in DOMAIN req, Step(s), ~Allocating(s), ~AllotUnwritten(s)
  PROVE  /\ keys' = keys /\ allotted' = allotted
         /\ store' = store \/ (DuplicatePurchase(s) /\ Holds(s) /\ store \subseteq store')
<1>1. CASE DuplicatePurchase(s)
  BY <1>1 DEF DuplicatePurchase, ledger, history
<1>2. CASE ~DuplicatePurchase(s)
  BY <1>2 DEF Step, LedgerStep, CheckoutStep, Enter, TurnAway, ReadAsset, Claim, Pay, Refuse, Throw,
         CreateOrder, WriteSold, Finish, StartAllocation, Allocating, RejectPurchase, Fallback,
         QuoteRedemption, Reserve, ReserveAnyway, FindRequest, CancelRedemption, SettleRedemption,
         StartDelisting, RefuseDelisting, Delist, StartRelease, Transfer, Distribute, PayInvestor,
         AbandonBuyout, CompleteBuyout, ledger, history
<1> QED BY <1>1, <1>2

LEMMA OnceStep ==
  ASSUME TypeInv, QueueInv, OnceInv, NEW s \in DOMAIN req, Step(s)
  PROVE  OnceInv'
<1>1. SUFFICES ASSUME ~Happened({"answerLost"})', ~({"fallback", "restart"} \subseteq slips')
               PROVE  /\ \A k \in Keys : (/\ allotted[k] <= 1
                                          /\ allotted[k] = 1 => k \in keys \/ (k \in store /\ "fallback" \in slips))'
                      /\ \A t \in DOMAIN req' : req'[t].pc \in {"fallback", "allot"} => ~Known(Job(t).key)'
  BY DEF OnceInv
<1>2. slips \subseteq slips' /\ ~LosePurchaseAnswer(s)
  BY <1>1, SlipsStay DEF Happened
<1>3. /\ \A k \in Keys : /\ allotted[k] <= 1
                         /\ allotted[k] = 1 => k \in keys \/ (k \in store /\ "fallback" \in slips)
      /\ \A t \in DOMAIN req : req[t].pc \in {"fallback", "allot"} => ~Known(Job(t).key)
  BY <1>1, <1>2 DEF OnceInv, Happened
<1>4. Others(s) /\ allotted \in [Keys -> Nat]
  BY Course DEF TypeInv, Types
<1>5. CASE Allocating(s) \/ AllotUnwritten(s)
  <2>1. Job(s).key \in Keys /\ Holds(s)
    <3>1. CASE AllotUnwritten(s)
      BY <3>1 DEF AllotUnwritten, Allotted, TypeInv, Types, Visits, Job, Jobs
    <3> QED BY <1>5, <3>1, AllocatingCounts
  <2>2. PICK key \in Keys : key = Job(s).key
    BY <2>1
  <2>3. ~Known(key)
    BY <1>2, <1>3, <1>5, <2>2 DEF Allocating, Purchase, Allot, AllotUnwritten, Allotted, At
  <2>4. allotted[key] = 0
    BY <1>3, <1>4, <2>3 DEF Known
  <2>5. allotted' = [allotted EXCEPT ![key] = allotted[key] + 1]
    BY <1>2, <1>5, <2>2 DEF Allocating, Purchase, PurchaseRpc, Allot, AllotUnwritten, Allotted
  <2>6. keys \subseteq keys' /\ store \subseteq store'
        /\ (key \in keys' \/ (key \in store' /\ "fallback" \in slips'))
    <3>1. CASE Purchase(s)
      BY <2>2, <3>1 DEF Purchase, PurchaseRpc
    <3>2. CASE Allot(s) \/ AllotUnwritten(s)
      BY <2>2, <3>2, SlipsStay DEF Allot, AllotUnwritten, Allotted
    <3> QED BY <1>2, <1>5, <3>1, <3>2 DEF Allocating
  <2>7. \A k \in Keys : /\ allotted'[k] <= 1
                        /\ allotted'[k] = 1 => k \in keys' \/ (k \in store' /\ "fallback" \in slips')
    <3>1. ASSUME NEW k \in Keys
          PROVE  /\ allotted'[k] <= 1
                 /\ allotted'[k] = 1 => k \in keys' \/ (k \in store' /\ "fallback" \in slips')
      <4>1. CASE k = key
        BY <1>4, <2>4, <2>5, <2>6, <4>1
      <4>2. CASE k # key
        BY <1>2, <1>3, <1>4, <2>5, <2>6, <4>2
      <4> QED BY <4>1, <4>2
    <3> QED BY <3>1
  <2>8. \A t \in DOMAIN req : req'[t].pc \notin {"fallback", "allot"}
    <3>1. req'[s].pc \notin {"fallback", "allot"}
      <4>1. Goto(s, "holding") /\ Types
        BY <1>2, <1>5 DEF Allocating, Purchase, Allot, AllotUnwritten, Allotted, TypeInv
      <4> QED BY <4>1, GoOn DEF PCs
    <3>2. \A t \in DOMAIN req : t # s => req[t].pc \notin {"fallback", "allot"}
      BY <2>1, AloneWithLock
    <3> QED BY <1>4, <3>1, <3>2 DEF Others
  <2> QED BY <1>4, <2>7, <2>8 DEF Others
<1>6. CASE ~Allocating(s) /\ ~AllotUnwritten(s)
  <2>1. /\ keys' = keys /\ allotted' = allotted
        /\ store' = store \/ (DuplicatePurchase(s) /\ Holds(s) /\ store \subseteq store')
    BY <1>6, StoreMoves
  <2>2. \A k \in Keys : (/\ allotted[k] <= 1
                         /\ allotted[k] = 1 => k \in keys \/ (k \in store /\ "fallback" \in slips))'
    BY <1>2, <1>3, <2>1
  <2>3. ASSUME NEW t \in DOMAIN req, req'[t].pc \in {"fallback", "allot"}
        PROVE  ~Known(Job(t).key)'
    <3>1. Job(t)' = Job(t)
      BY <1>4 DEF Others, Job
    <3>2. CASE t # s
      <4>1. req[t].pc \in {"fallback", "allot"}
        BY <1>4, <2>3, <3>2 DEF Others
      <4>2. store' = store
        BY <2>1, <3>2, <4>1, AloneWithLock
      <4> QED BY <1>3, <2>1, <3>1, <4>1, <4>2 DEF Known
    <3>3. CASE t = s
      <4>1. RejectPurchase(s) \/ Fallback(s)
        BY <1>2, <2>3, <3>3, Ways
      <4>2. ~Known(Job(s).key) /\ store' = store
        BY <1>3, <4>1 DEF RejectPurchase, Fallback, At
      <4> QED BY <2>1, <3>1, <3>3, <4>2 DEF Known
    <3> QED BY <3>2, <3>3
  <2> QED BY <1>4, <2>2, <2>3 DEF Others
<1> QED BY <1>5, <1>6

-----------------------------------------------------------------------------
(***************************************************************************)
(* The supply, and shares_sold.                                            *)
(***************************************************************************)
LEMMA ReadMoves ==
  ASSUME TypeInv, NEW s \in DOMAIN req, ReadAsset(s), ~Leave(s), Job(s).op = "invest"
  PROVE  MayInvest(Job(s)) /\ req'[s].snap = asset
<1>1. Types /\ req[s] \in Visits
  BY DEF TypeInv, Types
<1> DEFINE r == [req[s] EXCEPT !.pc = IF Job(s).op = "buy" THEN "claim" ELSE "pay", !.snap = asset]
<1>2. req' = [req EXCEPT ![s] = r] /\ MayInvest(Job(s))
  BY DEF ReadAsset
<1>3. r.job = req[s].job /\ r.snap = asset
  BY <1>1 DEF Visits
<1> HIDE DEF r
<1>4. req'[s] = r
  BY <1>1, <1>2, <1>3, GoNoting
<1> QED BY <1>2, <1>3, <1>4

Funding == {"pay", "order", "allocate", "purchase", "allot"}

LEMMA FundingMoves ==
  ASSUME TypeInv, NEW s \in DOMAIN req, Step(s), Job(s).op = "invest", req'[s].pc \in Funding
  PROVE  \/ req[s].pc \in Funding /\ ~Allocating(s)
         \/ ReadAsset(s) /\ ~Leave(s)
         \/ Fallback(s) /\ MayFallBack(Job(s)) /\ req'[s].next = Sold(asset) + Job(s).n
<1>1. ~Claim(s)
  BY DEF Claim, At, TypeInv, Fits
<1>2. ASSUME Pay(s) \/ CreateOrder(s) \/ StartAllocation(s)
      PROVE  req[s].pc \in Funding /\ ~Allocating(s)
  BY <1>2 DEF Pay, CreateOrder, StartAllocation, At, Funding, Allocating, Purchase,
              LosePurchaseAnswer, Allot, Allotted
<1> QED BY <1>1, <1>2, Ways DEF Funding

LEMMA SupplyStep ==
  ASSUME TypeInv, CheckoutInv, CapInv, SupplyInv, NEW s \in DOMAIN req, Step(s)
  PROVE  SupplyInv'
<1>1. SUFFICES ASSUME ~Happened({"met"})'
               PROVE  /\ All' <= Shares
                      /\ \A t \in DOMAIN req' : (Job(t).op = "invest" /\ req[t].pc \in Funding)' =>
                           All' + Job(t)'.n <= Shares
  BY DEF SupplyInv, Funding
<1>2. slips \subseteq slips' /\ ~Happened({"met"})
  BY <1>1, SlipsStay DEF Happened
<1>3. /\ All <= Shares /\ \A t, u \in Shop : t = u
      /\ \A t \in DOMAIN req : Job(t).op = "invest" /\ req[t].pc \in Funding => All + Job(t).n <= Shares
  BY <1>2 DEF SupplyInv, CheckoutInv, Funding
<1>4. Others(s) /\ Types /\ TypeInv'
  BY Course, TypesStep DEF TypeInv, Next, Step
<1>5. All \in Nat /\ All' \in Nat /\ Shares \in Nat /\ Ledger \in Nat /\ Sold(asset) \in Nat
  BY <1>4, CountType, LedgerAssumption, SoldType DEF All, Ledger, TypeInv, Types
<1>6. \A t \in DOMAIN req : Job(t)' = Job(t) /\ Job(t).n \in Nat
  BY <1>4 DEF Others, Job, Types, Visits, Jobs
<1>7. CASE Allocating(s)
  <2>1. All' = All + Job(s).n /\ Job(s).op = "invest" /\ Holds(s)
    BY <1>7, AllocatingCounts
  <2>2. s \in Shop /\ (Purchase(s) \/ Allot(s) \/ LosePurchaseAnswer(s) => req[s].pc \in {"purchase", "allot"})
    BY <1>7 DEF Allocating, Purchase, LosePurchaseAnswer, Allot, Allotted, At, Shop, Shopping,
                Allotting
  <2>3. All' <= Shares
    BY <1>3, <1>7, <2>1, <2>2 DEF Allocating, Funding
  <2>4. ASSUME NEW t \in DOMAIN req, Job(t).op = "invest", req'[t].pc \in Funding
        PROVE  FALSE
    <3>1. CASE t # s
      <4>1. t \in Shop
        BY <1>4, <2>4, <3>1 DEF Others, Shop, Funding, Shopping, Allotting
      <4> QED BY <1>3, <2>2, <3>1, <4>1
    <3>2. CASE t = s
      <4>1. ReadAsset(s) \/ Fallback(s)
        BY <1>7, <2>4, <3>2, FundingMoves
      <4> QED BY <2>2, <1>7, <4>1 DEF ReadAsset, Fallback, At, Allocating
    <3> QED BY <3>1, <3>2
  <2> QED BY <1>4, <1>6, <2>3, <2>4 DEF Others
<1>8. CASE ~Allocating(s)
  <2>1. All' <= All
    BY <1>8, CountsStep
  <2>2. All' <= Shares
    BY <1>3, <1>5, <2>1
  <2>3. ASSUME NEW t \in DOMAIN req, Job(t).op = "invest", req'[t].pc \in Funding
        PROVE  All' + Job(t).n <= Shares
    <3>1. CASE req[t].pc \in Funding
      <4>1. All + Job(t).n <= Shares
        BY <1>3, <2>3, <3>1
      <4> QED BY <1>5, <1>6, <2>1, <4>1
    <3>2. CASE t = s /\ ((ReadAsset(s) /\ ~Leave(s)) \/ (Fallback(s) /\ MayFallBack(Job(s))))
      <4>1. asset.invest /\ Job(s).n <= Shares - Sold(asset)
        BY <2>3, <3>2, ReadMoves DEF MayInvest, MayFallBack
      <4>2. Ledger = All /\ Ledger <= Sold(asset)
        <5>1. Investors # {}
          BY <2>3 DEF TypeInv, Fits
        <5> QED BY <1>4, <4>1, <5>1, HeldBought, SoldType DEF CapInv
      <4> QED BY <1>5, <1>6, <2>1, <3>2, <4>1, <4>2
    <3>3. t # s => req[t].pc \in Funding
      BY <1>4, <2>3 DEF Others
    <3> QED BY <2>3, <3>1, <3>2, <3>3, FundingMoves
  <2> QED BY <1>4, <1>6, <2>2, <2>3 DEF Others
<1> QED BY <1>7, <1>8
Spending == {"pay", "order", "allocate", "purchase", "fallback", "allot"}

LEMMA SpendingMoves ==
  ASSUME TypeInv, NEW s \in DOMAIN req, Step(s), Job(s).op = "invest", req'[s].pc \in Spending
  PROVE  (req[s].pc \in Spending /\ ~ReadAsset(s)) \/ (ReadAsset(s) /\ ~Leave(s))
<1>1. ~Claim(s)
  BY DEF Claim, At, TypeInv, Fits
<1>2. ASSUME \/ Pay(s) \/ CreateOrder(s) \/ StartAllocation(s) \/ RejectPurchase(s)
             \/ LosePurchaseAnswer(s) \/ Fallback(s)
      PROVE  req[s].pc \in Spending /\ ~ReadAsset(s)
  BY <1>2 DEF Pay, CreateOrder, StartAllocation, RejectPurchase, LosePurchaseAnswer, Fallback, At,
              Spending, ReadAsset
<1> QED BY <1>1, <1>2, Ways DEF Spending

LEMMA SoldInvStep ==
  ASSUME TypeInv, CheckoutInv, CapInv, SoldInv, NEW s \in DOMAIN req, Step(s)
  PROVE  SoldInv'
<1>1. SUFFICES ASSUME ~Happened({"met", "answerLost", "unmarked"})'
               PROVE  /\ All' <= asset'.sold
                      /\ \A t \in DOMAIN req' : Job(t)'.op = "invest" =>
                           /\ req'[t].pc \in Spending => asset'.sold = req'[t].snap.sold
                           /\ req'[t].pc = "allot" => req'[t].next = req'[t].snap.sold + Job(t)'.n
                           /\ req'[t].pc = "holding" => All' <= req'[t].snap.sold + Job(t)'.n
  BY DEF SoldInv, Spending
<1>2. /\ slips \subseteq slips' /\ ~Happened({"met", "answerLost", "unmarked"})
      /\ ~LosePurchaseAnswer(s) /\ (Allot(s) => asset' = MarkedSold(s))
  BY <1>1, SlipsStay DEF Happened
<1>3. /\ All <= asset.sold /\ \A t, u \in Shop : t = u
      /\ \A t \in DOMAIN req : Job(t).op = "invest" =>
           /\ req[t].pc \in Spending => asset.sold = req[t].snap.sold
           /\ req[t].pc = "allot" => req[t].next = req[t].snap.sold + Job(t).n
           /\ req[t].pc = "holding" => All <= req[t].snap.sold + Job(t).n
  BY <1>2 DEF SoldInv, CheckoutInv, Spending, Happened
<1>4. Others(s) /\ Types /\ TypeInv' /\ Fits(s)
  BY Course, TypesStep DEF TypeInv, Next, Step
<1>5. /\ All \in Nat /\ All' \in Nat /\ asset.sold \in Nat /\ asset'.sold \in Nat
      /\ \A t \in DOMAIN req : Job(t)' = Job(t) /\ Job(t).n \in Nat /\ req[t].snap.sold \in Nat
  <2>1. \A t \in DOMAIN req : Job(t)' = Job(t)
    BY <1>4 DEF Others, Job
  <2>2. \A t \in DOMAIN req : req[t] \in Visits
    BY <1>4 DEF Types
  <2>3. \A t \in DOMAIN req : Job(t).n \in Nat /\ req[t].snap.sold \in Nat
    BY <2>2, LedgerAssumption DEF Job, Visits, Jobs
  <2>4. All \in Nat /\ All' \in Nat
    BY <1>4, CountType DEF All, TypeInv, Types
  <2>5. asset.sold \in Nat /\ asset'.sold \in Nat
    BY <1>4, LedgerAssumption DEF TypeInv, Types
  <2> QED BY <2>1, <2>3, <2>4, <2>5
<1>6. ASSUME req[s].pc \in Shopping, NEW t \in DOMAIN req, t # s
      PROVE  req'[t].pc \notin Spending \cup {"allot", "holding"}
  BY <1>3, <1>4, <1>6 DEF Shop, Others, Spending, Shopping, Allotting
<1>7. CASE Purchase(s) \/ Allot(s)
  <2>1. Allocating(s) /\ req[s].pc \in {"purchase", "allot"} /\ Goto(s, "holding")
    BY <1>7 DEF Allocating, Purchase, Allot, Allotted, At
  <2>2. All' = All + Job(s).n /\ Job(s).op = "invest"
    BY <2>1, AllocatingCounts
  <2>3. asset.sold = req[s].snap.sold
    BY <1>3, <2>1, <2>2 DEF Spending
  <2>4. asset'.sold = asset.sold + Job(s).n
    <3>1. CASE Purchase(s)
      BY <1>4, <1>5, <3>1 DEF Purchase, PurchaseRpc, Types
    <3>2. CASE Allot(s)
      <4>1. asset'.sold = req[s].next /\ req[s].pc = "allot"
        BY <1>2, <1>4, <3>2 DEF Allot, Allotted, MarkedSold, Types, At
      <4> QED BY <1>3, <2>2, <2>3, <4>1
    <3> QED BY <1>7, <3>1, <3>2
  <2>5. req'[s].pc = "holding" /\ req'[s].snap = req[s].snap
    BY <1>4, <2>1, GoOn DEF PCs
  <2>6. \A t \in DOMAIN req : t # s => req'[t].pc \notin Spending \cup {"allot", "holding"}
    BY <1>6, <2>1 DEF Shopping, Allotting
  <2>7. All' <= asset'.sold /\ All' <= req'[s].snap.sold + Job(s).n
    BY <1>3, <1>5, <2>2, <2>3, <2>4, <2>5
  <2> QED BY <1>4, <1>5, <2>5, <2>6, <2>7 DEF Others, Spending
<1>9. CASE AllotUnwritten(s)
  <2>1. req[s].pc = "allot" /\ Goto(s, "holding") /\ position' = position
    BY <1>9 DEF AllotUnwritten, Allotted, At
  <2>2. All' = All /\ Job(s).op = "invest"
    BY <1>4, <2>1 DEF All, Positions, Fits, Allotting
  <2>3. asset.sold = req[s].snap.sold /\ req[s].next = req[s].snap.sold + Job(s).n
    BY <1>3, <2>1, <2>2 DEF Spending
  <2>4. asset'.sold \in {asset.sold, req[s].next}
    BY <1>4, <1>9 DEF AllotUnwritten, MarkedSold, Types
  <2>5. req'[s].pc = "holding" /\ req'[s].snap = req[s].snap
    BY <1>4, <2>1, GoOn DEF PCs
  <2>6. \A t \in DOMAIN req : t # s => req'[t].pc \notin Spending \cup {"allot", "holding"}
    BY <1>6, <2>1 DEF Shopping, Allotting
  <2>7. All' <= asset'.sold /\ All' <= req'[s].snap.sold + Job(s).n
    BY <1>3, <1>5, <2>2, <2>3, <2>4, <2>5
  <2> QED BY <1>4, <1>5, <2>5, <2>6, <2>7 DEF Others, Spending
<1>8. CASE ~Allocating(s) /\ ~AllotUnwritten(s)
  <2>1. All' <= All
    BY <1>8, CountsStep
  <2>2. asset'.sold = asset.sold \/ (WriteSold(s) /\ asset'.sold = NewSold(s))
    BY <1>8, AssetMoves DEF Allocating
  <2>3. CASE WriteSold(s) /\ asset'.sold = NewSold(s)
    <3>1. req[s].pc = "holding" /\ Goto(s, "leave") /\ Job(s).op = "invest"
      BY <1>4, <2>3 DEF WriteSold, At, Fits, Allotting
    <3>2. req'[s].pc = "leave"
      BY <1>4, <3>1, GoOn DEF PCs
    <3>3. All' <= asset'.sold
      BY <1>3, <1>5, <2>1, <2>3, <3>1 DEF NewSold
    <3>4. \A t \in DOMAIN req : t # s => req'[t].pc \notin Spending \cup {"allot", "holding"}
      BY <1>6, <3>1 DEF Shopping, Allotting
    <3> QED BY <1>4, <3>2, <3>3, <3>4 DEF Others, Spending
  <2>4. CASE asset'.sold = asset.sold
    <3>1. All' <= asset'.sold
      BY <1>3, <1>5, <2>1, <2>4
    <3>2. ASSUME NEW t \in DOMAIN req, Job(t).op = "invest", t # s
          PROVE  /\ req'[t].pc \in Spending => asset'.sold = req'[t].snap.sold
                 /\ req'[t].pc = "allot" => req'[t].next = req'[t].snap.sold + Job(t).n
                 /\ req'[t].pc = "holding" => All' <= req'[t].snap.sold + Job(t).n
      <4>1. req'[t] = req[t]
        BY <1>4, <3>2 DEF Others
      <4> QED BY <1>3, <1>5, <2>1, <2>4, <3>2, <4>1
    <3>3. ASSUME Job(s).op = "invest", req'[s].pc \in Spending
          PROVE  asset'.sold = req'[s].snap.sold
      <4>1. CASE ReadAsset(s) /\ ~Leave(s)
        BY <2>4, <3>3, <4>1, ReadMoves
      <4>2. CASE req[s].pc \in Spending /\ ~ReadAsset(s)
        BY <1>3, <2>4, <3>3, <4>2, Course
      <4> QED BY <3>3, <4>1, <4>2, SpendingMoves
    <3>4. ASSUME Job(s).op = "invest", req'[s].pc = "allot"
          PROVE  req'[s].next = req'[s].snap.sold + Job(s).n
      <4>1. Fallback(s) /\ MayFallBack(Job(s)) /\ req'[s].next = Sold(asset) + Job(s).n
        BY <3>4, Ways
      <4>2. req'[s].snap.sold = asset.sold
        BY <2>4, <3>3, <3>4 DEF Spending
      <4>3. Ledger <= asset.sold
        <5>1. Ledger \in Nat /\ Ledger <= All
          <6>1. Job(s).who \in Investors
            BY <1>4, <3>4 DEF Fits
          <6> QED BY <1>4, <6>1, HeldBought
        <5> QED BY <1>3, <1>5, <5>1
      <4>4. Sold(asset) = asset.sold
        BY <1>4, <4>3, SoldType
      <4> QED BY <4>1, <4>2, <4>4
    <3>5. ASSUME Job(s).op = "invest", req'[s].pc = "holding"
          PROVE  All' <= req'[s].snap.sold + Job(s).n
      <4>1. DuplicatePurchase(s) \/ StartAllocation(s)
        BY <1>8, <3>5, Ways DEF Allocating
      <4>2. req[s].pc \in Spending /\ ~ReadAsset(s)
        BY <4>1 DEF DuplicatePurchase, StartAllocation, ReadAsset, At, Spending
      <4>3. req'[s].snap = req[s].snap /\ asset.sold = req[s].snap.sold
        BY <1>3, <3>5, <4>2, Course
      <4> QED BY <1>3, <1>5, <2>1, <4>3
    <3> QED BY <1>4, <1>5, <3>1, <3>2, <3>3, <3>4, <3>5 DEF Others
  <2> QED BY <2>2, <2>3, <2>4
<1> QED BY <1>2, <1>7, <1>8, <1>9 DEF Allocating

-----------------------------------------------------------------------------
(***************************************************************************)
(* What a buyout ended was paid for.                                       *)
(***************************************************************************)
BoughtOut(i) == Recorded(i, {"retired_bought_out"})
Out(i) == {p \in Positions : position[p].investor = i /\ position[p].status \in {"retired_bought_out"}}

LEMMA BoughtOutStays ==
  ASSUME TypeInv, NEW i \in Investors, position' \in Seq(Rows), Positions' = Positions,
         \A p \in Positions : p \in Out(i)' /\ position'[p].held > 0 =>
           p \in Out(i) /\ position'[p].held <= position[p].held
  PROVE  BoughtOut(i)' <= BoughtOut(i)
<1>1. position \in Seq(Rows) /\ position' \in Seq(Rows) /\ DOMAIN position' = DOMAIN position
      /\ Positions = DOMAIN position
  BY DEF TypeInv, Types, Positions
<1>2. PICK P : P = Out(i)
  OBVIOUS
<1>3. PICK P2 : P2 = Out(i)'
  OBVIOUS
<1>4. \A p \in DOMAIN position' : p \in P2 /\ position'[p].held > 0 =>
        p \in P /\ position'[p].held <= position[p].held
  BY <1>1, <1>2, <1>3
<1>5. Count(position', P2) <= Count(position, P)
  BY <1>1, <1>4, CountLeq
<1>6. BoughtOut(i) = Count(position, P) /\ BoughtOut(i)' = Count(position', P2)
  BY <1>2, <1>3 DEF BoughtOut, Recorded, Out
<1> QED BY <1>5, <1>6

LEMMA BoughtOutStep ==
  ASSUME TypeInv, NEW s \in DOMAIN req, Step(s), ~CompleteBuyout(s), NEW i \in Investors
  PROVE  BoughtOut(i)' <= BoughtOut(i)
<1>1. Types /\ RowsInv /\ position \in Seq(Rows)
  BY DEF TypeInv, Types
<1>2. CASE position' = position
  BY <1>1, <1>2, BoughtOutStays, RowType DEF Out, Positions
<1>3. CASE Reserve(s) \/ ReserveAnyway(s) \/ CancelRedemption(s) \/ SettleRedemption(s)
  <2>1. PICK p \in Positions : Reduced(p)
    BY <1>3, ReserveRow, ReserveAnywayRow, CancelRow, SettleRow
  <2>2. position' \in Seq(Rows) /\ Positions' = Positions
    BY <2>1 DEF Reduced, Positions
  <2>3. ASSUME NEW q \in Positions, q \in Out(i)', position'[q].held > 0
        PROVE  q \in Out(i) /\ position'[q].held <= position[q].held
    <3>1. position[q].held \in Nat
      BY <1>1, RowType
    <3>2. CASE q # p
      BY <2>1, <2>3, <3>1, <3>2 DEF Reduced, Out, Positions
    <3>3. CASE q = p
      <4>1. Lessened(position[p], position'[p])
        BY <2>1 DEF Reduced
      <4>2. position'[p].investor = i /\ position'[p].status = "retired_bought_out"
            /\ position'[p].held # 0
        BY <2>3, <3>3 DEF Out
      <4>3. position[p].investor = i /\ position[p].status = "retired_bought_out"
            /\ position'[p].held = position[p].held
        BY <4>1, <4>2 DEF Lessened
      <4>4. p \in Out(i)
        BY <4>3 DEF Out
      <4> QED BY <3>1, <3>3, <4>3, <4>4
    <3> QED BY <3>2, <3>3
  <2> QED BY <2>2, <2>3, BoughtOutStays
<1>4. CASE Delist(s)
  <2>1. RetireAll("retired_delisted") /\ "retired_delisted" \in Retired
    BY <1>4 DEF Delist, Retired
  <2>2. /\ position' \in Seq(Rows) /\ DOMAIN position' = Positions
        /\ \A p \in Positions :
             /\ position'[p].investor = position[p].investor
             /\ position'[p].held = position[p].held
             /\ position'[p].status = (IF position[p].status = "active" THEN "retired_delisted"
                                        ELSE position[p].status)
    BY <1>1, <2>1, RetiredRows
  <2>3. \A q \in Positions : q \in Out(i)' =>  q \in Out(i) /\ position'[q].held <= position[q].held
    BY <1>1, <2>2, RowType DEF Out, Positions
  <2> QED BY <2>2, <2>3, BoughtOutStays DEF Positions
<1>5. CASE Allocating(s)
  <2>1. Grown(Job(s)) /\ Job(s) \in Jobs /\ Job(s).who \in Investors
    BY <1>5, AllocatingRows DEF Grown
  <2>2. CASE Appended(Job(s))
    <3>1. PICK copy \in {NoCopy, CopyOf(Job(s))} : position' = Append(position, NewPosition(Job(s), copy))
      BY <2>2 DEF Appended
    <3> DEFINE row == NewPosition(Job(s), copy)
               y == Len(position) + 1
    <3>2. row \in Rows /\ row.held = Job(s).n /\ row.status = "active"
      BY <2>1, NewPositionType
    <3> HIDE DEF row
    <3>3. /\ DOMAIN position' = DOMAIN position \cup {y} /\ y \notin DOMAIN position
          /\ position'[y] = row /\ \A q \in DOMAIN position : position'[q] = position[q]
      BY <1>1, <3>1, <3>2, AppendRow DEF row
    <3> HIDE DEF y
    <3> DEFINE P == Out(i)
               P2 == {p \in Positions' : position'[p].investor = i /\ position'[p].status \in {"retired_bought_out"}}
    <3>6. (\A q \in DOMAIN position : q \in P <=> q \in P2) /\ y \notin P2
      BY <3>2, <3>3 DEF Out, Positions
    <3>5. P2 = Out(i)'
      BY DEF Out
    <3> HIDE DEF P, P2
    <3>7. Count(Append(position, row), P2)
            = Count(position, P) + (IF Len(position) + 1 \in P2 THEN row.held ELSE 0)
      <4>1. position \in Seq(Rows) /\ row \in Rows /\ row.held = Job(s).n
        BY <1>1, <3>2
      <4> QED BY <3>6, <4>1, CountAppend
    <3>8. Count(position', P2) = Count(position, P) + 0
      BY <3>1, <3>6, <3>7 DEF row, y
    <3>9. Count(position, P) \in Nat
      BY <1>1, CountType
    <3>10. BoughtOut(i) = Count(position, P) /\ BoughtOut(i)' = Count(position', P2)
      BY <3>5 DEF BoughtOut, Recorded, Out, P
    <3> QED BY <3>8, <3>9, <3>10
  <2>3. CASE position' \in Seq(Rows) /\ \E p \in Positions : Enlarged(Job(s), p)
    <3>1. PICK p \in Positions : Enlarged(Job(s), p)
      BY <2>3
    <3>2. \A q \in Positions : q \in Out(i)' => q \in Out(i) /\ position'[q].held <= position[q].held
      BY <1>1, <3>1, RowType DEF Enlarged, Out, Positions
    <3>3. Positions' = Positions
      BY <3>1 DEF Enlarged, Positions
    <3> QED BY <2>3, <3>2, <3>3, BoughtOutStays
  <2> QED BY <2>1, <2>2, <2>3 DEF Grown
<1> QED BY <1>2, <1>3, <1>4, <1>5, RowsMove

(* A buyout ends what is held, and counts it as it ends it.                *)
LEMMA BuyoutCounts ==
  ASSUME TypeInv, NEW s \in DOMAIN req, CompleteBuyout(s), NEW i \in Investors
  PROVE  BoughtOut(i)' = BoughtOut(i) + Held(i)
<1>1. Types /\ RowsInv /\ position \in Seq(Rows) /\ Positions = DOMAIN position
  BY DEF TypeInv, Types, Positions
<1>2. RetireAll("retired_bought_out") /\ "retired_bought_out" \in Retired
  BY DEF CompleteBuyout, Retired
<1>3. /\ position' \in Seq(Rows) /\ DOMAIN position' = Positions
      /\ \A p \in Positions :
           /\ position'[p].investor = position[p].investor
           /\ position'[p].held = position[p].held
           /\ position'[p].status = (IF position[p].status = "active" THEN "retired_bought_out"
                                      ELSE position[p].status)
  BY <1>1, <1>2, RetiredRows
<1>4. PICK P : P = Out(i)
  OBVIOUS
<1>5. PICK P2 : P2 = Out(i)'
  OBVIOUS
<1>6. PICK Q : Q = {p \in Active : position[p].investor = i}
  OBVIOUS
<1>7. /\ \A p \in DOMAIN position : p \in P2 /\ position[p].held > 0 => p \in P \/ p \in Q
      /\ \A p \in DOMAIN position : p \in P \/ p \in Q => p \in P2
      /\ \A p \in DOMAIN position : ~(p \in P /\ p \in Q)
  BY <1>1, <1>3, <1>4, <1>5, <1>6 DEF Out, Positions, Active
<1>8. Count(position, P2) = Count(position, P) + Count(position, Q)
  BY <1>1, <1>7, CountPlus
<1>9. Count(position', P2) = Count(position, P2)
  BY <1>1, <1>3, CountSame
<1>10. /\ BoughtOut(i) = Count(position, P) /\ BoughtOut(i)' = Count(position', P2)
       /\ Held(i) = Count(position, Q)
  BY <1>4, <1>5, <1>6 DEF BoughtOut, Recorded, Out, Held
<1> QED BY <1>8, <1>9, <1>10

LEMMA PaidMoves ==
  ASSUME NEW s \in DOMAIN req, Step(s), \A i \in Investors : ~PayInvestor(s, i)
  PROVE  paidOut' = paidOut
BY DEF Step, LedgerStep, CheckoutStep, Enter, TurnAway, ReadAsset, Claim, Pay, Refuse, Throw,
       CreateOrder, WriteSold, Finish, StartAllocation, DuplicatePurchase, Purchase, PurchaseRpc,
       LosePurchaseAnswer, RejectPurchase, Fallback, Allot, AllotUnwritten, Allotted,
       QuoteRedemption, Reserve, ReserveAnyway, FindRequest, CancelRedemption, SettleRedemption,
       StartDelisting, RefuseDelisting, Delist, StartRelease, Transfer, Distribute,
       AbandonBuyout, CompleteBuyout, ledger, history

LEMMA PaidStep ==
  ASSUME TypeInv, QueueInv, PaidInv, NEW s \in DOMAIN req, Step(s)
  PROVE  PaidInv'
<1>1. Types /\ TypeInv' /\ Others(s)
  BY Course, TypesStep DEF TypeInv, Next, Step
<1>2. /\ \A i \in Investors : BoughtOut(i) <= paidOut[i]
      /\ \A t \in DOMAIN req : req[t].pc = "paying" =>
           \A i \in Investors \ req[t].due : BoughtOut(i) + Held(i) <= paidOut[i]
  BY DEF PaidInv, RetiredMeansPaid, BoughtOut, At
<1>3. /\ paidOut \in [Investors -> Nat] /\ paidOut' \in [Investors -> Nat]
      /\ \A i \in Investors : BoughtOut(i) \in Nat /\ BoughtOut(i)' \in Nat
                              /\ Held(i) \in Nat /\ Held(i)' \in Nat
  <2>1. position \in Seq(Rows) /\ position' \in Seq(Rows)
        /\ paidOut \in [Investors -> Nat] /\ paidOut' \in [Investors -> Nat]
    BY <1>1 DEF TypeInv, Types
  <2> QED BY <2>1, CountType DEF BoughtOut, Recorded, Held
<1>4. SUFFICES /\ \A i \in Investors : BoughtOut(i)' <= paidOut'[i]
               /\ \A t \in DOMAIN req : req'[t].pc = "paying" =>
                    \A i \in Investors \ req'[t].due : BoughtOut(i)' + Held(i)' <= paidOut'[i]
  BY <1>1 DEF PaidInv, RetiredMeansPaid, BoughtOut, At, Others
<1>5. CASE CompleteBuyout(s)
  <2>1. req[s].pc = "paying" /\ req[s].due = {} /\ Holds(s) /\ Goto(s, "end")
        /\ (\A i \in Investors : ~PayInvestor(s, i))
    <3>1. ASSUME NEW i \in Investors, PayInvestor(s, i) PROVE FALSE
      BY <1>5, <3>1 DEF CompleteBuyout, AllPaid, PayInvestor
    <3> QED BY <1>5, <3>1 DEF CompleteBuyout, AllPaid, At
  <2>2. paidOut' = paidOut
    BY <2>1, PaidMoves
  <2>3. \A i \in Investors : BoughtOut(i)' = BoughtOut(i) + Held(i)
    BY <1>5, BuyoutCounts
  <2>4. \A t \in DOMAIN req : req'[t].pc # "paying"
    <3>1. req'[s].pc = "end"
      BY <1>1, <2>1, GoOn DEF PCs
    <3>2. \A t \in DOMAIN req : t # s => req[t].pc # "paying"
      BY <2>1, AloneWithLock
    <3> QED BY <1>1, <3>1, <3>2 DEF Others
  <2> QED BY <1>2, <2>1, <2>2, <2>3, <2>4
<1>6. ASSUME NEW j \in Investors, PayInvestor(s, j)
      PROVE  /\ \A i \in Investors : BoughtOut(i)' <= paidOut'[i]
             /\ \A t \in DOMAIN req : req'[t].pc = "paying" =>
                  \A i \in Investors \ req'[t].due : BoughtOut(i)' + Held(i)' <= paidOut'[i]
  <2>1. position' = position /\ paidOut' = [paidOut EXCEPT ![j] = paidOut[j] + Held(j)]
        /\ req[s].pc = "paying" /\ Holds(s) /\ req' = [req EXCEPT ![s].due = req[s].due \ {j}]
    BY <1>6 DEF PayInvestor, ledger, At
  <2>2. \A i \in Investors : BoughtOut(i)' = BoughtOut(i) /\ Held(i)' = Held(i)
    BY <2>1 DEF BoughtOut, Recorded, Held, Active, Positions
  <2>3. \A i \in Investors : paidOut[i] <= paidOut'[i]
    BY <1>3, <2>1
  <2>4. BoughtOut(j) + Held(j) <= paidOut'[j]
    BY <1>2, <1>3, <2>1
  <2>5. \A i \in Investors : BoughtOut(i)' <= paidOut'[i]
    BY <1>2, <1>3, <2>2, <2>3
  <2>6. ASSUME NEW t \in DOMAIN req, req'[t].pc = "paying", NEW i \in Investors \ req'[t].due
        PROVE  BoughtOut(i)' + Held(i)' <= paidOut'[i]
    <3>1. t = s
      BY <1>1, <2>1, <2>6, AloneWithLock DEF Others
    <3>2. req'[s].due = req[s].due \ {j}
      BY <1>1, <2>1 DEF Types, Visits
    <3>3. CASE i = j
      BY <2>2, <2>4, <3>3
    <3>4. CASE i # j
      <4>1. BoughtOut(i) + Held(i) <= paidOut[i]
        BY <1>2, <2>1, <2>6, <3>1, <3>2, <3>4
      <4> QED BY <1>3, <2>2, <2>3, <4>1
    <3> QED BY <3>3, <3>4
  <2> QED BY <2>5, <2>6
<1>7. CASE ~CompleteBuyout(s) /\ \A j \in Investors : ~PayInvestor(s, j)
  <2>1. paidOut' = paidOut /\ \A i \in Investors : BoughtOut(i)' <= BoughtOut(i)
    BY <1>7, PaidMoves, BoughtOutStep
  <2>2. \A i \in Investors : BoughtOut(i)' <= paidOut'[i]
    BY <1>2, <1>3, <2>1
  <2>3. ASSUME NEW t \in DOMAIN req, req'[t].pc = "paying", NEW i \in Investors \ req'[t].due
        PROVE  BoughtOut(i)' + Held(i)' <= paidOut'[i]
    <3>1. CASE t = s
      <4>0. ASSUME NEW j \in req[s].due PROVE j \in Investors
        BY <1>1 DEF Types, Visits
      <4>1. Distribute(s) /\ req'[s].due = Shareholders
        BY <1>7, <2>3, <3>1, <4>0, Ways
      <4>2. position' = position /\ i \notin Shareholders
        BY <2>3, <3>1, <4>1 DEF Distribute
      <4>3. Held(i) = 0
        <5>1. \A p \in DOMAIN position : p \in {q \in Active : position[q].investor = i} => position[p].held = 0
          BY <4>2 DEF Shareholders
        <5>2. position \in Seq(Rows)
          BY <1>1 DEF Types
        <5> QED BY <5>1, <5>2, CountZero DEF Held
      <4>4. Held(i)' = Held(i)
        BY <4>2 DEF Held, Active, Positions
      <4> QED BY <1>3, <2>2, <4>3, <4>4
    <3>2. CASE t # s
      <4>1. req'[t] = req[t]
        BY <1>1, <3>2 DEF Others
      <4>2. ~Holds(s)
        BY <2>3, <3>2, <4>1, AloneWithLock
      <4>3. position' = position
        BY <4>2, RowsMove, AllocatingCounts
      <4>4. Held(i)' = Held(i)
        BY <4>3 DEF Held, Active, Positions
      <4>5. BoughtOut(i) + Held(i) <= paidOut[i]
        BY <1>2, <2>3, <4>1
      <4> QED BY <1>3, <2>1, <4>4, <4>5
    <3> QED BY <3>1, <3>2
  <2> QED BY <2>2, <2>3
<1> QED BY <1>5, <1>6, <1>7

-----------------------------------------------------------------------------
(***************************************************************************)
(* Shares asked back by requests that nothing has ended.                   *)
(***************************************************************************)
LEMMA WeightType ==
  ASSUME NEW rows \in Seq(Requests), NEW p
  PROVE  /\ DOMAIN rows = 1..Len(rows) /\ Len(rows) \in Nat /\ IsFiniteSet(DOMAIN rows)
         /\ \A k \in DOMAIN rows : rows[k] \in Requests /\ rows[k].n \in Nat /\ rows[k].on \in Nat
         /\ Weight(rows, p) \in [DOMAIN rows -> Nat]
         /\ Total(Weight(rows, p)) \in Nat
<1>1. DOMAIN rows = 1..Len(rows) /\ Len(rows) \in Nat
  OBVIOUS
<1>2. IsFiniteSet(1..Len(rows))
  BY <1>1, FS_Interval
<1>3. \A k \in DOMAIN rows : rows[k] \in Requests
  OBVIOUS
<1>4. \A k \in DOMAIN rows : rows[k].n \in Nat /\ rows[k].on \in Nat
  BY <1>3 DEF Requests
<1>5. Weight(rows, p) \in [DOMAIN rows -> Nat]
  BY <1>4 DEF Weight
<1>6. PICK S : S = DOMAIN rows
  OBVIOUS
<1>7. PICK f : f = Weight(rows, p)
  OBVIOUS
<1>8. IsFiniteSet(S) /\ f \in [S -> Nat]
  BY <1>1, <1>2, <1>5, <1>6, <1>7
<1>9. Total(f) \in Nat
  BY <1>8, TotalType
<1> QED BY <1>1, <1>2, <1>3, <1>4, <1>5, <1>7, <1>9

LEMMA WeightLeq ==
  ASSUME NEW rows \in Seq(Requests), NEW rows2 \in Seq(Requests), DOMAIN rows2 = DOMAIN rows, NEW p,
         \A k \in DOMAIN rows : rows2[k].on = rows[k].on /\ rows2[k].n = rows[k].n
                                /\ (Live(rows2[k]) => Live(rows[k]))
  PROVE  Total(Weight(rows2, p)) <= Total(Weight(rows, p))
<1>1. PICK f : f = Weight(rows, p)
  OBVIOUS
<1>2. PICK g : g = Weight(rows2, p)
  OBVIOUS
<1>3. PICK S : S = DOMAIN rows
  OBVIOUS
<1>4. IsFiniteSet(S) /\ f \in [S -> Nat] /\ g \in [S -> Nat]
  BY <1>1, <1>2, <1>3, WeightType
<1>5. ASSUME NEW k \in S PROVE g[k] <= f[k]
  <2>1. rows[k].n \in Nat /\ k \in DOMAIN rows
    BY <1>3, WeightType
  <2>2. g[k] = IF rows[k].on = p /\ Live(rows2[k]) THEN rows[k].n ELSE 0
    BY <1>2, <2>1 DEF Weight
  <2>3. f[k] = IF rows[k].on = p /\ Live(rows[k]) THEN rows[k].n ELSE 0
    BY <1>1, <2>1 DEF Weight
  <2> QED BY <2>1, <2>2, <2>3
<1>6. Total(g) <= Total(f)
  BY <1>4, <1>5, TotalLeq
<1> QED BY <1>1, <1>2, <1>6

LEMMA WeightAppend ==
  ASSUME NEW rows \in Seq(Requests), NEW r \in Requests, Live(r), NEW p
  PROVE  Total(Weight(Append(rows, r), p))
           = Total(Weight(rows, p)) + (IF r.on = p THEN r.n ELSE 0)
<1>0. PICK rows2 : rows2 = Append(rows, r)
  OBVIOUS
<1> DEFINE y == Len(rows) + 1
<1>1. /\ rows2 \in Seq(Requests) /\ DOMAIN rows2 = DOMAIN rows \cup {y} /\ y \notin DOMAIN rows
      /\ rows2[y] = r /\ \A q \in DOMAIN rows : rows2[q] = rows[q]
  BY <1>0, AppendRow
<1> HIDE DEF y
<1>2. PICK f : f = Weight(rows, p)
  OBVIOUS
<1>3. PICK g : g = Weight(rows2, p)
  OBVIOUS
<1>4. PICK S : S = DOMAIN rows
  OBVIOUS
<1>5. IsFiniteSet(S) /\ f \in [S -> Nat] /\ g \in [S \cup {y} -> Nat] /\ y \notin S
  BY <1>1, <1>2, <1>3, <1>4, WeightType
<1>6. (\A k \in S : g[k] = f[k]) /\ g[y] = (IF r.on = p THEN r.n ELSE 0)
  BY <1>1, <1>2, <1>3, <1>4 DEF Weight
<1>7. Total(g) = Total(f) + g[y]
  <2>1. \A u \in [S -> Nat], v \in [S \cup {y} -> Nat] :
          (\A q \in S : v[q] = u[q]) => Total(v) = Total(u) + v[y]
    BY <1>5, TotalGrow, Zenon
  <2> QED BY <1>5, <1>6, <2>1
<1> QED BY <1>0, <1>2, <1>3, <1>6, <1>7

LEMMA WeightClose ==
  ASSUME NEW rows \in Seq(Requests), NEW rows2 \in Seq(Requests), DOMAIN rows2 = DOMAIN rows, NEW p,
         NEW k \in DOMAIN rows, Live(rows[k]), ~Live(rows2[k]),
         \A j \in DOMAIN rows : j # k => rows2[j] = rows[j]
  PROVE  /\ Total(Weight(rows2, p)) = Total(Weight(rows, p)) - (IF rows[k].on = p THEN rows[k].n ELSE 0)
         /\ rows[k].on = p => rows[k].n <= Total(Weight(rows, p))
<1>1. PICK f : f = Weight(rows, p)
  OBVIOUS
<1>2. PICK g : g = Weight(rows2, p)
  OBVIOUS
<1>3. PICK S : S = DOMAIN rows
  OBVIOUS
<1>4. IsFiniteSet(S) /\ f \in [S -> Nat] /\ g \in [S -> Nat] /\ k \in S
  BY <1>1, <1>2, <1>3, WeightType
<1>5. (\A j \in S : j # k => g[j] = f[j]) /\ g[k] = 0 /\ f[k] = (IF rows[k].on = p THEN rows[k].n ELSE 0)
  BY <1>1, <1>2, <1>3 DEF Weight
<1>6. g = [f EXCEPT ![k] = 0]
  BY <1>4, <1>5
<1>7. Total([f EXCEPT ![k] = 0]) = Total(f) - f[k] + 0
  <2>1. 0 \in Nat
    OBVIOUS
  <2> QED BY <1>4, <2>1, TotalPut, Zenon
<1>8. f[k] <= Total(f)
  BY <1>4, TotalMember, Zenon
<1>9. Total(f) \in Nat /\ f[k] \in Nat
  BY <1>4, TotalType
<1>10. Total(g) = Total(f) - f[k]
  <2>1. Total(g) = Total(f) - f[k] + 0
    BY <1>6, <1>7, Zenon
  <2> QED BY <1>9, <2>1
<1> QED BY <1>1, <1>2, <1>5, <1>8, <1>10

(* The slips of a step, and the numbers it counts.                         *)
LEMMA ExactSlips ==
  ASSUME TypeInv, NEW s \in DOMAIN req, Step(s), ~Happened(Uncertain)'
  PROVE  /\ ~Happened(Uncertain) /\ ~LosePurchaseAnswer(s) /\ ~AllotUnwritten(s)
         /\ Purchase(s) => Merged(Job(s)) = {}
         /\ CancelRedemption(s) \/ SettleRedemption(s) =>
              /\ Live(request[Job(s).on])
              /\ position'[request[Job(s).on].on].reserved
                   >= Less(position[request[Job(s).on].on].reserved, request[Job(s).on].n)
         /\ ReserveAnyway(s) =>
              position'[Job(s).on].reserved >= position[Job(s).on].reserved + Job(s).n
<1>1. /\ slips \subseteq slips' /\ slips' \cap Uncertain = {}
      /\ ~LosePurchaseAnswer(s) /\ ~AllotUnwritten(s)
  BY SlipsStay DEF Happened, Uncertain
<1>2. ~Happened(Uncertain)
  BY <1>1 DEF Happened
<1>3. Purchase(s) => Merged(Job(s)) = {}
  BY <1>1 DEF Purchase, Uncertain
<1>4. TypeInv'
  BY TypesStep DEF Next, Step
<1>5. \A p \in Positions' : position'[p].reserved \in Nat
  BY <1>4, RowsAre DEF TypeInv, Types, Positions, Rows
<1>6. ASSUME CancelRedemption(s) \/ SettleRedemption(s)
      PROVE  /\ Live(request[Job(s).on])
             /\ position'[request[Job(s).on].on].reserved
                  >= Less(position[request[Job(s).on].on].reserved, request[Job(s).on].n)
  <2> DEFINE k == Job(s).on
             p == request[k].on
             due == Less(position[p].reserved, request[k].n)
  <2>1. slips' = slips \cup (IF Overtaken(k) THEN {"overtaken"} ELSE {}) \cup Forgets(p, due)
    BY <1>6 DEF CancelRedemption, SettleRedemption
  <2>2. ~Overtaken(k) /\ Forgets(p, due) # {"forgotten"}
    BY <1>1, <2>1 DEF Uncertain
  <2>3. ~(position'[p].reserved < due)
    BY <2>2 DEF Forgets
  <2>4. p \in Positions /\ Reduced(p) /\ request[k].n \in Nat
    <3>1. k \in DOMAIN request /\ p \in Positions /\ Reduced(p)
      BY <1>6, CancelRow, SettleRow
    <3> QED BY <3>1, WeightType DEF TypeInv, Types
  <2>5. position[p].reserved \in Nat /\ position'[p].reserved \in Nat
    BY <1>5, <2>4, RowType DEF TypeInv, Reduced, Positions
  <2>6. due \in Nat
    BY <2>4, <2>5, LessType
  <2> QED BY <2>2, <2>3, <2>5, <2>6 DEF Overtaken, Live
<1>7. ASSUME ReserveAnyway(s)
      PROVE  position'[Job(s).on].reserved >= position[Job(s).on].reserved + Job(s).n
  <2> DEFINE p == Job(s).on
             due == position[p].reserved + Job(s).n
  <2>1. Forgets(p, due) # {"forgotten"}
    BY <1>1, <1>7 DEF ReserveAnyway, Uncertain
  <2>2. ~(position'[p].reserved < due)
    BY <2>1 DEF Forgets
  <2>3. p \in Positions /\ Reduced(p) /\ Job(s).n \in Nat
    BY <1>7, ReserveAnywayRow
  <2>4. position[p].reserved \in Nat /\ position'[p].reserved \in Nat
    BY <1>5, <2>3, RowType DEF TypeInv, Reduced, Positions
  <2> QED BY <2>2, <2>3, <2>4
<1> QED BY <1>1, <1>2, <1>3, <1>6, <1>7

(* The steps that allocate or change what a row has reserved, for Exact.   *)
LEMMA ExactAllocating ==
  ASSUME TypeInv, Exact, NEW s \in DOMAIN req, Step(s), Purchase(s) \/ Allot(s),
         ~Happened(Uncertain)'
  PROVE  Exact'
<1>1. Types /\ position \in Seq(Rows) /\ request \in Seq(Requests)
      /\ settled \in [Investors -> Nat] /\ bought \in [Investors -> Nat]
  BY DEF TypeInv, Types
<1>2. Job(s) \in Jobs /\ Job(s).who \in Investors /\ Job(s).n \in Nat
  BY AllocatingRows DEF Allocating
<1>3. position' = Append(position, NewPosition(Job(s), CopyOf(Job(s)))) /\ settled' = settled
      /\ bought' = [bought EXCEPT ![Job(s).who] = bought[Job(s).who] + Job(s).n]
      /\ request' = request
  <2>1. CASE Purchase(s)
    BY <2>1, ExactSlips DEF Purchase, PurchaseRpc, Purchased
  <2>2. CASE Allot(s)
    BY <2>2 DEF Allot, Allotted
  <2> QED BY <2>1, <2>2
<1> DEFINE row == NewPosition(Job(s), CopyOf(Job(s)))
           y == Len(position) + 1
<1>4. /\ row \in Rows /\ row.held = Job(s).n /\ row.reserved = 0 /\ row.copy = CopyOf(Job(s))
  BY <1>2, NewPositionType
<1>5. CopyOf(Job(s)) # NoCopy /\ CopyOf(Job(s)).held = Job(s).n /\ CopyOf(Job(s)).reserved = 0
  <2>1. CopyOf(Job(s)).status # NoCopy.status
    BY DEF CopyOf, NoCopy
  <2> QED BY <2>1 DEF CopyOf
<1> HIDE DEF row
<1>6. /\ DOMAIN position' = DOMAIN position \cup {y} /\ y \notin DOMAIN position
      /\ position'[y] = row /\ \A q \in DOMAIN position : position'[q] = position[q]
  BY <1>1, <1>3, <1>4, AppendRow DEF row
<1> HIDE DEF y
<1>7. \A i \in Investors : Bought(i)' = Bought(i) + IF i = Job(s).who THEN Job(s).n ELSE 0
  BY AllocatingCounts DEF Allocating
<1>8. \A i \in Investors : (Bought(i) + settled[i] = bought[i])'
  <2>1. \A i \in Investors : Bought(i) \in Nat /\ settled[i] \in Nat /\ bought[i] \in Nat
    BY <1>1, HeldBought
  <2> QED BY <1>1, <1>2, <1>3, <1>7, <2>1 DEF Exact
<1>9. \A k \in DOMAIN request' : request'[k].cached # "none"
  BY <1>3 DEF Exact
<1>10. ASSUME NEW p \in Positions'
       PROVE  /\ position'[p].copy # NoCopy
              /\ position'[p].copy.held = position'[p].held
              /\ position'[p].copy.reserved <= position'[p].reserved
              /\ Total(Weight(request', p)) <= position'[p].reserved
  <2>1. CASE p \in Positions
    BY <1>3, <1>6, <2>1 DEF Exact, Pending, Positions
  <2>2. CASE p = y
    <3>1. Weight(request, p) \in [DOMAIN request -> Nat] /\ \A k \in DOMAIN request : Weight(request, p)[k] = 0
      <4>1. \A k \in DOMAIN request : request[k].on # p
        BY <1>6, <2>2 DEF TypeInv, RowsInv, Positions
      <4> QED BY <1>1, <4>1, WeightType DEF Weight
    <3>2. PICK f : f = Weight(request, p)
      OBVIOUS
    <3>3. Total(f) = 0
      BY <3>1, <3>2, TotalZero
    <3> QED BY <1>3, <1>4, <1>5, <1>6, <2>2, <3>2, <3>3
  <2> QED BY <1>6, <2>1, <2>2 DEF Positions
<1> QED BY <1>8, <1>9, <1>10 DEF Exact, Pending

(* A step that keeps the rows' numbers and at most ends requests.          *)
LEMMA ExactKept ==
  ASSUME Types, Types', Exact, DOMAIN position' = Positions,
         \A p \in Positions :
           /\ position'[p].investor = position[p].investor
           /\ position'[p].held = position[p].held
           /\ position'[p].reserved = position[p].reserved
           /\ position'[p].copy.held = position[p].copy.held
           /\ position'[p].copy.reserved = position[p].copy.reserved
           /\ (position'[p].copy = NoCopy => position[p].copy = NoCopy),
         DOMAIN request' = DOMAIN request,
         \A k \in DOMAIN request :
           /\ request'[k].on = request[k].on /\ request'[k].n = request[k].n
           /\ (Live(request'[k]) => Live(request[k]))
           /\ (request'[k].cached = "none" => request[k].cached = "none"),
         UNCHANGED <<bought, settled>>
  PROVE  Exact'
<1>1. request \in Seq(Requests) /\ request' \in Seq(Requests) /\ position' \in Seq(Rows)
      /\ position \in Seq(Rows)
  BY DEF Types
<1>2. Kept
  BY <1>1 DEF Kept
<1>3. \A i \in Investors : Bought(i)' = Bought(i)
  BY <1>2, KeptCounts
<1>4. \A i \in Investors : (Bought(i) + settled[i] = bought[i])'
  BY <1>3 DEF Exact
<1>5. \A k \in DOMAIN request' : request'[k].cached # "none"
  BY DEF Exact
<1>6. ASSUME NEW p \in Positions
      PROVE  /\ position'[p].copy # NoCopy
             /\ position'[p].copy.held = position'[p].held
             /\ position'[p].copy.reserved <= position'[p].reserved
             /\ Total(Weight(request', p)) <= position'[p].reserved
  <2>1. Total(Weight(request', p)) <= Total(Weight(request, p))
    BY <1>1, WeightLeq
  <2>2. Total(Weight(request', p)) \in Nat /\ Total(Weight(request, p)) \in Nat
    BY <1>1, WeightType
  <2>3. Total(Weight(request, p)) <= position[p].reserved
    BY DEF Exact, Pending
  <2>4. position[p].reserved \in Nat
    BY <1>1, RowsAre DEF Positions, Rows
  <2> QED BY <2>1, <2>2, <2>3, <2>4 DEF Exact
<1> QED BY <1>4, <1>5, <1>6 DEF Exact, Pending, Positions

(* A step that changes one row of shares.                                  *)
LEMMA ExactReduced ==
  ASSUME Types, Types', Exact, NEW p \in Positions, Reduced(p),
         position'[p].copy # NoCopy,
         position'[p].copy.held = position'[p].held,
         position'[p].copy.reserved <= position'[p].reserved,
         Total(Weight(request', p)) <= position'[p].reserved,
         \A q \in Positions : q # p => Total(Weight(request', q)) <= Total(Weight(request, q)),
         \A k \in DOMAIN request' : request'[k].cached # "none",
         \A i \in Investors : (Bought(i) + settled[i] = bought[i])'
  PROVE  Exact'
<1>1. request \in Seq(Requests) /\ request' \in Seq(Requests) /\ position \in Seq(Rows)
  BY DEF Types
<1>2. ASSUME NEW q \in Positions
      PROVE  /\ position'[q].copy # NoCopy
             /\ position'[q].copy.held = position'[q].held
             /\ position'[q].copy.reserved <= position'[q].reserved
             /\ Total(Weight(request', q)) <= position'[q].reserved
  <2>1. CASE q = p
    BY <2>1
  <2>2. CASE q # p
    <3>1. position'[q] = position[q]
      BY <2>2 DEF Reduced
    <3>2. Total(Weight(request', q)) \in Nat /\ Total(Weight(request, q)) \in Nat
      BY <1>1, WeightType
    <3>3. Total(Weight(request, q)) <= position[q].reserved
      BY DEF Exact, Pending
    <3>4. position[q].reserved \in Nat
      BY <1>1, RowsAre DEF Positions, Rows
    <3>5. Total(Weight(request', q)) <= Total(Weight(request, q))
      BY <2>2
    <3> QED BY <3>1, <3>2, <3>3, <3>4, <3>5 DEF Exact
  <2> QED BY <2>1, <2>2
<1>3. DOMAIN position' = Positions
  BY DEF Reduced
<1> QED BY <1>2, <1>3 DEF Exact, Pending, Positions

LEMMA ExactReserving ==
  ASSUME TypeInv, Exact, NEW s \in DOMAIN req, Step(s), Reserve(s) \/ ReserveAnyway(s),
         ~Happened(Uncertain)'
  PROVE  Exact'
<1>1. Types /\ Types' /\ RowsInv /\ request \in Seq(Requests) /\ position \in Seq(Rows)
  BY TypesStep DEF TypeInv, Types, Next, Step
<1> DEFINE p == Job(s).on
           n == Job(s).n
           old == position[p]
           new == position'[p]
<1>2. p \in Positions /\ Reduced(p) /\ n \in Nat /\ new.held = old.held
      /\ new.copy.held = old.copy.held /\ UNCHANGED <<bought, settled>>
  BY ReserveRow, ReserveAnywayRow DEF Reserve, ReserveAnyway, history
<1>3. /\ old.copy # NoCopy /\ old.copy.held = old.held /\ old.copy.reserved <= old.reserved
      /\ Total(Weight(request, p)) <= old.reserved
  BY <1>2 DEF Exact, Pending
<1>4. /\ old.reserved \in Nat /\ old.copy.reserved \in Nat /\ new.reserved \in Nat
      /\ new.copy.reserved \in Nat /\ new \in Rows /\ old.held \in Nat
  <2>1. position' \in Seq(Rows) /\ DOMAIN position' = Positions
    BY <1>2 DEF Reduced
  <2>2. position'[p] \in Rows
    BY <1>2, <2>1, RowsAre
  <2>3. new.reserved \in Nat /\ new.copy \in Copies
    BY <2>2 DEF Rows
  <2>4. new.copy.reserved \in Nat
    BY <2>3 DEF Copies, NoCopy
  <2> QED BY <1>1, <1>2, <2>2, <2>3, <2>4, RowType
<1>5. new.copy # NoCopy /\ new.copy.reserved <= new.reserved /\ new.reserved >= old.reserved + n
  <2>1. CASE Reserve(s)
    <3>1. new.copy = old.copy /\ new.reserved = old.reserved + n
      BY <2>1, ReserveRow
    <3> QED BY <1>2, <1>3, <1>4, <3>1
  <2>2. CASE ReserveAnyway(s)
    <3>1. new.copy # NoCopy /\ new.copy.reserved = old.copy.reserved + n
          /\ new.reserved = Checked(old, old.copy.reserved + n)
      BY <1>3, <2>2, ReserveAnywayRow
    <3>2. new.reserved >= old.reserved + n
      BY <2>2, ExactSlips
    <3> QED BY <1>2, <1>3, <1>4, <3>1, <3>2 DEF Checked
  <2> QED BY <2>1, <2>2
<1>6. PICK db \in {"none", "pending_review"} :
        request' = Append(request, NewRequest(Job(s), db, "pending_review"))
  BY DEF Reserve, ReserveAnyway
<1> DEFINE r == NewRequest(Job(s), db, "pending_review")
<1>7. r \in Requests /\ r.on = p /\ r.n = n /\ Live(r) /\ r.cached = "pending_review"
  <2>1. p \in Nat
    BY <1>1, <1>2, RowsAre DEF Positions
  <2> QED BY <1>2, <2>1 DEF NewRequest, Requests, RowStatus, CachedStatus, Open, Live
<1> HIDE DEF r
<1>8. \A q : Total(Weight(request', q)) = Total(Weight(request, q)) + (IF r.on = q THEN r.n ELSE 0)
  <2>1. request' = Append(request, r)
    BY <1>6 DEF r
  <2> QED BY <1>1, <1>7, <2>1, WeightAppend
<1>9. \A q : Total(Weight(request, q)) \in Nat
  BY <1>1, WeightType
<1>10. Total(Weight(request', p)) <= new.reserved
  <2>1. Total(Weight(request', p)) = Total(Weight(request, p)) + n
    BY <1>7, <1>8
  <2> HIDE DEF n, p, old, new
  <2> QED BY <1>2, <1>3, <1>4, <1>5, <1>9, <2>1
<1>11. \A q \in Positions : q # p => Total(Weight(request', q)) <= Total(Weight(request, q))
  <2>1. \A q \in Positions : q # p => Total(Weight(request', q)) = Total(Weight(request, q)) + 0
    BY <1>7, <1>8
  <2> QED BY <1>9, <2>1
<1>12. \A k \in DOMAIN request' : request'[k].cached # "none"
  <2>1. request' = Append(request, r)
    BY <1>6 DEF r
  <2>2. \A k \in DOMAIN request : request[k].cached # "none"
    BY DEF Exact
  <2> DEFINE y == Len(request) + 1
  <2>3. DOMAIN request' = DOMAIN request \cup {y}
        /\ request'[y] = r /\ \A q \in DOMAIN request : request'[q] = request[q]
    BY <1>1, <1>7, <2>1, AppendRow
  <2> QED BY <1>7, <2>2, <2>3
<1>13. \A i \in Investors : (Bought(i) + settled[i] = bought[i])'
  <2>1. Kept
    BY <1>2 DEF Kept, Reduced, Lessened
  <2>2. \A i \in Investors : Bought(i)' = Bought(i)
    BY <1>1, <2>1, KeptCounts
  <2> QED BY <1>2, <2>2 DEF Exact
<1> HIDE DEF p, new, old
<1> QED BY <1>1, <1>2, <1>3, <1>5, <1>10, <1>11, <1>12, <1>13, ExactReduced DEF new, old

(* Ending a request frees what it asked for, and nothing else.             *)
LEMMA ExactClosing ==
  ASSUME TypeInv, Exact, NEW s \in DOMAIN req, Step(s), CancelRedemption(s) \/ SettleRedemption(s),
         ~Happened(Uncertain)'
  PROVE  LET k == Job(s).on
             p == request[k].on
             n == request[k].n
         IN /\ k \in DOMAIN request /\ p \in Positions /\ Reduced(p) /\ n \in Nat
            /\ n <= position[p].reserved
            /\ position'[p].reserved >= position[p].reserved - n
            /\ Total(Weight(request', p)) <= position'[p].reserved
            /\ \A q \in Positions : q # p => Total(Weight(request', q)) <= Total(Weight(request, q))
            /\ \A j \in DOMAIN request' : request'[j].cached # "none"
<1>1. Types /\ Types' /\ RowsInv /\ request \in Seq(Requests) /\ position \in Seq(Rows)
      /\ request' \in Seq(Requests)
  BY TypesStep DEF TypeInv, Types, Next, Step
<1> DEFINE k == Job(s).on
           p == request[k].on
           n == request[k].n
<1>2. k \in DOMAIN request /\ p \in Positions /\ Reduced(p) /\ n \in Nat
  <2>1. k \in DOMAIN request /\ p \in Positions /\ Reduced(p)
    BY CancelRow, SettleRow
  <2> QED BY <1>1, <2>1, WeightType
<1>3. Positions' = Positions
  BY <1>2 DEF Reduced, Positions
<1>4. PICK status \in {"cancelled", "completed"} : Close(k, status)
  BY DEF CancelRedemption, SettleRedemption
<1>5. request[k].cached # "none" /\ Live(request[k])
      /\ position'[p].reserved >= Less(position[p].reserved, n)
  BY <1>2, ExactSlips DEF Exact
<1>6. /\ DOMAIN request' = DOMAIN request
      /\ \A j \in DOMAIN request : j # k => request'[j] = request[j]
      /\ request'[k].cached = status
  BY <1>2, <1>3, <1>4, <1>5, ClosedRequest
<1>7. ~Live(request'[k])
  BY <1>6 DEF Live, Open
<1>8. \A q : /\ Total(Weight(request', q)) = Total(Weight(request, q)) - (IF request[k].on = q THEN request[k].n ELSE 0)
             /\ request[k].on = q => request[k].n <= Total(Weight(request, q))
  BY <1>1, <1>2, <1>5, <1>6, <1>7, WeightClose
<1>9. \A q : Total(Weight(request, q)) \in Nat
  BY <1>1, WeightType
<1>10. Total(Weight(request, p)) <= position[p].reserved /\ position[p].reserved \in Nat
       /\ position'[p].reserved \in Nat
  <2>1. position'[p] \in Rows
    BY <1>2, RowsAre DEF Reduced
  <2> QED BY <1>1, <1>2, <2>1, RowType DEF Exact, Pending, Rows
<1>11. Total(Weight(request', p)) = Total(Weight(request, p)) - n /\ n <= Total(Weight(request, p))
  BY <1>8
<1>12. \A q \in Positions : q # p => Total(Weight(request', q)) <= Total(Weight(request, q))
  <2>1. \A q \in Positions : q # p => Total(Weight(request', q)) = Total(Weight(request, q)) - 0
    BY <1>8
  <2> QED BY <1>9, <2>1
<1>13. \A j \in DOMAIN request' : request'[j].cached # "none"
  BY <1>4, <1>6 DEF Exact
<1> HIDE DEF k, p, n
<1>14. n <= position[p].reserved /\ position'[p].reserved >= position[p].reserved - n
  <2>1. n <= position[p].reserved
    BY <1>2, <1>9, <1>10, <1>11
  <2>2. Less(position[p].reserved, n) = position[p].reserved - n
    BY <1>2, <1>10, <2>1, LessType
  <2> QED BY <1>5, <2>1, <2>2
<1>15. Total(Weight(request', p)) <= position'[p].reserved
  BY <1>2, <1>9, <1>10, <1>11, <1>14
<1> QED BY <1>2, <1>12, <1>13, <1>14, <1>15 DEF k, p, n

LEMMA ExactCancel ==
  ASSUME TypeInv, Exact, NEW s \in DOMAIN req, Step(s), CancelRedemption(s), ~Happened(Uncertain)'
  PROVE  Exact'
<1>1. Types /\ Types' /\ RowsInv /\ position \in Seq(Rows)
  BY TypesStep DEF TypeInv, Types, Next, Step
<1> DEFINE k == Job(s).on
           p == request[k].on
           n == request[k].n
           old == position[p]
           new == position'[p]
           reserved == Less(old.copy.reserved, n)
<1>2. /\ k \in DOMAIN request /\ p \in Positions /\ Reduced(p) /\ n \in Nat
      /\ Total(Weight(request', p)) <= new.reserved
      /\ \A q \in Positions : q # p => Total(Weight(request', q)) <= Total(Weight(request, q))
      /\ \A j \in DOMAIN request' : request'[j].cached # "none"
  BY ExactClosing
<1>3. /\ new.held = old.held /\ new.copy.held = old.copy.held
      /\ (old.copy # NoCopy => new.copy # NoCopy /\ new.copy.reserved = reserved)
      /\ (reserved <= old.held => new.reserved = reserved)
      /\ reserved \in Nat
  BY CancelRow
<1>4. /\ old.copy # NoCopy /\ old.copy.held = old.held /\ old.copy.reserved <= old.reserved
  BY <1>2 DEF Exact
<1>5. old.reserved \in Nat /\ old.copy.reserved \in Nat /\ old.held \in Nat /\ old.reserved <= old.held
  BY <1>1, <1>2, RowType
<1>6. reserved <= old.copy.reserved
  BY <1>2, <1>5, LessType
<1>7. new.copy # NoCopy /\ new.copy.held = new.held /\ new.copy.reserved <= new.reserved
  <2> HIDE DEF reserved, old, new
  <2> QED BY <1>3, <1>4, <1>5, <1>6
<1>8. \A i \in Investors : (Bought(i) + settled[i] = bought[i])'
  <2>1. Kept
    BY <1>2, <1>3 DEF Kept, Reduced, Lessened
  <2>2. \A i \in Investors : Bought(i)' = Bought(i)
    BY <1>1, <2>1, KeptCounts
  <2> QED BY <2>2 DEF Exact, CancelRedemption, history
<1> HIDE DEF p, new, old, n, k
<1> QED BY <1>1, <1>2, <1>7, <1>8, ExactReduced DEF new, old

LEMMA ExactSettle ==
  ASSUME TypeInv, Exact, NEW s \in DOMAIN req, Step(s), SettleRedemption(s), ~Happened(Uncertain)'
  PROVE  Exact'
<1>1. Types /\ Types' /\ RowsInv /\ position \in Seq(Rows)
  BY TypesStep DEF TypeInv, Types, Next, Step
<1> DEFINE k == Job(s).on
           p == request[k].on
           n == request[k].n
           old == position[p]
           new == position'[p]
           copy == old.copy
<1>2. /\ k \in DOMAIN request /\ p \in Positions /\ Reduced(p) /\ n \in Nat
      /\ n <= old.reserved
      /\ Total(Weight(request', p)) <= new.reserved
      /\ \A q \in Positions : q # p => Total(Weight(request', q)) <= Total(Weight(request, q))
      /\ \A j \in DOMAIN request' : request'[j].cached # "none"
  BY ExactClosing
<1>3. /\ (copy # NoCopy => new.copy # NoCopy)
      /\ (copy # NoCopy /\ Less(copy.reserved, n) <= Less(copy.held, n) =>
            /\ new.held = Less(copy.held, n) /\ new.reserved = Less(copy.reserved, n)
            /\ new.copy.held = new.held /\ new.copy.reserved = new.reserved)
  BY SettleRow
<1>4. /\ copy # NoCopy /\ copy.held = old.held /\ copy.reserved <= old.reserved
  BY <1>2 DEF Exact
<1>5. /\ old.reserved \in Nat /\ copy.reserved \in Nat /\ old.held \in Nat
      /\ old.reserved <= old.held /\ copy.held \in Nat
  BY <1>1, <1>2, RowType
<1>6. copy.reserved <= copy.held /\ n <= old.held
  <2> HIDE DEF old, copy, n
  <2> QED BY <1>2, <1>4, <1>5
<1>7. Less(copy.reserved, n) <= Less(copy.held, n) /\ Less(copy.reserved, n) \in Nat
  BY <1>2, <1>5, <1>6, LessType
<1>8. Less(copy.held, n) = old.held - n
  <2> HIDE DEF old, copy, n
  <2> QED BY <1>2, <1>4, <1>5, <1>6, LessType
<1>9. /\ new.held = old.held - n /\ new.copy # NoCopy /\ new.copy.held = new.held
      /\ new.copy.reserved <= new.reserved
  <2> HIDE DEF old, copy, n, new
  <2> QED BY <1>3, <1>4, <1>7, <1>8
<1>10. settled' = [settled EXCEPT ![old.investor] = settled[old.investor] + n] /\ bought' = bought
  BY DEF SettleRedemption
<1>11. /\ old.investor \in Investors /\ new.investor = old.investor
       /\ position' \in Seq(Rows) /\ DOMAIN position' = DOMAIN position
       /\ \A q \in DOMAIN position : q # p => position'[q] = position[q]
  <2>1. position[p] \in Rows
    BY <1>1, <1>2, RowType
  <2> QED BY <1>2, <2>1 DEF Rows, Reduced, Positions, Lessened
<1>12. \A i \in Investors : Bought(i)' = Bought(i) - IF i = old.investor THEN n ELSE 0
  <2> SUFFICES ASSUME NEW i \in Investors
               PROVE  Bought(i)' = Bought(i) - IF i = old.investor THEN n ELSE 0
    OBVIOUS
  <2>1. PICK P : P = {q \in Positions : position[q].investor = i}
    OBVIOUS
  <2>2. PICK P2 : P2 = {q \in DOMAIN position' : position'[q].investor = i}
    OBVIOUS
  <2>3. /\ p \in DOMAIN position
        /\ p \in P <=> i = old.investor
        /\ p \in P2 <=> i = old.investor
        /\ \A q \in DOMAIN position : q # p =>
             position[q].held = position'[q].held /\ (q \in P <=> q \in P2)
    <3> HIDE DEF p
    <3>1. p \in DOMAIN position /\ Positions = DOMAIN position
      BY <1>2 DEF Positions
    <3>2. p \in P <=> i = old.investor
      BY <2>1, <3>1
    <3>3. p \in P2 <=> i = old.investor
      BY <1>11, <2>2, <3>1
    <3>4. \A q \in DOMAIN position : q # p => position'[q] = position[q]
      BY <1>11
    <3>5. \A q \in DOMAIN position : q # p => (q \in P <=> q \in P2)
      BY <1>11, <2>1, <2>2, <3>1, <3>4
    <3> QED BY <3>1, <3>2, <3>3, <3>4, <3>5
  <2>4. Count(position', P2) = Count(position, P) - (IF p \in P THEN position[p].held ELSE 0)
                                                  + (IF p \in P2 THEN position'[p].held ELSE 0)
    BY <1>1, <1>11, <2>3, CountPut
  <2>5. Bought(i) = Count(position, P) /\ Bought(i)' = Count(position', P2)
    BY <2>1, <2>2 DEF Bought, Positions
  <2>6. Count(position, P) \in Nat /\ Count(position', P2) \in Nat
    BY <1>1, <1>11, CountType
  <2> HIDE DEF p, n
  <2>7. Count(position', P2) = Count(position, P) - (IF i = old.investor THEN old.held ELSE 0)
                                                  + (IF i = old.investor THEN new.held ELSE 0)
    BY <2>3, <2>4
  <2> HIDE DEF old, new
  <2> QED BY <1>2, <1>5, <1>9, <2>5, <2>6, <2>7
<1>13. \A i \in Investors : (Bought(i) + settled[i] = bought[i])'
  <2>1. settled \in [Investors -> Nat] /\ \A i \in Investors : Bought(i) \in Nat
    BY <1>1, HeldBought DEF Types
  <2> HIDE DEF old, n
  <2>2. ASSUME NEW i \in Investors PROVE Bought(i)' + settled'[i] = Bought(i) + settled[i]
    <3>1. Bought(i)' = Bought(i) - IF i = old.investor THEN n ELSE 0
      BY <1>12
    <3>2. settled'[i] = settled[i] + IF i = old.investor THEN n ELSE 0
      BY <1>2, <1>10, <2>1
    <3>3. Bought(i) \in Nat /\ settled[i] \in Nat
      BY <2>1
    <3> QED BY <1>2, <3>1, <3>2, <3>3
  <2> QED BY <1>10, <2>2 DEF Exact
<1> HIDE DEF p, new, old, n, k
<1> QED BY <1>1, <1>2, <1>9, <1>13, ExactReduced DEF new, old

LEMMA RequestMoves ==
  ASSUME NEW s \in DOMAIN req, Step(s)
  PROVE  \/ request' = request
         \/ Reserve(s) \/ ReserveAnyway(s) \/ CancelRedemption(s) \/ SettleRedemption(s)
         \/ Delist(s) /\ CancelCached("cancelled_due_to_delist")
         \/ (CompleteBuyout(s) \/ Distribute(s)) /\ CancelCached("cancelled_due_to_buyout")
<1> USE DEF ledger
<1>1. CASE CheckoutStep(s) \/ Throw(s)
  BY <1>1 DEF CheckoutStep, Throw, Enter, TurnAway, ReadAsset, Claim, Pay, Refuse, CreateOrder,
              WriteSold, Finish
<1>2. CASE \/ StartAllocation(s) \/ DuplicatePurchase(s) \/ RejectPurchase(s) \/ Fallback(s)
           \/ QuoteRedemption(s) \/ FindRequest(s) \/ StartDelisting(s) \/ RefuseDelisting(s)
           \/ StartRelease(s) \/ Transfer(s)
           \/ (\E i \in Investors : PayInvestor(s, i)) \/ AbandonBuyout(s)
  BY <1>2 DEF StartAllocation, DuplicatePurchase, RejectPurchase, Fallback, QuoteRedemption,
              FindRequest, StartDelisting, RefuseDelisting, StartRelease, Transfer,
              PayInvestor, AbandonBuyout
<1>3. CASE Purchase(s) \/ LosePurchaseAnswer(s) \/ Allot(s) \/ AllotUnwritten(s)
  BY <1>3 DEF Purchase, LosePurchaseAnswer, Allot, AllotUnwritten, Allotted, PurchaseRpc
<1>4. CASE Delist(s) \/ CompleteBuyout(s) \/ Distribute(s)
  BY <1>4 DEF Delist, CompleteBuyout, Distribute
<1>5. CASE Reserve(s) \/ ReserveAnyway(s) \/ CancelRedemption(s) \/ SettleRedemption(s)
  BY <1>5
<1> QED BY <1>1, <1>2, <1>3, <1>4, <1>5 DEF Step, LedgerStep

LEMMA ExactOther ==
  ASSUME TypeInv, Exact, NEW s \in DOMAIN req, Step(s), ~Allocating(s), ~AllotUnwritten(s),
         ~(Reserve(s) \/ ReserveAnyway(s) \/ CancelRedemption(s) \/ SettleRedemption(s))
  PROVE  Exact'
<1>1. Types /\ Types' /\ RowsInv /\ position \in Seq(Rows) /\ request \in Seq(Requests)
  BY TypesStep DEF TypeInv, Types, Next, Step
<1>2. /\ DOMAIN position' = Positions
      /\ \A p \in Positions :
           /\ position'[p].investor = position[p].investor
           /\ position'[p].held = position[p].held
           /\ position'[p].reserved = position[p].reserved
           /\ position'[p].copy.held = position[p].copy.held
           /\ position'[p].copy.reserved = position[p].copy.reserved
           /\ (position'[p].copy = NoCopy => position[p].copy = NoCopy)
  <2>1. CASE position' = position
    BY <2>1 DEF Positions
  <2>2. CASE Delist(s) \/ CompleteBuyout(s)
    <3>1. PICK status \in Retired : RetireAll(status)
      BY <2>2 DEF Delist, CompleteBuyout, Retired
    <3> QED BY <1>1, <3>1, RetiredRows
  <2> QED BY <2>1, <2>2, RowsMove
<1>3. /\ DOMAIN request' = DOMAIN request
      /\ \A k \in DOMAIN request :
           /\ request'[k].on = request[k].on /\ request'[k].n = request[k].n
           /\ (Live(request'[k]) => Live(request[k]))
           /\ (request'[k].cached = "none" => request[k].cached = "none")
  <2>1. CASE request' = request
    BY <2>1
  <2>2. ASSUME NEW status \in {"cancelled_due_to_buyout", "cancelled_due_to_delist"},
               CancelCached(status)
        PROVE  <1>3!:
    <3>1. Positions' = Positions
      BY <1>2 DEF Positions
    <3>2. /\ DOMAIN request' = DOMAIN request
          /\ \A k \in DOMAIN request :
               /\ request'[k].on = request[k].on /\ request'[k].n = request[k].n
               /\ request'[k].db = request[k].db
               /\ request'[k].cached \in {request[k].cached, status}
      BY <2>2, <3>1, CancelledRequests
    <3> QED BY <3>2 DEF Live, Open
  <2> QED BY <2>1, <2>2, RequestMoves
<1>4. UNCHANGED <<bought, settled>>
  BY RowsMove DEF Delist, CompleteBuyout, history
<1> QED BY <1>1, <1>2, <1>3, <1>4, ExactKept

LEMMA ConservedStep ==
  ASSUME TypeInv, ConservedInv, NEW s \in DOMAIN req, Step(s)
  PROVE  ConservedInv'
<1>1. SUFFICES ASSUME ~Happened(Uncertain)' PROVE Exact'
  BY DEF ConservedInv
<1>2. Exact /\ ~LosePurchaseAnswer(s) /\ ~AllotUnwritten(s)
  BY <1>1, ExactSlips DEF ConservedInv
<1> QED BY <1>1, <1>2, ExactAllocating, ExactReserving, ExactCancel, ExactSettle, ExactOther
        DEF Allocating

-----------------------------------------------------------------------------
(***************************************************************************)
(* A restart, and a step that changes nothing.                             *)
(***************************************************************************)
LEMMA RestartKeeps ==
  ASSUME TypeInv, Restart
  PROVE  /\ DOMAIN req' = DOMAIN req
         /\ \A s \in DOMAIN req : req'[s].job = req[s].job /\ req'[s].pc \in {"new", "end"}
         /\ All' = All /\ \A i \in Investors : Bought(i)' = Bought(i)
         /\ UNCHANGED <<asset, keys, orders, bought, allotted, paidOut, settled>>
         /\ store' = {} /\ "restart" \in slips' /\ slips \subseteq slips'
         /\ Positions' = Positions
         /\ \A p \in Positions : position'[p].investor = position[p].investor
                                 /\ position'[p].held = position[p].held
                                 /\ position'[p].status = position[p].status
<1>1. Types /\ RowsInv
  BY DEF TypeInv
<1>2. Kept /\ Positions' = Positions
      /\ \A p \in Positions : position'[p].investor = position[p].investor
                                 /\ position'[p].held = position[p].held
                                 /\ position'[p].status = position[p].status
  BY <1>1, RestartRows DEF Kept, Positions
<1>3. All' = All /\ \A i \in Investors : Bought(i)' = Bought(i)
  BY <1>1, <1>2, KeptCounts
<1>4. UNCHANGED <<asset, keys, orders, bought, allotted, paidOut, settled>>
      /\ store' = {} /\ "restart" \in slips' /\ slips \subseteq slips'
  BY DEF Restart, history, Slip
<1>5. /\ DOMAIN req' = DOMAIN req
      /\ \A s \in DOMAIN req : req'[s].job = req[s].job /\ req'[s].pc \in {"new", "end"}
  BY <1>1, RestartReq
<1> QED BY <1>2, <1>3, <1>4, <1>5

LEMMA RestartOrders ==
  ASSUME TypeInv, Restart, CheckoutInv, TakenInv, OnceInv, EscrowHasOrder
  PROVE  CheckoutInv' /\ TakenInv' /\ OnceInv' /\ EscrowHasOrder'
<1>1. /\ DOMAIN req' = DOMAIN req
      /\ \A s \in DOMAIN req : req'[s].pc \in {"new", "end"}
      /\ UNCHANGED <<asset, keys, orders, allotted>>
      /\ store' = {} /\ "restart" \in slips' /\ slips \subseteq slips'
  BY RestartKeeps
<1>2. CheckoutInv'
  <2>1. Shop' = {}
    BY <1>1 DEF Shop, Shopping, Allotting
  <2> QED BY <2>1 DEF CheckoutInv
<1>3. TakenInv'
  <2>1. Claims' = {}
    BY <1>1 DEF Claims, Claimed
  <2>2. OpenOrders' = OpenOrders
    BY <1>1 DEF OpenOrders
  <2>3. \A s \in DOMAIN req' : ~Investing(s)'
    BY <1>1 DEF Investing, Allotting
  <2>4. OneBuyer => OneBuyer'
    BY <1>1, <2>1, <2>2 DEF OneBuyer
  <2>5. NoInvestor => NoInvestor'
    BY <1>1, <2>1, <2>2, <2>3 DEF NoInvestor
  <2>6. BackOnSale => BackOnSale'
    BY <1>1 DEF BackOnSale
  <2>7. Happened({"met"}) => Happened({"met"})'
    BY <1>1 DEF Happened
  <2> QED BY <1>1, <2>4, <2>5, <2>6, <2>7 DEF TakenInv
<1>4. OnceInv'
  <2>1. Happened({"answerLost"}) => Happened({"answerLost"})'
    BY <1>1 DEF Happened
  <2>2. {"fallback", "restart"} \subseteq slips => {"fallback", "restart"} \subseteq slips'
    BY <1>1
  <2>3. \A s \in DOMAIN req' : req'[s].pc \notin {"fallback", "allot"}
    BY <1>1
  <2>4. ASSUME ~Happened({"answerLost"}), ~({"fallback", "restart"} \subseteq slips'), NEW k \in Keys
        PROVE  allotted'[k] <= 1 /\ (allotted'[k] = 1 => k \in keys')
    <3>1. "fallback" \notin slips /\ ~({"fallback", "restart"} \subseteq slips)
      BY <1>1, <2>4
    <3> QED BY <1>1, <2>4, <3>1 DEF OnceInv
  <2> QED BY <2>1, <2>3, <2>4 DEF OnceInv
<1>5. EscrowHasOrder'
  BY <1>1 DEF EscrowHasOrder, Happened
<1> QED BY <1>2, <1>3, <1>4, <1>5

LEMMA RestartShares ==
  ASSUME TypeInv, Restart, CapInv, SupplyInv, SoldInv, PaidInv
  PROVE  CapInv' /\ SupplyInv' /\ SoldInv' /\ ConservedInv' /\ PaidInv'
<1>1. /\ DOMAIN req' = DOMAIN req
      /\ \A s \in DOMAIN req : req'[s].pc \in {"new", "end"}
      /\ All' = All /\ \A i \in Investors : Bought(i)' = Bought(i)
      /\ UNCHANGED <<asset, paidOut>> /\ "restart" \in slips' /\ slips \subseteq slips'
      /\ Positions' = Positions
      /\ \A p \in Positions : position'[p].investor = position[p].investor
                              /\ position'[p].held = position[p].held
                              /\ position'[p].status = position[p].status
  BY RestartKeeps
<1>2. CapInv'
  BY <1>1 DEF CapInv, At
<1>3. SupplyInv'
  <2>1. Happened({"met"}) => Happened({"met"})'
    BY <1>1 DEF Happened
  <2> QED BY <1>1, <2>1 DEF SupplyInv
<1>4. SoldInv'
  <2>1. Happened({"met", "answerLost", "unmarked"}) => Happened({"met", "answerLost", "unmarked"})'
    BY <1>1 DEF Happened
  <2> QED BY <1>1, <2>1 DEF SoldInv
<1>5. ConservedInv'
  BY <1>1 DEF ConservedInv, Happened, Uncertain
<1>6. PaidInv'
  <2>1. ASSUME NEW i \in Investors PROVE BoughtOut(i)' <= BoughtOut(i)
    <3>1. position' \in Seq(Rows) /\ position \in Seq(Rows)
      BY RestartTypes DEF TypeInv, Types
    <3>2. \A p \in Positions : position[p].held \in Nat
      BY <3>1, RowsAre DEF Positions
    <3>3. \A p \in Positions : p \in Out(i)' => p \in Out(i) /\ position'[p].held <= position[p].held
      BY <1>1, <3>2 DEF Out
    <3> QED BY <1>1, <3>1, <3>3, BoughtOutStays
  <2>2. \A i \in Investors : BoughtOut(i) \in Nat /\ BoughtOut(i)' \in Nat /\ paidOut[i] \in Nat
    <3>1. position \in Seq(Rows) /\ position' \in Seq(Rows) /\ paidOut \in [Investors -> Nat]
      BY RestartTypes DEF TypeInv, Types
    <3> QED BY <3>1, CountType DEF BoughtOut, Recorded
  <2>3. \A i \in Investors : BoughtOut(i)' <= paidOut'[i]
    BY <1>1, <2>1, <2>2 DEF PaidInv, RetiredMeansPaid, BoughtOut
  <2>4. \A s \in DOMAIN req' : req'[s].pc # "paying"
    BY <1>1
  <2> QED BY <2>3, <2>4 DEF PaidInv, RetiredMeansPaid, BoughtOut, At
<1> QED BY <1>2, <1>3, <1>4, <1>5, <1>6

-----------------------------------------------------------------------------
(***************************************************************************)
(* The beginning.                                                          *)
(***************************************************************************)
LEMMA InitRows ==
  ASSUME Init
  PROVE  /\ Types /\ position \in Seq(Rows)
         /\ \A s \in DOMAIN req : req[s].pc = "new"
         /\ request = <<>> /\ orders = <<>> /\ queue = <<>>
         /\ asset.status = "active"
         /\ allotted = [k \in Keys |-> 0] /\ settled = [i \in Investors |-> 0]
         /\ paidOut = [i \in Investors |-> 0] /\ keys = {}
         /\ \A i \in Investors : Bought(i) <= Cap /\ bought[i] = Bought(i)
         /\ All <= asset.sold
         /\ \A p \in Positions :
              /\ position[p].status = "active" /\ position[p].held \in Nat
              /\ position[p].reserved = 0 /\ position[p].copy.reserved = 0
              /\ "restart" \in slips \/ position[p].copy.held = position[p].held
              /\ "restart" \in slips \/ position[p].copy # NoCopy
<1>1. PICK opening \in Openings : asset = opening.asset /\ position = opening.position
                                  /\ slips = opening.slips
                                  /\ bought = [i \in Investors |->
                                       Count(position, {p \in Positions : position[p].investor = i})]
  BY DEF Init
<1>2. /\ asset.status = "active" /\ position \in Seq(OpeningRows)
      /\ \A p \in DOMAIN position :
           \/ position[p].copy # NoCopy /\ position[p].copy.held = position[p].held
           \/ position[p].copy = NoCopy /\ slips = {"restart"}
      /\ \A i \in Investors :
           Count(position, {p \in DOMAIN position : position[p].investor = i}) <= Cap
      /\ Count(position, DOMAIN position) <= asset.sold
  <2>1. asset.status = "active" /\ position \in Seq(OpeningRows) /\ slips \subseteq {"restart"}
    BY <1>1, OpeningsAssumption
  <2>2. \A p \in DOMAIN position :
           \/ position[p].copy # NoCopy /\ position[p].copy.held = position[p].held
           \/ position[p].copy = NoCopy /\ slips = {"restart"}
    BY <1>1, OpeningsAssumption
  <2>3. \A i \in Investors :
           Count(position, {p \in DOMAIN position : position[p].investor = i}) <= Cap
    <3>1. \A i \in Investors :
            Count(opening.position,
                  {p \in DOMAIN opening.position : opening.position[p].investor = i}) <= Cap
      BY OpeningsAssumption
    <3> QED BY <1>1, <3>1, Zenon
  <2>4. Count(position, DOMAIN position) <= asset.sold
    BY <1>1, OpeningsAssumption
  <2> QED BY <2>1, <2>2, <2>3, <2>4
<1>3. Types
  BY InitTypes DEF TypeInv
<1>4. \A p \in DOMAIN position :
        /\ position[p].status = "active" /\ position[p].held \in Nat
        /\ position[p].reserved = 0 /\ position[p].copy.reserved = 0
  <2>1. \A r \in OpeningRows : /\ r.status = "active" /\ r.held \in Nat
                                /\ r.reserved = 0 /\ r.copy.reserved = 0
    BY DEF OpeningRows, NoCopy
  <2> QED BY <1>2, <2>1
<1>5. \A s \in DOMAIN req : req[s].pc = "new"
  BY DEF Init, Fresh
<1>6. \A i \in Investors : Bought(i) <= Cap /\ bought[i] = Bought(i)
  BY <1>1, <1>2 DEF Bought, Positions
<1>7. All <= asset.sold
  BY <1>2 DEF All, Positions
<1>8. /\ request = <<>> /\ orders = <<>> /\ queue = <<>> /\ keys = {}
      /\ allotted = [k \in Keys |-> 0] /\ settled = [i \in Investors |-> 0]
      /\ paidOut = [i \in Investors |-> 0]
  BY DEF Init
<1>9. position \in Seq(Rows)
  BY <1>3 DEF Types
<1> QED BY <1>2, <1>3, <1>4, <1>5, <1>6, <1>7, <1>8, <1>9 DEF Positions

LEMMA InitOrders ==
  ASSUME Init
  PROVE  QueueInv /\ CheckoutInv /\ TakenInv /\ OnceInv /\ EscrowHasOrder
<1>1. /\ \A s \in DOMAIN req : req[s].pc = "new"
      /\ orders = <<>> /\ queue = <<>> /\ asset.status = "active"
      /\ allotted = [k \in Keys |-> 0]
  BY InitRows
<1>2. QueueInv
  BY <1>1 DEF QueueInv, QueueServed, Locked
<1>3. CheckoutInv
  <2>1. Shop = {}
    BY <1>1 DEF Shop, Shopping, Allotting
  <2> QED BY <2>1 DEF CheckoutInv
<1>4. TakenInv
  <2>1. Claims = {} /\ OpenOrders = {}
    BY <1>1 DEF Claims, Claimed, OpenOrders
  <2>2. \A s \in DOMAIN req : ~Investing(s)
    BY <1>1 DEF Investing, Allotting
  <2> QED BY <1>1, <2>1, <2>2 DEF TakenInv, OneBuyer, NoInvestor
<1>5. OnceInv
  BY <1>1 DEF OnceInv
<1>6. EscrowHasOrder
  BY <1>1 DEF EscrowHasOrder
<1> QED BY <1>2, <1>3, <1>4, <1>5, <1>6

LEMMA InitShares ==
  ASSUME Init
  PROVE  CapInv /\ SupplyInv /\ SoldInv /\ ConservedInv /\ PaidInv
<1>1. /\ Types /\ position \in Seq(Rows)
      /\ \A s \in DOMAIN req : req[s].pc = "new"
      /\ request = <<>>
      /\ settled = [i \in Investors |-> 0] /\ paidOut = [i \in Investors |-> 0]
      /\ \A i \in Investors : Bought(i) <= Cap /\ bought[i] = Bought(i)
      /\ All <= asset.sold
      /\ \A p \in Positions :
           /\ position[p].status = "active" /\ position[p].held \in Nat
           /\ position[p].reserved = 0 /\ position[p].copy.reserved = 0
           /\ "restart" \in slips \/ position[p].copy.held = position[p].held
           /\ "restart" \in slips \/ position[p].copy # NoCopy
  BY InitRows
<1>2. CapInv
  BY <1>1 DEF CapInv, At
<1>3. SupplyInv /\ SoldInv
  <2>1. All <= Shares
    <3>1. asset.sold \in 0..Shares /\ All \in Nat /\ Shares \in Nat
      BY <1>1, CountType, LedgerAssumption DEF Types, All
    <3> QED BY <1>1, <3>1
  <2> QED BY <1>1, <2>1 DEF SupplyInv, SoldInv
<1>4. ConservedInv
  <2>1. SUFFICES ASSUME "restart" \notin slips PROVE Exact
    BY DEF ConservedInv, Happened, Uncertain
  <2>2. \A i \in Investors : Bought(i) + settled[i] = bought[i]
    <3>1. \A i \in Investors : Bought(i) \in Nat
      BY <1>1, CountType DEF Bought
    <3> QED BY <1>1, <3>1
  <2>3. ASSUME NEW p \in Positions PROVE Pending(p) <= position[p].reserved
    <3>1. PICK f : f = Weight(request, p)
      OBVIOUS
    <3>2. request \in Seq(Requests) /\ DOMAIN request = {}
      BY <1>1 DEF Types
    <3>3. f \in [DOMAIN request -> Nat] /\ \A k \in DOMAIN request : f[k] = 0
      BY <3>1, <3>2, WeightType
    <3>4. Total(f) = 0
      BY <3>3, TotalZero
    <3> QED BY <1>1, <3>1, <3>4 DEF Pending
  <2> QED BY <1>1, <2>1, <2>2, <2>3 DEF Exact
<1>5. PaidInv
  <2>1. ASSUME NEW i \in Investors PROVE Recorded(i, {"retired_bought_out"}) = 0
    <3>1. PICK P : P = {p \in Positions : position[p].investor = i
                                          /\ position[p].status \in {"retired_bought_out"}}
      OBVIOUS
    <3>2. \A p \in DOMAIN position : p \in P => position[p].held = 0
      BY <1>1, <3>1 DEF Positions
    <3>3. Count(position, P) = 0
      BY <1>1, <3>2, CountZero
    <3> QED BY <3>1, <3>3 DEF Recorded
  <2> QED BY <1>1, <2>1 DEF PaidInv, RetiredMeansPaid, At
<1> QED BY <1>2, <1>3, <1>4, <1>5

-----------------------------------------------------------------------------
(***************************************************************************)
(* The invariant of the specification.                                     *)
(***************************************************************************)
OrdersInv == TypeInv /\ QueueInv /\ CheckoutInv /\ TakenInv /\ OnceInv /\ EscrowHasOrder
SharesInv == CapInv /\ SupplyInv /\ SoldInv /\ ConservedInv /\ PaidInv
LedgerInv == OrdersInv /\ SharesInv

LEMMA StutterInv ==
  ASSUME LedgerInv, UNCHANGED vars
  PROVE  LedgerInv'
<1>1. /\ UNCHANGED <<asset, position, request, orders, checkout, queue, store, keys, refs, req>>
      /\ UNCHANGED <<faults, slips, bought, allotted, paidOut, settled>>
  BY DEF vars
<1>2. TypeInv'
  BY TypesStep DEF LedgerInv, OrdersInv
<1>3. QueueInv' /\ CheckoutInv'
  BY <1>1 DEF LedgerInv, OrdersInv, QueueInv, QueueServed, Holds, CheckoutInv, Shop, Happened
<1>4. TakenInv' /\ EscrowHasOrder'
  BY <1>1 DEF LedgerInv, OrdersInv, TakenInv, OneBuyer, NoInvestor, Investing, Claims, Claimed,
              OpenOrders, BackOnSale, EscrowHasOrder, Happened, Job
<1>5. OnceInv'
  BY <1>1 DEF LedgerInv, OrdersInv, OnceInv, Happened, Known, Job
<1>6. All' = All /\ \A i \in Investors : Bought(i)' = Bought(i)
  BY <1>1 DEF All, Bought, Positions
<1>7. CapInv' /\ SupplyInv' /\ SoldInv'
  <2>1. CapInv'
    <3>1. req' = req /\ position' = position /\ asset' = asset
      BY <1>1
    <3>2. CapInv
      BY DEF LedgerInv, SharesInv
    <3>3. \A i \in Investors : Bought(i)' <= Cap
      BY <1>6, <3>2 DEF CapInv
    <3>4. asset'.invest => \A p \in Positions' : position'[p].status = "active" \/ position'[p].held = 0
      BY <3>1, <3>2 DEF CapInv, Positions
    <3>5. ASSUME NEW s \in DOMAIN req, req[s].pc = "allot", NEW i \in Investors, i = req[s].job.who
          PROVE  Bought(i)' + req[s].job.n <= Cap
      <4>1. Bought(i) + req[s].job.n <= Cap
        BY <3>2, <3>5 DEF CapInv, At, Job
      <4> QED BY <1>6, <4>1
    <3>6. ASSUME NEW s \in DOMAIN req, req[s].pc = "allot" PROVE req[s].job.who \in Investors
      BY <3>6 DEF LedgerInv, OrdersInv, TypeInv, Fits, Allotting, Shopping, Job
    <3>7. \A s \in DOMAIN req' : At(s, "allot")' => Bought(Job(s).who)' + Job(s)'.n <= Cap
      BY <3>1, <3>5, <3>6 DEF At, Job, Bought
    <3> QED BY <3>3, <3>4, <3>7 DEF CapInv
  <2>2. SupplyInv'
    BY <1>1, <1>6 DEF LedgerInv, SharesInv, SupplyInv, Happened, Job
  <2>3. SoldInv'
    BY <1>1, <1>6 DEF LedgerInv, SharesInv, SoldInv, Happened, Job
  <2> QED BY <2>1, <2>2, <2>3
<1>8. ConservedInv'
  BY <1>1, <1>6 DEF LedgerInv, SharesInv, ConservedInv, Exact, Happened, Positions, Pending
<1>9. PaidInv'
  BY <1>1 DEF LedgerInv, SharesInv, PaidInv, RetiredMeansPaid, Recorded, Held, Active, Positions, At
<1> QED BY <1>2, <1>3, <1>4, <1>5, <1>7, <1>8, <1>9 DEF LedgerInv, OrdersInv, SharesInv

LEMMA LedgerInvStep ==
  ASSUME LedgerInv, [Next]_vars
  PROVE  LedgerInv'
<1> USE DEF LedgerInv, OrdersInv, SharesInv
<1>1. CASE UNCHANGED vars
  BY <1>1, StutterInv
<1>2. CASE Restart
  BY <1>2, RestartTypes, RestartServes, RestartOrders, RestartShares
<1>3. ASSUME NEW s \in DOMAIN req, Step(s) PROVE LedgerInv'
  <2>1. TypeInv'
    BY <1>3, TypesStep DEF Next, Step
  <2>2. QueueInv'
    BY <1>3, Course, QueueInvStep
  <2>3. CheckoutInv' /\ TakenInv' /\ OnceInv' /\ EscrowHasOrder'
    BY <1>3, CheckoutInvStep, TakenStep, OnceStep, EscrowStep
  <2>4. SharesInv'
    BY <1>3, CapStep, SupplyStep, SoldInvStep, ConservedStep, PaidStep
  <2> QED BY <2>1, <2>2, <2>3, <2>4
<1> QED BY <1>1, <1>2, <1>3 DEF Next, Step

(* The inductive invariant of the checkout and the ledger, in every        *)
(* reachable state.                                                        *)
THEOREM LedgerInvariant == Spec => []LedgerInv
<1>1. Init => LedgerInv
  BY InitTypes, InitOrders, InitShares DEF LedgerInv, OrdersInv, SharesInv
<1>2. LedgerInv /\ [Next]_vars => LedgerInv'
  BY LedgerInvStep
<1> QED BY <1>1, <1>2, PTL DEF Spec

LEMMA CountMember ==
  ASSUME NEW rows \in Seq(Rows), NEW P, NEW p \in DOMAIN rows, p \in P
  PROVE  rows[p].held <= Count(rows, P)
<1>1. PICK f : f = [q \in DOMAIN rows |-> IF q \in P THEN rows[q].held ELSE 0]
  OBVIOUS
<1>2. PICK S : S = DOMAIN rows
  OBVIOUS
<1>3. IsFiniteSet(S) /\ f \in [S -> Nat] /\ p \in S
  BY <1>1, <1>2, HeldOf, RowsAre
<1>4. f[p] <= Total(f)
  BY <1>3, TotalMember, Zenon
<1> QED BY <1>1, <1>4 DEF Count

LEMMA CapFits ==
  Cap <= Shares /\ Cap \in Nat
BY LedgerAssumption DEF Cap

(* The rows keep to the constraints of their tables: no holding above the  *)
(* asset's shares, no reservation above the holding.                       *)
THEOREM LedgerTypes == Spec => []TypeOK
<1>1. LedgerInv => TypeOK
  <2> SUFFICES ASSUME LedgerInv PROVE TypeOK
    OBVIOUS
  <2>1. /\ Types /\ RowsInv /\ position \in Seq(Rows)
        /\ \A i \in Investors : Bought(i) <= Cap
    BY DEF LedgerInv, OrdersInv, SharesInv, TypeInv, Types, CapInv
  <2>2. ASSUME NEW p \in Positions
        PROVE  /\ position[p].investor \in Investors
               /\ position[p].held \in 0..Shares
               /\ position[p].reserved \in 0..position[p].held
               /\ position[p].status \in PositionStatus
               /\ position[p].copy.status \in PositionStatus \cup {"absent"}
    <3>1. /\ position[p] \in Rows /\ position[p].held \in Nat /\ position[p].reserved \in Nat
          /\ position[p].reserved <= position[p].held /\ position[p].copy \in Copies
      BY <2>1, RowType
    <3>2. /\ position[p].investor \in Investors /\ position[p].status \in PositionStatus
          /\ position[p].copy.status \in PositionStatus \cup {"absent"}
      BY <3>1 DEF Rows, Copies, NoCopy
    <3>3. PICK i \in Investors : i = position[p].investor
      BY <3>2
    <3>4. PICK P : P = {q \in Positions : position[q].investor = i}
      OBVIOUS
    <3>5. position[p].held <= Count(position, P)
      BY <2>1, <3>3, <3>4, CountMember DEF Positions
    <3>6. Count(position, P) <= Cap /\ Count(position, P) \in Nat
      BY <2>1, <3>4, CountType DEF Bought
    <3>7. position[p].held <= Shares
      BY <3>1, <3>5, <3>6, CapFits, LedgerAssumption
    <3> QED BY <3>1, <3>2, <3>7, LedgerAssumption
  <2>3. ASSUME NEW k \in DOMAIN request
        PROVE  /\ request[k].on \in Positions
               /\ request[k].db \in RowStatus \cup {"none"}
               /\ request[k].cached \in CachedStatus \cup {"none"}
    <3>1. request \in Seq(Requests) /\ request[k].on \in Positions
      BY <2>1 DEF Types, RowsInv
    <3>2. request[k] \in Requests
      BY <3>1, WeightType
    <3> QED BY <3>1, <3>2 DEF Requests
  <2>4. ASSUME NEW o \in DOMAIN orders PROVE orders[o].status \in {"open", "releasing", "released"}
    <3>1. orders \in Seq(Orders)
      BY <2>1 DEF Types
    <3>2. orders[o] \in Orders
      BY <3>1
    <3> QED BY <3>2 DEF Orders
  <2>5. ASSUME NEW s \in DOMAIN req PROVE req[s].pc \in PCs
    BY <2>1 DEF Types, Visits
  <2>6. /\ asset \in [status : AssetStatus, invest : BOOLEAN, sold : 0..Shares]
        /\ checkout \in BOOLEAN /\ faults \in 0..MaxFaults
    BY <2>1 DEF Types
  <2> QED BY <2>2, <2>3, <2>4, <2>5, <2>6 DEF TypeOK, AssetStatus
<1> QED BY <1>1, LedgerInvariant, PTL

LEMMA HeldsAre ==
  ASSUME Types
  PROVE  Ledger <= All /\ Ledger \in Nat /\ All \in Nat
<1>1. position \in Seq(Rows) /\ Positions = DOMAIN position
  BY DEF Types, Positions
<1>2. \A p \in DOMAIN position : position[p].held \in Nat
  BY <1>1, RowsAre
<1>3. Count(position, Active) <= Count(position, Positions)
  BY <1>1, <1>2, CountLeq DEF Active
<1> QED BY <1>1, <1>3, CountType DEF Ledger, All

(* No investor holds more than a quarter of the shares, although three     *)
(* different checks admit purchases (purchase_asset_shares_atomic, the     *)
(* fallback of recordInvestmentPosition and processPayment) and restarts,  *)
(* lost answers and retries come between them.                             *)
THEOREM HoldingsCapped == Spec => []CapHolds
<1>1. LedgerInv => CapHolds
  <2> SUFFICES ASSUME LedgerInv, NEW i \in Investors PROVE Held(i) <= Cap
    BY DEF CapHolds
  <2>1. Types /\ Bought(i) <= Cap
    BY DEF LedgerInv, OrdersInv, SharesInv, TypeInv, CapInv
  <2>2. Held(i) <= Bought(i) /\ Held(i) \in Nat /\ Bought(i) \in Nat
    BY <2>1, HeldBought
  <2> QED BY <2>1, <2>2, CapType
<1> QED BY <1>1, LedgerInvariant, PTL

(* No more shares are held than there are, as long as no request that the  *)
(* checkout turned away gave its lock away (processPayment's finally).     *)
THEOREM NeverOversold == Spec => []SupplyHolds
<1>1. LedgerInv => SupplyHolds
  <2> SUFFICES ASSUME LedgerInv, ~Happened({"met"}) PROVE Ledger <= Shares
    BY DEF SupplyHolds
  <2>1. Types /\ All <= Shares
    BY DEF LedgerInv, OrdersInv, SharesInv, TypeInv, SupplyInv
  <2>2. Ledger <= All /\ Ledger \in Nat /\ All \in Nat
    BY <2>1, HeldsAre
  <2> QED BY <2>1, <2>2, LedgerAssumption
<1> QED BY <1>1, LedgerInvariant, PTL

(* shares_sold never falls behind the shares held, although the atomic     *)
(* purchase, the fallback and processPayment's snapshot all write it,      *)
(* unless the lock was given away, a purchase's answer was lost or the     *)
(* fallback could not write shares_sold.                                   *)
THEOREM SoldIsEnough == Spec => []SoldCoversLedger
<1>1. LedgerInv => SoldCoversLedger
  <2> SUFFICES ASSUME LedgerInv, ~Happened({"answerLost", "met", "unmarked"})
               PROVE  Ledger <= asset.sold
    BY DEF SoldCoversLedger
  <2>1. Types /\ All <= asset.sold
    BY DEF LedgerInv, OrdersInv, SharesInv, TypeInv, SoldInv, Happened
  <2>2. Ledger <= All /\ Ledger \in Nat /\ All \in Nat
    BY <2>1, HeldsAre
  <2> QED BY <2>1, <2>2 DEF Types
<1> QED BY <1>1, LedgerInvariant, PTL

(* A key has shares allocated once, whichever of the atomic function and   *)
(* the fallback served it and however often the client retried, unless an  *)
(* answer was lost, or a restart followed a fallback.                      *)
THEOREM KeysAllocateOnce == Spec => []AllocatedOnce
<1>1. LedgerInv => AllocatedOnce
  BY DEF LedgerInv, OrdersInv, OnceInv, AllocatedOnce
<1> QED BY <1>1, LedgerInvariant, PTL

(* There is never a second open order for the whole collectible, unless    *)
(* the lock was given away and the fallback put a claimed one back on sale.*)
THEOREM OneOrderAtATime == Spec => []OneOpenOrder
<1>1. LedgerInv => OneOpenOrder
  <2> SUFFICES ASSUME LedgerInv, ~BackOnSale PROVE Cardinality(OpenOrders) <= 1
    BY DEF OneOpenOrder
  <2>1. \A o1, o2 \in OpenOrders : o1 = o2
    BY DEF LedgerInv, OrdersInv, TakenInv, OneBuyer
  <2>2. CASE OpenOrders = {}
    BY <2>2, FS_EmptySet
  <2>3. ASSUME NEW o \in OpenOrders PROVE Cardinality(OpenOrders) <= 1
    <3>1. OpenOrders = {o}
      BY <2>1
    <3>2. Cardinality({o}) = 1
      BY FS_Singleton
    <3> QED BY <3>1, <3>2
  <2> QED BY <2>2, <2>3
<1> QED BY <1>1, LedgerInvariant, PTL

(* A collectible off the market is in an order or in a checkout on its way *)
(* to one, unless an exception, a restart or an unpaid buyout left it.     *)
THEOREM NoStrandedListing == Spec => []EscrowHasOrder
<1>1. LedgerInv => EscrowHasOrder
  BY DEF LedgerInv, OrdersInv
<1> QED BY <1>1, LedgerInvariant, PTL

(* What an investor bought is in his positions or was settled, through     *)
(* purchases, redemptions, cancellations, delistings and buyouts, as long  *)
(* as the cached copies tell the truth about the rows.                     *)
THEOREM NoShareLost == Spec => []SharesConserved
<1>1. LedgerInv => SharesConserved
  <2> SUFFICES ASSUME LedgerInv, ~Happened(Uncertain), NEW i \in Investors
               PROVE  Recorded(i, PositionStatus) + settled[i] = bought[i]
    BY DEF SharesConserved, Uncertain
  <2>1. Bought(i) + settled[i] = bought[i] /\ Types /\ RowsInv
    BY DEF LedgerInv, OrdersInv, SharesInv, TypeInv, ConservedInv, Exact
  <2>2. \A p \in Positions : position[p].status \in PositionStatus
    BY <2>1, RowType DEF Rows
  <2>3. {p \in Positions : position[p].investor = i /\ position[p].status \in PositionStatus}
          = {p \in Positions : position[p].investor = i}
    BY <2>2
  <2> QED BY <2>1, <2>3 DEF Recorded, Bought
<1> QED BY <1>1, LedgerInvariant, PTL

(* processOutrightBuyoutAllocations ends no position it did not pay for.   *)
THEOREM BuyoutPaysFirst == Spec => []RetiredMeansPaid
<1>1. LedgerInv => RetiredMeansPaid
  BY DEF LedgerInv, SharesInv, PaidInv
<1> QED BY <1>1, LedgerInvariant, PTL

(* withAssetLock's queue holds exactly the operations that wait for it or  *)
(* run under it, each once, also after a restart.                          *)
THEOREM LockServesAll == Spec => []QueueServed
<1>1. LedgerInv => QueueServed
  BY DEF LedgerInv, OrdersInv, QueueInv
<1> QED BY <1>1, LedgerInvariant, PTL

(* What was sold stays sold, whichever handler acts on an older status,    *)
(* but for the ways SoldStays names.                                       *)
THEOREM SaleIsFinal == Spec => SoldStays
<1>1. LedgerInv /\ [Next]_vars =>
        [asset.status = "sold" =>
           \/ asset'.status = "sold"
           \/ "delistedAnyway" \in slips'
           \/ asset'.status = "funded" /\ "met" \in slips'
           \/ BackOnSale']_vars
  <2> SUFFICES ASSUME LedgerInv, Next, asset.status = "sold"
               PROVE  \/ asset'.status = "sold"
                      \/ "delistedAnyway" \in slips'
                      \/ asset'.status = "funded" /\ "met" \in slips'
                      \/ BackOnSale'
    OBVIOUS
  <2>1. TypeInv /\ TakenInv
    BY DEF LedgerInv, OrdersInv
  <2>2. CASE Restart
    BY <2>1, <2>2, RestartKeeps
  <2>3. ASSUME NEW s \in DOMAIN req, Step(s)
        PROVE  \/ asset'.status = "sold"
               \/ "delistedAnyway" \in slips'
               \/ asset'.status = "funded" /\ "met" \in slips'
               \/ BackOnSale'
    BY <2>1, <2>3, SoldStep
  <2> QED BY <2>2, <2>3 DEF Next, Step
<1> QED BY <1>1, LedgerInvariant, PTL DEF Spec, SoldStays

=============================================================================
