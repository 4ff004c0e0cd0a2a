------------------------------- MODULE MCShares -------------------------------
(***************************************************************************)
(* One asset of 8 shares (a cap of 2 per investor).                        *)
(***************************************************************************)
EXTENDS Checkout, TLC

CONSTANTS a, b, c, d, e, x, y

MCInvestors == {a, b, c, d, e}
MCBuyers == {x, y}

Row(i, n, cached) ==
  [investor |-> i, held |-> n, reserved |-> 0, status |-> "active",
   copy |-> IF cached THEN [held |-> n, reserved |-> 0, status |-> "active"] ELSE NoCopy]

Listed(sold) == [status |-> "active", invest |-> TRUE, sold |-> sold]

\* A fresh listing that takes no investors, one with a single investor, and one
\* with several, before and after a restart.
Opening(listing, rows, slipped) ==
  [asset |-> listing, position |-> rows, slips |-> slipped]
MCOpenings ==
  {Opening([Listed(0) EXCEPT !.invest = FALSE], <<>>, {}),
   Opening(Listed(2), <<Row(a, 2, TRUE)>>, {}),
   Opening(Listed(5), <<Row(a, 1, TRUE), Row(c, 2, TRUE), Row(d, 2, TRUE)>>, {}),
   Opening(Listed(5), <<Row(a, 1, FALSE), Row(c, 2, FALSE), Row(d, 2, FALSE)>>, {"restart"})}

Do(op, who, n, key, on) ==
  [op |-> op, who |-> who, n |-> n, key |-> key, on |-> on, rail |-> "wallet"]
Invest(who, n, key) == Do("invest", who, n, key, 0)
Buy(who) == Do("buy", who, 0, "none", 0)
ByBank(job) == [job EXCEPT !.rail = "bank"]
Redeem(p, n) == Do("redeem", a, n, "none", p)
On(op, k) == Do(op, a, 0, "none", k)

MCScripts ==
  {<<Invest(b, 1, "k1"), Invest(b, 1, "k1"), Invest(e, 2, "k2")>>,
   <<Invest(b, 1, "k1"), Buy(x), Buy(y), Invest(e, 1, "k2")>>,
   <<Buy(x), ByBank(Buy(y)), On("delist", 0), On("release", 1)>>,
   <<Buy(x), Buy(y), Buy(y), On("release", 1)>>,
   <<Redeem(1, 1), Redeem(1, 1), On("cancel", 1), On("settle", 2)>>,
   <<Redeem(1, 1), Redeem(1, 2), On("settle", 1), On("settle", 2)>>,
   <<Redeem(1, 1), Buy(x), On("release", 1), On("settle", 1)>>,
   <<Redeem(1, 1), On("settle", 1), On("settle", 1), Invest(a, 1, "k1")>>,
   <<ByBank(Invest(b, 1, "k1")), Invest(b, 1, "k2"), On("delist", 0)>>}

=============================================================================
