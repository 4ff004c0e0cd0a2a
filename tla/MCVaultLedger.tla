---------------------------- MODULE MCVaultLedger ----------------------------
(***************************************************************************)
(* One user, handlers racing for the lock and one checkout beside it.      *)
(***************************************************************************)
EXTENDS VaultLedger, TLC

CONSTANTS t1, t2, t3, r1, r2, k1, e1, e2

MCTxs == {t1, t2, t3}
MCRequests == {r1, r2}
MCDeposits == {2}
MCWithdrawals == {1}
MCKeys == {k1}
MCRefs == {e1, e2}

LedgerSymmetry == Permutations(Txs) \cup Permutations(Requests) \cup Permutations(Refs)

\* Once torn, always torn, and what this run checks speaks of whole ledgers.
Whole == ~torn

\* What decides the future: the map is read only when a database read fails, and
\* of a handler that is done only the transaction it writes to the map.
Remaining(h) ==
  CASE h.pc = "done" -> <<h.op, h.tx>>
    [] h.pc = "look" /\ faults = MaxFaults -> [h EXCEPT !.saw = "none"]
    [] OTHER -> h

Relevant ==
  <<profile, rows, IF faults < MaxFaults THEN cache ELSE <<>>, queue,
    [r \in Requests |-> Remaining(req[r])], faults, torn>>
=============================================================================
