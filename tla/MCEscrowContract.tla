-------------------------- MODULE MCEscrowContract --------------------------
(***************************************************************************)
(* A small instance: two orders, the relayer and two traders, one of whom  *)
(* is a contract that may call back or refuse a transfer.                  *)
(***************************************************************************)
EXTENDS EscrowContract, TLC

CONSTANTS o1, o2, relayer, ann, bob

MCOrderIds == {o1, o2}
MCAccounts == {relayer, ann, bob}
MCContracts == {bob}
MCValues == {0, 2, 3}

OrderSymmetry == Permutations(MCOrderIds)
=============================================================================
