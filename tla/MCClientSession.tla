-------------------------- MODULE MCClientSession --------------------------
(***************************************************************************)
(* Two people on one device, two tokens, two requests in flight.           *)
(***************************************************************************)
EXTENDS ClientSession, TLC

CONSTANTS a, b, t1, t2, s1, s2

MCAccounts == {a, b}
MCTokens == {t1, t2}
MCSlots == {s1, s2}

DeviceSymmetry == Permutations(Accounts) \cup Permutations(Tokens) \cup Permutations(Slots)
=============================================================================
