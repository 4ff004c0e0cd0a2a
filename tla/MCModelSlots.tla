---------------------------- MODULE MCModelSlots ----------------------------
(***************************************************************************)
(* Two listings, without a match in the catalog, compete for one slot.     *)
(***************************************************************************)
EXTENDS ModelSlots

CONSTANTS l1, l2, r1, r2, t1, t2

MCListings == {l1, l2}
MCNoMatch == {}
MCRequests == {r1, r2}
MCTasks == {t1, t2}
=============================================================================
