----------------------------- MODULE OneTimeCode -----------------------------
(***************************************************************************)
(* What withdrawalVerificationService promises about the codes it mails:   *)
(* a code admits at most one withdrawal, and once it was closed (used      *)
(* wrongly, cancelled, expired, replaced, lost in a restart) it is never   *)
(* open again.                                                             *)
(***************************************************************************)
CONSTANT Challenges

VARIABLE stage      \* stage[c]: how far the code of challenge c has come

Stages == {"fresh", "open", "claimed", "used", "closed"}

Init == stage = [c \in Challenges |-> "fresh"]

Issue(c) == stage[c] = "fresh" /\ stage' = [stage EXCEPT ![c] = "open"]

(* The right code was presented in time: the code is taken.                *)
Claim(c) == stage[c] = "open" /\ stage' = [stage EXCEPT ![c] = "claimed"]

(* The withdrawal it admits is submitted.                                  *)
Use(c) == stage[c] = "claimed" /\ stage' = [stage EXCEPT ![c] = "used"]

(* Any number of codes are closed at once.                                 *)
Close(C) ==
  /\ \A c \in C : stage[c] \in {"open", "claimed"}
  /\ stage' = [c \in Challenges |-> IF c \in C THEN "closed" ELSE stage[c]]

Next ==
  \/ \E c \in Challenges : Issue(c) \/ Claim(c) \/ Use(c)
  \/ \E C \in SUBSET Challenges : Close(C)

Spec == Init /\ [][Next]_stage

=============================================================================
