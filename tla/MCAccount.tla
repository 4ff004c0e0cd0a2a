------------------------------ MODULE MCAccount ------------------------------
(***************************************************************************)
(* Small instances of Account: one user with two challenges, two bank      *)
(* accounts, one session, one recovery authorization and one nonce.  Each  *)
(* script mixes a few requests that can disturb one another; everything    *)
(* else (inputs, order, faults, time) is free.                             *)
(***************************************************************************)
EXTENDS Account

MCLimit == [k \in {"send", "verify"} |-> 1]

Script(r, v, d) ==
  [requests |-> [x \in Requests |-> IF x \in DOMAIN r THEN r[x] ELSE None],
   visits |-> [x \in Visits |-> IF x \in DOMAIN v THEN v[x] ELSE None],
   desk |-> [x \in Desk |-> IF x \in DOMAIN d THEN d[x] ELSE None],
   calm |-> FALSE]
NoOne == <<>>
OneByOne(r, d) == [Script(r, NoOne, d) EXCEPT !.calm = TRUE]

MCScripts ==
  { Script(<<"request", "verify", "verify">>, NoOne, NoOne),
    OneByOne(<<"request", "verify", "request", "verify">>, NoOne),
    Script(<<"request", "verify", "cancel">>, NoOne, NoOne),
    Script(<<"request", "request", "verify">>, NoOne, NoOne),
    Script(<<"request", "verify">>, NoOne, <<"submit", "review">>),
    Script(<<"request">>, NoOne, <<"suspend", "suspend">>),
    Script(<<"request", "verify">>, <<"signOut">>, NoOne),
    Script(NoOne, NoOne, <<"documents", "documents">>),
    Script(NoOne, NoOne, <<"dossier", "documents">>),
    OneByOne(<<"request", "verify">>, <<"dossier">>),
    Script(<<"cancel">>, <<"signOut", "signOut">>, NoOne),
    Script(NoOne, <<"reset", "reset">>, NoOne),
    Script(NoOne, <<"nonce", "nonce", "nonce", "nonce">>, NoOne) }
=============================================================================
