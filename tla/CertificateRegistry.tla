------------------------ MODULE CertificateRegistry ------------------------
(***************************************************************************)
(* The certificate of one listed asset: its registration as a token on     *)
(* Sepolia when it is listed and by later retries, the digital certificate *)
(* that administrators issue and revoke, and what the certificate screen   *)
(* of the application makes of the row.                                    *)
(*                                                                         *)
(* Sources: controllers/assetController.js, services/web3Service.js,       *)
(* services/certificateService.js, services/certificateCryptoService.js    *)
(* (src/Backend/src), SmartAssetCertificate.sol, and the application's     *)
(* utils/certificateUtils.js and screens/CertificateScreen.js.             *)
(***************************************************************************)
EXTENDS Naturals, Sequences

CONSTANTS
  Requests,   \* bound: the requests ever made; each one mints at most once
  MaxFaults,  \* bound: writes, receipts and processes lost
  None

ASSUME NoneAssumption == None \notin Requests

VARIABLES
  row,         \* the asset's row in assets
  minted,      \* tokens of the contract: minted[n] is the request token n is due to
  mint,        \* what became of the call of mintAssetNFT of a request
  at,          \* where a request is
  saw,         \* tx_hash in the row an issuance read
  told,        \* a revocation was reported done
  overlapped,  \* a mint was unsettled when a retry read the row, or was given up
  faults

vars == <<row, minted, mint, at, saw, told, overlapped, faults>>

(***************************************************************************)
(* Texts of timestamps: what new Date().toISOString() writes, and what the *)
(* TIMESTAMPTZ column answers when it is asked.                            *)
(***************************************************************************)
Iso(r) == [issue |-> r, zone |-> "Z"]
Timestamptz(text) == [text EXCEPT !.zone = "+00:00"]

\* A row just inserted; tx is the request whose transaction is in tx_hash,
\* signed the text of issued_at under the signature.
Listing(registration) ==
  [listed |-> TRUE, registration |-> registration, token |-> 0, tx |-> None,
   lifecycle |-> "draft", revoked |-> FALSE, signed |-> None, issuedAt |-> None]

Init ==
  /\ row = [Listing("unregistered") EXCEPT !.listed = FALSE]
  /\ minted = << >>
  /\ mint = [r \in Requests |-> "none"]
  /\ at = [r \in Requests |-> "idle"]
  /\ saw = [r \in Requests |-> None]
  /\ told = FALSE /\ overlapped = FALSE /\ faults = 0

Goto(r, from, to) == at[r] = from /\ at' = [at EXCEPT ![r] = to]
Registration(status) == row' = [row EXCEPT !.registration = status]
Fault == faults < MaxFaults /\ faults' = faults + 1

(***************************************************************************)
(* The mint: mintAssetNFT sends a transaction and waits for its receipt;   *)
(* the contract numbers tokens in the order it mints them.                 *)
(***************************************************************************)
Minting == {"minting", "reminting"}          \* waiting for mintAssetNFT
Registering == Minting \cup {"checking", "retrying"}

Move(r, from, to) == mint[r] = from /\ mint' = [mint EXCEPT ![r] = to]

Broadcast(r) ==
  /\ Move(r, "called", "sent")
  /\ UNCHANGED <<row, minted, at, saw, told, overlapped, faults>>

\* No deployment, no relayer, no funds: nothing is sent.
MintThrows(r) ==
  /\ Move(r, "called", "failed")
  /\ UNCHANGED <<row, minted, at, saw, told, overlapped, faults>>

MintCertificate(r) ==
  /\ Move(r, "sent", "mined") /\ minted' = Append(minted, r)
  /\ UNCHANGED <<row, at, saw, told, overlapped, faults>>

Revert(r) ==
  /\ Move(r, "sent", "failed")
  /\ UNCHANGED <<row, minted, at, saw, told, overlapped, faults>>

(***************************************************************************)
(* What the handlers write of it, in one update each.                      *)
(***************************************************************************)
TokenOf(r) == CHOOSE n \in 1..Len(minted) : minted[n] = r

\* Mutant: a row written before the receipt, with the token that comes next.
WriteVerifiedWhenSent(r) ==
  /\ at[r] \in Minting /\ mint[r] \in {"sent", "mined"} /\ Goto(r, at[r], "done")
  /\ row' = [row EXCEPT !.registration = "verified_on_chain", !.token = Len(minted) + 1, !.tx = r]
  /\ UNCHANGED <<minted, mint, saw, told, overlapped, faults>>

WriteVerified(r) ==
  /\ at[r] \in Minting /\ mint[r] = "mined" /\ Goto(r, at[r], "done")
  /\ row' = [row EXCEPT !.registration = "verified_on_chain", !.token = TokenOf(r), !.tx = r]
  /\ UNCHANGED <<minted, mint, saw, told, overlapped, faults>>

WriteFailed(r) ==
  /\ at[r] \in Minting /\ mint[r] = "failed" /\ Goto(r, at[r], "done")
  /\ Registration("failed")
  /\ UNCHANGED <<minted, mint, saw, told, overlapped, faults>>

\* Errors of these updates are ignored.
LoseWrite(r) ==
  /\ at[r] \in Minting /\ mint[r] \in {"mined", "failed"} /\ Goto(r, at[r], "done")
  /\ Fault /\ overlapped' = TRUE
  /\ UNCHANGED <<row, minted, mint, saw, told>>

\* The wait for the receipt throws although the transaction is on its way.
LoseReceipt(r) ==
  /\ at[r] \in Minting /\ mint[r] \in {"sent", "mined"} /\ Goto(r, at[r], "done")
  /\ Registration("failed")
  /\ Fault /\ overlapped' = TRUE
  /\ UNCHANGED <<minted, mint, saw, told>>

(***************************************************************************)
(* POST /api/assets and POST /api/assets/:id/retry-mint                    *)
(***************************************************************************)
\* Without a wallet the listing is not registered.
CreateAsset(r) ==
  /\ ~row.listed
  /\ \/ row' = Listing("unregistered") /\ Goto(r, "idle", "done")
     \/ row' = Listing("pending") /\ Goto(r, "idle", "checking")
  /\ UNCHANGED <<minted, mint, saw, told, overlapped, faults>>

\* The contract is not deployed, or the six seconds have passed.
CheckFails(r) ==
  /\ Goto(r, "checking", "done") /\ Registration("unregistered")
  /\ UNCHANGED <<minted, mint, saw, told, overlapped, faults>>

StartMint(r) ==
  /\ Goto(r, "checking", "minting") /\ Move(r, "none", "called")
  /\ UNCHANGED <<row, minted, saw, told, overlapped, faults>>

\* Mutant: the listing is answered and nothing is written.
TimeoutSilent(r) ==
  /\ Goto(r, "minting", "done") /\ overlapped' = TRUE
  /\ UNCHANGED <<row, minted, mint, saw, told, faults>>

\* Ten seconds: the listing is answered, the mint goes on and nobody listens.
Timeout(r) ==
  /\ Goto(r, "minting", "done") /\ Registration("failed")
  /\ overlapped' = TRUE
  /\ UNCHANGED <<minted, mint, saw, told, faults>>

\* Mutant: asks only whether a mint is under way.
MayMintUnlessPending == row.registration # "pending"

MayMint == row.registration # "verified_on_chain" /\ row.tx = None

RetryMint(r) ==
  /\ row.listed /\ MayMint /\ Goto(r, "idle", "retrying")
  /\ overlapped' = (overlapped \/ \E q \in Requests : at[q] \in Registering)
  /\ UNCHANGED <<row, minted, mint, saw, told, faults>>

\* No wallet is linked, or the contract is not deployed.
RefuseRetry(r) ==
  /\ Goto(r, "retrying", "done")
  /\ UNCHANGED <<row, minted, mint, saw, told, overlapped, faults>>

MarkPending(r) ==
  /\ Goto(r, "retrying", "reminting") /\ Move(r, "none", "called")
  /\ Registration("pending")
  /\ UNCHANGED <<minted, saw, told, overlapped, faults>>

\* The error of that update is ignored as well, and the mint follows.
LoseMark(r) ==
  /\ Goto(r, "retrying", "reminting") /\ Move(r, "none", "called")
  /\ Fault
  /\ UNCHANGED <<row, minted, saw, told, overlapped>>

(***************************************************************************)
(* POST /api/certificates/:assetId/issue and /revoke                       *)
(***************************************************************************)
IssueCertificate(r) ==
  /\ row.listed /\ row.lifecycle # "revoked" /\ ~row.revoked
  /\ Goto(r, "idle", "issuing")
  /\ saw' = [saw EXCEPT ![r] = row.tx]
  /\ UNCHANGED <<row, minted, mint, told, overlapped, faults>>

SaveCertificate(r) ==
  /\ Goto(r, "issuing", "done")
  /\ row' = [row EXCEPT !.lifecycle = IF saw[r] = None THEN "issued" ELSE "anchored",
                        !.signed = Iso(r), !.issuedAt = Timestamptz(Iso(r))]
  /\ UNCHANGED <<minted, mint, saw, told, overlapped, faults>>

LoseCertificate(r) ==
  /\ Goto(r, "issuing", "done") /\ Fault
  /\ UNCHANGED <<row, minted, mint, saw, told, overlapped>>

\* Mutant: the flag is left alone.
RevokedByStatus == row' = [row EXCEPT !.lifecycle = "revoked"]

Revoked == row' = [row EXCEPT !.lifecycle = "revoked", !.revoked = TRUE]

\* What is read first decides nothing, so that a certificate can be revoked again.
RevokeCertificate(r) ==
  /\ row.listed /\ Goto(r, "idle", "done")
  /\ Revoked
  /\ \/ told' = TRUE /\ UNCHANGED faults
     \/ Fault /\ UNCHANGED told          \* the answer of the update is lost
  /\ UNCHANGED <<minted, mint, saw, overlapped>>

\* The process ends with the requests it was at work on; transactions live on.
Restart ==
  /\ \E r \in Requests : at[r] \notin {"idle", "done"}
  /\ at' = [r \in Requests |-> IF at[r] = "idle" THEN "idle" ELSE "done"]
  /\ mint' = [r \in Requests |-> IF mint[r] = "called" THEN "failed" ELSE mint[r]]
  /\ Fault /\ overlapped' = TRUE
  /\ UNCHANGED <<row, minted, saw, told>>

Work(r) ==
  \/ Broadcast(r) \/ MintThrows(r) \/ WriteVerified(r) \/ WriteFailed(r)
  \/ CheckFails(r) \/ StartMint(r) \/ RefuseRetry(r) \/ MarkPending(r)
Chain(r) == MintCertificate(r) \/ Revert(r)

Next ==
  \/ \E r \in Requests :
       \/ Work(r) \/ Chain(r) \/ LoseWrite(r) \/ LoseReceipt(r) \/ LoseMark(r)
       \/ CreateAsset(r) \/ Timeout(r) \/ RetryMint(r)
       \/ IssueCertificate(r) \/ SaveCertificate(r) \/ LoseCertificate(r)
       \/ RevokeCertificate(r)
  \/ Restart

Spec == Init /\ [][Next]_vars

\* Node runs what is ready, and Ethereum includes what was sent.
Fairness == \A r \in Requests : WF_vars(Work(r)) /\ WF_vars(Chain(r))

FairSpec == Spec /\ Fairness

(***************************************************************************)
(* What is shown of the row: the server's dossier, and the screen, which   *)
(* asks for the dossier and, when that fails, for the asset.               *)
(***************************************************************************)
\* The canonical form is computed anew from the columns.
Verifies == row.signed # None /\ row.signed = row.issuedAt

Dossier ==
  CASE row.revoked -> "revoked"
    [] ~row.revoked /\ row.signed = None -> "draft"
    [] ~row.revoked /\ row.signed # None /\ ~Verifies -> "unverifiable"
    [] ~row.revoked /\ Verifies /\ row.tx # None -> "anchored"
    [] ~row.revoked /\ Verifies /\ row.tx = None -> row.lifecycle

\* buildCertificateData: the flag, then the hash, then the signature.
Card(tx, signed) ==
  IF row.revoked THEN "revoked"
  ELSE IF tx # None THEN "anchored"
  ELSE IF signed # None THEN "issued" ELSE "draft"

\* The dossier of a draft has neither certificate nor anchoring.
ScreenOfDossier == IF Dossier = "draft" THEN "draft" ELSE Card(row.tx, row.signed)
ScreenOfAsset == Card(row.tx, row.signed)
Screens == {ScreenOfDossier, ScreenOfAsset}

-----------------------------------------------------------------------------
Statuses == {"unregistered", "pending", "verified_on_chain", "failed"}
Lifecycles == {"draft", "issued", "anchored", "revoked"}

Signed == {Iso(r) : r \in Requests} \cup {None}
IssuedAt == {Timestamptz(Iso(r)) : r \in Requests} \cup {None}
Rows == [listed : BOOLEAN, registration : Statuses, token : Nat, tx : Requests \cup {None},
         lifecycle : Lifecycles, revoked : BOOLEAN, signed : Signed, issuedAt : IssuedAt]

\* The row keeps to the CHECK constraints of its table.
TypeOK ==
  /\ row \in Rows
  /\ minted \in Seq(Requests)
  /\ mint \in [Requests -> {"none", "called", "sent", "mined", "failed"}]
  /\ at \in [Requests -> {"idle", "done", "issuing"} \cup Registering]
  /\ saw \in [Requests -> Requests \cup {None}]
  /\ told \in BOOLEAN /\ overlapped \in BOOLEAN /\ faults \in Nat

\* Once a revocation was reported (certificateService.js:262), neither the
\* dossier nor any screen shows anything else, also when an issuance that read
\* the row before writes its own status over it.
RevokedShown == told => Dossier = "revoked" /\ Screens = {"revoked"}

\* What a screen calls anchored, and what the row calls verified, is a token
\* that was minted, and token and transaction belong together, in whatever
\* order attempts end (assetController.js:884 and 1648).
AnchoredIsMined ==
  ("anchored" \in Screens \/ row.registration = "verified_on_chain") =>
    /\ row.tx # None /\ row.token \in 1..Len(minted)
    /\ minted[row.token] = row.tx

\* The check of retryMint (assetController.js:1542) prevents second tokens as
\* long as it read the row while no mint was unsettled and none was given up.
DuplicateNeedsOverlap == Len(minted) > 1 => overlapped

\* Unless something is lost, no registration stays pending: the timeout, the
\* check, the mint and its failure all write what became of it
\* (assetController.js:1608).
PendingEnds ==
  (row.registration = "pending" /\ faults = 0) ~> (row.registration # "pending" \/ faults > 0)

\* An issued certificate that nobody altered is not "unverifiable"
\* (certificateService.js:11): every signed field keeps its value.
IssuedVerifies == row.signed # None => Dossier # "unverifiable"
=============================================================================
