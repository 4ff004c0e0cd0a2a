----------------------------- MODULE Compliance -----------------------------
(***************************************************************************)
(* The compliance records of one user                                      *)
(* (Backend/src/services/complianceService.js): verification documents,    *)
(* the verification status derived from them, the bank account for payouts *)
(* and the suspension of the account.                                      *)
(*                                                                         *)
(* Each record is kept in memory and in the database.  The operations of   *)
(* the user and of the administrators take no lock; reviews change memory  *)
(* first and ignore errors of the database.  The suspension is kept in     *)
(* memory only.                                                            *)
(***************************************************************************)
EXTENDS Naturals, FiniteSets

CONSTANTS
  Desk,       \* requests to the handlers of this module
  DocTypes,   \* VALID_DOC_TYPES
  Accounts,   \* the bank details the user may submit, numbered; 1 is on file
  Verified,   \* whether the user starts out verified, or with nothing on file
  MaxFaults   \* bound on restarts and failed calls, shared with the composition

VARIABLES
  doc,        \* verification_documents: documentsMap (mem) and rows (db)
  status,     \* profiles.verification_status: userStatusMap (mem) and row (db)
  updates,    \* updates of the profile nobody waits for: how many of a status
  bank,       \* bank_accounts: bankAccountsMap (mem) and row (db)
  suspended,  \* isSuspended, in memory
  desk,       \* the requests
  seen,       \* history: the bank details an administrator looked at
  declared,   \* history: no operation after a submitted dossier's looked at the documents
  faults,
  slips

complianceVars == <<doc, status, updates, bank, suspended, desk, seen, declared>>

Verdicts == {"approved", "rejected"}
Statuses == {"unverified", "pending", "verified", "rejected"}
NoDoc == "none"
NoBank == [v |-> 0, status |-> "none"]
NoDesk == [pc |-> "new", item |-> 0, verdict |-> "none", left |-> {}, rows |-> {}]

Both(x) == [mem |-> x, db |-> x]
ComplianceInit ==
  \E start \in Verified :
    /\ doc = Both([d \in DocTypes |-> IF start THEN "approved" ELSE NoDoc])
    /\ status = Both(IF start THEN "verified" ELSE "unverified")
    /\ updates = [x \in Statuses |-> 0]
    /\ bank = Both(IF start THEN [v |-> 1, status |-> "approved"] ELSE NoBank)
    /\ suspended = FALSE
    /\ desk = [d \in Desk |-> NoDesk]
    /\ seen = IF start THEN {1} ELSE {}
    /\ declared = FALSE

Slip(kind) == faults < MaxFaults /\ faults' = faults + 1 /\ slips' = slips \cup {kind}
InOrder == UNCHANGED <<faults, slips>>

(* The operations on the documents, up to the end of the writes they wait  *)
(* for; the documents are quiet when the updates have arrived as well.     *)
DocumentSteps ==
  {"uploaded", "docReviewed", "docRecorded", "dossier", "dossierSent", "dossierBank", "profileSent"}
Idle == \A d \in Desk : desk[d].pc \notin DocumentSteps
Quiet == Idle /\ \A x \in Statuses : updates[x] = 0

(* History: an operation on the documents starts before another is over    *)
(* (crossed), or while a whole dossier is being reviewed (overruled).      *)
Overtakes ==
  (IF Quiet THEN {} ELSE {"crossed"})
  \cup (IF \E d \in Desk : desk[d].pc = "dossier" THEN {"overruled"} ELSE {})
Starting(more) ==
  /\ slips' = slips \cup more \cup Overtakes
  /\ declared' = (declared /\ ~Idle)
  /\ UNCHANGED faults
Finish(d) == desk' = [desk EXCEPT ![d] = [NoDesk EXCEPT !.pc = "done"]]

-----------------------------------------------------------------------------
(* recomputeUserVerificationStatus: memory at once, the profile some time. *)
Derived(docs) ==
  IF \E d \in DocTypes : docs[d] = "rejected" THEN "rejected"
  ELSE IF \A d \in DocTypes : docs[d] = "approved" THEN "verified"
  ELSE IF \E d \in DocTypes : docs[d] # NoDoc THEN "pending" ELSE "unverified"
(* Mutant: the profile is not updated.                                     *)
RecomputeInMemory(docs) ==
  status' = [status EXCEPT !.mem = Derived(docs)] /\ UNCHANGED updates
Recompute(docs) ==
  /\ status' = [status EXCEPT !.mem = Derived(docs)]
  /\ updates' = [updates EXCEPT ![Derived(docs)] = @ + 1]

UpdateArrives(x) ==
  /\ updates[x] > 0
  /\ updates' = [updates EXCEPT ![x] = @ - 1]
  /\ \/ status' = [status EXCEPT !.db = x] /\ InOrder
     \/ Slip("profile") /\ UNCHANGED status
  /\ UNCHANGED <<doc, bank, suspended, desk, seen, declared>>

(* uploadVerificationDocument: the row, and if that was confirmed, memory. *)
Upload(d, t) ==
  /\ desk[d].pc = "new"
  /\ doc' = [doc EXCEPT !.db[t] = "pending"]
  /\ desk' = [desk EXCEPT ![d].pc = "uploaded", ![d].item = t]
  /\ Starting({})
  /\ UNCHANGED <<status, updates, bank, suspended, seen>>

(* The storage or the row failed; the two are written in parallel.         *)
UploadFails(d, t) ==
  /\ desk[d].pc = "new"
  /\ doc' \in {doc, [doc EXCEPT !.db[t] = "pending"]}
  /\ Slip("upload")
  /\ Finish(d)
  /\ UNCHANGED <<status, updates, bank, suspended, seen, declared>>

Uploaded(d) ==
  LET docs == [doc.mem EXCEPT ![desk[d].item] = "pending"]
  IN /\ desk[d].pc = "uploaded"
     /\ doc' = [doc EXCEPT !.mem = docs]
     /\ Recompute(docs)
     /\ Finish(d)
     /\ InOrder
     /\ UNCHANGED <<bank, suspended, seen, declared>>

(* approveDocument and rejectDocument: memory; then the row, its errors    *)
(* ignored; then, after the audit log, the status of the account.          *)
ReviewDoc(d, t, verdict) ==
  /\ desk[d].pc = "new"
  /\ doc.mem[t] # NoDoc
  /\ doc' = [doc EXCEPT !.mem[t] = verdict]
  /\ desk' = [desk EXCEPT ![d] = [NoDesk EXCEPT !.pc = "docReviewed", !.item = t,
                                  !.verdict = verdict]]
  /\ Starting({})
  /\ UNCHANGED <<status, updates, bank, suspended, seen>>

RowWritten(t, verdict) ==
  \/ doc' = [doc EXCEPT !.db[t] = verdict] /\ InOrder
  \/ Slip("document") /\ UNCHANGED doc

DocReviewed(d) ==
  /\ desk[d].pc = "docReviewed"
  /\ RowWritten(desk[d].item, desk[d].verdict)
  /\ desk' = [desk EXCEPT ![d].pc = "docRecorded"]
  /\ UNCHANGED <<status, updates, bank, suspended, seen, declared>>

DocRecorded(d) ==
  /\ desk[d].pc = "docRecorded"
  /\ Recompute(doc.mem)
  /\ Finish(d)
  /\ InOrder
  /\ UNCHANGED <<doc, bank, suspended, seen, declared>>

(* approveKyc and rejectKyc go through the documents there are (left: not  *)
(* yet), each in memory and then in its row (rows: being written), the     *)
(* next one when that is done.  Only approveKyc takes a user with none.    *)
ReviewDossier(d, verdict) ==
  /\ desk[d].pc = "new"
  /\ verdict = "approved" \/ \E t \in DocTypes : doc.mem[t] # NoDoc
  /\ desk' = [desk EXCEPT ![d] = [NoDesk EXCEPT !.pc = "dossier", !.verdict = verdict,
                                  !.left = DocTypes]]
  /\ Starting((IF Idle THEN {} ELSE {"overruled"})
              \cup (IF verdict = "approved" /\ \E t \in DocTypes : doc.mem[t] = NoDoc
                    THEN {"incomplete"} ELSE {}))
  /\ UNCHANGED <<doc, status, updates, bank, suspended, seen>>

NextDocument(d, t) ==
  /\ desk[d].pc = "dossier" /\ desk[d].rows = {}
  /\ t \in desk[d].left /\ doc.mem[t] # NoDoc
  /\ doc' = [doc EXCEPT !.mem[t] = desk[d].verdict]
  /\ desk' = [desk EXCEPT ![d].left = @ \ {t}, ![d].rows = {t}]
  /\ InOrder
  /\ UNCHANGED <<status, updates, bank, suspended, seen, declared>>

DocumentWritten(d, t) ==
  /\ desk[d].pc = "dossier" /\ t \in desk[d].rows
  /\ RowWritten(t, desk[d].verdict)
  /\ desk' = [desk EXCEPT ![d].rows = {}]
  /\ UNCHANGED <<status, updates, bank, suspended, seen, declared>>

(* A status set without another look at the documents: in memory at once,  *)
(* in the profile by an update the operation waits for.                    *)
Declare(d, result) ==
  /\ status' = [status EXCEPT !.mem = result]
  /\ desk' = [desk EXCEPT ![d] = [NoDesk EXCEPT !.pc = "profileSent", !.verdict = result]]
  /\ InOrder

ProfileWritten(d) ==
  /\ desk[d].pc = "profileSent"
  /\ \/ status' = [status EXCEPT !.db = desk[d].verdict] /\ InOrder
     \/ Slip("profile") /\ UNCHANGED status
  /\ Finish(d)
  /\ UNCHANGED <<doc, updates, bank, suspended, seen, declared>>

DossierReviewed(d) ==
  /\ desk[d].pc = "dossier" /\ desk[d].rows = {}
  /\ \A t \in desk[d].left : doc.mem[t] = NoDoc
  /\ Declare(d, IF desk[d].verdict = "approved" THEN "verified" ELSE "rejected")
  /\ UNCHANGED <<doc, updates, bank, suspended, seen, declared>>

(* submitKyc: the documents T that come with the dossier are uploaded in   *)
(* parallel (left: not yet in their rows; rows: not yet in memory), one    *)
(* that fails is left out; then the bank details v, if any; then the       *)
(* status is pending, whatever the documents say.                          *)
SubmitDossier(d, T, v) ==
  /\ desk[d].pc = "new"
  /\ desk' = [desk EXCEPT ![d] = [NoDesk EXCEPT !.pc = "dossierSent", !.left = T, !.item = v]]
  /\ slips' = slips \cup Overtakes \cup (IF \E t, u \in T : t # u THEN {"crossed"} ELSE {})
  /\ declared' = TRUE
  /\ UNCHANGED <<doc, status, updates, bank, suspended, seen, faults>>

DossierRow(d, t) ==
  /\ desk[d].pc = "dossierSent" /\ t \in desk[d].left
  /\ \/ /\ doc' = [doc EXCEPT !.db[t] = "pending"]
        /\ desk' = [desk EXCEPT ![d].left = @ \ {t}, ![d].rows = @ \cup {t}]
        /\ InOrder
     \/ /\ doc' \in {doc, [doc EXCEPT !.db[t] = "pending"]}
        /\ desk' = [desk EXCEPT ![d].left = @ \ {t}]
        /\ Slip("upload")
  /\ UNCHANGED <<status, updates, bank, suspended, seen, declared>>

DossierUploaded(d, t) ==
  LET docs == [doc.mem EXCEPT ![t] = "pending"]
  IN /\ desk[d].pc = "dossierSent" /\ t \in desk[d].rows
     /\ doc' = [doc EXCEPT !.mem = docs]
     /\ Recompute(docs)
     /\ desk' = [desk EXCEPT ![d].rows = @ \ {t}]
     /\ InOrder
     /\ UNCHANGED <<bank, suspended, seen, declared>>

DossierSubmitted(d) ==
  /\ desk[d].pc = "dossierSent" /\ desk[d].left = {} /\ desk[d].rows = {} /\ desk[d].item = 0
  /\ Declare(d, "pending")
  /\ UNCHANGED <<doc, updates, bank, suspended, seen, declared>>

-----------------------------------------------------------------------------
(* submitBankAccount: the row is overwritten with the new details and is   *)
(* pending again; then memory, also if the row could not be written.       *)
(* Mutant: an approval outlives the details it was given for.              *)
KeepApproval(v) == [v |-> v, status |-> IF bank.mem = NoBank THEN "pending" ELSE bank.mem.status]
Resubmission(v) == [v |-> v, status |-> "pending"]
SubmitBank(d, v) ==
  /\ desk[d].pc = "new"
  /\ \/ bank' = [bank EXCEPT !.db = Resubmission(v)] /\ InOrder
     \/ Slip("bank") /\ UNCHANGED bank
  /\ desk' = [desk EXCEPT ![d].pc = "submitted", ![d].item = v]
  /\ UNCHANGED <<doc, status, updates, suspended, seen, declared>>

Submitted(d) ==
  /\ desk[d].pc = "submitted"
  /\ bank' = [bank EXCEPT !.mem = Resubmission(desk[d].item)]
  /\ Finish(d)
  /\ InOrder
  /\ UNCHANGED <<doc, status, updates, suspended, seen, declared>>

(* The same in a dossier whose uploads are over.                           *)
DossierBank(d) ==
  /\ desk[d].pc = "dossierSent" /\ desk[d].left = {} /\ desk[d].rows = {} /\ desk[d].item # 0
  /\ \/ bank' = [bank EXCEPT !.db = Resubmission(desk[d].item)] /\ InOrder
     \/ Slip("bank") /\ UNCHANGED bank
  /\ desk' = [desk EXCEPT ![d].pc = "dossierBank"]
  /\ UNCHANGED <<doc, status, updates, suspended, seen, declared>>

DossierBanked(d) ==
  /\ desk[d].pc = "dossierBank"
  /\ bank' = [bank EXCEPT !.mem = Resubmission(desk[d].item)]
  /\ desk' = [desk EXCEPT ![d].pc = "dossierSent", ![d].item = 0]
  /\ InOrder
  /\ UNCHANGED <<doc, status, updates, suspended, seen, declared>>

(* An administrator opens the account details and decides on what he sees; *)
(* approveBankAccount and rejectBankAccount get the id alone.              *)
OpenBank(d, verdict) ==
  /\ desk[d].pc = "new"
  /\ bank.mem # NoBank
  /\ desk' = [desk EXCEPT ![d] = [NoDesk EXCEPT !.pc = "opened", !.item = bank.mem.v,
                                  !.verdict = verdict]]
  /\ seen' = seen \cup {bank.mem.v}
  /\ InOrder
  /\ UNCHANGED <<doc, status, updates, bank, suspended, declared>>

ReviewBank(d) ==
  /\ desk[d].pc = "opened"
  /\ bank.mem # NoBank
  /\ bank' = [bank EXCEPT !.mem.status = desk[d].verdict]
  /\ desk' = [desk EXCEPT ![d].pc = "bankReviewed"]
  /\ slips' = IF bank.mem.v # desk[d].item THEN slips \cup {"resubmitted"} ELSE slips
  /\ UNCHANGED <<doc, status, updates, suspended, seen, declared, faults>>

BankReviewed(d) ==
  /\ desk[d].pc = "bankReviewed"
  /\ \/ /\ bank' = IF bank.db = NoBank THEN bank
                   ELSE [bank EXCEPT !.db.status = desk[d].verdict]
        /\ slips' = IF bank.db.v # desk[d].item THEN slips \cup {"resubmitted"} ELSE slips
        /\ UNCHANGED faults
     \/ Slip("bank") /\ UNCHANGED bank
  /\ Finish(d)
  /\ UNCHANGED <<doc, status, updates, suspended, seen, declared>>

-----------------------------------------------------------------------------
(* setUserSuspension                                                       *)
Suspend(d, flag) ==
  /\ desk[d].pc = "new"
  /\ suspended' = flag
  /\ Finish(d)
  /\ InOrder
  /\ UNCHANGED <<doc, status, updates, bank, seen, declared>>

(* getVerificationStatusBundle (in requireVerified): a bank record that is *)
(* not approved is read again.                                             *)
Refreshed == IF bank.mem.status # "approved" /\ bank.db # NoBank THEN Both(bank.db) ELSE bank

(* resolveAuthoritativeUserAndBank: the row of the bank account over the   *)
(* record in memory, and verified if either status says so.                *)
Payee(read) == IF read = "ok" /\ bank.db # NoBank THEN bank.db ELSE Refreshed.mem
IsVerified(read) == "verified" \in {status.mem} \cup (IF read = "ok" THEN {status.db} ELSE {})
Eligible(read) == ~suspended /\ IsVerified(read) /\ Payee(read).status = "approved"

(* hydrateComplianceFromSupabase; nobody is suspended afterwards.          *)
ComplianceRestart ==
  /\ doc' = Both(doc.db)
  /\ \E db \in {status.db} \cup {x \in Statuses : updates[x] > 0} : status' = Both(db)
  /\ updates' = [x \in Statuses |-> 0]
  /\ bank' = Both(bank.db)
  /\ suspended' = FALSE
  /\ desk' = [d \in Desk |-> IF desk[d].pc = "new" THEN NoDesk ELSE [NoDesk EXCEPT !.pc = "done"]]
  /\ UNCHANGED <<seen, declared>>

-----------------------------------------------------------------------------
Docs == [DocTypes -> {NoDoc, "pending"} \cup Verdicts]
BankRecords == [v : Accounts \cup {0}, status : {"none", "pending"} \cup Verdicts]
ComplianceTypeOK ==
  /\ doc \in [mem : Docs, db : Docs]
  /\ status \in [mem : Statuses, db : Statuses]
  /\ updates \in [Statuses -> Nat]
  /\ bank \in [mem : BankRecords, db : BankRecords]
  /\ suspended \in BOOLEAN
  /\ seen \subseteq Accounts
  /\ declared \in BOOLEAN

(* The status in memory says what the documents say whenever none of them  *)
(* is being worked on, and the profile says so when its updates have       *)
(* arrived; after a submitted dossier they may say pending instead, until  *)
(* the next operation on the documents.  Nothing keeps memory from this    *)
(* but an operation that ran into the review of a dossier, the approval of *)
(* one with documents missing, or a restart; operations that cross at all, *)
(* or a failed write, keep the profile from it.                            *)
Stated == {Derived(doc.mem)} \cup (IF declared THEN {"pending"} ELSE {})
StatusAgrees ==
  /\ Idle => \/ status.mem \in Stated
             \/ {"overruled", "incomplete", "restart"} \cap slips # {}
  /\ Quiet => \/ status.db \in Stated
              \/ {"overruled", "incomplete", "restart", "crossed", "profile"} \cap slips # {}

=============================================================================
