------------------------------- MODULE Account -------------------------------
(***************************************************************************)
(* One user's account: a withdrawal request is admitted by requireAuth     *)
(* (Sessions), found eligible and given its payee (Compliance), and then   *)
(* runs the withdrawal code protocol (WithdrawalChallenge), while the user *)
(* signs out, resets the password and changes the bank account, and        *)
(* administrators review (middlewares/authMiddleware.js,                   *)
(* controllers/userController.js).  A restart takes the memory of all      *)
(* three.                                                                  *)
(***************************************************************************)
EXTENDS WithdrawalChallenge

CONSTANTS
  Visits, Tokens, Recoveries, Nonces,   \* see Sessions
  Desk, DocTypes, Verified,             \* see Compliance; its Accounts are Banks
  Scripts      \* what the requests of a behaviour may be: a set of records

ASSUME AccountAssumption ==
  /\ Verified \subseteq BOOLEAN
  /\ DocTypes # {}
  /\ 1 \in Banks   \* what is on file when the user starts out verified

VARIABLES
  revoked, writes, usedJtis, nonce, visit, toldOut, late, lost, resets, accepted,
  doc, status, updates, bank, suspended, desk, seen, declared,
  script,      \* the element of Scripts this behaviour follows
  admitted     \* withdrawal requests requireAuth let in

S == INSTANCE Sessions
C == INSTANCE Compliance WITH Accounts <- Banks

sessionVars == <<revoked, writes, usedJtis, nonce, visit, toldOut, late, lost, resets, accepted>>
complianceVars == <<doc, status, updates, bank, suspended, desk, seen, declared>>
vars == <<challengeVars, sessionVars, complianceVars, script, admitted>>

AccountInit ==
  /\ Init
  /\ S!SessionInit
  /\ C!ComplianceInit
  /\ script \in Scripts
  /\ admitted = {}

-----------------------------------------------------------------------------
(* In a calm script the requests come one after the other, and the calls   *)
(* of the code protocol all succeed.                                       *)
Op(s) == script.requests[s]
Waiting(s) ==
  /\ job[s].pc = "new" /\ Op(s) # None
  /\ script.calm => \A r \in Requests : r < s => job[r].pc = "done"
Outside == UNCHANGED <<sessionVars, complianceVars, script>>

(* requireAuth: the revocation, then the suspension.                       *)
Admission(s) ==
  /\ Waiting(s) /\ s \notin admitted
  /\ \E t \in Tokens : S!Admit(t)
  /\ ~suspended
  /\ admitted' = admitted \cup {s}
  /\ UNCHANGED <<challengeVars, complianceVars, script>>

Dismiss(s) == job' = [job EXCEPT ![s] = [NoJob EXCEPT !.pc = "done", !.answer = "refused"]]
RestOfChallenge == <<store, lapsed, rate, queue, told, history, passed>>

NoAdmission(s) ==
  /\ Waiting(s) /\ s \notin admitted
  /\ \/ \E t \in Tokens : S!RefuseToken(t)
     \/ suspended /\ UNCHANGED <<sessionVars, faults, slips>>
  /\ Dismiss(s)
  /\ UNCHANGED <<RestOfChallenge, complianceVars, script, admitted>>

(* requireVerified, requireApprovedBank and the reads before the lock; a   *)
(* cancellation needs none of them.                                        *)
Proceed(s) ==
  /\ Waiting(s) /\ s \in admitted
  /\ \E c \in Challenges \cup {NoId}, code \in {None, "right", "wrong"}, key \in Keys \cup {None} :
       \/ /\ Op(s) = "cancel"
          /\ Begin(s, Op(s), c, code, key, NoId)
          /\ UNCHANGED bank
       \/ /\ Op(s) \in {"request", "verify"}
          /\ C!Eligible("ok")
          /\ bank' = C!Refreshed
          /\ Begin(s, Op(s), c, code, key, C!Payee("ok").v)
  /\ UNCHANGED <<sessionVars, doc, status, updates, suspended, desk, seen, declared, script, admitted>>

(* The same when the bank account or the profile cannot be read: what is   *)
(* in memory decides.                                                      *)
ProceedUnread(s) ==
  /\ Waiting(s) /\ s \in admitted /\ Op(s) \in {"request", "verify"}
  /\ C!Eligible("failed")
  /\ S!Stumble("unread")
  /\ \E c \in Challenges \cup {NoId}, code \in {None, "right", "wrong"}, key \in Keys \cup {None} :
       /\ Allowed(Op(s), c, code, key, C!Payee("failed").v)
       /\ Enqueue(s, Op(s), c, code, key, C!Payee("failed").v)
  /\ bank' = C!Refreshed
  /\ UNCHANGED <<store, lapsed, rate, told, history, passed>>
  /\ UNCHANGED <<sessionVars, doc, status, updates, suspended, desk, seen, declared, script, admitted>>

NotEligible(s) ==
  /\ Waiting(s) /\ s \in admitted /\ Op(s) # "cancel"
  /\ ~C!Eligible("ok")
  /\ bank' = C!Refreshed
  /\ Dismiss(s)
  /\ UNCHANGED <<RestOfChallenge, faults, slips>>
  /\ UNCHANGED <<sessionVars, doc, status, updates, suspended, desk, seen, declared, script, admitted>>

ChallengeStep ==
  /\ \/ \E s \in Requests : Step(s)
     \/ \E c \in Challenges : Lapse(c)
     \/ \E k \in {"send", "verify"} : NewWindow(k)
  /\ script.calm => faults' = faults
  /\ Outside
  /\ UNCHANGED admitted

SessionStep ==
  /\ \/ \E v \in Visits :
          \/ script.visits[v] = "signOut" /\ \E t \in Tokens : S!SignOut(v, t) \/ S!AdminSignOut(v, t)
          \/ script.visits[v] = "reset" /\ \E r \in Recoveries : S!ResetPassword(v, r)
          \/ script.visits[v] = "nonce" /\ \E n \in Nonces : S!CreateNonce(v, n) \/ S!ReadNonce(v, n)
          \/ S!AdminSignedOut(v) \/ S!PasswordUpdated(v) \/ S!AcceptNonce(v) \/ S!MarkNonce(v)
     \/ \E h \in writes : S!WriteArrives(h)
     \/ \E r \in Recoveries : S!JtiWriteFails(r)
  /\ UNCHANGED <<RestOfChallenge, job, complianceVars, script, admitted>>

ComplianceStep ==
  /\ \/ \E d \in Desk :
          \/ /\ script.desk[d] = "documents"
             /\ \/ \E t \in DocTypes : \/ C!Upload(d, t) \/ C!UploadFails(d, t)
                                      \/ \E x \in C!Verdicts : C!ReviewDoc(d, t, x)
                \/ \E x \in C!Verdicts : C!ReviewDossier(d, x)
          \/ /\ script.desk[d] = "dossier"
             /\ \E T \in SUBSET DocTypes, b \in Banks \cup {0} : C!SubmitDossier(d, T, b)
          \/ script.desk[d] = "submit" /\ \E b \in Banks : C!SubmitBank(d, b)
          \/ script.desk[d] = "review" /\ \E x \in C!Verdicts : C!OpenBank(d, x)
          \/ script.desk[d] = "suspend" /\ \E flag \in BOOLEAN : C!Suspend(d, flag)
          \/ \E t \in DocTypes : \/ C!NextDocument(d, t) \/ C!DocumentWritten(d, t)
                                \/ C!DossierRow(d, t) \/ C!DossierUploaded(d, t)
          \/ C!Uploaded(d) \/ C!DocReviewed(d) \/ C!DocRecorded(d)
          \/ C!DossierReviewed(d) \/ C!DossierSubmitted(d) \/ C!ProfileWritten(d)
          \/ C!Submitted(d) \/ C!DossierBank(d) \/ C!DossierBanked(d)
          \/ C!ReviewBank(d) \/ C!BankReviewed(d)
     \/ \E x \in C!Statuses : C!UpdateArrives(x)
  /\ UNCHANGED <<RestOfChallenge, job, sessionVars, script, admitted>>

AccountRestart ==
  /\ ~script.calm
  /\ Restart
  /\ S!SessionRestart
  /\ C!ComplianceRestart
  /\ admitted' = {}
  /\ UNCHANGED script

AccountNext ==
  \/ \E s \in Requests : \/ Admission(s) \/ NoAdmission(s) \/ Proceed(s) \/ ProceedUnread(s)
                         \/ NotEligible(s)
  \/ ChallengeStep \/ SessionStep \/ ComplianceStep
  \/ AccountRestart

AccountSpec == AccountInit /\ [][AccountNext]_vars

-----------------------------------------------------------------------------
AccountTypeOK ==
  /\ TypeOK
  /\ S!SessionTypeOK
  /\ C!ComplianceTypeOK
  /\ script \in Scripts
  /\ admitted \subseteq Requests

(* Money goes only to bank details an administrator looked at, unless they *)
(* were submitted again while he decided.                                  *)
PaidToSeenAccount == \A w \in withdrawals : w.bank \in seen \/ Happened({"resubmitted"})

(* A token whose sign-out was answered is not admitted again, unless a     *)
(* restart came before the write nobody waited for (logout, requireAuth).  *)
SignedOutStaysOut == S!SignedOutStaysOut

(* A recovery authorization resets one password, unless a restart emptied  *)
(* the memory that is the only place asked.                                *)
RecoveryOnce == S!RecoveryOnce

(* A wallet nonce is accepted once, unless two verifications overlap or    *)
(* the row could not be marked.                                            *)
NonceOnce == S!NonceOnce

(* Memory and profile say of the user what his documents say, or pending   *)
(* after a dossier was submitted (see Compliance for the exceptions).      *)
StatusAgrees == C!StatusAgrees
=============================================================================
