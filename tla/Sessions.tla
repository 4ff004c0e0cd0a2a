------------------------------ MODULE Sessions ------------------------------
(***************************************************************************)
(* Things that may be presented once or until they are revoked             *)
(* (Backend/src/services/tokenRevocationService.js, walletAuthService.js,  *)
(* and the sign-out and recovery handlers of authController.js): access    *)
(* tokens, recovery authorizations and the nonces of wallet challenges.    *)
(*                                                                         *)
(* Each has a record in memory and one in the database; most handlers do   *)
(* not wait for the write to the database.                                 *)
(***************************************************************************)
EXTENDS Naturals, FiniteSets

CONSTANTS
  Visits,      \* requests to the handlers of this module
  Tokens,      \* access tokens
  Recoveries,  \* recovery authorizations, signed, each with its jti
  Nonces,      \* wallet challenges
  MaxFaults    \* bound on restarts and failed calls, shared with the composition

VARIABLES
  revoked,     \* hashes in localCache (mem) and in revoked_tokens (db)
  writes,      \* upserts of revoked_tokens nobody waits for
  usedJtis,    \* usedRecoveryJtis, in memory
  nonce,       \* the nonces: row, inMemoryNonces and whether it was drawn yet
  visit,       \* the requests
  toldOut,     \* history: tokens whose sign-out was answered
  late,        \* history: tokens admitted after that
  lost,        \* history: tokens whose revocation a restart lost
  resets,      \* history: passwords reset with a recovery authorization
  accepted,    \* history: how often a nonce was accepted
  faults,
  slips

sessionVars == <<revoked, writes, usedJtis, nonce, visit, toldOut, late, lost,
                 resets, accepted>>
sessionHistory == <<toldOut, late, lost, resets, accepted>>

Hashes == Tokens \cup Recoveries \cup {<<"jti", r>> : r \in Recoveries}
NoVisit == [pc |-> "new", item |-> "none", seen |-> "none"]
VisitSteps == {"new", "done", "revoke", "update", "read", "seen", "mark"}

SessionInit ==
  /\ revoked = [mem |-> {}, db |-> {}]
  /\ writes = {}
  /\ usedJtis = {}
  /\ nonce = [n \in Nonces |-> [mem |-> FALSE, db |-> "none", issued |-> FALSE]]
  /\ visit = [v \in Visits |-> NoVisit]
  /\ toldOut = {} /\ late = {} /\ lost = {}
  /\ resets = [r \in Recoveries |-> 0]
  /\ accepted = [n \in Nonces |-> 0]

Stumble(kind) == faults < MaxFaults /\ faults' = faults + 1 /\ slips' = slips \cup {kind}
Steady == UNCHANGED <<faults, slips>>

VisitGoto(v, pc) == visit' = [visit EXCEPT ![v].pc = pc]
Leave(v) == visit' = [visit EXCEPT ![v] = [NoVisit EXCEPT !.pc = "done"]]

(* revokeToken up to its first await: the copy in memory, then the write.  *)
Revoke(items) ==
  /\ revoked' = [revoked EXCEPT !.mem = @ \cup items]
  /\ writes' = writes \cup items

-----------------------------------------------------------------------------
(* logout and sessionTimeout answer "revoked" without waiting.             *)
SignOut(v, t) ==
  /\ visit[v].pc = "new"
  /\ Revoke({t})
  /\ toldOut' = toldOut \cup {t}
  /\ Leave(v)
  /\ Steady
  /\ UNCHANGED <<usedJtis, nonce, late, lost, resets, accepted>>

(* adminLogout waits for it and reports a failure.                         *)
AdminSignOut(v, t) ==
  /\ visit[v].pc = "new"
  /\ revoked' = [revoked EXCEPT !.mem = @ \cup {t}]
  /\ visit' = [visit EXCEPT ![v].pc = "revoke", ![v].item = t]
  /\ Steady
  /\ UNCHANGED <<writes, usedJtis, nonce, sessionHistory>>

AdminSignedOut(v) ==
  /\ visit[v].pc = "revoke"
  /\ \/ /\ revoked' = [revoked EXCEPT !.db = @ \cup {visit[v].item}]
        /\ toldOut' = toldOut \cup {visit[v].item}
        /\ Steady
     \/ Stumble("revocation") /\ UNCHANGED <<revoked, toldOut>>
  /\ Leave(v)
  /\ UNCHANGED <<writes, usedJtis, nonce, late, lost, resets, accepted>>

(* An upsert nobody waits for arrives; or fails, which only the one of a   *)
(* jti handles: the others end the process (see SessionRestart).           *)
WriteArrives(h) ==
  /\ h \in writes
  /\ revoked' = [revoked EXCEPT !.db = @ \cup {h}]
  /\ writes' = writes \ {h}
  /\ Steady
  /\ UNCHANGED <<usedJtis, nonce, visit, sessionHistory>>

JtiWriteFails(r) ==
  /\ <<"jti", r>> \in writes
  /\ writes' = writes \ {<<"jti", r>>}
  /\ Stumble("revocation")
  /\ UNCHANGED <<revoked, usedJtis, nonce, visit, sessionHistory>>

(* requireAuth: isTokenRevoked asks memory, then the database, and refuses *)
(* when that errs.  A token found there is kept in memory.                 *)
(* Mutant: the database is not asked.                                      *)
NotRevokedInMemory(t) == t \notin revoked.mem
NotRevoked(t) == t \notin revoked.mem \cup revoked.db
Admit(t) ==
  /\ NotRevoked(t)
  /\ late' = IF t \in toldOut THEN late \cup {t} ELSE late
  /\ UNCHANGED <<revoked, writes, usedJtis, nonce, visit, toldOut, lost, resets, accepted>>

RefuseToken(t) ==
  /\ revoked' = IF t \in revoked.db THEN [revoked EXCEPT !.mem = @ \cup {t}] ELSE revoked
  /\ \/ t \in revoked.mem \cup revoked.db /\ Steady
     \/ t \notin revoked.mem /\ Stumble("lookup")
  /\ UNCHANGED <<writes, usedJtis, nonce, visit, sessionHistory>>

-----------------------------------------------------------------------------
(* resetPassword with a recovery authorization: it is consumed in memory   *)
(* at once; the lookup asks memory only.  After the new password is set    *)
(* the authorization itself is revoked, too, and nobody waits.             *)
(* Mutant: an authorization is spent when its reset is over.               *)
SpentAfterReset(r) == r \in revoked.mem
Spent(r) == r \in usedJtis \/ <<"jti", r>> \in revoked.mem
ResetPassword(v, r) ==
  /\ visit[v].pc = "new"
  /\ \/ /\ ~Spent(r)
        /\ usedJtis' = usedJtis \cup {r}
        /\ Revoke({<<"jti", r>>})
        /\ visit' = [visit EXCEPT ![v].pc = "update", ![v].item = r]
     \/ /\ Spent(r)
        /\ Leave(v)
        /\ UNCHANGED <<revoked, writes, usedJtis>>
  /\ Steady
  /\ UNCHANGED <<nonce, sessionHistory>>

PasswordUpdated(v) ==
  LET r == visit[v].item
  IN /\ visit[v].pc = "update"
     /\ \/ resets' = [resets EXCEPT ![r] = @ + 1] /\ Revoke({r}) /\ Steady
        \/ Stumble("password") /\ UNCHANGED <<resets, revoked, writes>>
     /\ Leave(v)
     /\ UNCHANGED <<usedJtis, nonce, toldOut, late, lost, accepted>>

-----------------------------------------------------------------------------
(* createNonceChallenge: 16 random bytes, not drawn before; an error of    *)
(* the insert is ignored.                                                  *)
CreateNonce(v, n) ==
  /\ visit[v].pc = "new"
  /\ ~nonce[n].issued
  /\ \/ nonce' = [nonce EXCEPT ![n] = [mem |-> TRUE, db |-> "unused", issued |-> TRUE]] /\ Steady
     \/ /\ nonce' = [nonce EXCEPT ![n] = [mem |-> TRUE, db |-> "none", issued |-> TRUE]]
        /\ Stumble("nonceInsert")
  /\ Leave(v)
  /\ UNCHANGED <<revoked, writes, usedJtis, sessionHistory>>

(* verifyWalletSignature, with the right signature: the row is read; when  *)
(* the answer is there, memory is asked if there was none, and the nonce   *)
(* is taken out of memory; then the row is marked, errors ignored.         *)
Overlaps(n, v) == \E u \in Visits \ {v} : visit[u].item = n /\ visit[u].pc \in {"seen", "mark"}
ReadNonce(v, n) ==
  /\ visit[v].pc = "new"
  /\ \E failed \in BOOLEAN :
       /\ visit' = [visit EXCEPT ![v] = [pc |-> "seen", item |-> n,
                                        seen |-> IF failed THEN "none" ELSE nonce[n].db]]
       /\ failed => faults < MaxFaults
       /\ faults' = IF failed THEN faults + 1 ELSE faults
       /\ slips' = IF Overlaps(n, v) THEN slips \cup {"overlap"} ELSE slips
  /\ UNCHANGED <<revoked, writes, usedJtis, nonce, sessionHistory>>

Acceptable(v) == \/ visit[v].seen = "unused"
                 \/ visit[v].seen = "none" /\ nonce[visit[v].item].mem
AcceptNonce(v) ==
  /\ visit[v].pc = "seen"
  /\ \/ /\ Acceptable(v)
        /\ nonce' = [nonce EXCEPT ![visit[v].item].mem = FALSE]
        /\ VisitGoto(v, "mark")
     \/ /\ ~Acceptable(v)
        /\ Leave(v)
        /\ UNCHANGED nonce
  /\ Steady
  /\ UNCHANGED <<revoked, writes, usedJtis, sessionHistory>>

(* Mutant: the row keeps its state.                                        *)
Unmarked(row) == row
Marked(row) == IF row = "none" THEN "none" ELSE "used"
MarkNonce(v) ==
  LET n == visit[v].item
  IN /\ visit[v].pc = "mark"
     /\ \/ nonce' = [nonce EXCEPT ![n].db = Marked(@)] /\ Steady
        \/ Stumble("nonceMark") /\ UNCHANGED nonce
     /\ accepted' = [accepted EXCEPT ![n] = @ + 1]
     /\ Leave(v)
     /\ UNCHANGED <<revoked, writes, usedJtis, toldOut, late, lost, resets>>

-----------------------------------------------------------------------------
(* The process starts again: memory is empty, and of the upserts in flight *)
(* some arrived.  A failed upsert of a token ends it, too.                 *)
SessionRestart ==
  /\ \E arrived \in SUBSET writes :
       LET db == revoked.db \cup arrived
       IN /\ revoked' = [mem |-> {}, db |-> db]
          /\ lost' = lost \cup (toldOut \ db)
  /\ writes' = {}
  /\ usedJtis' = {}
  /\ nonce' = [n \in Nonces |-> [nonce[n] EXCEPT !.mem = FALSE]]
  /\ visit' = [v \in Visits |-> IF visit[v].pc = "new" THEN NoVisit
                                ELSE [NoVisit EXCEPT !.pc = "done"]]
  /\ UNCHANGED <<toldOut, late, resets, accepted>>

-----------------------------------------------------------------------------
SessionTypeOK ==
  /\ revoked \in [mem : SUBSET Hashes, db : SUBSET Hashes]
  /\ writes \subseteq Hashes
  /\ usedJtis \subseteq Recoveries
  /\ nonce \in [Nonces -> [mem : BOOLEAN, db : {"none", "unused", "used"}, issued : BOOLEAN]]
  /\ \A v \in Visits : visit[v].pc \in VisitSteps
  /\ toldOut \cup late \cup lost \subseteq Tokens

(* A token whose sign-out was answered is not admitted again, unless a     *)
(* restart came before the write nobody waited for.                        *)
SignedOutStaysOut == late \subseteq lost

(* A recovery authorization resets one password, unless a restart emptied  *)
(* the memory that is the only place asked.                                *)
RecoveryOnce == \A r \in Recoveries : resets[r] <= 1 \/ "restart" \in slips

(* A wallet nonce is accepted once, unless two verifications overlap or    *)
(* the row could not be marked.                                            *)
NonceOnce ==
  \A n \in Nonces : accepted[n] <= 1 \/ {"overlap", "nonceMark"} \cap slips # {}
=============================================================================
