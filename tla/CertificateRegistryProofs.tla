--------------------- MODULE CertificateRegistryProofs ---------------------
(***************************************************************************)
(* Proofs about CertificateRegistry, for any set of requests and any       *)
(* number of faults: types, what is shown of a revocation and of a token,  *)
(* and when a second token can be minted.                                  *)
(***************************************************************************)
EXTENDS CertificateRegistry, TLAPS

\* The row names a token, and the transaction that minted it.
Recorded ==
  /\ row.tx # None => row.token \in 1..Len(minted) /\ minted[row.token] = row.tx
  /\ row.registration = "verified_on_chain" => row.tx # None

\* A mined call has its token.
HasToken == \A r \in Requests : mint[r] = "mined" => \E n \in 1..Len(minted) : minted[n] = r

\* A revocation that was reported is in the row, and before the listing
\* nothing happens.
Reported == told => row.listed /\ row.revoked
Unlisted ==
  ~row.listed => minted = << >> /\ \A r \in Requests : at[r] = "idle" /\ mint[r] = "none"

\* Unless attempts overlapped, one request at a time is at work on the
\* registration, every call belongs to it, and so do tokens the row does not know.
OneAtWork == \A q, r \in Requests : at[q] \in Registering /\ at[r] \in Registering => q = r
CallsHeard == \A r \in Requests : mint[r] \in {"called", "sent"} => at[r] \in Minting
WorkMeansNone == \A r \in Requests : at[r] \in Registering => row.tx = None
TokensHeard ==
  row.tx = None =>
    \A n \in 1..Len(minted) : at[minted[n]] \in Minting /\ mint[minted[n]] = "mined"
Alone == OneAtWork /\ CallsHeard /\ WorkMeansNone /\ TokensHeard /\ Len(minted) <= 1

IInv ==
  /\ TypeOK /\ Recorded /\ HasToken /\ Reported /\ Unlisted
  /\ ~overlapped => Alone

LEMMA InitIInv == Init => IInv
<1> SUFFICES ASSUME Init PROVE IInv
  OBVIOUS
<1>1. row = [listed |-> FALSE, registration |-> "unregistered", token |-> 0, tx |-> None,
             lifecycle |-> "draft", revoked |-> FALSE, signed |-> None, issuedAt |-> None]
  BY DEF Init, Listing
<1>2. row \in Rows
  BY <1>1 DEF Rows, Signed, IssuedAt, Statuses, Lifecycles
<1>3. TypeOK
  <2>1. minted \in Seq(Requests)
    BY DEF Init
  <2>2. at \in [Requests -> {"idle", "done", "issuing"} \cup Registering]
    BY DEF Init
  <2>3. mint \in [Requests -> {"none", "called", "sent", "mined", "failed"}]
    BY DEF Init
  <2> QED
    BY <1>2, <2>1, <2>2, <2>3 DEF Init, TypeOK
<1>4. Recorded /\ HasToken /\ Reported /\ Unlisted
  BY <1>1 DEF Init, Recorded, HasToken, Reported, Unlisted
<1>5. Alone
  BY DEF Init, Alone, OneAtWork, CallsHeard, WorkMeansNone, TokensHeard, Registering, Minting
<1> QED
  BY <1>3, <1>4, <1>5 DEF IInv

\* Every step keeps the types.
LEMMA RowStep == TypeOK /\ HasToken /\ [Next]_vars => row' \in Rows
<1> SUFFICES ASSUME TypeOK, HasToken, [Next]_vars PROVE row' \in Rows
  OBVIOUS
<1>0. row \in Rows
  BY DEF TypeOK
<1>1. ASSUME NEW status \in Statuses, row' = [row EXCEPT !.registration = status] PROVE row' \in Rows
  BY <1>0, <1>1 DEF Rows
<1>2. ASSUME NEW r \in Requests, WriteVerified(r) PROVE row' \in Rows
  <2>1. TokenOf(r) \in Nat
    BY <1>2 DEF HasToken, WriteVerified, TokenOf
  <2>2. "verified_on_chain" \in Statuses
    BY DEF Statuses
  <2> QED
    BY <1>0, <1>2, <2>1, <2>2 DEF WriteVerified, Rows
<1>3. ASSUME NEW r \in Requests, CreateAsset(r) PROVE row' \in Rows
  <2>1. ASSUME NEW status \in Statuses PROVE Listing(status) \in Rows
    BY DEF Listing, Rows, Signed, IssuedAt, Lifecycles
  <2> QED
    BY <1>3, <2>1 DEF CreateAsset, Statuses
<1>4. ASSUME NEW r \in Requests, SaveCertificate(r) PROVE row' \in Rows
  <2>1. Iso(r) \in Signed /\ Timestamptz(Iso(r)) \in IssuedAt
    BY DEF Signed, IssuedAt
  <2>2. PICK l \in Lifecycles :
          row' = [row EXCEPT !.lifecycle = l, !.signed = Iso(r), !.issuedAt = Timestamptz(Iso(r))]
    BY <1>4 DEF SaveCertificate, Lifecycles
  <2> QED
    BY <1>0, <2>1, <2>2 DEF Rows
<1>5. ASSUME NEW r \in Requests, RevokeCertificate(r) PROVE row' \in Rows
  BY <1>0, <1>5 DEF RevokeCertificate, Revoked, Rows, Lifecycles
<1>6. ASSUME NEW r \in Requests,
             WriteFailed(r) \/ LoseReceipt(r) \/ CheckFails(r) \/ Timeout(r) \/ MarkPending(r)
      PROVE  row' \in Rows
  BY <1>1, <1>6 DEF WriteFailed, LoseReceipt, CheckFails, Timeout, MarkPending, Registration, Statuses
<1>7. ASSUME NEW r \in Requests,
             Broadcast(r) \/ MintThrows(r) \/ StartMint(r) \/ RefuseRetry(r) \/ Chain(r) \/ LoseWrite(r)
             \/ LoseMark(r) \/ RetryMint(r) \/ IssueCertificate(r) \/ LoseCertificate(r)
      PROVE  row' \in Rows
  BY <1>0, <1>7 DEF Broadcast, MintThrows, StartMint, RefuseRetry, Chain, MintCertificate, Revert, LoseWrite,
                    LoseMark, RetryMint, IssueCertificate, LoseCertificate
<1>8. CASE Restart \/ UNCHANGED vars
  BY <1>0, <1>8 DEF Restart, vars
<1> QED
  BY <1>2, <1>3, <1>4, <1>5, <1>6, <1>7, <1>8 DEF Next, Work

LEMMA TypeStep == TypeOK /\ HasToken /\ [Next]_vars => TypeOK'
<1> SUFFICES ASSUME TypeOK, HasToken, [Next]_vars PROVE TypeOK'
  OBVIOUS
<1>0. row' \in Rows /\ (Fault => faults' \in Nat)
  BY RowStep DEF Fault, TypeOK
<1> USE DEF TypeOK, Registering, Minting, Goto, Move
<1>1. ASSUME NEW r \in Requests, Broadcast(r) \/ MintThrows(r) \/ Revert(r) PROVE TypeOK'
  BY <1>0, <1>1 DEF Broadcast, MintThrows, Revert
<1>2. ASSUME NEW r \in Requests, MintCertificate(r) PROVE TypeOK'
  BY <1>0, <1>2 DEF MintCertificate
<1>3. ASSUME NEW r \in Requests, WriteVerified(r) \/ WriteFailed(r) PROVE TypeOK'
  BY <1>0, <1>3 DEF WriteVerified, WriteFailed
<1>4. ASSUME NEW r \in Requests, LoseWrite(r) \/ LoseReceipt(r) PROVE TypeOK'
  BY <1>0, <1>4 DEF LoseWrite, LoseReceipt
<1>5. ASSUME NEW r \in Requests, CreateAsset(r) PROVE TypeOK'
  BY <1>0, <1>5 DEF CreateAsset
<1>6. ASSUME NEW r \in Requests, CheckFails(r) \/ StartMint(r) \/ Timeout(r) PROVE TypeOK'
  BY <1>0, <1>6 DEF CheckFails, StartMint, Timeout
<1>7. ASSUME NEW r \in Requests, RetryMint(r) \/ RefuseRetry(r) \/ MarkPending(r) \/ LoseMark(r)
      PROVE  TypeOK'
  BY <1>0, <1>7 DEF RetryMint, RefuseRetry, MarkPending, LoseMark
<1>8. ASSUME NEW r \in Requests, IssueCertificate(r) PROVE TypeOK'
  <2>1. row.tx \in Requests \cup {None}
    BY DEF Rows
  <2> QED
    BY <1>0, <1>8, <2>1 DEF IssueCertificate
<1>9. ASSUME NEW r \in Requests, SaveCertificate(r) \/ LoseCertificate(r) PROVE TypeOK'
  BY <1>0, <1>9 DEF SaveCertificate, LoseCertificate
<1>10. ASSUME NEW r \in Requests, RevokeCertificate(r) PROVE TypeOK'
  BY <1>0, <1>10 DEF RevokeCertificate
<1>11. CASE Restart
  BY <1>0, <1>11 DEF Restart
<1>12. CASE UNCHANGED vars
  BY <1>0, <1>12 DEF vars
<1> QED
  BY <1>1, <1>2, <1>3, <1>4, <1>5, <1>6, <1>7, <1>8, <1>9, <1>10, <1>11, <1>12 DEF Next, Work, Chain

\* What was minted stays minted; what is minted next gets the next number.
LEMMA MintedStep ==
  ASSUME TypeOK, [Next]_vars
  PROVE  \/ minted' = minted /\ \A q \in Requests : mint'[q] = "mined" => mint[q] = "mined"
         \/ \E r \in Requests : MintCertificate(r)
<1> USE DEF TypeOK, Goto, Move
<1>1. ASSUME NEW r \in Requests, Work(r) \/ Revert(r) \/ LoseMark(r)
      PROVE  minted' = minted /\ \A q \in Requests : mint'[q] = "mined" => mint[q] = "mined"
  BY <1>1 DEF Work, Revert, Broadcast, MintThrows, WriteVerified, WriteFailed, CheckFails, StartMint,
              RefuseRetry, MarkPending, LoseMark
<1>2. ASSUME NEW r \in Requests,
             LoseWrite(r) \/ LoseReceipt(r) \/ CreateAsset(r) \/ Timeout(r) \/ RetryMint(r)
             \/ IssueCertificate(r) \/ SaveCertificate(r) \/ LoseCertificate(r) \/ RevokeCertificate(r)
      PROVE  minted' = minted /\ mint' = mint
  BY <1>2 DEF LoseWrite, LoseReceipt, CreateAsset, Timeout, RetryMint, IssueCertificate, SaveCertificate,
              LoseCertificate, RevokeCertificate
<1>3. CASE Restart
  BY <1>3 DEF Restart
<1>4. CASE UNCHANGED vars
  BY <1>4 DEF vars
<1> QED
  BY <1>1, <1>2, <1>3, <1>4 DEF Next, Chain

LEMMA HasTokenStep ==
  ASSUME TypeOK, HasToken, [Next]_vars
  PROVE  HasToken'
<1>1. CASE minted' = minted /\ \A q \in Requests : mint'[q] = "mined" => mint[q] = "mined"
  BY <1>1 DEF HasToken
<1>2. ASSUME NEW r \in Requests, MintCertificate(r) PROVE HasToken'
  <2>1. minted' = Append(minted, r) /\ minted \in Seq(Requests) /\ mint' = [mint EXCEPT ![r] = "mined"]
    BY <1>2 DEF MintCertificate, Move, TypeOK
  <2>2. minted'[Len(minted) + 1] = r /\ Len(minted') = Len(minted) + 1
    BY <2>1
  <2>3. \A n \in 1..Len(minted) : minted'[n] = minted[n]
    BY <2>1
  <2>4. ASSUME NEW q \in Requests, mint'[q] = "mined"
        PROVE  \E n \in 1..Len(minted') : minted'[n] = q
    <3>1. CASE q = r
      BY <3>1, <2>1, <2>2
    <3>2. CASE q # r
      <4>1. mint[q] = "mined"
        BY <3>2, <2>1, <2>4 DEF TypeOK
      <4>2. PICK n \in 1..Len(minted) : minted[n] = q
        BY <4>1 DEF HasToken
      <4> QED
        BY <4>2, <2>1, <2>2, <2>3
    <3> QED
      BY <3>1, <3>2
  <2> QED
    BY <2>4 DEF HasToken
<1> QED
  BY <1>1, <1>2, MintedStep

\* A token in the row was minted by the transaction in the row: WriteVerified
\* alone writes them, and waits for the receipt.
LEMMA RecordedStep ==
  ASSUME TypeOK, HasToken, Recorded, [Next]_vars
  PROVE  Recorded'
<1> DEFINE Longer == /\ Len(minted') >= Len(minted)
                     /\ \A n \in 1..Len(minted) : minted'[n] = minted[n]
           Kept == /\ row'.tx = row.tx /\ row'.token = row.token
                   /\ row'.registration # row.registration => row'.registration # "verified_on_chain"
<1>1. Longer
  <2>1. ASSUME NEW r \in Requests, MintCertificate(r) PROVE Longer
    BY <2>1 DEF MintCertificate, TypeOK
  <2>2. CASE minted' = minted
    BY <2>2 DEF TypeOK
  <2> QED
    BY <2>1, <2>2, MintedStep
<1>2. row \in Rows /\ minted \in Seq(Requests) /\ minted' \in Seq(Requests)
  BY TypeStep DEF TypeOK
<1>3. CASE Kept
  BY <1>1, <1>2, <1>3 DEF Recorded, Rows
<1>4. ASSUME NEW r \in Requests, WriteVerified(r) PROVE Recorded'
  <2>1. TokenOf(r) \in 1..Len(minted) /\ minted[TokenOf(r)] = r
    BY <1>4 DEF WriteVerified, HasToken, TokenOf
  <2>2. row' = [row EXCEPT !.registration = "verified_on_chain", !.token = TokenOf(r), !.tx = r] /\ minted' = minted
    BY <1>4 DEF WriteVerified
  <2>3. row'.tx = r /\ row'.token = TokenOf(r)
    BY <1>2, <2>2 DEF Rows
  <2> QED
    BY <2>1, <2>2, <2>3, NoneAssumption DEF Recorded
<1>5. ASSUME NEW r \in Requests, CreateAsset(r) PROVE Recorded'
  BY <1>5 DEF CreateAsset, Listing, Recorded
<1>6. ASSUME NEW r \in Requests,
             WriteFailed(r) \/ LoseReceipt(r) \/ CheckFails(r) \/ Timeout(r) \/ MarkPending(r)
      PROVE  Kept
  BY <1>2, <1>6 DEF Rows, WriteFailed, LoseReceipt, CheckFails, Timeout, MarkPending, Registration
<1>7. ASSUME NEW r \in Requests, SaveCertificate(r) \/ RevokeCertificate(r) PROVE Kept
  BY <1>2, <1>7 DEF Rows, SaveCertificate, RevokeCertificate, Revoked
<1>8. ASSUME NEW r \in Requests,
             Broadcast(r) \/ MintThrows(r) \/ StartMint(r) \/ RefuseRetry(r) \/ Chain(r) \/ LoseWrite(r)
             \/ LoseMark(r) \/ RetryMint(r) \/ IssueCertificate(r) \/ LoseCertificate(r)
      PROVE  Kept
  BY <1>8 DEF Broadcast, MintThrows, StartMint, RefuseRetry, Chain, MintCertificate, Revert, LoseWrite,
              LoseMark, RetryMint, IssueCertificate, LoseCertificate
<1>9. CASE Restart \/ UNCHANGED vars
  BY <1>3, <1>9 DEF Restart, vars
<1> HIDE DEF Kept
<1> QED
  BY <1>3, <1>4, <1>5, <1>6, <1>7, <1>8, <1>9 DEF Next, Work

\* Who lists and who revokes; nothing else touches the two columns.
LEMMA FlagStep ==
  ASSUME TypeOK, [Next]_vars
  PROVE  \/ row'.listed = row.listed /\ row'.revoked = row.revoked /\ told' = told
         \/ \E r \in Requests : CreateAsset(r) \/ RevokeCertificate(r)
<1> DEFINE Flagged == row'.listed = row.listed /\ row'.revoked = row.revoked /\ told' = told
<1>0. row \in Rows
  BY DEF TypeOK
<1>1. ASSUME NEW r \in Requests,
             WriteVerified(r) \/ WriteFailed(r) \/ LoseReceipt(r) \/ CheckFails(r) \/ Timeout(r)
             \/ MarkPending(r) \/ SaveCertificate(r)
      PROVE  Flagged
  BY <1>0, <1>1 DEF Rows, WriteVerified, WriteFailed, LoseReceipt, CheckFails, Timeout, MarkPending,
                    SaveCertificate, Registration
<1>2. ASSUME NEW r \in Requests,
             Broadcast(r) \/ MintThrows(r) \/ StartMint(r) \/ RefuseRetry(r) \/ Chain(r) \/ LoseWrite(r)
             \/ LoseMark(r) \/ RetryMint(r) \/ IssueCertificate(r) \/ LoseCertificate(r)
      PROVE  Flagged
  BY <1>2 DEF Broadcast, MintThrows, StartMint, RefuseRetry, Chain, MintCertificate, Revert, LoseWrite,
              LoseMark, RetryMint, IssueCertificate, LoseCertificate
<1>3. ASSUME Restart \/ UNCHANGED vars PROVE Flagged
  BY <1>3 DEF Restart, vars
<1> HIDE DEF Flagged
<1>4. Flagged \/ \E r \in Requests : CreateAsset(r) \/ RevokeCertificate(r)
  BY <1>1, <1>2, <1>3 DEF Next, Work
<1> QED
  BY <1>4 DEF Flagged

\* The flag is never taken back: an issuance that read the row before the
\* revocation writes its own columns, and a listing is inserted once.
LEMMA ReportedStep ==
  ASSUME TypeOK, Reported, [Next]_vars
  PROVE  Reported'
<1>1. ASSUME NEW r \in Requests, CreateAsset(r) PROVE Reported'
  BY <1>1 DEF CreateAsset, Reported
<1>2. ASSUME NEW r \in Requests, RevokeCertificate(r) PROVE Reported'
  BY <1>2 DEF RevokeCertificate, Revoked, Reported, TypeOK, Rows
<1> QED
  BY <1>1, <1>2, FlagStep DEF Reported

LEMMA UnlistedStep ==
  ASSUME TypeOK, Unlisted, [Next]_vars
  PROVE  Unlisted'
<1>1. CASE row.listed
  <2>1. ASSUME NEW r \in Requests, CreateAsset(r) \/ RevokeCertificate(r) PROVE row'.listed
    BY <1>1, <2>1 DEF CreateAsset, RevokeCertificate, Revoked, TypeOK, Rows
  <2> QED
    BY <1>1, <2>1, FlagStep DEF Unlisted
<1>2. CASE ~row.listed
  <2>1. \A r \in Requests : at[r] = "idle" /\ mint[r] = "none"
    BY <1>2 DEF Unlisted
  <2>2. ASSUME NEW r \in Requests, CreateAsset(r) PROVE Unlisted'
    BY <2>2 DEF CreateAsset, Listing, Unlisted
  <2>3. ASSUME NEW r \in Requests, Work(r) \/ Chain(r) PROVE FALSE
    BY <2>1, <2>3 DEF Work, Chain, Broadcast, MintThrows, WriteVerified, WriteFailed, CheckFails, StartMint,
                      RefuseRetry, MarkPending, MintCertificate, Revert, Goto, Move, Minting
  <2>4. ASSUME NEW r \in Requests,
               LoseWrite(r) \/ LoseReceipt(r) \/ LoseMark(r) \/ Timeout(r) \/ RetryMint(r)
               \/ IssueCertificate(r) \/ SaveCertificate(r) \/ LoseCertificate(r) \/ RevokeCertificate(r)
        PROVE  FALSE
    BY <1>2, <2>1, <2>4 DEF LoseWrite, LoseReceipt, LoseMark, Timeout, RetryMint, IssueCertificate, SaveCertificate,
                            LoseCertificate, RevokeCertificate, Goto, Minting
  <2>5. ~Restart
    BY <2>1 DEF Restart
  <2>6. CASE UNCHANGED vars
    BY <1>2, <2>6 DEF Unlisted, vars
  <2> QED
    BY <2>2, <2>3, <2>4, <2>5, <2>6 DEF Next
<1> QED
  BY <1>1, <1>2

\* With one attempt at a time the row knows every token by the time the next
\* attempt reads it.
LEMMA AloneStep ==
  ASSUME IInv, [Next]_vars, ~overlapped'
  PROVE  Alone'
<1> USE DEF Registering, Minting, Goto, Move
<1>0. TypeOK /\ HasToken /\ Unlisted /\ row \in Rows /\ minted \in Seq(Requests)
  BY DEF IInv, TypeOK
<1>1. \A n \in 1..Len(minted) : minted[n] \in Requests
  BY <1>0
<1>2. at \in [Requests -> {"idle", "done", "issuing"} \cup Registering]
      /\ mint \in [Requests -> {"none", "called", "sent", "mined", "failed"}]
  BY <1>0 DEF TypeOK
<1>3. ~overlapped => OneAtWork /\ CallsHeard /\ WorkMeansNone /\ TokensHeard /\ Len(minted) <= 1
  BY DEF IInv, Alone
\* A token the row does not know belongs to the request at work.
<1>4. ASSUME ~overlapped, NEW r \in Requests, at[r] \in Registering,
             ~(at[r] \in Minting /\ mint[r] = "mined")
      PROVE  Len(minted) = 0
  BY <1>0, <1>1, <1>3, <1>4 DEF OneAtWork, WorkMeansNone, TokensHeard
<1>5. ASSUME NEW r \in Requests, Broadcast(r) \/ MintThrows(r) \/ Revert(r) PROVE Alone'
  <2>1. ~overlapped /\ row' = row /\ at' = at /\ minted' = minted /\ at[r] \in Minting /\ mint[r] # "mined"
    BY <1>3, <1>5 DEF Broadcast, MintThrows, Revert, CallsHeard
  <2>2. Len(minted) = 0
    BY <1>4, <2>1
  <2>3. CallsHeard'
    BY <1>2, <1>3, <1>5, <2>1 DEF Broadcast, MintThrows, Revert, CallsHeard
  <2> QED
    BY <1>3, <2>1, <2>2, <2>3 DEF Alone, OneAtWork, WorkMeansNone, TokensHeard
<1>6. ASSUME NEW r \in Requests, MintCertificate(r) PROVE Alone'
  <2>1. ~overlapped /\ row' = row /\ at' = at /\ at[r] \in Minting /\ mint[r] # "mined"
    BY <1>3, <1>6 DEF MintCertificate, CallsHeard
  <2>2. Len(minted) = 0
    BY <1>4, <2>1
  <2>3. minted' = <<r>> /\ mint' = [mint EXCEPT ![r] = "mined"]
    BY <1>0, <1>6, <2>2 DEF MintCertificate
  <2>4. CallsHeard' /\ TokensHeard'
    BY <1>2, <1>3, <2>1, <2>3 DEF CallsHeard, TokensHeard
  <2> QED
    BY <1>3, <2>1, <2>3, <2>4 DEF Alone, OneAtWork, WorkMeansNone
<1>7. ASSUME NEW r \in Requests, WriteVerified(r) PROVE Alone'
  <2>1. ~overlapped /\ at[r] \in Minting /\ minted' = minted /\ mint' = mint /\ mint[r] = "mined"
        /\ at' = [at EXCEPT ![r] = "done"] /\ row'.tx = r
    BY <1>0, <1>7 DEF WriteVerified, Rows
  <2>2. \A q \in Requests : at'[q] \notin Registering
    BY <1>2, <1>3, <2>1 DEF OneAtWork
  <2>3. CallsHeard'
    BY <1>2, <1>3, <2>1 DEF CallsHeard
  <2> QED
    BY <1>3, <2>1, <2>2, <2>3, NoneAssumption DEF Alone, OneAtWork, WorkMeansNone, TokensHeard
<1>8. ASSUME NEW r \in Requests, WriteFailed(r) \/ CheckFails(r) \/ RefuseRetry(r) PROVE Alone'
  <2>1. ~overlapped /\ at[r] \in Registering /\ ~(at[r] \in Minting /\ mint[r] = "mined")
        /\ minted' = minted /\ mint' = mint /\ at' = [at EXCEPT ![r] = "done"] /\ row'.tx = row.tx
    BY <1>0, <1>8 DEF WriteFailed, CheckFails, RefuseRetry, Registration, Rows
  <2>2. Len(minted) = 0
    BY <1>4, <2>1
  <2>3. mint[r] \notin {"called", "sent"}
    BY <1>3, <1>8 DEF WriteFailed, CheckFails, RefuseRetry, CallsHeard
  <2>4. CallsHeard'
    BY <1>2, <1>3, <2>1, <2>3 DEF CallsHeard
  <2>5. OneAtWork' /\ WorkMeansNone'
    BY <1>2, <1>3, <2>1 DEF OneAtWork, WorkMeansNone
  <2> QED
    BY <2>1, <2>2, <2>4, <2>5 DEF Alone, TokensHeard
<1>9. ASSUME NEW r \in Requests, StartMint(r) \/ MarkPending(r) \/ LoseMark(r) PROVE Alone'
  <2>1. ~overlapped /\ at[r] \in Registering \ Minting /\ minted' = minted /\ row'.tx = row.tx
        /\ mint' = [mint EXCEPT ![r] = "called"]
    BY <1>0, <1>9 DEF StartMint, MarkPending, LoseMark, Registration, Rows
  <2>2. PICK there \in Minting : at' = [at EXCEPT ![r] = there]
    BY <1>9 DEF StartMint, MarkPending, LoseMark
  <2>3. Len(minted) = 0
    BY <1>4, <2>1
  <2>4. CallsHeard'
    BY <1>2, <1>3, <2>1, <2>2 DEF CallsHeard
  <2>5. OneAtWork' /\ WorkMeansNone'
    BY <1>2, <1>3, <2>1, <2>2 DEF OneAtWork, WorkMeansNone
  <2> QED
    BY <2>1, <2>3, <2>4, <2>5 DEF Alone, TokensHeard
<1>10. ASSUME NEW r \in Requests, CreateAsset(r) PROVE Alone'
  <2>1. minted' = << >> /\ mint' = mint /\ row'.tx = None
        /\ \A q \in Requests : at[q] = "idle" /\ mint[q] = "none"
    BY <1>0, <1>10 DEF CreateAsset, Listing, Unlisted
  <2>2. OneAtWork'
    BY <1>2, <1>10, <2>1 DEF CreateAsset, OneAtWork
  <2> QED
    BY <2>1, <2>2 DEF Alone, CallsHeard, WorkMeansNone, TokensHeard
<1>11. ASSUME NEW r \in Requests, RetryMint(r) PROVE Alone'
  <2>1. ~overlapped /\ (\A q \in Requests : at[q] \notin Registering) /\ row.tx = None /\ row' = row
        /\ minted' = minted /\ mint' = mint /\ at' = [at EXCEPT ![r] = "retrying"]
    BY <1>11 DEF RetryMint, MayMint
  <2>2. Len(minted) = 0 /\ \A q \in Requests : mint[q] \notin {"called", "sent"}
    BY <1>0, <1>1, <1>3, <2>1 DEF TokensHeard, CallsHeard
  <2>3. OneAtWork'
    BY <1>2, <2>1 DEF OneAtWork
  <2> QED
    BY <2>1, <2>2, <2>3 DEF Alone, CallsHeard, WorkMeansNone, TokensHeard
<1>12. ASSUME NEW r \in Requests,
              IssueCertificate(r) \/ SaveCertificate(r) \/ LoseCertificate(r) \/ RevokeCertificate(r)
       PROVE  Alone'
  <2>0. row'.tx = row.tx
    BY <1>0, <1>12 DEF IssueCertificate, SaveCertificate, LoseCertificate, RevokeCertificate, Revoked, Rows
  <2>1. ~overlapped /\ minted' = minted /\ mint' = mint /\ row'.tx = row.tx
        /\ at[r] \notin Registering
    BY <1>12, <2>0 DEF IssueCertificate, SaveCertificate, LoseCertificate, RevokeCertificate
  <2>2. PICK there \in {"issuing", "done"} : at' = [at EXCEPT ![r] = there]
    BY <1>12 DEF IssueCertificate, SaveCertificate, LoseCertificate, RevokeCertificate
  <2>3. \A q \in Requests : (at'[q] \in Registering <=> at[q] \in Registering)
                            /\ (at'[q] \in Minting <=> at[q] \in Minting)
    BY <1>2, <2>1, <2>2
  <2> QED
    BY <1>1, <1>3, <2>1, <2>3 DEF Alone, OneAtWork, CallsHeard, WorkMeansNone, TokensHeard
<1>13. ASSUME NEW r \in Requests, LoseWrite(r) \/ LoseReceipt(r) \/ Timeout(r) PROVE FALSE
  BY <1>13 DEF LoseWrite, LoseReceipt, Timeout
<1>14. ~Restart
  BY DEF Restart
<1>15. CASE UNCHANGED vars
  BY <1>3, <1>15 DEF vars, Alone, OneAtWork, CallsHeard, WorkMeansNone, TokensHeard
<1> QED
  BY <1>5, <1>6, <1>7, <1>8, <1>9, <1>10, <1>11, <1>12, <1>13, <1>14, <1>15 DEF Next, Work, Chain

-----------------------------------------------------------------------------
\* The invariant behind the theorems, whatever requests and faults there are.
THEOREM Invariance == Spec => []IInv
<1>1. IInv /\ [Next]_vars => IInv'
  BY TypeStep, HasTokenStep, RecordedStep, ReportedStep, UnlistedStep, AloneStep DEF IInv
<1> QED
  BY InitIInv, <1>1, PTL DEF Spec

\* Rows keep to the table's constraints, requests to their shapes.
THEOREM TypeCorrect == Spec => []TypeOK
<1>1. IInv => TypeOK
  BY DEF IInv
<1> QED
  BY Invariance, <1>1, PTL

\* A revocation that was reported is what dossier and screens show, whatever
\* issuance or mint was under way.
THEOREM RevocationShown == Spec => []RevokedShown
<1>1. IInv => RevokedShown
  BY DEF IInv, Reported, RevokedShown, Dossier, Screens, ScreenOfDossier, ScreenOfAsset, Card
<1> QED
  BY Invariance, <1>1, PTL

\* What is called anchored or verified was minted, by the transaction shown.
THEOREM AnchoringProved == Spec => []AnchoredIsMined
<1>1. ASSUME IInv PROVE AnchoredIsMined
  <2>1. "anchored" \in Screens => row.tx # None
    BY DEF Screens, ScreenOfDossier, ScreenOfAsset, Card
  <2> QED
    BY <1>1, <2>1 DEF IInv, Recorded, AnchoredIsMined
<1> QED
  BY Invariance, <1>1, PTL

\* The check of a retry is enough as long as attempts do not overlap and none
\* was given up while its transaction lived.
THEOREM DuplicatesOverlap == Spec => []DuplicateNeedsOverlap
<1>1. IInv => DuplicateNeedsOverlap
  BY DEF IInv, TypeOK, Alone, DuplicateNeedsOverlap
<1> QED
  BY Invariance, <1>1, PTL
=============================================================================
