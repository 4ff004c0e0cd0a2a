------------------------- MODULE WithdrawalChallenge -------------------------
(***************************************************************************)
(* The e-mail code that stands before every withdrawal of one user         *)
(* (Backend/src/services/withdrawalVerificationService.js).                *)
(*                                                                         *)
(* A client requests a challenge (a code is mailed to it), then verifies   *)
(* it, once, with the code, and the withdrawal is submitted; or cancels    *)
(* it.  Rows of withdrawal_verification_challenges are durable;            *)
(* challengesCache holds copies in memory.  A read takes the row and falls *)
(* back to the copy when the database errs; most writes change the row     *)
(* first and the copy only if that was confirmed.  The three operations of *)
(* a user run one at a time, under a lock in memory; the approved bank     *)
(* account is read before it.                                              *)
(*                                                                         *)
(* attempt_count is left out: it is 1 exactly in rows that are no longer   *)
(* pending because of a verification.  So are the owner of a challenge     *)
(* (there is one user) and the rate limits by IP address.                  *)
(***************************************************************************)
EXTENDS Naturals, Sequences, FiniteSets

CONSTANTS
  Requests,    \* requests of the user
  Challenges,  \* challenge ids (crypto.randomUUID), numbered in issuing order
  Banks,       \* the user's bank details, numbered
  Keys,        \* idempotency keys clients send
  Limit,       \* how often a code may be sent / verified in a window
  MaxFaults    \* bound on restarts, failed reads and writes, lost answers

ASSUME ChallengeAssumption ==
  /\ Challenges \subseteq Nat \ {0} /\ Banks \subseteq Nat \ {0}
  /\ Limit \in [{"send", "verify"} -> Nat \ {0}]
  /\ MaxFaults \in Nat

VARIABLES
  row,          \* withdrawal_verification_challenges
  copy,         \* challengesCache
  lapsed,       \* challenges older than 120 seconds
  rate,         \* withdrawal_otp_rate_limits and its copy in memory
  queue,        \* the user's lock: the holder, then those who wait
  job,          \* the requests
  told,         \* challenges whose code was mailed and whose id was answered
  withdrawals,  \* the withdrawals submitted to the vault ledger
  calls,        \* history: calls of withdrawFunds for a challenge
  wrong,        \* history: challenges verified with a wrong code or amount
  passed,       \* history: requests that passed the rate limit in its window
  faults,       \* faults so far
  slips         \* history: the kinds of faults

store == <<row, copy>>
history == <<withdrawals, calls, wrong>>
challengeVars == <<row, copy, lapsed, rate, queue, job, told, withdrawals, calls,
                   wrong, passed, faults, slips>>

None == "none"
NoId == 0
Status == {None, "pending", "verified", "cancelled", "expired", "delivery_failed"}
Rows == [status : Status, bank : Banks \cup {NoId}, key : Keys \cup {None}, tx : BOOLEAN]
NoRow == [status |-> None, bank |-> NoId, key |-> None, tx |-> FALSE]
Locked == {"wait", "limit", "supersede", "insert", "deliver", "check", "withdraw",
           "record", "undo"}
Jobs == [pc : {"new", "done"} \cup Locked, op : {None, "request", "verify", "cancel"},
         c : Challenges \cup {NoId}, code : {None, "right", "wrong"},
         key : Keys \cup {None}, bank : Banks \cup {NoId}, answer : {None, "ok", "replayed", "refused"}]
NoJob == [pc |-> "new", op |-> None, c |-> NoId, code |-> None, key |-> None,
          bank |-> NoId, answer |-> None]

Init ==
  /\ row = [c \in Challenges |-> NoRow]
  /\ copy = [c \in Challenges |-> NoRow]
  /\ lapsed = {}
  /\ rate = [k \in {"send", "verify"} |-> [mem |-> 0, db |-> 0]]
  /\ queue = <<>>
  /\ job = [s \in Requests |-> NoJob]
  /\ told = {}
  /\ withdrawals = {}
  /\ calls = [c \in Challenges |-> 0]
  /\ wrong = {}
  /\ passed = [k \in {"send", "verify"} |-> 0]
  /\ faults = 0
  /\ slips = {}

-----------------------------------------------------------------------------
(* A call of the database succeeds, fails, or has its effect and loses its *)
(* answer.                                                                 *)
Outcomes == {"ok", "failed", "lost"}
Outcome(o, slip) ==
  IF o = "ok" THEN UNCHANGED <<faults, slips>>
  ELSE faults < MaxFaults /\ faults' = faults + 1 /\ slips' = slips \cup {slip, o}
Fine == UNCHANGED <<faults, slips>>

Holds(s) == queue # <<>> /\ Head(queue) = s
At(s, pc) == job[s].pc = pc /\ Holds(s)
Goto(s, pc) == job' = [job EXCEPT ![s].pc = pc] /\ UNCHANGED queue
Answer(s, answer) ==
  /\ job' = [job EXCEPT ![s] = [NoJob EXCEPT !.pc = "done", !.answer = answer]]
  /\ queue' = Tail(queue)

(* resolveChallengeById: the row if the database answers, else the copy.   *)
Loaded(c, read) == IF read = "ok" /\ row[c].status # None THEN row[c] ELSE copy[c]
Read(c, read) ==
  /\ read \in {"ok", "failed"}
  /\ Outcome(read, "read")

(* persistChallengeUpdate after a read that gave r: the row first, and the *)
(* copy only when that was confirmed.                                      *)
(* Mutant: only the copy is brought up to date.                            *)
PersistCopy(c, r, status, o) ==
  row' = row /\ copy' = [copy EXCEPT ![c] = IF o = "ok" THEN [r EXCEPT !.status = status] ELSE r]
Persist(c, r, status, o) ==
  /\ row' = IF o = "failed" THEN row ELSE [row EXCEPT ![c].status = status]
  /\ copy' = [copy EXCEPT ![c] = IF o = "ok" THEN [r EXCEPT !.status = status] ELSE r]

(* A write follows the read at once; at most one of the two meets a fault. *)
ReadThenWrite(read, o, slip) ==
  /\ "ok" \in {read, o}
  /\ IF read = "ok" THEN Outcome(o, slip) ELSE Outcome(read, "read")

(* Operations before the lock: the bank account was found to be approved,  *)
(* for a cancellation nothing is read.                                     *)
Allowed(op, c, code, key, bank) ==
  \/ op = "request" /\ c = NoId /\ code = None /\ bank \in Banks
  \/ op = "verify" /\ c \in told /\ code \in {"right", "wrong"} /\ bank \in Banks
  \/ op = "cancel" /\ c \in told \cup {NoId} /\ code = None /\ key = None /\ bank = NoId
Enqueue(s, op, c, code, key, bank) ==
  /\ job' = [job EXCEPT ![s] = [pc |-> "wait", op |-> op, c |-> c, code |-> code,
                                key |-> key, bank |-> bank, answer |-> None]]
  /\ queue' = Append(queue, s)
Begin(s, op, c, code, key, bank) ==
  /\ job[s].pc = "new"
  /\ Allowed(op, c, code, key, bank)
  /\ Enqueue(s, op, c, code, key, bank)
  /\ UNCHANGED <<store, lapsed, rate, told, history, passed, faults, slips>>

(* Not eligible, or an input the handler refuses at once.                  *)
TurnAway(s) ==
  /\ job[s].pc = "new"
  /\ job' = [job EXCEPT ![s].pc = "done", ![s].answer = "refused"]
  /\ UNCHANGED <<store, lapsed, rate, queue, told, history, passed, faults, slips>>

(* withUserChallengeLock; for a request the spendable balance comes first. *)
Enter(s) ==
  /\ At(s, "wait")
  /\ \/ Goto(s, IF job[s].op = "cancel" THEN "check" ELSE "limit")
     \/ job[s].op = "request" /\ Answer(s, "refused")
  /\ UNCHANGED <<store, lapsed, rate, told, history, passed, faults, slips>>

(* checkAndIncrementRateLimit: the copy in memory is replaced by the row   *)
(* if there is one, and a failed write of the new count is ignored.        *)
Gate(s) == IF job[s].op = "request" THEN "send" ELSE "verify"
(* Mutant: the row of the rate limit is never read.                        *)
CountedInMemory(k, read) == rate[k].mem
Counted(k, read) == IF read = "ok" /\ rate[k].db # 0 THEN rate[k].db ELSE rate[k].mem
CheckLimit(s) ==
  LET k == Gate(s)
      Step(read, n) ==
        \/ /\ n >= Limit[k]
           /\ rate' = [rate EXCEPT ![k].mem = n]
           /\ Outcome(read, "rateRead")
           /\ Answer(s, "refused")
           /\ UNCHANGED passed
        \/ /\ n < Limit[k]
           /\ passed' = [passed EXCEPT ![k] = @ + 1]
           /\ Goto(s, IF k = "send" THEN "supersede" ELSE "check")
           /\ \/ /\ rate' = [rate EXCEPT ![k] = [mem |-> n + 1, db |-> n + 1]]
                 /\ Outcome(read, "rateRead")
              \/ /\ rate' = [rate EXCEPT ![k].mem = n + 1]
                 /\ read = "ok" /\ Outcome("failed", "rateWrite")
  IN /\ At(s, "limit")
     /\ \E read \in {"ok", "failed"} : Step(read, Counted(k, read))
     /\ UNCHANGED <<store, lapsed, told, history>>

(* The 15 minutes of a rate limit are over.                                *)
NewWindow(k) ==
  /\ passed[k] > 0
  /\ rate' = [rate EXCEPT ![k] = [mem |-> 0, db |-> 0]]
  /\ passed' = [passed EXCEPT ![k] = 0]
  /\ UNCHANGED <<store, lapsed, queue, job, told, history, faults, slips>>

-----------------------------------------------------------------------------
(* requestWithdrawalChallenge, with the lock.                              *)

(* invalidatePriorPendingChallenges: here the copies come first, and an    *)
(* error of the database is ignored.                                       *)
(* Mutant: earlier challenges stay open.                                   *)
NotCancelled(r) == r
Cancelled(r) == IF r.status = "pending" THEN [r EXCEPT !.status = "cancelled"] ELSE r
SupersedeAll(o) ==
  /\ copy' = [c \in Challenges |-> Cancelled(copy[c])]
  /\ row' = IF o = "ok" THEN [c \in Challenges |-> Cancelled(row[c])] ELSE row
  /\ Outcome(o, "supersede")

Supersede(s) ==
  /\ At(s, "supersede")
  /\ \E o \in {"ok", "failed"} : SupersedeAll(o)
  /\ Goto(s, "insert")
  /\ UNCHANGED <<lapsed, rate, told, history, passed>>

Unused == {c \in Challenges : row[c] = NoRow /\ \A d \in Challenges : d < c => row[d] # NoRow}
Insert(s) ==
  /\ At(s, "insert")
  /\ \E c \in Unused, o \in Outcomes :
       LET new == [status |-> "pending", bank |-> job[s].bank, key |-> job[s].key, tx |-> FALSE]
       IN /\ row' = IF o = "failed" THEN row ELSE [row EXCEPT ![c] = new]
          /\ copy' = IF o = "ok" THEN [copy EXCEPT ![c] = new] ELSE copy
          /\ Outcome(o, "insert")
          /\ \/ o = "ok" /\ job' = [job EXCEPT ![s].pc = "deliver", ![s].c = c] /\ UNCHANGED queue
             \/ o # "ok" /\ Answer(s, "refused")
  /\ UNCHANGED <<lapsed, rate, told, history, passed>>

(* The code is mailed and the id answered; if the mail cannot be sent, the *)
(* challenge is closed, and an error in doing so is ignored.               *)
Deliver(s) ==
  /\ At(s, "deliver")
  /\ \/ /\ told' = told \cup {job[s].c}
        /\ Answer(s, "ok")
        /\ UNCHANGED store
        /\ Fine
     \/ /\ \E o \in Outcomes :
             /\ Persist(job[s].c, copy[job[s].c], "delivery_failed", o)
             /\ Outcome(o, "deliver")
        /\ Answer(s, "refused")
        /\ UNCHANGED told
  /\ UNCHANGED <<lapsed, rate, history, passed>>

-----------------------------------------------------------------------------
(* cancelWithdrawalChallenge, with the lock.                               *)

(* Mutant: a challenge whose withdrawal was submitted can be cancelled.    *)
CancellableVerified(r) == r.status \in {"pending", "verified"}
Cancellable(r) == r.status = "pending"
CancelAll(s) ==
  /\ At(s, "check") /\ job[s].op = "cancel" /\ job[s].c = NoId
  /\ \E o \in {"ok", "failed"} : SupersedeAll(o)
  /\ Answer(s, "ok")
  /\ UNCHANGED <<lapsed, rate, told, history, passed>>

Cancel(s) ==
  LET c == job[s].c
  IN /\ At(s, "check") /\ job[s].op = "cancel" /\ c # NoId
     /\ \E read \in {"ok", "failed"}, o \in Outcomes :
          LET r == Loaded(c, read)
          IN \/ /\ Cancellable(r)
                /\ Persist(c, r, "cancelled", o)
                /\ ReadThenWrite(read, o, "cancel")
                /\ Answer(s, IF o = "ok" THEN "ok" ELSE "refused")
             \/ /\ ~Cancellable(r)
                /\ o = "ok" /\ Read(c, read)
                /\ copy' = [copy EXCEPT ![c] = r]
                /\ Answer(s, IF r.status \in {None, "verified"} THEN "refused" ELSE "ok")
                /\ UNCHANGED row
     /\ UNCHANGED <<lapsed, rate, told, history, passed>>

-----------------------------------------------------------------------------
(* verifyWithdrawalChallengeAndSubmit, with the lock.                      *)

(* A verified challenge with its withdrawal recorded: the same key is      *)
(* answered with that withdrawal again.  Any other that is not pending is  *)
(* refused.                                                                *)
KeyOf(s, r) == IF job[s].key # None THEN job[s].key ELSE r.key
Replays(s, r) == r.status = "verified" /\ r.tx /\ r.key # None /\ r.key = KeyOf(s, r)
(* Mutant: a challenge that was cancelled is verified.                     *)
OpenCancelled(r) == r.status \in {"pending", "cancelled"}
Open(r) == r.status = "pending"
Verifying(s) == At(s, "check") /\ job[s].op = "verify"
Reject(s) ==
  LET c == job[s].c
  IN /\ Verifying(s)
     /\ \E read \in {"ok", "failed"} :
          LET r == Loaded(c, read)
          IN /\ ~Open(r)
             /\ Read(c, read)
             /\ copy' = [copy EXCEPT ![c] = r]
             /\ Answer(s, IF Replays(s, r) THEN "replayed" ELSE "refused")
     /\ UNCHANGED <<row, lapsed, rate, told, history, passed>>

(* Too late, the wrong code or amount, or another bank account than the    *)
(* one confirmed with the request: the challenge is closed.                *)
Admits(s, r) == /\ job[s].c \notin lapsed
                /\ job[s].code = "right"
                /\ job[s].bank = r.bank
(* Mutant: a wrong code leaves the challenge open.                         *)
KeepOpen(s) == IF job[s].c \in lapsed THEN "expired" ELSE "pending"
SpendStatus(s) == IF job[s].c \in lapsed THEN "expired" ELSE "cancelled"
SpendTry(s) ==
  LET c == job[s].c
  IN /\ Verifying(s)
     /\ \E read \in {"ok", "failed"}, o \in Outcomes :
          LET r == Loaded(c, read)
          IN /\ Open(r) /\ ~Admits(s, r)
             /\ Persist(c, r, SpendStatus(s), o)
             /\ ReadThenWrite(read, o, "spend")
     /\ wrong' = IF c \notin lapsed /\ job[s].code = "wrong" THEN wrong \cup {c} ELSE wrong
     /\ Answer(s, "refused")
     /\ UNCHANGED <<lapsed, rate, told, withdrawals, calls, passed>>

(* The challenge is taken.  The index on the keys of verified rows refuses *)
(* a key that another challenge was verified with.                         *)
KeyTaken(c, key) ==
  key # None /\ \E d \in Challenges \ {c} : row[d].status = "verified" /\ row[d].key = key
Taken(r, key) == [r EXCEPT !.status = "verified", !.key = key]
Consume(s) ==
  LET c == job[s].c
  IN /\ Verifying(s)
     /\ \E read \in {"ok", "failed"}, o \in Outcomes :
          LET r == Loaded(c, read)
              key == KeyOf(s, r)
          IN /\ Open(r) /\ Admits(s, r)
             /\ \/ /\ ~KeyTaken(c, key)
                   /\ row' = IF o = "failed" THEN row ELSE [row EXCEPT ![c] = Taken(@, key)]
                   /\ copy' = [copy EXCEPT ![c] = IF o = "ok" THEN Taken(r, key) ELSE r]
                   /\ ReadThenWrite(read, o, "consume")
                   /\ IF o = "ok"
                      THEN /\ job' = [job EXCEPT ![s].pc = "withdraw", ![s].key = key]
                           /\ UNCHANGED queue
                      ELSE Answer(s, "refused")
                \/ /\ KeyTaken(c, key)
                   /\ o = "ok" /\ Read(c, read)
                   /\ copy' = [copy EXCEPT ![c] = r]
                   /\ Answer(s, "refused")
                   /\ UNCHANGED row
     /\ UNCHANGED <<lapsed, rate, told, history, passed>>

(* withdrawFunds (VaultLedger): under one key at most one withdrawal; to   *)
(* the account read before the lock.                                       *)
LedgerKey(s) == IF job[s].key # None THEN job[s].key ELSE job[s].c
Withdraw(s) ==
  LET w == [key |-> LedgerKey(s), c |-> job[s].c, bank |-> job[s].bank,
            later |-> \E d \in told : d > job[s].c]
      Submitted == IF \E x \in withdrawals : x.key = w.key THEN withdrawals
                   ELSE withdrawals \cup {w}
  IN /\ At(s, "withdraw")
     /\ calls' = [calls EXCEPT ![job[s].c] = @ + 1]
     /\ \/ withdrawals' = Submitted /\ Fine /\ Goto(s, "record")
        \/ withdrawals' = Submitted /\ Outcome("lost", "withdraw") /\ Goto(s, "undo")
        \/ UNCHANGED withdrawals /\ Fine /\ Goto(s, "undo")
     /\ UNCHANGED <<store, lapsed, rate, told, wrong, passed>>

(* The withdrawal's id is stored with the challenge; an error is ignored.  *)
Record(s) ==
  LET c == job[s].c
  IN /\ At(s, "record")
     /\ \E o \in Outcomes :
          /\ row' = IF o = "failed" THEN row ELSE [row EXCEPT ![c].tx = TRUE]
          /\ copy' = IF o = "ok" THEN [copy EXCEPT ![c].tx = TRUE] ELSE copy
          /\ Outcome(o, "record")
     /\ Answer(s, "ok")
     /\ UNCHANGED <<lapsed, rate, told, history, passed>>

(* The withdrawal was refused: the challenge is cancelled, and an error in *)
(* doing so is ignored.                                                    *)
Undo(s) ==
  LET c == job[s].c
  IN /\ At(s, "undo")
     /\ \E o \in Outcomes :
          /\ Persist(c, copy[c], "cancelled", o)
          /\ Outcome(o, "undo")
     /\ Answer(s, "refused")
     /\ UNCHANGED <<lapsed, rate, told, history, passed>>

-----------------------------------------------------------------------------
Lapse(c) ==
  /\ row[c] # NoRow /\ c \notin lapsed
  /\ lapsed' = lapsed \cup {c}
  /\ UNCHANGED <<store, rate, queue, job, told, history, passed, faults, slips>>

(* The process ends and starts again: what was in memory is gone, and so   *)
(* are the requests.                                                       *)
Forget ==
  /\ copy' = [c \in Challenges |-> NoRow]
  /\ rate' = [k \in {"send", "verify"} |-> [rate[k] EXCEPT !.mem = 0]]
  /\ queue' = <<>>
  /\ job' = [s \in Requests |-> IF job[s].pc \in Locked THEN [NoJob EXCEPT !.pc = "done"]
                                ELSE job[s]]
Restart ==
  /\ Outcome("failed", "restart")
  /\ Forget
  /\ UNCHANGED <<row, lapsed, told, history, passed>>

Step(s) == \/ Enter(s) \/ CheckLimit(s)
           \/ Supersede(s) \/ Insert(s) \/ Deliver(s)
           \/ CancelAll(s) \/ Cancel(s)
           \/ Reject(s) \/ SpendTry(s) \/ Consume(s)
           \/ Withdraw(s) \/ Record(s) \/ Undo(s)

Arrive(s) ==
  \/ \E op \in {"request", "verify", "cancel"}, c \in Challenges \cup {NoId},
        code \in {None, "right", "wrong"}, key \in Keys \cup {None}, bank \in Banks \cup {NoId} :
        Begin(s, op, c, code, key, bank)
  \/ TurnAway(s)

Next == \/ \E s \in Requests : Arrive(s) \/ Step(s)
        \/ \E c \in Challenges : Lapse(c)
        \/ \E k \in {"send", "verify"} : NewWindow(k)
        \/ Restart

Spec == Init /\ [][Next]_challengeVars

-----------------------------------------------------------------------------
Happened(kinds) == kinds \cap slips # {}

TypeOK ==
  /\ row \in [Challenges -> Rows] /\ copy \in [Challenges -> Rows]
  /\ lapsed \subseteq Challenges
  /\ rate \in [{"send", "verify"} -> [mem : Nat, db : Nat]]
  /\ queue \in Seq(Requests)
  /\ job \in [Requests -> Jobs]
  /\ \A s \in Requests :
       job[s].pc \in {"deliver", "withdraw", "record", "undo"} => job[s].c \in Challenges
  /\ told \subseteq Challenges
  /\ withdrawals \subseteq [key : Keys \cup Challenges, c : Challenges, bank : Banks, later : BOOLEAN]
  /\ calls \in [Challenges -> Nat]
  /\ wrong \subseteq Challenges
  /\ passed \in [{"send", "verify"} -> Nat]
  /\ faults \in Nat

(* A code admits one withdrawal, whatever fails, however often it is sent. *)
OncePerChallenge == \A c \in Challenges : calls[c] <= 1

(* After a wrong code or amount there is no withdrawal under a challenge,  *)
(* unless closing it could not be confirmed.                               *)
NoSecondGuess == \A w \in withdrawals : w.c \notin wrong \/ Happened({"spend"})

(* Only the code mailed last admits a withdrawal, unless cancelling the    *)
(* earlier ones failed (an error the service ignores).                     *)
LatestOnly == \A w \in withdrawals : ~w.later \/ Happened({"supersede"})

(* "This withdrawal attempt was cancelled and no funds were reserved": a   *)
(* challenge that is not verified has no withdrawal, unless the vault's    *)
(* answer to it was lost.                                                  *)
CancelledMeansUnpaid ==
  \A w \in withdrawals : row[w.c].status = "verified" \/ Happened({"withdraw"})

(* A verified challenge has its withdrawal or a handler about to submit it *)
(* or to cancel it, unless a restart or a write that failed came between.  *)
ConsumedIsPaid ==
  \A c \in Challenges :
    row[c].status = "verified" =>
      \/ \E w \in withdrawals : w.key = IF row[c].key # None THEN row[c].key ELSE c
      \/ \E s \in Requests : job[s].c = c /\ job[s].pc \in {"withdraw", "undo"}
      \/ Happened({"restart", "undo", "consume"})

(* The limits on codes sent and verified hold across restarts, unless the  *)
(* write of a count failed, or a restart lost it and it cannot be read.    *)
LimitHolds ==
  \A k \in {"send", "verify"} : \/ passed[k] <= Limit[k]
                                \/ Happened({"rateWrite"})
                                \/ {"rateRead", "restart"} \subseteq slips

(* The codes keep the promise of OneTimeCode: each is used at most once    *)
(* and never open again after it was closed.                               *)
StageOf(c) ==
  IF calls[c] = 1 THEN "used"
  ELSE IF \E s \in Requests : job[s].pc = "withdraw" /\ job[s].c = c THEN "claimed"
  ELSE IF row[c] = NoRow THEN "fresh"
  ELSE IF "pending" \in {row[c].status, copy[c].status} THEN "open" ELSE "closed"
OneTime == INSTANCE OneTimeCode WITH stage <- [c \in Challenges |-> StageOf(c)]
ImplementsOneTimeCode == OneTime!Spec
=============================================================================
