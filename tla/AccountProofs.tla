---------------------------- MODULE AccountProofs ----------------------------
(***************************************************************************)
(* Proofs about WithdrawalChallenge and about Account, which adds sessions,*)
(* compliance and bank accounts to it, for any number of requests,         *)
(* challenges, sessions, documents, bank accounts, keys and faults,        *)
(* whatever the scripts allow.                                             *)
(*                                                                         *)
(* The first part is about the code protocol alone: the types, that a code *)
(* admits at most one withdrawal, that the service implements OneTimeCode, *)
(* and what a withdrawal says of its challenge (the right code, the latest *)
(* one, a row that stays verified) and of the rate limits.  Past the entry *)
(* of the lock there is at most its holder (LockInv).  A challenge counts  *)
(* as closed when neither its row nor its copy says "pending"; no step     *)
(* opens a closed one, because whatever a read returns is one of the two.  *)
(* A challenge is closed before withdrawFunds is called for it (Relies)    *)
(* and so stays closed after (UsedInv); and only one that is not closed    *)
(* can be taken.  The same copies tell MoneyInv what a request that is     *)
(* about to withdraw has seen; RateInv compares the two copies of a limit  *)
(* with what passed it.                                                    *)
(*                                                                         *)
(* The second part is about the account: that the payee of a withdrawal    *)
(* was looked at, that what is signed out, used or accepted is so for      *)
(* good, that the copies of the verification status agree, and that what   *)
(* the first part shows holds in the account as well.  Each of the parts   *)
(* of the account keeps its own invariant; a step of another leaves its    *)
(* variables alone (MoneyInv and RateInv depend on the faults so far,      *)
(* which only grow).  They meet in PayeeInv, about the bank accounts the   *)
(* requests were given.                                                    *)
(***************************************************************************)
EXTENDS Account, SequenceTheorems, TLAPS


Critical == Locked \ {"wait"}

LockInv == \A s \in Requests : job[s].pc \in Critical => Holds(s)

(* What a request carries at each step.                                    *)
Inputs(s) ==
  /\ job[s].pc \in Locked => job[s].op \in {"request", "verify", "cancel"}
  /\ (job[s].pc \in Locked /\ job[s].op # "cancel") => job[s].bank \in Banks
  /\ (job[s].pc \in Locked /\ job[s].op = "verify") => job[s].c \in Challenges
  /\ job[s].pc \in {"supersede", "insert", "deliver"} => job[s].op = "request"
  /\ job[s].pc = "limit" => job[s].op # "cancel"
  /\ job[s].pc = "check" => job[s].op # "request"
  /\ job[s].pc \in {"withdraw", "record", "undo"} => job[s].op = "verify"
  /\ job[s].pc \in {"deliver", "withdraw", "record", "undo"} => job[s].c \in Challenges

Closed(c) == row[c].status \notin {None, "pending"} /\ copy[c].status # "pending"

(* What a request may rely on: the challenge it delivers was inserted, the *)
(* one it withdraws under was taken and not used, and then it is used.     *)
Relies(s) ==
  /\ job[s].pc = "deliver" => row[job[s].c] # NoRow
  /\ job[s].pc = "withdraw" => calls[job[s].c] = 0 /\ Closed(job[s].c)
  /\ job[s].pc \in {"record", "undo"} => calls[job[s].c] = 1

JobInv == \A s \in Requests : Inputs(s) /\ Relies(s)

CopyInv ==
  \A c \in Challenges : /\ row[c].status = None => row[c] = NoRow
                        /\ copy[c].status # None => row[c] # NoRow

UsedInv == \A c \in Challenges : calls[c] \in {0, 1} /\ (calls[c] = 1 => Closed(c))

IInv == TypeOK /\ LockInv /\ JobInv /\ CopyInv /\ UsedInv

-----------------------------------------------------------------------------
(* The rows and the requests of the model.                                 *)

LEMMA EmptyRow == NoRow \in Rows /\ NoRow.status = None
BY DEF NoRow, Rows, Status, None, NoId

LEMMA StatusIsSet ==
  ASSUME NEW r \in Rows, NEW st \in Status
  PROVE  [r EXCEPT !.status = st] \in Rows /\ [r EXCEPT !.status = st].status = st
BY DEF Rows

LEMMA TxIsSet ==
  ASSUME NEW r \in Rows
  PROVE  /\ [r EXCEPT !.tx = TRUE] \in Rows
         /\ [r EXCEPT !.tx = TRUE].status = r.status
BY DEF Rows

LEMMA TakenRow ==
  ASSUME NEW r \in Rows, NEW key \in Keys \cup {None}
  PROVE  Taken(r, key) \in Rows /\ Taken(r, key).status = "verified"
BY DEF Taken, Rows, Status

LEMMA CancelledRow ==
  ASSUME NEW r \in Rows
  PROVE  /\ Cancelled(r) \in Rows
         /\ Cancelled(r).status # "pending"
         /\ r.status # "pending" => Cancelled(r) = r
         /\ Cancelled(r).status = None => Cancelled(r) = r
BY DEF Cancelled, Rows, Status, None

LEMMA FinishedJob ==
  ASSUME NEW answer \in {None, "ok", "replayed", "refused"}
  PROVE  /\ [NoJob EXCEPT !.pc = "done", !.answer = answer] \in Jobs
         /\ [NoJob EXCEPT !.pc = "done", !.answer = answer].pc = "done"
BY DEF NoJob, Jobs, Locked, None, NoId

LEMMA MovedJob ==
  ASSUME NEW j \in Jobs, NEW pc \in {"new", "done"} \cup Locked
  PROVE  /\ [j EXCEPT !.pc = pc] \in Jobs
         /\ [j EXCEPT !.pc = pc].pc = pc
         /\ [j EXCEPT !.pc = pc].op = j.op
         /\ [j EXCEPT !.pc = pc].c = j.c
         /\ [j EXCEPT !.pc = pc].bank = j.bank
         /\ [j EXCEPT !.pc = pc].key = j.key
BY DEF Jobs

LEMMA FieldsOfRow ==
  ASSUME NEW r \in Rows
  PROVE  r.status \in Status /\ r.bank \in Banks \cup {NoId} /\ r.key \in Keys \cup {None}
BY DEF Rows

LEMMA FieldsOfJob ==
  ASSUME NEW j \in Jobs
  PROVE  /\ j.pc \in {"new", "done"} \cup Locked
         /\ j.op \in {None, "request", "verify", "cancel"}
         /\ j.c \in Challenges \cup {NoId}
         /\ j.key \in Keys \cup {None}
         /\ j.bank \in Banks \cup {NoId}
BY DEF Jobs

(* What a read returns is the row or the copy.                             *)
LEMMA LoadedIsOne ==
  ASSUME NEW c \in Challenges, NEW read
  PROVE  Loaded(c, read) \in {row[c], copy[c]}
BY DEF Loaded

-----------------------------------------------------------------------------
(* The lock: a step of the holder leaves the other requests alone, and     *)
(* they are not past the entry.                                            *)
HolderStep(s) ==
  /\ job \in [Requests -> Jobs] /\ job' \in [Requests -> Jobs]
  /\ Holds(s)
  /\ \A r \in Requests \ {s} : job'[r] = job[r] /\ job[r].pc \notin Critical
  /\ job'[s].pc \notin Critical \/ queue' = queue

LEMMA OthersWait ==
  ASSUME LockInv, NEW s \in Requests, Holds(s), NEW r \in Requests \ {s}
  PROVE  job[r].pc \notin Critical
BY DEF LockInv, Holds

LEMMA LockKept ==
  ASSUME NEW s \in Requests, HolderStep(s)
  PROVE  LockInv'
BY DEF HolderStep, LockInv, Holds

LEMMA AnswerStep ==
  ASSUME TypeOK, LockInv, NEW s \in Requests, Holds(s),
         NEW answer \in {None, "ok", "replayed", "refused"}, Answer(s, answer)
  PROVE  /\ HolderStep(s) /\ job'[s].pc = "done" /\ queue' \in Seq(Requests)
<1>1. queue \in Seq(Requests) /\ queue # <<>> /\ queue' = Tail(queue)
  BY DEF TypeOK, Holds, Answer
<1>2. queue' \in Seq(Requests)
  BY <1>1
<1>3. job \in [Requests -> Jobs]
  BY DEF TypeOK
<1> DEFINE j == [NoJob EXCEPT !.pc = "done", !.answer = answer]
<1>4. j \in Jobs /\ j.pc = "done"
  BY FinishedJob
<1>5. job' = [job EXCEPT ![s] = j]
  BY DEF Answer
<1> HIDE DEF j
<1>6. job' \in [Requests -> Jobs] /\ job'[s] = j /\ \A r \in Requests \ {s} : job'[r] = job[r]
  BY <1>3, <1>4, <1>5
<1> QED
  BY <1>2, <1>3, <1>4, <1>6, OthersWait DEF HolderStep, Critical, Locked

(* Any other step of the holder replaces its own record.                   *)
LEMMA MoveStep ==
  ASSUME TypeOK, LockInv, NEW s \in Requests, Holds(s), NEW j \in Jobs,
         job' = [job EXCEPT ![s] = j], UNCHANGED queue
  PROVE  HolderStep(s) /\ job'[s] = j /\ queue' \in Seq(Requests)
<1>1. job \in [Requests -> Jobs] /\ queue \in Seq(Requests)
  BY DEF TypeOK
<1> QED
  BY <1>1, OthersWait DEF HolderStep

LEMMA GotoStep ==
  ASSUME TypeOK, LockInv, NEW s \in Requests, Holds(s), NEW pc \in Locked, Goto(s, pc)
  PROVE  /\ HolderStep(s) /\ queue' \in Seq(Requests)
         /\ job'[s].pc = pc /\ job'[s].op = job[s].op /\ job'[s].c = job[s].c
         /\ job'[s].bank = job[s].bank /\ job'[s].key = job[s].key
<1> DEFINE j == [job[s] EXCEPT !.pc = pc]
<1>1. job[s] \in Jobs /\ job \in [Requests -> Jobs]
  BY DEF TypeOK
<1>2. j \in Jobs /\ j.pc = pc /\ j.op = job[s].op /\ j.c = job[s].c
      /\ j.bank = job[s].bank /\ j.key = job[s].key
  BY <1>1, MovedJob
<1>3. job' = [job EXCEPT ![s] = j] /\ UNCHANGED queue
  BY <1>1 DEF Goto
<1> HIDE DEF j
<1> QED
  BY <1>2, <1>3, MoveStep

-----------------------------------------------------------------------------
(* The parts of TypeOK.                                                    *)
StoreOK == row \in [Challenges -> Rows] /\ copy \in [Challenges -> Rows]
RestOK ==
  /\ lapsed \subseteq Challenges
  /\ rate \in [{"send", "verify"} -> [mem : Nat, db : Nat]]
  /\ told \subseteq Challenges
  /\ withdrawals \subseteq [key : Keys \cup Challenges, c : Challenges, bank : Banks, later : BOOLEAN]
  /\ calls \in [Challenges -> Nat]
  /\ wrong \subseteq Challenges
  /\ passed \in [{"send", "verify"} -> Nat]
  /\ faults \in Nat

LEMMA TypeParts ==
  TypeOK <=> /\ StoreOK /\ RestOK
             /\ queue \in Seq(Requests) /\ job \in [Requests -> Jobs]
             /\ \A s \in Requests :
                  job[s].pc \in {"deliver", "withdraw", "record", "undo"} => job[s].c \in Challenges
BY DEF TypeOK, StoreOK, RestOK

(* What a step may do to the challenges: none is forgotten, none that is   *)
(* closed opens again.                                                     *)
Keeps ==
  \A c \in Challenges : /\ row[c] # NoRow => row'[c] # NoRow
                        /\ Closed(c) => Closed(c)'
                        /\ row'[c].status = None => row'[c] = NoRow
                        /\ copy'[c].status # None => row'[c] # NoRow
StoreStep == StoreOK' /\ Keeps
NoIssue == \A c \in Challenges : row[c] = NoRow => row'[c] = NoRow

LEMMA StoreSame ==
  ASSUME IInv, UNCHANGED store
  PROVE  StoreStep /\ NoIssue
BY TypeParts DEF IInv, CopyInv, StoreStep, StoreOK, Keeps, NoIssue, store, Closed

LEMMA Persisted ==
  ASSUME IInv, NEW c \in Challenges, row[c] # NoRow, NEW r \in {row[c], copy[c]},
         NEW closing \in Status \ {None, "pending"}, NEW o \in Outcomes,
         Persist(c, r, closing, o)
  PROVE  StoreStep /\ NoIssue
<1>1. row \in [Challenges -> Rows] /\ copy \in [Challenges -> Rows]
  BY TypeParts DEF IInv, StoreOK
<1>2. r \in Rows /\ row[c] \in Rows
  BY <1>1
<1> DEFINE q == [r EXCEPT !.status = closing]
           w == [row[c] EXCEPT !.status = closing]
<1>3. q \in Rows /\ q.status = closing /\ w \in Rows /\ w.status = closing
  BY <1>2, StatusIsSet
<1>4. row' = IF o = "failed" THEN row ELSE [row EXCEPT ![c] = w]
  BY <1>1 DEF Persist
<1>5. copy' = [copy EXCEPT ![c] = IF o = "ok" THEN q ELSE r]
  BY DEF Persist
<1>6. w # NoRow
  BY <1>3, EmptyRow
<1> HIDE DEF q, w
<1>7. /\ row' \in [Challenges -> Rows] /\ copy' \in [Challenges -> Rows]
      /\ \A d \in Challenges \ {c} : row'[d] = row[d] /\ copy'[d] = copy[d]
      /\ row'[c] \in {row[c], w} /\ copy'[c] \in {r, q}
  BY <1>1, <1>2, <1>3, <1>4, <1>5
<1> QED
  BY <1>3, <1>6, <1>7 DEF IInv, CopyInv, StoreStep, StoreOK, Keeps, NoIssue, Closed

LEMMA Copied ==
  ASSUME IInv, NEW c \in Challenges, NEW r \in {row[c], copy[c]},
         copy' = [copy EXCEPT ![c] = r], UNCHANGED row
  PROVE  StoreStep /\ NoIssue
<1>1. row \in [Challenges -> Rows] /\ copy \in [Challenges -> Rows]
  BY TypeParts DEF IInv, StoreOK
<1>2. /\ copy' \in [Challenges -> Rows] /\ copy'[c] = r
      /\ \A d \in Challenges \ {c} : copy'[d] = copy[d]
  BY <1>1
<1> QED
  BY <1>1, <1>2, EmptyRow DEF IInv, CopyInv, StoreStep, StoreOK, Keeps, NoIssue, Closed

LEMMA Superseded ==
  ASSUME IInv, NEW o, SupersedeAll(o)
  PROVE  StoreStep /\ NoIssue
<1>1. row \in [Challenges -> Rows] /\ copy \in [Challenges -> Rows]
  BY TypeParts DEF IInv, StoreOK
<1>2. \A c \in Challenges : row'[c] \in {row[c], Cancelled(row[c])} /\ copy'[c] = Cancelled(copy[c])
  BY DEF SupersedeAll
<1>3. row' \in [Challenges -> Rows] /\ copy' \in [Challenges -> Rows]
  BY <1>1, CancelledRow DEF SupersedeAll
<1>4. \A c \in Challenges : row[c] # NoRow => Cancelled(row[c]) # NoRow
  BY <1>1, CancelledRow, EmptyRow
<1>5. \A c \in Challenges : row[c] = NoRow => Cancelled(row[c]) = NoRow
  BY CancelledRow, EmptyRow, FieldsOfRow DEF None
<1>6. ASSUME NEW c \in Challenges
      PROVE  /\ row[c] # NoRow => row'[c] # NoRow
             /\ row[c] = NoRow => row'[c] = NoRow
             /\ row[c].status # "pending" => row'[c] = row[c]
             /\ row'[c].status = None => row'[c] = row[c]
             /\ copy'[c].status # "pending"
             /\ copy[c].status = None => copy'[c] = copy[c]
  <2>1. row[c] \in Rows /\ copy[c] \in Rows
    BY <1>1
  <2>2. row[c].status # "pending" => Cancelled(row[c]) = row[c]
    BY <2>1, CancelledRow
  <2>3. Cancelled(row[c]).status = None => Cancelled(row[c]) = row[c]
    BY <2>1, CancelledRow
  <2>4. Cancelled(copy[c]).status # "pending"
    BY <2>1, CancelledRow
  <2>5. copy[c].status # "pending" => Cancelled(copy[c]) = copy[c]
    BY <2>1, CancelledRow
  <2>6. row'[c] \in {row[c], Cancelled(row[c])} /\ copy'[c] = Cancelled(copy[c])
    BY <1>2
  <2> QED
    BY <1>4, <1>5, <2>2, <2>3, <2>4, <2>5, <2>6 DEF None
<1>7. Keeps
  BY <1>6 DEF IInv, CopyInv, Keeps, Closed
<1>8. NoIssue
  BY <1>6 DEF NoIssue
<1> QED
  BY <1>3, <1>7, <1>8 DEF StoreStep, StoreOK

-----------------------------------------------------------------------------
(* The steps of the requests, one lemma each.                              *)
GoodStep(s) ==
  /\ HolderStep(s) /\ queue' \in Seq(Requests)
  /\ StoreStep /\ RestOK'
  /\ Inputs(s)' /\ Relies(s)'

(* A step that leaves history alone: no challenge is issued, taken or used.*)
QuietStep(s) ==
  /\ GoodStep(s)
  /\ UNCHANGED calls
  /\ NoIssue
  /\ job'[s].pc # "withdraw"

LEMMA Situation ==
  ASSUME IInv, NEW s \in Requests, NEW pc, At(s, pc)
  PROVE  /\ TypeOK /\ LockInv /\ Holds(s) /\ Inputs(s) /\ Relies(s)
         /\ job[s].pc = pc /\ job[s] \in Jobs /\ RestOK /\ StoreOK
BY TypeParts DEF IInv, JobInv, At, TypeOK

LEMMA Ended ==
  ASSUME NEW s \in Requests, job'[s].pc = "done"
  PROVE  Inputs(s)' /\ Relies(s)'
BY DEF Inputs, Relies, Locked

LEMMA FaultCount ==
  ASSUME faults \in Nat, NEW o, NEW slip, Outcome(o, slip)
  PROVE  faults' \in Nat
BY DEF Outcome

LEMMA ReadWriteCount ==
  ASSUME faults \in Nat, NEW read, NEW o, NEW slip, ReadThenWrite(read, o, slip)
  PROVE  faults' \in Nat
BY FaultCount DEF ReadThenWrite

LEMMA RestSame ==
  ASSUME RestOK, UNCHANGED <<lapsed, rate, told, withdrawals, calls, passed>>,
         wrong' = wrong \/ \E c \in Challenges : wrong' = wrong \cup {c}, faults' \in Nat
  PROVE  RestOK'
BY DEF RestOK

LEMMA EnterStep ==
  ASSUME IInv, NEW s \in Requests, Enter(s)
  PROVE  QuietStep(s)
<1>1. /\ TypeOK /\ LockInv /\ Holds(s) /\ Inputs(s) /\ Relies(s)
      /\ job[s].pc = "wait" /\ job[s] \in Jobs /\ RestOK
  BY Situation DEF Enter
<1>2. StoreStep /\ NoIssue /\ UNCHANGED calls
  BY StoreSame DEF Enter, history
<1>3. RestOK'
  BY <1>1, RestSame DEF Enter, history, RestOK
<1> DEFINE pc == IF job[s].op = "cancel" THEN "check" ELSE "limit"
<1>4. CASE Goto(s, pc)
  <2>1. pc \in Locked
    BY DEF Locked
  <2>2. /\ HolderStep(s) /\ queue' \in Seq(Requests)
        /\ job'[s].pc = pc /\ job'[s].op = job[s].op /\ job'[s].c = job[s].c
        /\ job'[s].bank = job[s].bank
    BY <1>1, <1>4, <2>1, GotoStep
  <2>3. Inputs(s)' /\ Relies(s)' /\ job'[s].pc # "withdraw"
    BY <1>1, <2>2 DEF Inputs, Relies, Locked
  <2> QED
    BY <1>2, <1>3, <2>2, <2>3 DEF QuietStep, GoodStep
<1>5. CASE Answer(s, "refused")
  <2>1. HolderStep(s) /\ job'[s].pc = "done" /\ queue' \in Seq(Requests)
    BY <1>1, <1>5, AnswerStep
  <2> QED
    BY <1>2, <1>3, <2>1, Ended DEF QuietStep, GoodStep
<1> QED
  BY <1>4, <1>5 DEF Enter

LEMMA CheckLimitStep ==
  ASSUME IInv, NEW s \in Requests, CheckLimit(s)
  PROVE  QuietStep(s)
<1>1. /\ TypeOK /\ LockInv /\ Holds(s) /\ Inputs(s) /\ Relies(s)
      /\ job[s].pc = "limit" /\ job[s] \in Jobs /\ RestOK
  BY Situation DEF CheckLimit
<1>2. StoreStep /\ NoIssue /\ UNCHANGED calls
  BY StoreSame DEF CheckLimit, history
<1> DEFINE k == Gate(s)
<1>3. PICK read \in {"ok", "failed"} :
        \/ /\ rate' = [rate EXCEPT ![k].mem = Counted(k, read)]
           /\ Outcome(read, "rateRead")
           /\ Answer(s, "refused")
           /\ UNCHANGED passed
        \/ /\ passed' = [passed EXCEPT ![k] = @ + 1]
           /\ Goto(s, IF k = "send" THEN "supersede" ELSE "check")
           /\ \/ /\ rate' = [rate EXCEPT ![k] = [mem |-> Counted(k, read) + 1,
                                                 db |-> Counted(k, read) + 1]]
                 /\ Outcome(read, "rateRead")
              \/ /\ rate' = [rate EXCEPT ![k].mem = Counted(k, read) + 1]
                 /\ Outcome("failed", "rateWrite")
  BY DEF CheckLimit
<1>4. k \in {"send", "verify"} /\ (k = "send" <=> job[s].op = "request")
  BY DEF Gate
<1>5. Counted(k, read) \in Nat
  BY <1>1, <1>4 DEF Counted, RestOK
<1>6. faults' \in Nat
  BY <1>1, <1>3, FaultCount DEF RestOK
<1>7. rate' \in [{"send", "verify"} -> [mem : Nat, db : Nat]]
  <2>1. /\ rate \in [{"send", "verify"} -> [mem : Nat, db : Nat]]
        /\ Counted(k, read) + 1 \in Nat
    BY <1>1, <1>5 DEF RestOK
  <2> HIDE DEF k
  <2> QED
    BY <1>3, <1>4, <1>5, <2>1
<1>8. passed' \in [{"send", "verify"} -> Nat]
  BY <1>1, <1>3, <1>4 DEF RestOK
<1>9. RestOK'
  BY <1>1, <1>6, <1>7, <1>8 DEF RestOK, CheckLimit, history
<1>10. CASE Answer(s, "refused")
  <2>1. HolderStep(s) /\ job'[s].pc = "done" /\ queue' \in Seq(Requests)
    BY <1>1, <1>10, AnswerStep
  <2> QED
    BY <1>2, <1>9, <2>1, Ended DEF QuietStep, GoodStep
<1>11. CASE Goto(s, IF k = "send" THEN "supersede" ELSE "check")
  <2> DEFINE pc == IF k = "send" THEN "supersede" ELSE "check"
  <2>1. pc \in Locked
    BY DEF Locked
  <2>2. /\ HolderStep(s) /\ queue' \in Seq(Requests)
        /\ job'[s].pc = pc /\ job'[s].op = job[s].op /\ job'[s].c = job[s].c
        /\ job'[s].bank = job[s].bank
    BY <1>1, <1>11, <2>1, GotoStep
  <2>3. Inputs(s)' /\ Relies(s)' /\ job'[s].pc # "withdraw"
    BY <1>1, <1>4, <2>2 DEF Inputs, Relies, Locked
  <2> QED
    BY <1>2, <1>9, <2>2, <2>3 DEF QuietStep, GoodStep
<1> QED
  BY <1>3, <1>10, <1>11

LEMMA SupersedeStep ==
  ASSUME IInv, NEW s \in Requests, Supersede(s)
  PROVE  QuietStep(s)
<1>1. /\ TypeOK /\ LockInv /\ Holds(s) /\ Inputs(s) /\ Relies(s)
      /\ job[s].pc = "supersede" /\ job[s] \in Jobs /\ RestOK
  BY Situation DEF Supersede
<1>2. PICK o : SupersedeAll(o)
  BY DEF Supersede
<1>3. StoreStep /\ NoIssue /\ UNCHANGED calls
  BY <1>2, Superseded DEF Supersede, history
<1>4. faults' \in Nat
  BY <1>1, <1>2, FaultCount DEF SupersedeAll, RestOK
<1>5. RestOK'
  BY <1>1, <1>4, RestSame DEF Supersede, history
<1>6. /\ HolderStep(s) /\ queue' \in Seq(Requests)
      /\ job'[s].pc = "insert" /\ job'[s].op = job[s].op /\ job'[s].c = job[s].c
      /\ job'[s].bank = job[s].bank
  BY <1>1, GotoStep DEF Supersede, Locked
<1>7. Inputs(s)' /\ Relies(s)'
  BY <1>1, <1>6 DEF Inputs, Relies, Locked
<1> QED
  BY <1>3, <1>5, <1>6, <1>7 DEF QuietStep, GoodStep

(* The step that issues challenge c, the only one it changes.              *)
Issues(c) ==
  /\ row[c] = NoRow /\ row'[c].status = "pending"
  /\ \A d \in Challenges \ {c} : row'[d] = row[d] /\ copy'[d] = copy[d]

LEMMA NewRow ==
  ASSUME NEW b \in Banks \cup {NoId}, NEW k \in Keys \cup {None}
  PROVE  /\ [status |-> "pending", bank |-> b, key |-> k, tx |-> FALSE] \in Rows
         /\ [status |-> "pending", bank |-> b, key |-> k, tx |-> FALSE].status = "pending"
BY DEF Rows, Status

LEMMA JobForChallenge ==
  ASSUME NEW j \in Jobs, NEW c \in Challenges
  PROVE  LET i == [[j EXCEPT !.pc = "deliver"] EXCEPT !.c = c]
         IN i \in Jobs /\ i.pc = "deliver" /\ i.op = j.op /\ i.c = c /\ i.bank = j.bank
BY DEF Jobs, Locked

LEMMA InsertStep ==
  ASSUME IInv, NEW s \in Requests, Insert(s)
  PROVE  /\ GoodStep(s) /\ UNCHANGED calls /\ job'[s].pc # "withdraw"
         /\ NoIssue \/ \E c \in Challenges : Issues(c)
<1>1. /\ TypeOK /\ LockInv /\ Holds(s) /\ Inputs(s) /\ Relies(s)
      /\ job[s].pc = "insert" /\ job[s] \in Jobs /\ RestOK /\ StoreOK
  BY Situation DEF Insert
<1> DEFINE new == [status |-> "pending", bank |-> job[s].bank, key |-> job[s].key, tx |-> FALSE]
<1>2. new \in Rows /\ new.status = "pending"
  BY <1>1, FieldsOfJob, NewRow
<1> HIDE DEF new
<1>3. PICK c \in Unused, o \in Outcomes :
        /\ row' = IF o = "failed" THEN row ELSE [row EXCEPT ![c] = new]
        /\ copy' = IF o = "ok" THEN [copy EXCEPT ![c] = new] ELSE copy
        /\ Outcome(o, "insert")
        /\ \/ o = "ok" /\ job' = [job EXCEPT ![s].pc = "deliver", ![s].c = c] /\ UNCHANGED queue
           \/ o # "ok" /\ Answer(s, "refused")
  BY DEF Insert, new
<1>4. c \in Challenges /\ row[c] = NoRow /\ copy[c].status = None
  BY <1>1 DEF Unused, IInv, CopyInv
<1>5. /\ row' \in [Challenges -> Rows] /\ copy' \in [Challenges -> Rows]
      /\ \A d \in Challenges \ {c} : row'[d] = row[d] /\ copy'[d] = copy[d]
      /\ \/ row'[c] = row[c] /\ copy'[c] = copy[c]
         \/ row'[c] = new /\ copy'[c] \in {copy[c], new}
  BY <1>1, <1>2, <1>3, <1>4 DEF StoreOK
<1>6. new # NoRow /\ NoRow.status = None /\ new.status # None
  BY <1>2, EmptyRow DEF None
<1>7. Keeps
  BY <1>2, <1>4, <1>5, <1>6 DEF IInv, CopyInv, Keeps, Closed
<1>8. NoIssue \/ Issues(c)
  BY <1>2, <1>4, <1>5 DEF NoIssue, Issues
<1>9. RestOK' /\ UNCHANGED calls
  BY <1>1, <1>3, FaultCount, RestSame DEF Insert, history, RestOK
<1>10. CASE o = "ok"
  <2> DEFINE j == [[job[s] EXCEPT !.pc = "deliver"] EXCEPT !.c = c]
  <2>1. j \in Jobs /\ j.pc = "deliver" /\ j.op = job[s].op /\ j.c = c /\ j.bank = job[s].bank
    BY <1>1, <1>4, JobForChallenge
  <2>2. job \in [Requests -> Jobs]
    BY <1>1 DEF TypeOK
  <2>3. job' = [job EXCEPT ![s] = j] /\ UNCHANGED queue
    BY <1>3, <1>10, <2>2
  <2> HIDE DEF j
  <2>4. HolderStep(s) /\ job'[s] = j /\ queue' \in Seq(Requests)
    BY <1>1, <2>1, <2>3, MoveStep
  <2>5. row'[c] = new
    BY <1>1, <1>3, <1>4, <1>10 DEF StoreOK
  <2>6. Inputs(s)'
    BY <1>1, <1>4, <2>1, <2>4 DEF Inputs, Locked
  <2>7. Relies(s)'
    BY <1>6, <2>1, <2>4, <2>5 DEF Relies
  <2> QED
    BY <1>4, <1>5, <1>7, <1>8, <1>9, <2>1, <2>4, <2>6, <2>7 DEF GoodStep, StoreStep, StoreOK
<1>11. CASE o # "ok"
  <2>1. HolderStep(s) /\ job'[s].pc = "done" /\ queue' \in Seq(Requests)
    BY <1>1, <1>3, <1>11, AnswerStep
  <2> QED
    BY <1>4, <1>5, <1>7, <1>8, <1>9, <2>1, Ended DEF GoodStep, StoreStep, StoreOK
<1> QED
  BY <1>10, <1>11

(* The steps that end with an answer and only close challenges.            *)
LEMMA AnswerIsQuiet ==
  ASSUME TypeOK, LockInv, NEW s \in Requests, Holds(s),
         NEW answer \in {None, "ok", "replayed", "refused"}, Answer(s, answer),
         StoreStep, NoIssue, RestOK', UNCHANGED calls
  PROVE  QuietStep(s)
<1>1. HolderStep(s) /\ job'[s].pc = "done" /\ queue' \in Seq(Requests)
  BY AnswerStep
<1> QED
  BY <1>1, Ended DEF QuietStep, GoodStep

LEMMA DeliverStep ==
  ASSUME IInv, NEW s \in Requests, Deliver(s)
  PROVE  QuietStep(s)
<1>1. /\ TypeOK /\ LockInv /\ Holds(s) /\ Inputs(s) /\ Relies(s)
      /\ job[s].pc = "deliver" /\ job[s] \in Jobs /\ RestOK
  BY Situation DEF Deliver
<1> DEFINE c == job[s].c
<1>2. c \in Challenges /\ row[c] # NoRow
  BY <1>1 DEF Inputs, Relies
<1>3. UNCHANGED calls
  BY DEF Deliver, history
<1>4. CASE /\ told' = told \cup {c}
           /\ Answer(s, "ok") /\ UNCHANGED store /\ Fine
  <2>1. StoreStep /\ NoIssue
    BY <1>4, StoreSame
  <2>2. RestOK'
    BY <1>1, <1>2, <1>4 DEF Deliver, history, RestOK, Fine
  <2> QED
    BY <1>1, <1>3, <1>4, <2>1, <2>2, AnswerIsQuiet
<1>5. CASE /\ \E o \in Outcomes : /\ Persist(c, copy[c], "delivery_failed", o)
                                  /\ Outcome(o, "deliver")
           /\ Answer(s, "refused") /\ UNCHANGED told
  <2>1. PICK o \in Outcomes : Persist(c, copy[c], "delivery_failed", o) /\ Outcome(o, "deliver")
    BY <1>5
  <2>2. StoreStep /\ NoIssue
    BY <1>2, <2>1, Persisted DEF Status, None
  <2>3. RestOK'
    BY <1>1, <1>5, <2>1, FaultCount, RestSame DEF Deliver, history, RestOK
  <2> QED
    BY <1>1, <1>3, <1>5, <2>2, <2>3, AnswerIsQuiet
<1> QED
  BY <1>4, <1>5 DEF Deliver

LEMMA CancelAllStep ==
  ASSUME IInv, NEW s \in Requests, CancelAll(s)
  PROVE  QuietStep(s)
<1>1. TypeOK /\ LockInv /\ Holds(s) /\ RestOK
  BY Situation DEF CancelAll
<1>2. PICK o : SupersedeAll(o)
  BY DEF CancelAll
<1>3. StoreStep /\ NoIssue
  BY <1>2, Superseded
<1>4. RestOK' /\ UNCHANGED calls
  BY <1>1, <1>2, FaultCount, RestSame DEF CancelAll, SupersedeAll, history, RestOK
<1> QED
  BY <1>1, <1>3, <1>4, AnswerIsQuiet DEF CancelAll

LEMMA PendingHasRow ==
  ASSUME IInv, NEW c \in Challenges, NEW r \in {row[c], copy[c]}, r.status = "pending"
  PROVE  row[c] # NoRow
BY EmptyRow DEF IInv, CopyInv, None

LEMMA CancelStep ==
  ASSUME IInv, NEW s \in Requests, Cancel(s)
  PROVE  QuietStep(s)
<1>1. /\ TypeOK /\ LockInv /\ Holds(s) /\ Inputs(s) /\ Relies(s)
      /\ job[s].pc = "check" /\ job[s] \in Jobs /\ RestOK
  BY Situation DEF Cancel
<1> DEFINE c == job[s].c
<1>2. c \in Challenges
  BY <1>1, FieldsOfJob DEF Cancel
<1>3. PICK read \in {"ok", "failed"}, o \in Outcomes :
        \/ /\ Cancellable(Loaded(c, read))
           /\ Persist(c, Loaded(c, read), "cancelled", o)
           /\ ReadThenWrite(read, o, "cancel")
           /\ Answer(s, IF o = "ok" THEN "ok" ELSE "refused")
        \/ /\ Read(c, read)
           /\ copy' = [copy EXCEPT ![c] = Loaded(c, read)]
           /\ Answer(s, IF Loaded(c, read).status \in {None, "verified"} THEN "refused" ELSE "ok")
           /\ UNCHANGED row
  BY DEF Cancel
<1> DEFINE r == Loaded(c, read)
<1>4. r \in {row[c], copy[c]}
  BY <1>2, LoadedIsOne
<1> HIDE DEF r
<1>5. StoreStep /\ NoIssue
  <2>1. CASE Cancellable(r) /\ Persist(c, r, "cancelled", o)
    BY <1>2, <1>4, <2>1, PendingHasRow, Persisted DEF Cancellable, Status, None
  <2>2. CASE copy' = [copy EXCEPT ![c] = r] /\ UNCHANGED row
    BY <1>2, <1>4, <2>2, Copied
  <2> QED
    BY <1>3, <2>1, <2>2 DEF r
<1>6. RestOK' /\ UNCHANGED calls
  BY <1>1, <1>3, FaultCount, ReadWriteCount, RestSame DEF Cancel, Read, history, RestOK
<1>7. \E answer \in {"ok", "refused"} : Answer(s, answer)
  BY <1>3
<1> QED
  BY <1>1, <1>5, <1>6, <1>7, AnswerIsQuiet

LEMMA RejectStep ==
  ASSUME IInv, NEW s \in Requests, Reject(s)
  PROVE  QuietStep(s)
<1>1. /\ TypeOK /\ LockInv /\ Holds(s) /\ Inputs(s)
      /\ job[s].pc = "check" /\ job[s].op = "verify" /\ RestOK
  BY Situation DEF Reject, Verifying
<1> DEFINE c == job[s].c
<1>2. c \in Challenges
  BY <1>1 DEF Inputs, Locked
<1>3. PICK read : /\ Read(c, read)
                  /\ copy' = [copy EXCEPT ![c] = Loaded(c, read)]
                  /\ Answer(s, IF Replays(s, Loaded(c, read)) THEN "replayed" ELSE "refused")
  BY DEF Reject
<1>4. StoreStep /\ NoIssue
  BY <1>2, <1>3, LoadedIsOne, Copied DEF Reject
<1>5. RestOK' /\ UNCHANGED calls
  BY <1>1, <1>3, FaultCount, RestSame DEF Reject, Read, history, RestOK
<1>6. \E answer \in {"replayed", "refused"} : Answer(s, answer)
  BY <1>3
<1> QED
  BY <1>1, <1>4, <1>5, <1>6, AnswerIsQuiet

LEMMA SpendTryStep ==
  ASSUME IInv, NEW s \in Requests, SpendTry(s)
  PROVE  QuietStep(s)
<1>1. /\ TypeOK /\ LockInv /\ Holds(s) /\ Inputs(s)
      /\ job[s].pc = "check" /\ job[s].op = "verify" /\ RestOK
  BY Situation DEF SpendTry, Verifying
<1> DEFINE c == job[s].c
<1>2. c \in Challenges
  BY <1>1 DEF Inputs, Locked
<1>3. PICK read \in {"ok", "failed"}, o \in Outcomes :
        /\ Open(Loaded(c, read))
        /\ Persist(c, Loaded(c, read), SpendStatus(s), o)
        /\ ReadThenWrite(read, o, "spend")
  BY DEF SpendTry
<1>4. Loaded(c, read) \in {row[c], copy[c]}
  BY <1>2, LoadedIsOne
<1>5. SpendStatus(s) \in Status \ {None, "pending"}
  BY DEF SpendStatus, Status, None
<1>6. row[c] # NoRow
  BY <1>2, <1>3, <1>4, PendingHasRow DEF Open
<1>7. StoreStep /\ NoIssue
  BY <1>2, <1>3, <1>4, <1>5, <1>6, Persisted
<1>8. RestOK' /\ UNCHANGED calls
  BY <1>1, <1>2, <1>3, ReadWriteCount, RestSame DEF SpendTry, RestOK
<1> QED
  BY <1>1, <1>7, <1>8, AnswerIsQuiet DEF SpendTry

LEMMA JobWithKey ==
  ASSUME NEW j \in Jobs, NEW key \in Keys \cup {None}
  PROVE  LET i == [[j EXCEPT !.pc = "withdraw"] EXCEPT !.key = key]
         IN /\ i \in Jobs /\ i.pc = "withdraw" /\ i.op = j.op /\ i.c = j.c /\ i.bank = j.bank
BY DEF Jobs, Locked

(* Taking challenge c: it was not closed and now it is.                    *)
Takes(s, c) ==
  /\ ~Closed(c) /\ row[c] # NoRow /\ Closed(c)'
  /\ \A d \in Challenges \ {c} : row'[d] = row[d] /\ copy'[d] = copy[d]
  /\ job'[s].pc = "withdraw" /\ job'[s].c = c

LEMMA ConsumeStep ==
  ASSUME IInv, NEW s \in Requests, Consume(s)
  PROVE  GoodStep(s) /\ UNCHANGED calls /\ NoIssue /\ (QuietStep(s) \/ \E c \in Challenges : Takes(s, c))
<1>1. /\ TypeOK /\ LockInv /\ Holds(s) /\ Inputs(s)
      /\ job[s].pc = "check" /\ job[s].op = "verify" /\ job[s] \in Jobs /\ RestOK
  BY Situation DEF Consume, Verifying
<1>2. PICK c \in Challenges : c = job[s].c
  BY <1>1 DEF Inputs, Locked
<1>3. PICK read \in {"ok", "failed"}, o \in Outcomes :
        LET r == Loaded(c, read)
            key == KeyOf(s, r)
        IN /\ Open(r)
           /\ \/ /\ row' = IF o = "failed" THEN row ELSE [row EXCEPT ![c] = Taken(@, key)]
                 /\ copy' = [copy EXCEPT ![c] = IF o = "ok" THEN Taken(r, key) ELSE r]
                 /\ ReadThenWrite(read, o, "consume")
                 /\ IF o = "ok"
                    THEN /\ job' = [job EXCEPT ![s].pc = "withdraw", ![s].key = key]
                         /\ UNCHANGED queue
                    ELSE Answer(s, "refused")
              \/ /\ Read(c, read)
                 /\ copy' = [copy EXCEPT ![c] = r]
                 /\ Answer(s, "refused")
                 /\ UNCHANGED row
  BY <1>2 DEF Consume
<1> DEFINE r == Loaded(c, read)
           key == KeyOf(s, r)
<1>4. r \in {row[c], copy[c]} /\ r.status = "pending"
  BY <1>2, <1>3, LoadedIsOne DEF Open
<1>5. row[c] # NoRow
  BY <1>2, <1>4, PendingHasRow
<1>6. row \in [Challenges -> Rows] /\ copy \in [Challenges -> Rows]
  BY <1>1 DEF TypeOK
<1>7. key \in Keys \cup {None}
  BY <1>1, <1>4, <1>6, FieldsOfJob, FieldsOfRow DEF KeyOf
<1> DEFINE t == Taken(r, key)
           w == Taken(row[c], key)
<1>8. t \in Rows /\ w \in Rows /\ t.status = "verified" /\ w.status = "verified"
  BY <1>2, <1>4, <1>6, <1>7, TakenRow
<1>9. RestOK' /\ UNCHANGED calls
  BY <1>1, <1>3, FaultCount, ReadWriteCount, RestSame DEF Consume, Read, history, RestOK
<1>10. CASE /\ row' = IF o = "failed" THEN row ELSE [row EXCEPT ![c] = Taken(@, key)]
            /\ copy' = [copy EXCEPT ![c] = IF o = "ok" THEN t ELSE r]
            /\ IF o = "ok"
               THEN /\ job' = [job EXCEPT ![s].pc = "withdraw", ![s].key = key]
                    /\ UNCHANGED queue
               ELSE Answer(s, "refused")
  <2> HIDE DEF r, key
  <2>1. row' = IF o = "failed" THEN row ELSE [row EXCEPT ![c] = w]
    BY <1>2, <1>6, <1>10
  <2> HIDE DEF t, w
  <2>2. /\ row' \in [Challenges -> Rows] /\ copy' \in [Challenges -> Rows]
        /\ \A d \in Challenges \ {c} : row'[d] = row[d] /\ copy'[d] = copy[d]
        /\ row'[c] = (IF o = "failed" THEN row[c] ELSE w)
        /\ copy'[c] = (IF o = "ok" THEN t ELSE r)
    BY <1>2, <1>4, <1>6, <1>8, <1>10, <2>1
  <2>3. w # NoRow
    BY <1>8, EmptyRow DEF None
  <2>4. ~Closed(c)
    BY <1>4 DEF Closed
  <2>5. StoreStep /\ NoIssue
    BY <1>5, <1>8, <2>2, <2>3, <2>4 DEF IInv, CopyInv, StoreStep, StoreOK, Keeps, NoIssue, Closed, None
  <2>6. CASE o = "ok"
    <3> DEFINE j == [[job[s] EXCEPT !.pc = "withdraw"] EXCEPT !.key = key]
    <3>1. j \in Jobs /\ j.pc = "withdraw" /\ j.op = job[s].op /\ j.c = c /\ j.bank = job[s].bank
      BY <1>1, <1>2, <1>7, JobWithKey
    <3>2. job \in [Requests -> Jobs]
      BY <1>1 DEF TypeOK
    <3>3. job' = [job EXCEPT ![s] = j] /\ UNCHANGED queue
      BY <1>10, <2>6, <3>2
    <3> HIDE DEF j
    <3>4. HolderStep(s) /\ job'[s] = j /\ queue' \in Seq(Requests)
      BY <1>1, <3>1, <3>3, MoveStep
    <3>5. Closed(c)'
      BY <1>8, <2>2, <2>6 DEF Closed, None
    <3>6. calls[c] = 0 /\ calls'[c] = 0
      BY <1>2, <1>9, <2>4 DEF IInv, UsedInv
    <3>7. Inputs(s)'
      BY <1>1, <1>2, <3>1, <3>4 DEF Inputs, Locked
    <3>8. job'[s].c = c /\ job'[s].pc = "withdraw"
      BY <3>1, <3>4
    <3>9. Relies(s)'
      BY <3>5, <3>6, <3>8 DEF Relies, Closed
    <3>10. GoodStep(s)
      BY <1>9, <2>5, <3>4, <3>7, <3>9 DEF GoodStep
    <3>11. Takes(s, c)
      BY <1>5, <2>2, <2>4, <3>5, <3>8 DEF Takes
    <3> QED
      BY <1>9, <2>5, <3>10, <3>11
  <2>7. CASE o # "ok"
    <3>1. Answer(s, "refused")
      BY <1>10, <2>7
    <3>2. QuietStep(s)
      BY <1>1, <1>9, <2>5, <3>1, AnswerIsQuiet
    <3> QED
      BY <3>2 DEF QuietStep
  <2> QED
    BY <2>6, <2>7
<1>11. CASE copy' = [copy EXCEPT ![c] = r] /\ Answer(s, "refused") /\ UNCHANGED row
  <2>1. StoreStep /\ NoIssue
    BY <1>2, <1>4, <1>11, Copied
  <2>2. QuietStep(s)
    BY <1>1, <1>9, <1>11, <2>1, AnswerIsQuiet
  <2> QED
    BY <2>2 DEF QuietStep
<1> HIDE DEF r, key, t, w
<1> QED
  BY <1>3, <1>10, <1>11 DEF r, key, t

(* The call of withdrawFunds.                                              *)
Uses(s, c) ==
  /\ calls[c] = 0 /\ Closed(c) /\ job[s].pc = "withdraw" /\ job[s].c = c
  /\ calls' = [calls EXCEPT ![c] = 1]
  /\ UNCHANGED store
  /\ job'[s].pc # "withdraw"

LEMMA WithdrawStep ==
  ASSUME IInv, NEW s \in Requests, Withdraw(s)
  PROVE  GoodStep(s) /\ \E c \in Challenges : Uses(s, c)
<1>1. /\ TypeOK /\ LockInv /\ Holds(s) /\ Inputs(s) /\ Relies(s)
      /\ job[s].pc = "withdraw" /\ job[s] \in Jobs /\ RestOK
  BY Situation DEF Withdraw
<1>2. PICK c \in Challenges : c = job[s].c /\ job[s].bank \in Banks
  BY <1>1 DEF Inputs, Locked
<1>3. calls[c] = 0 /\ Closed(c)
  BY <1>1, <1>2 DEF Relies
<1>4. calls' = [calls EXCEPT ![c] = 1]
  BY <1>1, <1>2, <1>3 DEF Withdraw, RestOK
<1>5. StoreStep
  BY StoreSame DEF Withdraw
<1> DEFINE w == [key |-> LedgerKey(s), c |-> c, bank |-> job[s].bank,
                 later |-> \E d \in told : d > c]
<1>6. w \in [key : Keys \cup Challenges, c : Challenges, bank : Banks, later : BOOLEAN]
  <2>1. LedgerKey(s) \in Keys \cup Challenges
    BY <1>1, <1>2, FieldsOfJob DEF LedgerKey
  <2>2. (\E d \in told : d > c) \in BOOLEAN
    OBVIOUS
  <2> QED
    BY <1>2, <2>1, <2>2
<1> HIDE DEF w
<1>7. withdrawals' \subseteq withdrawals \cup {w}
  BY <1>2 DEF Withdraw, w
<1>8. faults' \in Nat
  BY <1>1, FaultCount DEF Withdraw, Fine, RestOK
<1>9. calls' \in [Challenges -> Nat]
  BY <1>1, <1>2, <1>4 DEF RestOK
<1>10. RestOK'
  BY <1>1, <1>6, <1>7, <1>8, <1>9 DEF RestOK, Withdraw
<1>11. PICK pc \in {"record", "undo"} : Goto(s, pc)
  BY DEF Withdraw
<1>12. /\ HolderStep(s) /\ queue' \in Seq(Requests)
       /\ job'[s].pc = pc /\ job'[s].op = job[s].op /\ job'[s].c = c
       /\ job'[s].bank = job[s].bank
  BY <1>1, <1>2, <1>11, GotoStep DEF Locked
<1>13. calls'[c] = 1
  BY <1>1, <1>2, <1>4 DEF RestOK
<1>14. Inputs(s)'
  BY <1>1, <1>2, <1>12 DEF Inputs, Locked
<1>15. Relies(s)'
  BY <1>12, <1>13 DEF Relies
<1>16. GoodStep(s)
  BY <1>5, <1>10, <1>12, <1>14, <1>15 DEF GoodStep
<1> QED
  BY <1>1, <1>2, <1>3, <1>4, <1>12, <1>16 DEF Uses, Withdraw

LEMMA RecordStep ==
  ASSUME IInv, NEW s \in Requests, Record(s)
  PROVE  QuietStep(s)
<1>1. /\ TypeOK /\ LockInv /\ Holds(s) /\ Inputs(s) /\ Relies(s)
      /\ job[s].pc = "record" /\ RestOK /\ StoreOK
  BY Situation DEF Record
<1> DEFINE c == job[s].c
<1>2. c \in Challenges /\ calls[c] = 1
  BY <1>1 DEF Inputs, Relies
<1>3. Closed(c) /\ row[c] # NoRow
  BY <1>2, EmptyRow DEF IInv, UsedInv, Closed
<1> DEFINE w == [row[c] EXCEPT !.tx = TRUE]
           v == [copy[c] EXCEPT !.tx = TRUE]
<1>4. w \in Rows /\ w.status = row[c].status /\ v \in Rows /\ v.status = copy[c].status
  BY <1>1, <1>2, TxIsSet DEF StoreOK
<1>5. PICK o \in Outcomes :
        /\ row' = IF o = "failed" THEN row ELSE [row EXCEPT ![c] = w]
        /\ copy' = IF o = "ok" THEN [copy EXCEPT ![c] = v] ELSE copy
        /\ Outcome(o, "record")
  BY <1>1 DEF Record, StoreOK
<1> HIDE DEF w, v
<1>6. /\ row' \in [Challenges -> Rows] /\ copy' \in [Challenges -> Rows]
      /\ \A d \in Challenges \ {c} : row'[d] = row[d] /\ copy'[d] = copy[d]
      /\ row'[c] \in {row[c], w} /\ copy'[c] \in {copy[c], v}
  BY <1>1, <1>2, <1>4, <1>5 DEF StoreOK
<1>7. w # NoRow
  BY <1>3, <1>4, EmptyRow DEF Closed
<1>8. StoreStep /\ NoIssue
  BY <1>2, <1>3, <1>4, <1>6, <1>7 DEF IInv, CopyInv, StoreStep, StoreOK, Keeps, NoIssue, Closed
<1>9. RestOK' /\ UNCHANGED calls
  BY <1>1, <1>5, FaultCount, RestSame DEF Record, history, RestOK
<1> QED
  BY <1>1, <1>8, <1>9, AnswerIsQuiet DEF Record

LEMMA UndoStep ==
  ASSUME IInv, NEW s \in Requests, Undo(s)
  PROVE  QuietStep(s)
<1>1. /\ TypeOK /\ LockInv /\ Holds(s) /\ Inputs(s) /\ Relies(s)
      /\ job[s].pc = "undo" /\ RestOK
  BY Situation DEF Undo
<1> DEFINE c == job[s].c
<1>2. c \in Challenges /\ calls[c] = 1
  BY <1>1 DEF Inputs, Relies
<1>3. row[c] # NoRow
  BY <1>2, EmptyRow DEF IInv, UsedInv, Closed
<1>4. PICK o \in Outcomes : Persist(c, copy[c], "cancelled", o) /\ Outcome(o, "undo")
  BY DEF Undo
<1>5. StoreStep /\ NoIssue
  BY <1>2, <1>3, <1>4, Persisted DEF Status, None
<1>6. RestOK' /\ UNCHANGED calls
  BY <1>1, <1>4, FaultCount, RestSame DEF Undo, history, RestOK
<1> QED
  BY <1>1, <1>5, <1>6, AnswerIsQuiet DEF Undo

-----------------------------------------------------------------------------
(* The invariant holds at first and every step keeps it.                   *)
LEMMA InitInv == Init => IInv
<1> SUFFICES ASSUME Init PROVE IInv
  OBVIOUS
<1>1. StoreOK /\ \A c \in Challenges : row[c] = NoRow /\ copy[c] = NoRow
  BY EmptyRow DEF Init, StoreOK
<1>2. RestOK
  BY DEF Init, RestOK
<1>3. NoJob \in Jobs /\ NoJob.pc = "new"
  BY DEF NoJob, Jobs, None, NoId
<1>4. job \in [Requests -> Jobs] /\ \A s \in Requests : job[s].pc = "new"
  BY <1>3 DEF Init
<1>5. queue \in Seq(Requests)
  BY DEF Init
<1>6. TypeOK
  BY <1>1, <1>2, <1>4, <1>5, TypeParts
<1>7. LockInv /\ JobInv
  BY <1>4 DEF LockInv, Critical, JobInv, Inputs, Relies, Locked
<1>8. CopyInv /\ UsedInv
  BY <1>1, EmptyRow DEF Init, CopyInv, UsedInv
<1> QED
  BY <1>6, <1>7, <1>8 DEF IInv

LEMMA GoodStepKeeps ==
  ASSUME IInv, NEW s \in Requests, GoodStep(s), UsedInv'
  PROVE  IInv'
<1>1. LockInv'
  BY LockKept DEF GoodStep
<1>2. ASSUME NEW r \in Requests
      PROVE  Inputs(r)' /\ Relies(r)'
  <2>1. CASE r = s
    BY <2>1 DEF GoodStep
  <2>2. CASE r # s
    <3>1. job'[r] = job[r] /\ job[r].pc \notin Critical /\ Inputs(r)
      BY <2>2 DEF GoodStep, HolderStep, IInv, JobInv
    <3>2. Inputs(r)'
      BY <3>1 DEF Inputs
    <3>3. Relies(r)'
      BY <3>1 DEF Relies, Critical, Locked
    <3> QED
      BY <3>2, <3>3
  <2> QED
    BY <2>1, <2>2
<1>3. CopyInv'
  BY DEF GoodStep, StoreStep, Keeps, CopyInv
<1>4. TypeOK'
  <2>1. \A r \in Requests : job'[r].pc \in {"deliver", "withdraw", "record", "undo"}
                              => job'[r].c \in Challenges
    BY <1>2 DEF Inputs
  <2> QED
    BY <2>1 DEF GoodStep, StoreStep, HolderStep, TypeOK, StoreOK, RestOK
<1> QED
  BY <1>1, <1>2, <1>3, <1>4 DEF IInv, JobInv

LEMMA UsedKept ==
  ASSUME IInv, NEW s \in Requests, GoodStep(s), UNCHANGED calls
  PROVE  UsedInv'
BY DEF IInv, UsedInv, GoodStep, StoreStep, Keeps

LEMMA QuietStepKeeps ==
  ASSUME IInv, NEW s \in Requests, QuietStep(s)
  PROVE  IInv'
BY UsedKept, GoodStepKeeps DEF QuietStep

LEMMA UsesKeeps ==
  ASSUME IInv, NEW s \in Requests, GoodStep(s), NEW c \in Challenges, Uses(s, c)
  PROVE  IInv'
<1>1. calls \in [Challenges -> Nat]
  BY TypeParts DEF IInv, RestOK
<1>2. ASSUME NEW d \in Challenges
      PROVE  calls'[d] \in {0, 1} /\ (calls'[d] = 1 => Closed(d)')
  <2>1. Closed(d) => Closed(d)'
    BY DEF GoodStep, StoreStep, Keeps
  <2>2. calls[d] \in {0, 1} /\ (calls[d] = 1 => Closed(d))
    BY DEF IInv, UsedInv
  <2>3. CASE d = c
    BY <1>1, <2>1, <2>3 DEF Uses
  <2>4. CASE d # c
    BY <1>1, <2>1, <2>2, <2>4 DEF Uses
  <2> QED
    BY <2>3, <2>4
<1>3. UsedInv'
  BY <1>2 DEF UsedInv
<1> QED
  BY <1>3, GoodStepKeeps

LEMMA ConsumeKeeps ==
  ASSUME IInv, NEW s \in Requests, Consume(s)
  PROVE  IInv'
BY ConsumeStep, UsedKept, GoodStepKeeps

LEMMA StepKeeps ==
  ASSUME IInv, NEW s \in Requests, Step(s)
  PROVE  IInv'
<1>1. CASE Insert(s)
  BY <1>1, InsertStep, UsedKept, GoodStepKeeps
<1>2. CASE Consume(s)
  BY <1>2, ConsumeKeeps
<1>3. CASE Withdraw(s)
  BY <1>3, WithdrawStep, UsesKeeps
<1> QED
  BY <1>1, <1>2, <1>3, EnterStep, CheckLimitStep, SupersedeStep, DeliverStep, CancelAllStep,
     CancelStep, RejectStep, SpendTryStep, RecordStep, UndoStep, QuietStepKeeps DEF Step

(* The steps without the lock.  None of them changes a row or a count of   *)
(* calls, and none reaches a step past the entry.                          *)
LEMMA AppendKeepsHead ==
  ASSUME NEW q \in Seq(Requests), NEW s \in Requests, q # <<>>
  PROVE  /\ Append(q, s) \in Seq(Requests) /\ Append(q, s) # <<>>
         /\ Head(Append(q, s)) = Head(q)
OBVIOUS

LEMMA EnqueueKeeps ==
  ASSUME IInv, NEW s \in Requests,
         NEW op \in {"request", "verify", "cancel"}, NEW c \in Challenges \cup {NoId},
         NEW code \in {None, "right", "wrong"}, NEW key \in Keys \cup {None},
         NEW bk \in Banks \cup {NoId},
         Allowed(op, c, code, key, bk), Enqueue(s, op, c, code, key, bk),
         UNCHANGED <<store, lapsed, rate, told, history, passed>>, faults' \in Nat
  PROVE  /\ IInv' /\ UNCHANGED <<row, copy, calls>>
         /\ \A r \in Requests : job'[r].pc = "withdraw" => job'[r] = job[r]
<1> DEFINE j == [pc |-> "wait", op |-> op, c |-> c, code |-> code, key |-> key, bank |-> bk,
                 answer |-> None]
<1>1. j \in Jobs /\ j.pc = "wait" /\ j.op = op /\ j.c = c /\ j.bank = bk
  BY DEF Jobs, Locked
<1>2. Allowed(op, c, code, key, bk) /\ job' = [job EXCEPT ![s] = j] /\ queue' = Append(queue, s)
  BY DEF Enqueue
<1> HIDE DEF j
<1>3. /\ queue \in Seq(Requests) /\ job \in [Requests -> Jobs] /\ StoreOK /\ RestOK
      /\ LockInv /\ JobInv /\ CopyInv /\ UsedInv
  BY TypeParts DEF IInv
<1>4. /\ job' \in [Requests -> Jobs] /\ job'[s] = j
      /\ \A r \in Requests \ {s} : job'[r] = job[r]
  BY <1>1, <1>2, <1>3
<1>5. queue' \in Seq(Requests)
  BY <1>2, <1>3
<1>6. UNCHANGED <<row, copy, calls>>
  BY DEF store, history
<1>7. StoreOK' /\ RestOK' /\ CopyInv' /\ UsedInv'
  BY <1>3 DEF store, history, StoreOK, RestOK, CopyInv, UsedInv, Closed
<1>8. LockInv'
  <2> SUFFICES ASSUME NEW r \in Requests, job'[r].pc \in Critical PROVE Holds(r)'
    BY DEF LockInv
  <2>1. r # s
    BY <1>1, <1>4 DEF Critical
  <2>2. Holds(r)
    BY <1>3, <1>4, <2>1 DEF LockInv
  <2> QED
    BY <1>2, <1>3, <2>2, AppendKeepsHead DEF Holds
<1>9. ASSUME NEW r \in Requests
      PROVE  Inputs(r)' /\ Relies(r)'
  <2>1. CASE r = s
    <3>1. told \subseteq Challenges
      BY <1>3 DEF RestOK
    <3>2. (op # "cancel" => bk \in Banks) /\ (op = "verify" => c \in Challenges)
      BY <1>2, <3>1 DEF Allowed
    <3> QED
      BY <1>1, <1>4, <2>1, <3>2 DEF Inputs, Relies
  <2>2. CASE r # s
    <3>1. job'[r] = job[r] /\ Inputs(r) /\ Relies(r)
      BY <1>3, <1>4, <2>2 DEF JobInv
    <3>2. Inputs(r)'
      BY <3>1 DEF Inputs
    <3> QED
      BY <1>6, <3>1, <3>2 DEF Relies, Closed
  <2> QED
    BY <2>1, <2>2
<1>10. TypeOK'
  <2>1. \A r \in Requests : job'[r].pc \in {"deliver", "withdraw", "record", "undo"}
                              => job'[r].c \in Challenges
    BY <1>9 DEF Inputs
  <2> QED
    BY <1>4, <1>5, <1>7, <2>1 DEF TypeOK, StoreOK, RestOK
<1> QED
  BY <1>1, <1>4, <1>6, <1>7, <1>8, <1>9, <1>10 DEF IInv, JobInv

LEMMA BeginKeeps ==
  ASSUME IInv, NEW s \in Requests,
         NEW op \in {"request", "verify", "cancel"}, NEW c \in Challenges \cup {NoId},
         NEW code \in {None, "right", "wrong"}, NEW key \in Keys \cup {None},
         NEW bk \in Banks \cup {NoId}, Begin(s, op, c, code, key, bk)
  PROVE  /\ IInv' /\ UNCHANGED <<row, copy, calls>>
         /\ \A r \in Requests : job'[r].pc = "withdraw" => job'[r] = job[r]
<1>1. faults \in Nat
  BY DEF IInv, TypeOK
<1> QED
  BY <1>1, EnqueueKeeps DEF Begin

LEMMA FrameKeeps ==
  ASSUME IInv, UNCHANGED <<row, copy, queue, calls, withdrawals, told, wrong>>,
         job' \in [Requests -> Jobs],
         \A r \in Requests : job'[r] = job[r] \/ (job'[r].pc = "done" /\ job[r].pc \notin Critical),
         lapsed' \subseteq Challenges, rate' \in [{"send", "verify"} -> [mem : Nat, db : Nat]],
         passed' \in [{"send", "verify"} -> Nat], faults' \in Nat
  PROVE  IInv'
<1>1. TypeOK /\ LockInv /\ JobInv /\ CopyInv /\ UsedInv
  BY DEF IInv
<1>2. ASSUME NEW r \in Requests
      PROVE  Inputs(r)' /\ Relies(r)'
  <2>1. CASE job'[r].pc = "done"
    BY <2>1, Ended
  <2>2. CASE job'[r] = job[r]
    <3>1. Inputs(r) /\ Relies(r)
      BY <1>1 DEF JobInv
    <3>2. Inputs(r)'
      BY <2>2, <3>1 DEF Inputs
    <3> QED
      BY <2>2, <3>1, <3>2 DEF Relies, Closed
  <2> QED
    BY <2>1, <2>2
<1>3. LockInv'
  BY <1>1 DEF LockInv, Holds, Critical, Locked
<1>4. CopyInv' /\ UsedInv'
  BY <1>1 DEF CopyInv, UsedInv, Closed
<1>5. TypeOK'
  <2>1. \A r \in Requests : job'[r].pc \in {"deliver", "withdraw", "record", "undo"}
                              => job'[r].c \in Challenges
    BY <1>2 DEF Inputs
  <2> QED
    BY <1>1, <2>1 DEF TypeOK
<1> QED
  BY <1>2, <1>3, <1>4, <1>5 DEF IInv, JobInv

LEMMA JobsSame ==
  ASSUME IInv, UNCHANGED <<row, copy, queue, job, calls, withdrawals, told, wrong, faults>>,
         lapsed' \subseteq Challenges, rate' \in [{"send", "verify"} -> [mem : Nat, db : Nat]],
         passed' \in [{"send", "verify"} -> Nat]
  PROVE  IInv'
<1>1. job \in [Requests -> Jobs] /\ faults \in Nat
  BY DEF IInv, TypeOK
<1> QED
  BY <1>1, FrameKeeps

LEMMA TurnAwayKeeps ==
  ASSUME IInv, NEW s \in Requests, TurnAway(s)
  PROVE  /\ IInv' /\ UNCHANGED <<row, copy, calls>>
         /\ \A r \in Requests : job'[r].pc = "withdraw" => job'[r] = job[r]
<1>1. TypeOK
  BY DEF IInv
<1> DEFINE j == [[job[s] EXCEPT !.pc = "done"] EXCEPT !.answer = "refused"]
<1>2. job[s] \in Jobs /\ job \in [Requests -> Jobs]
  BY <1>1 DEF TypeOK
<1>3. j \in Jobs /\ j.pc = "done"
  BY <1>2 DEF Jobs, Locked
<1>4. job' = [job EXCEPT ![s] = j] /\ job[s].pc = "new"
  BY <1>2 DEF TurnAway
<1> HIDE DEF j
<1>5. job' \in [Requests -> Jobs] /\ job'[s] = j /\ \A r \in Requests \ {s} : job'[r] = job[r]
  BY <1>2, <1>3, <1>4
<1>6. IInv'
  <2>1. \A r \in Requests : job'[r] = job[r] \/ (job'[r].pc = "done" /\ job[r].pc \notin Critical)
    BY <1>3, <1>4, <1>5 DEF Critical, Locked
  <2>2. /\ UNCHANGED <<row, copy, queue, calls, withdrawals, told, wrong>>
        /\ lapsed' = lapsed /\ rate' = rate /\ passed' = passed /\ faults' = faults
    BY DEF TurnAway, store, history
  <2>3. /\ lapsed \subseteq Challenges /\ rate \in [{"send", "verify"} -> [mem : Nat, db : Nat]]
        /\ passed \in [{"send", "verify"} -> Nat] /\ faults \in Nat
    BY <1>1 DEF TypeOK
  <2> QED
    BY <1>5, <2>1, <2>2, <2>3, FrameKeeps
<1> QED
  BY <1>3, <1>5, <1>6 DEF TurnAway, store, history

LEMMA LapseKeeps ==
  ASSUME IInv, NEW c \in Challenges, Lapse(c)
  PROVE  IInv'
<1>1. TypeOK
  BY DEF IInv
<1>2. /\ UNCHANGED <<row, copy, queue, job, calls, withdrawals, told, wrong, faults>>
      /\ lapsed' = lapsed \cup {c} /\ rate' = rate /\ passed' = passed
  BY DEF Lapse, store, history
<1>3. /\ lapsed' \subseteq Challenges /\ rate' \in [{"send", "verify"} -> [mem : Nat, db : Nat]]
      /\ passed' \in [{"send", "verify"} -> Nat]
  BY <1>1, <1>2 DEF TypeOK
<1> QED
  BY <1>2, <1>3, JobsSame

LEMMA NewWindowKeeps ==
  ASSUME IInv, NEW k \in {"send", "verify"}, NewWindow(k)
  PROVE  IInv'
<1>1. TypeOK
  BY DEF IInv
<1>2. rate' \in [{"send", "verify"} -> [mem : Nat, db : Nat]]
  BY <1>1 DEF NewWindow, TypeOK
<1>3. passed' \in [{"send", "verify"} -> Nat]
  BY <1>1 DEF NewWindow, TypeOK
<1>4. /\ UNCHANGED <<row, copy, queue, job, calls, withdrawals, told, wrong, faults>>
      /\ lapsed' = lapsed
  BY DEF NewWindow, store, history
<1>5. lapsed' \subseteq Challenges
  BY <1>1, <1>4 DEF TypeOK
<1> QED
  BY <1>2, <1>3, <1>4, <1>5, JobsSame

(* After a restart no request is under way and no copy is left.            *)
LEMMA RestartKeeps ==
  ASSUME IInv, Restart
  PROVE  /\ IInv' /\ UNCHANGED <<row, calls>>
         /\ \A c \in Challenges : copy'[c].status # "pending"
         /\ \A r \in Requests : job'[r].pc # "withdraw"
<1>1. TypeOK /\ CopyInv /\ UsedInv /\ StoreOK /\ RestOK /\ job \in [Requests -> Jobs]
  BY TypeParts DEF IInv
<1> DEFINE j == [NoJob EXCEPT !.pc = "done"]
<1>2. j \in Jobs /\ j.pc = "done"
  BY DEF NoJob, Jobs, None, NoId
<1>3. job' = [s \in Requests |-> IF job[s].pc \in Locked THEN j ELSE job[s]]
  BY DEF Restart, Forget
<1> HIDE DEF j
<1>4. job' \in [Requests -> Jobs] /\ \A r \in Requests : job'[r].pc \notin Locked
  BY <1>1, <1>2, <1>3 DEF Locked
<1>5. queue' = <<>> /\ queue' \in Seq(Requests)
  BY DEF Restart, Forget
<1>6. copy' \in [Challenges -> Rows] /\ \A c \in Challenges : copy'[c] = NoRow
  BY EmptyRow DEF Restart, Forget
<1>7. UNCHANGED <<row, lapsed, told, withdrawals, calls, wrong, passed>>
  BY DEF Restart, history
<1>8. faults' \in Nat
  BY <1>1, FaultCount DEF Restart, RestOK
<1>9. rate' \in [{"send", "verify"} -> [mem : Nat, db : Nat]]
  BY <1>1 DEF Restart, Forget, RestOK
<1>10. StoreOK' /\ RestOK'
  BY <1>1, <1>6, <1>7, <1>8, <1>9 DEF StoreOK, RestOK
<1>11. TypeOK'
  BY <1>4, <1>5, <1>10 DEF TypeOK, StoreOK, RestOK, Locked
<1>12. LockInv' /\ JobInv'
  BY <1>4 DEF LockInv, Critical, JobInv, Inputs, Relies, Locked
<1>13. CopyInv' /\ UsedInv'
  BY <1>1, <1>6, <1>7, EmptyRow DEF CopyInv, UsedInv, Closed, None
<1> QED
  BY <1>4, <1>6, <1>7, <1>11, <1>12, <1>13, EmptyRow DEF IInv, Locked, None

LEMMA ArriveKeeps ==
  ASSUME IInv, NEW s \in Requests, Arrive(s)
  PROVE  /\ IInv' /\ UNCHANGED <<row, copy, calls>>
         /\ \A r \in Requests : job'[r].pc = "withdraw" => job'[r] = job[r]
<1>1. CASE TurnAway(s)
  BY <1>1, TurnAwayKeeps
<1>2. ASSUME ~TurnAway(s)
      PROVE  /\ IInv' /\ UNCHANGED <<row, copy, calls>>
             /\ \A r \in Requests : job'[r].pc = "withdraw" => job'[r] = job[r]
  <2>1. PICK op \in {"request", "verify", "cancel"}, c \in Challenges \cup {NoId},
             code \in {None, "right", "wrong"}, key \in Keys \cup {None},
             bk \in Banks \cup {NoId} : Begin(s, op, c, code, key, bk)
    BY <1>2 DEF Arrive
  <2> HIDE <1>2
  <2> QED
    BY <2>1, BeginKeeps
<1> QED
  BY <1>1, <1>2

LEMMA NextInv == IInv /\ [Next]_challengeVars => IInv'
<1> SUFFICES ASSUME IInv, [Next]_challengeVars PROVE IInv'
  OBVIOUS
<1>1. ASSUME NEW s \in Requests, Arrive(s) PROVE IInv'
  BY <1>1, ArriveKeeps
<1>2. ASSUME NEW s \in Requests, Step(s) PROVE IInv'
  BY <1>2, StepKeeps
<1>3. ASSUME NEW c \in Challenges, Lapse(c) PROVE IInv'
  BY <1>3, LapseKeeps
<1>4. ASSUME NEW k \in {"send", "verify"}, NewWindow(k) PROVE IInv'
  BY <1>4, NewWindowKeeps
<1>5. CASE Restart
  BY <1>5, RestartKeeps
<1>6. CASE UNCHANGED challengeVars
  <2>1. UNCHANGED <<row, copy, lapsed, rate, queue, job, told, withdrawals, calls, wrong,
                    passed, faults>>
    BY <1>6 DEF challengeVars
  <2>2. /\ lapsed \subseteq Challenges /\ rate \in [{"send", "verify"} -> [mem : Nat, db : Nat]]
        /\ passed \in [{"send", "verify"} -> Nat]
    BY DEF IInv, TypeOK
  <2> QED
    BY <2>1, <2>2, JobsSame
<1> QED
  BY <1>1, <1>2, <1>3, <1>4, <1>5, <1>6 DEF Next

THEOREM ChallengeInvariant == Spec => []IInv
BY InitInv, NextInv, PTL DEF Spec

(* The requests, rows and counts of the withdrawal codes have their types, *)
(* whatever arrives and whatever fails.                                    *)
THEOREM ChallengeTypes == Spec => []TypeOK
<1>1. IInv => TypeOK
  BY DEF IInv
<1> QED
  BY <1>1, ChallengeInvariant, PTL

(* A code admits one withdrawal: withdrawFunds is called at most once for  *)
(* a challenge (verifyWithdrawalChallengeAndSubmit), across restarts,      *)
(* failed and half-done writes and any number of requests.                 *)
THEOREM OneWithdrawalPerCode == Spec => []OncePerChallenge
<1>1. IInv => OncePerChallenge
  BY DEF IInv, UsedInv, OncePerChallenge
<1> QED
  BY <1>1, ChallengeInvariant, PTL

-----------------------------------------------------------------------------
(* The service implements OneTimeCode.                                     *)
Claimed(c) == \E s \in Requests : job[s].pc = "withdraw" /\ job[s].c = c

LEMMA Stages ==
  ASSUME IInv, NEW c \in Challenges
  PROVE  /\ calls[c] = 1 => StageOf(c) = "used"
         /\ calls[c] # 1 /\ Claimed(c) => StageOf(c) = "claimed"
         /\ calls[c] # 1 /\ ~Claimed(c) /\ row[c] = NoRow => StageOf(c) = "fresh"
         /\ calls[c] # 1 /\ ~Claimed(c) /\ row[c] # NoRow /\ ~Closed(c) => StageOf(c) = "open"
         /\ calls[c] # 1 /\ ~Claimed(c) /\ row[c] # NoRow /\ Closed(c) => StageOf(c) = "closed"
BY DEF StageOf, Claimed, Closed, IInv, CopyInv

LEMMA StagesNext ==
  ASSUME IInv', NEW c \in Challenges
  PROVE  /\ calls'[c] = 1 => StageOf(c)' = "used"
         /\ calls'[c] # 1 /\ Claimed(c)' => StageOf(c)' = "claimed"
         /\ calls'[c] # 1 /\ ~Claimed(c)' /\ row'[c] = NoRow => StageOf(c)' = "fresh"
         /\ calls'[c] # 1 /\ ~Claimed(c)' /\ row'[c] # NoRow /\ ~Closed(c)' => StageOf(c)' = "open"
         /\ calls'[c] # 1 /\ ~Claimed(c)' /\ row'[c] # NoRow /\ Closed(c)' => StageOf(c)' = "closed"
BY DEF StageOf, Claimed, Closed, IInv, CopyInv

LEMMA ClaimedIsClosed ==
  ASSUME IInv, NEW c \in Challenges, Claimed(c)
  PROVE  Closed(c) /\ calls[c] = 0 /\ row[c] # NoRow
BY EmptyRow DEF IInv, JobInv, Relies, Claimed, Closed

Mapped == [c \in Challenges |-> StageOf(c)]

(* A step after which each challenge is where it was, or is now closed.    *)
LEMMA ClosingStep ==
  ASSUME \A c \in Challenges : \/ StageOf(c)' = StageOf(c)
                               \/ StageOf(c) \in {"open", "claimed"} /\ StageOf(c)' = "closed"
  PROVE  OneTime!Next
<1> DEFINE moved == {c \in Challenges : StageOf(c)' # StageOf(c)}
<1>1. moved \in SUBSET Challenges
  OBVIOUS
<1>2. \A c \in moved : Mapped[c] \in {"open", "claimed"}
  BY DEF Mapped
<1>3. Mapped' = [c \in Challenges |-> IF c \in moved THEN "closed" ELSE Mapped[c]]
  BY DEF Mapped
<1>4. OneTime!Close(moved)
  BY <1>2, <1>3 DEF OneTime!Close, Mapped
<1> QED
  BY <1>1, <1>4 DEF OneTime!Next

(* Such are the steps that issue, take and use no challenge.               *)
LEMMA QuietIsClosing ==
  ASSUME IInv, IInv', UNCHANGED calls, Keeps, NoIssue,
         \A c \in Challenges : Claimed(c)' => Claimed(c)
  PROVE  OneTime!Next
<1> SUFFICES ASSUME NEW c \in Challenges
             PROVE  \/ StageOf(c)' = StageOf(c)
                    \/ StageOf(c) \in {"open", "claimed"} /\ StageOf(c)' = "closed"
  BY ClosingStep
<1>1. /\ calls'[c] = calls[c] /\ (Claimed(c)' => Claimed(c))
      /\ (Closed(c) => Closed(c)')
      /\ (row[c] = NoRow <=> row'[c] = NoRow)
  BY DEF Keeps, NoIssue
<1>2. Claimed(c) => Closed(c) /\ calls[c] = 0 /\ row[c] # NoRow
  BY ClaimedIsClosed
<1>3. CASE calls[c] = 1
  BY <1>1, <1>3, Stages, StagesNext
<1>4. CASE calls[c] # 1 /\ Claimed(c)
  BY <1>1, <1>2, <1>4, Stages, StagesNext
<1>5. CASE calls[c] # 1 /\ ~Claimed(c)
  BY <1>1, <1>5, Stages, StagesNext
<1> QED
  BY <1>3, <1>4, <1>5

LEMMA ClaimsOfStep ==
  ASSUME IInv, NEW s \in Requests, HolderStep(s), job'[s].pc # "withdraw"
  PROVE  \A c \in Challenges : ~Claimed(c)'
BY DEF HolderStep, Claimed, Critical, Locked

LEMMA QuietStepMaps ==
  ASSUME IInv, IInv', NEW s \in Requests, QuietStep(s)
  PROVE  OneTime!Next
BY ClaimsOfStep, QuietIsClosing DEF QuietStep, GoodStep, StoreStep

LEMMA ClaimsBefore ==
  ASSUME IInv, NEW s \in Requests, HolderStep(s), job[s].pc # "withdraw"
  PROVE  \A c \in Challenges : ~Claimed(c)
BY DEF HolderStep, Claimed, Critical, Locked

LEMMA InsertMaps ==
  ASSUME IInv, IInv', NEW s \in Requests, Insert(s)
  PROVE  OneTime!Next
<1>1. /\ GoodStep(s) /\ UNCHANGED calls /\ job'[s].pc # "withdraw"
      /\ NoIssue \/ \E c \in Challenges : Issues(c)
  BY InsertStep
<1>2. CASE NoIssue
  BY <1>1, <1>2, QuietStepMaps DEF QuietStep
<1>3. ASSUME NEW c \in Challenges, Issues(c)
      PROVE  OneTime!Next
  <2>1. job[s].pc = "insert"
    BY DEF Insert, At
  <2>2. \A d \in Challenges : ~Claimed(d) /\ ~Claimed(d)'
    BY <1>1, <2>1, ClaimsOfStep, ClaimsBefore DEF GoodStep
  <2>3. row[c] = NoRow /\ row'[c].status = "pending" /\ calls[c] # 1 /\ calls'[c] # 1
    BY <1>1, <1>3, EmptyRow DEF Issues, IInv, UsedInv, Closed
  <2>4. row'[c] # NoRow /\ ~Closed(c)'
    BY <2>3, EmptyRow DEF Closed, None
  <2>5. StageOf(c) = "fresh" /\ StageOf(c)' = "open"
    BY <2>2, <2>3, <2>4, Stages, StagesNext
  <2>6. ASSUME NEW d \in Challenges \ {c}
        PROVE  StageOf(d)' = StageOf(d)
    <3>1. /\ row'[d] = row[d] /\ copy'[d] = copy[d] /\ calls'[d] = calls[d]
          /\ (Claimed(d) <=> Claimed(d)')
      BY <1>1, <1>3, <2>2 DEF Issues
    <3> QED
      BY <3>1 DEF StageOf, Claimed
  <2>7. Mapped[c] = "fresh" /\ Mapped' = [Mapped EXCEPT ![c] = "open"]
    BY <2>5, <2>6 DEF Mapped
  <2> QED
    BY <2>7 DEF OneTime!Next, OneTime!Issue, Mapped
<1> QED
  BY <1>1, <1>2, <1>3

LEMMA ConsumeMaps ==
  ASSUME IInv, IInv', NEW s \in Requests, Consume(s)
  PROVE  OneTime!Next
<1>1. GoodStep(s) /\ UNCHANGED calls /\ (QuietStep(s) \/ \E c \in Challenges : Takes(s, c))
  BY ConsumeStep
<1>2. ASSUME NEW c \in Challenges, Takes(s, c)
      PROVE  OneTime!Next
  <2>1. job[s].pc = "check"
    BY DEF Consume, Verifying, At
  <2>2. \A d \in Challenges : ~Claimed(d)
    BY <1>1, <2>1, ClaimsBefore DEF GoodStep
  <2>3. ~Closed(c) /\ row[c] # NoRow /\ job'[s].pc = "withdraw" /\ job'[s].c = c
    BY <1>2 DEF Takes
  <2>4. calls[c] # 1 /\ calls'[c] # 1
    BY <1>1, <2>3 DEF IInv, UsedInv
  <2>5. Claimed(c)'
    BY <2>3 DEF Claimed
  <2>6. StageOf(c) = "open" /\ StageOf(c)' = "claimed"
    BY <2>2, <2>3, <2>4, <2>5, Stages, StagesNext
  <2>7. ASSUME NEW d \in Challenges \ {c}
        PROVE  StageOf(d)' = StageOf(d)
    <3>1. row'[d] = row[d] /\ copy'[d] = copy[d] /\ calls'[d] = calls[d]
      BY <1>1, <1>2 DEF Takes
    <3>2. ~Claimed(d)'
      BY <1>1, <2>3 DEF GoodStep, HolderStep, Claimed, Critical, Locked
    <3> QED
      BY <2>2, <3>1, <3>2 DEF StageOf, Claimed
  <2>8. Mapped[c] = "open" /\ Mapped' = [Mapped EXCEPT ![c] = "claimed"]
    BY <2>6, <2>7 DEF Mapped
  <2> QED
    BY <2>8 DEF OneTime!Next, OneTime!Claim, Mapped
<1> QED
  BY <1>1, <1>2, QuietStepMaps

LEMMA WithdrawMaps ==
  ASSUME IInv, IInv', NEW s \in Requests, Withdraw(s)
  PROVE  OneTime!Next
<1>1. PICK c \in Challenges : GoodStep(s) /\ Uses(s, c)
  BY WithdrawStep
<1>2. calls[c] = 0 /\ job[s].pc = "withdraw" /\ job[s].c = c /\ UNCHANGED store
  BY <1>1 DEF Uses
<1>3. calls \in [Challenges -> Nat] /\ calls' = [calls EXCEPT ![c] = 1]
  BY <1>1 DEF IInv, TypeOK, Uses
<1>4. Claimed(c) /\ calls'[c] = 1 /\ calls[c] # 1
  BY <1>2, <1>3 DEF Claimed
<1>5. StageOf(c) = "claimed" /\ StageOf(c)' = "used"
  BY <1>4, Stages, StagesNext
<1>6. ASSUME NEW d \in Challenges \ {c}
      PROVE  StageOf(d)' = StageOf(d)
  <2>1. row'[d] = row[d] /\ copy'[d] = copy[d] /\ calls'[d] = calls[d]
    BY <1>2, <1>3 DEF store
  <2>2. ~Claimed(d) /\ ~Claimed(d)'
    BY <1>1, <1>2 DEF Uses, GoodStep, HolderStep, Claimed, Critical, Locked
  <2> QED
    BY <2>1, <2>2 DEF StageOf, Claimed
<1>7. Mapped[c] = "claimed" /\ Mapped' = [Mapped EXCEPT ![c] = "used"]
  BY <1>5, <1>6 DEF Mapped
<1> QED
  BY <1>7 DEF OneTime!Next, OneTime!Use, Mapped

(* Where nothing is issued, taken or used and no lock is needed.           *)
LEMMA SameStages ==
  ASSUME IInv, IInv', UNCHANGED <<row, copy, calls>>,
         \A r \in Requests : job'[r].pc = "withdraw" => job'[r] = job[r]
  PROVE  OneTime!Next
<1>1. Keeps /\ NoIssue
  BY StoreSame DEF store, StoreStep
<1>2. \A c \in Challenges : Claimed(c)' => Claimed(c)
  BY DEF Claimed
<1> QED
  BY <1>1, <1>2, QuietIsClosing

LEMMA RestartMaps ==
  ASSUME IInv, IInv', Restart
  PROVE  OneTime!Next
<1>1. /\ UNCHANGED <<row, calls>> /\ \A c \in Challenges : copy'[c].status # "pending"
      /\ \A r \in Requests : job'[r].pc # "withdraw"
  BY RestartKeeps
<1>2. Keeps /\ NoIssue
  BY <1>1 DEF IInv, CopyInv, Keeps, NoIssue, Closed
<1>3. \A c \in Challenges : ~Claimed(c)'
  BY <1>1 DEF Claimed
<1> QED
  BY <1>1, <1>2, <1>3, QuietIsClosing

LEMMA NextMaps == IInv /\ IInv' /\ [Next]_challengeVars => [OneTime!Next]_Mapped
<1> SUFFICES ASSUME IInv, IInv', [Next]_challengeVars
             PROVE  OneTime!Next \/ Mapped' = Mapped
  OBVIOUS
<1>1. ASSUME NEW s \in Requests, Arrive(s) PROVE OneTime!Next
  <2>1. /\ UNCHANGED <<row, copy, calls>>
        /\ \A r \in Requests : job'[r].pc = "withdraw" => job'[r] = job[r]
    BY <1>1, ArriveKeeps
  <2> QED
    BY <2>1, SameStages
<1>2. ASSUME NEW s \in Requests, Step(s) PROVE OneTime!Next
  BY <1>2, InsertMaps, ConsumeMaps, WithdrawMaps, EnterStep, CheckLimitStep, SupersedeStep,
     DeliverStep, CancelAllStep, CancelStep, RejectStep, SpendTryStep, RecordStep, UndoStep,
     QuietStepMaps DEF Step
<1>3. ASSUME NEW c \in Challenges, Lapse(c) PROVE OneTime!Next
  BY <1>3, SameStages DEF Lapse, store, history
<1>4. ASSUME NEW k \in {"send", "verify"}, NewWindow(k) PROVE OneTime!Next
  BY <1>4, SameStages DEF NewWindow, store, history
<1>5. CASE Restart
  BY <1>5, RestartMaps
<1>6. CASE UNCHANGED challengeVars
  BY <1>6 DEF challengeVars, Mapped, StageOf
<1> QED
  BY <1>1, <1>2, <1>3, <1>4, <1>5, <1>6 DEF Next

(* withdrawalVerificationService implements OneTimeCode: whatever arrives  *)
(* and whatever fails, a code is issued, taken and used in this order, at  *)
(* most once, and never open again after it was closed.                    *)
THEOREM ServiceImplementsOneTimeCode == Spec => ImplementsOneTimeCode
<1>1. Init => OneTime!Init
  <2> SUFFICES ASSUME Init PROVE OneTime!Init
    OBVIOUS
  <2>1. \A c \in Challenges : StageOf(c) = "fresh"
    BY DEF Init, StageOf, NoJob
  <2> QED
    BY <2>1 DEF OneTime!Init
<1>2. IInv /\ IInv' /\ [Next]_challengeVars
        => [OneTime!Next]_[c \in Challenges |-> StageOf(c)]
  BY NextMaps DEF Mapped
<1> QED
  BY <1>1, <1>2, ChallengeInvariant, PTL DEF Spec, ImplementsOneTimeCode, OneTime!Spec

-----------------------------------------------------------------------------
(* What becomes of the money.  Beside IInv: a withdrawal stands for the    *)
(* one call under its challenge; while the handler is at work its          *)
(* challenge is verified in the row, with the key of the request.          *)
KeyFor(c) == IF row[c].key # None THEN row[c].key ELSE c
Paid(c) == \E w \in withdrawals : w.key = KeyFor(c)

DeskInv ==
  /\ \A w \in withdrawals : calls[w.c] = 1
  /\ \A d \in told : row[d] # NoRow
  /\ \A s \in Requests :
       /\ job[s].pc = "deliver" => ~Closed(job[s].c)
       /\ job[s].pc \in {"withdraw", "record"} =>
            row[job[s].c].status = "verified" /\ row[job[s].c].key = job[s].key
       /\ job[s].pc = "record" => Paid(job[s].c)

(* A challenge verified with a wrong code is closed, unless closing it     *)
(* failed; so it is never taken.                                           *)
GuessInv ==
  "spend" \notin slips =>
    /\ \A c \in wrong : Closed(c)
    /\ \A s \in Requests : job[s].pc = "withdraw" => job[s].c \notin wrong
    /\ \A w \in withdrawals : w.c \notin wrong

(* Before a challenge is issued the earlier ones are closed, unless that   *)
(* failed; so a challenge that is taken is the last one issued.            *)
LatestInv ==
  "supersede" \notin slips =>
    /\ \A c, d \in Challenges : c < d /\ row[d] # NoRow => Closed(c)
    /\ \A s \in Requests : job[s].pc = "insert" =>
         \A c \in Challenges : row[c] # NoRow => Closed(c)
    /\ \A s \in Requests : job[s].pc = "withdraw" =>
         \A d \in Challenges : d > job[s].c => row[d] = NoRow
    /\ \A w \in withdrawals : ~w.later

(* A handler that cancels a verified challenge has paid nothing for it.    *)
CancelInv ==
  "withdraw" \notin slips =>
    /\ \A w \in withdrawals : row[w.c].status = "verified"
    /\ \A s \in Requests : job[s].pc = "undo" => \A w \in withdrawals : w.c # job[s].c

PaidInv ==
  {"restart", "undo", "consume"} \cap slips = {} =>
    \A c \in Challenges : row[c].status = "verified" =>
      /\ Closed(c)
      /\ \/ Paid(c)
         \/ \E s \in Requests : job[s].c = c /\ job[s].pc \in {"withdraw", "undo"}

MoneyInv == DeskInv /\ GuessInv /\ LatestInv /\ CancelInv /\ PaidInv

LEMMA OutcomeSlips ==
  ASSUME NEW o, NEW slip, Outcome(o, slip)
  PROVE  slips \subseteq slips' /\ (o # "ok" => slip \in slips')
BY DEF Outcome

LEMMA ReadWriteSlips ==
  ASSUME NEW read, NEW o, NEW slip, ReadThenWrite(read, o, slip)
  PROVE  slips \subseteq slips' /\ (o # "ok" => slip \in slips')
BY OutcomeSlips DEF ReadThenWrite

(* What all steps of a holder but five have in common: a closed row keeps  *)
(* its status and key, none is verified unless the answer of a write is    *)
(* lost, and nobody starts to deliver or to withdraw.                      *)
Settled == \A c \in Challenges : Closed(c) => /\ row'[c].status = row[c].status
                                              /\ row'[c].key = row[c].key
NoneVerified == \A c \in Challenges : row'[c].status = "verified" => row[c].status = "verified"

PlainStep(s) ==
  /\ HolderStep(s) /\ StoreStep /\ NoIssue
  /\ slips \subseteq slips'
  /\ UNCHANGED <<calls, withdrawals>>
  /\ Settled /\ ("consume" \in slips' \/ NoneVerified)
  /\ job[s].pc \notin {"withdraw", "undo"}
  /\ job'[s].pc \notin {"deliver", "withdraw", "record", "undo"}
  /\ \A d \in told' : d \in told \/ row[d] # NoRow
  /\ "spend" \in slips' \/ \A c \in wrong' : c \in wrong \/ (~Closed(c) /\ Closed(c)')
  /\ "supersede" \in slips' \/ job'[s].pc # "insert"
       \/ \A c \in Challenges : row[c] # NoRow => Closed(c)'

LEMMA StoreSettled ==
  ASSUME UNCHANGED row
  PROVE  Settled /\ NoneVerified
BY DEF Settled, NoneVerified

LEMMA PersistSettles ==
  ASSUME IInv, NEW c \in Challenges, ~Closed(c), row[c] # NoRow,
         NEW r \in {row[c], copy[c]},
         NEW closing \in Status \ {None, "pending", "verified"}, NEW o \in Outcomes,
         Persist(c, r, closing, o)
  PROVE  Settled /\ NoneVerified /\ (o = "ok" => Closed(c)')
<1>1. row \in [Challenges -> Rows] /\ copy \in [Challenges -> Rows]
  BY TypeParts DEF IInv, StoreOK
<1> DEFINE q == [r EXCEPT !.status = closing]
           w == [row[c] EXCEPT !.status = closing]
<1>2. q.status = closing /\ w.status = closing /\ q \in Rows /\ w \in Rows
  BY <1>1, StatusIsSet
<1>3. row' = IF o = "failed" THEN row ELSE [row EXCEPT ![c] = w]
  BY <1>1 DEF Persist
<1>4. copy' = [copy EXCEPT ![c] = IF o = "ok" THEN q ELSE r]
  BY DEF Persist
<1> HIDE DEF q, w
<1>5. /\ \A d \in Challenges \ {c} : row'[d] = row[d]
      /\ row'[c] \in {row[c], w}
      /\ o = "ok" => row'[c] = w /\ copy'[c] = q
  BY <1>1, <1>3, <1>4
<1> QED
  BY <1>2, <1>5 DEF Settled, NoneVerified, Closed

LEMMA SupersedeSettles ==
  ASSUME IInv, NEW o \in {"ok", "failed"}, SupersedeAll(o)
  PROVE  /\ Settled /\ NoneVerified /\ slips \subseteq slips'
         /\ "supersede" \in slips' \/ \A c \in Challenges : row[c] # NoRow => Closed(c)'
<1>1. row \in [Challenges -> Rows] /\ copy \in [Challenges -> Rows]
  BY TypeParts DEF IInv, StoreOK
<1>2. slips \subseteq slips' /\ (o # "ok" => "supersede" \in slips')
  BY OutcomeSlips DEF SupersedeAll
<1>3. ASSUME NEW c \in Challenges
      PROVE  /\ row'[c] = row[c] \/ (row[c].status = "pending" /\ row'[c].status = "cancelled")
             /\ o = "ok" /\ row[c] # NoRow => Closed(c)'
  <2>1. row[c] \in Rows /\ copy[c] \in Rows
    BY <1>1
  <2>2. /\ Cancelled(row[c]) = row[c]
           \/ (row[c].status = "pending" /\ Cancelled(row[c]).status = "cancelled")
        /\ Cancelled(row[c]).status # "pending" /\ Cancelled(copy[c]).status # "pending"
    BY <2>1, StatusIsSet DEF Cancelled, Status
  <2>3. row'[c] = row[c] \/ row'[c] = Cancelled(row[c])
    BY DEF SupersedeAll
  <2>4. copy'[c] = Cancelled(copy[c]) /\ (o = "ok" => row'[c] = Cancelled(row[c]))
    BY DEF SupersedeAll
  <2>5. row[c] # NoRow => row[c].status # None
    BY DEF IInv, CopyInv
  <2> QED
    BY <2>2, <2>3, <2>4, <2>5 DEF Closed, None
<1>4. Settled /\ NoneVerified
  BY <1>3 DEF Settled, NoneVerified, Closed
<1> QED
  BY <1>2, <1>3, <1>4

LEMMA AnswerEnds ==
  ASSUME TypeOK, LockInv, NEW s \in Requests, Holds(s),
         NEW answer \in {None, "ok", "replayed", "refused"}, Answer(s, answer)
  PROVE  job'[s].pc = "done"
BY AnswerStep

LEMMA EnterPlain ==
  ASSUME IInv, NEW s \in Requests, Enter(s)
  PROVE  PlainStep(s)
<1>1. TypeOK /\ LockInv /\ Holds(s) /\ job[s].pc = "wait"
  BY Situation DEF Enter
<1>2. HolderStep(s) /\ StoreStep /\ NoIssue /\ UNCHANGED calls
  BY EnterStep DEF QuietStep, GoodStep
<1>3. UNCHANGED <<row, withdrawals, wrong, told, slips>>
  BY DEF Enter, store, history
<1>4. job'[s].pc \in {"check", "limit", "done"}
  <2>1. CASE Answer(s, "refused")
    BY <1>1, <2>1, AnswerEnds
  <2>2. CASE ~Answer(s, "refused")
    BY <1>1, <2>2, GotoStep DEF Enter, Locked
  <2> QED
    BY <2>1, <2>2
<1> QED
  BY <1>1, <1>2, <1>3, <1>4, StoreSettled DEF PlainStep

LEMMA CheckLimitPlain ==
  ASSUME IInv, NEW s \in Requests, CheckLimit(s)
  PROVE  PlainStep(s)
<1>1. TypeOK /\ LockInv /\ Holds(s) /\ job[s].pc = "limit"
  BY Situation DEF CheckLimit
<1>2. HolderStep(s) /\ StoreStep /\ NoIssue /\ UNCHANGED calls
  BY CheckLimitStep DEF QuietStep, GoodStep
<1>3. UNCHANGED <<row, withdrawals, wrong, told>>
  BY DEF CheckLimit, store, history
<1>4. slips \subseteq slips'
  BY OutcomeSlips DEF CheckLimit
<1>5. job'[s].pc \in {"check", "supersede", "done"}
  <2>1. CASE Answer(s, "refused")
    BY <1>1, <2>1, AnswerEnds
  <2>2. ASSUME NEW pc \in {"check", "supersede"}, Goto(s, pc)
        PROVE  job'[s].pc = pc
    BY <1>1, <2>2, GotoStep DEF Locked
  <2> QED
    BY <2>1, <2>2 DEF CheckLimit
<1> QED
  BY <1>1, <1>2, <1>3, <1>4, <1>5, StoreSettled DEF PlainStep

LEMMA SupersedePlain ==
  ASSUME IInv, NEW s \in Requests, Supersede(s)
  PROVE  PlainStep(s)
<1>1. TypeOK /\ LockInv /\ Holds(s) /\ job[s].pc = "supersede"
  BY Situation DEF Supersede
<1>2. HolderStep(s) /\ StoreStep /\ NoIssue /\ UNCHANGED calls
  BY SupersedeStep DEF QuietStep, GoodStep
<1>3. UNCHANGED <<withdrawals, wrong, told>>
  BY DEF Supersede, history
<1>4. /\ Settled /\ NoneVerified /\ slips \subseteq slips'
      /\ "supersede" \in slips' \/ \A c \in Challenges : row[c] # NoRow => Closed(c)'
  BY SupersedeSettles DEF Supersede
<1>5. job'[s].pc = "insert"
  BY <1>1, GotoStep DEF Supersede, Locked
<1> QED
  BY <1>1, <1>2, <1>3, <1>4, <1>5 DEF PlainStep

LEMMA DeliverPlain ==
  ASSUME IInv, DeskInv, NEW s \in Requests, Deliver(s)
  PROVE  PlainStep(s)
<1>1. TypeOK /\ LockInv /\ Holds(s) /\ job[s].pc = "deliver" /\ Inputs(s) /\ Relies(s)
  BY Situation DEF Deliver
<1>2. HolderStep(s) /\ StoreStep /\ NoIssue /\ UNCHANGED calls
  BY DeliverStep DEF QuietStep, GoodStep
<1>3. UNCHANGED <<withdrawals, wrong>> /\ told' \subseteq told \cup {job[s].c}
  BY DEF Deliver, history
<1>4. /\ job[s].c \in Challenges /\ row[job[s].c] # NoRow /\ ~Closed(job[s].c)
  BY <1>1 DEF Inputs, Relies, DeskInv
<1>5. Settled /\ NoneVerified /\ slips \subseteq slips'
  <2>1. CASE UNCHANGED store /\ Fine
    BY <2>1, StoreSettled DEF store, Fine
  <2>2. ASSUME NEW o \in Outcomes, Persist(job[s].c, copy[job[s].c], "delivery_failed", o),
               Outcome(o, "deliver")
        PROVE  Settled /\ NoneVerified /\ slips \subseteq slips'
    BY <1>4, <2>2, PersistSettles, OutcomeSlips DEF Status, None
  <2> QED
    BY <2>1, <2>2 DEF Deliver
<1>6. job'[s].pc = "done"
  BY <1>1, AnswerEnds DEF Deliver
<1> QED
  BY <1>1, <1>2, <1>3, <1>4, <1>5, <1>6 DEF PlainStep

LEMMA CancelAllPlain ==
  ASSUME IInv, NEW s \in Requests, CancelAll(s)
  PROVE  PlainStep(s)
<1>1. TypeOK /\ LockInv /\ Holds(s) /\ job[s].pc = "check"
  BY Situation DEF CancelAll
<1>2. HolderStep(s) /\ StoreStep /\ NoIssue /\ UNCHANGED calls
  BY CancelAllStep DEF QuietStep, GoodStep
<1>3. UNCHANGED <<withdrawals, wrong, told>>
  BY DEF CancelAll, history
<1>4. Settled /\ NoneVerified /\ slips \subseteq slips'
  BY SupersedeSettles DEF CancelAll
<1>5. job'[s].pc = "done"
  BY <1>1, AnswerEnds DEF CancelAll
<1> QED
  BY <1>1, <1>2, <1>3, <1>4, <1>5 DEF PlainStep

LEMMA CancelPlain ==
  ASSUME IInv, NEW s \in Requests, Cancel(s)
  PROVE  PlainStep(s)
<1>1. TypeOK /\ LockInv /\ Holds(s) /\ job[s].pc = "check" /\ job[s] \in Jobs
  BY Situation DEF Cancel
<1>2. HolderStep(s) /\ StoreStep /\ NoIssue /\ UNCHANGED calls
  BY CancelStep DEF QuietStep, GoodStep
<1>3. UNCHANGED <<withdrawals, wrong, told>>
  BY DEF Cancel, history
<1>4. PICK c \in Challenges : c = job[s].c
  BY <1>1, FieldsOfJob DEF Cancel
<1>5. Settled /\ NoneVerified /\ slips \subseteq slips'
  <2>1. ASSUME NEW read, NEW o \in Outcomes, Cancellable(Loaded(c, read)),
               Persist(c, Loaded(c, read), "cancelled", o), ReadThenWrite(read, o, "cancel")
        PROVE  Settled /\ NoneVerified /\ slips \subseteq slips'
    <3>1. Loaded(c, read) \in {row[c], copy[c]} /\ Loaded(c, read).status = "pending"
      BY <2>1, LoadedIsOne DEF Cancellable
    <3>2. ~Closed(c) /\ row[c] # NoRow
      BY <3>1, PendingHasRow DEF Closed
    <3> QED
      BY <2>1, <3>1, <3>2, PersistSettles, ReadWriteSlips DEF Status, None
  <2>2. ASSUME NEW read, Read(c, read), UNCHANGED row
        PROVE  Settled /\ NoneVerified /\ slips \subseteq slips'
    BY <2>2, StoreSettled, OutcomeSlips DEF Read
  <2> QED
    BY <1>4, <2>1, <2>2 DEF Cancel
<1>6. job'[s].pc = "done"
  BY <1>1, AnswerEnds DEF Cancel
<1> QED
  BY <1>1, <1>2, <1>3, <1>5, <1>6 DEF PlainStep

LEMMA RejectPlain ==
  ASSUME IInv, NEW s \in Requests, Reject(s)
  PROVE  PlainStep(s)
<1>1. TypeOK /\ LockInv /\ Holds(s) /\ job[s].pc = "check"
  BY Situation DEF Reject, Verifying
<1>2. HolderStep(s) /\ StoreStep /\ NoIssue /\ UNCHANGED calls
  BY RejectStep DEF QuietStep, GoodStep
<1>3. UNCHANGED <<row, withdrawals, wrong, told>> /\ slips \subseteq slips'
  BY OutcomeSlips DEF Reject, Read, history
<1>4. job'[s].pc = "done"
  BY <1>1, AnswerEnds DEF Reject
<1> QED
  BY <1>1, <1>2, <1>3, <1>4, StoreSettled DEF PlainStep

LEMMA SpendTryPlain ==
  ASSUME IInv, NEW s \in Requests, SpendTry(s)
  PROVE  PlainStep(s)
<1>1. TypeOK /\ LockInv /\ Holds(s) /\ job[s].pc = "check" /\ job[s].op = "verify" /\ Inputs(s)
  BY Situation DEF SpendTry, Verifying
<1>2. HolderStep(s) /\ StoreStep /\ NoIssue /\ UNCHANGED calls
  BY SpendTryStep DEF QuietStep, GoodStep
<1>3. PICK c \in Challenges : c = job[s].c
  BY <1>1 DEF Inputs, Locked
<1>4. UNCHANGED <<withdrawals, told>> /\ wrong' \subseteq wrong \cup {c}
  BY <1>3 DEF SpendTry
<1>5. PICK read \in {"ok", "failed"}, o \in Outcomes :
        /\ Open(Loaded(c, read))
        /\ Persist(c, Loaded(c, read), SpendStatus(s), o)
        /\ ReadThenWrite(read, o, "spend")
  BY <1>3 DEF SpendTry
<1>6. Loaded(c, read) \in {row[c], copy[c]} /\ Loaded(c, read).status = "pending"
  BY <1>5, LoadedIsOne DEF Open
<1>7. ~Closed(c) /\ row[c] # NoRow
  BY <1>6, PendingHasRow DEF Closed
<1>8. SpendStatus(s) \in Status \ {None, "pending", "verified"}
  BY DEF SpendStatus, Status, None
<1>9. Settled /\ NoneVerified /\ (o = "ok" => Closed(c)')
  BY <1>5, <1>6, <1>7, <1>8, PersistSettles
<1>10. slips \subseteq slips' /\ (o # "ok" => "spend" \in slips')
  BY <1>5, ReadWriteSlips
<1>11. job'[s].pc = "done"
  BY <1>1, AnswerEnds DEF SpendTry
<1> QED
  BY <1>1, <1>2, <1>4, <1>7, <1>9, <1>10, <1>11 DEF PlainStep

LEMMA TxFields ==
  ASSUME NEW r \in Rows
  PROVE  [r EXCEPT !.tx = TRUE].status = r.status /\ [r EXCEPT !.tx = TRUE].key = r.key
BY DEF Rows

LEMMA RecordPlain ==
  ASSUME IInv, NEW s \in Requests, Record(s)
  PROVE  PlainStep(s)
<1>1. TypeOK /\ LockInv /\ Holds(s) /\ job[s].pc = "record" /\ Inputs(s) /\ StoreOK
  BY Situation DEF Record
<1>2. HolderStep(s) /\ StoreStep /\ NoIssue /\ UNCHANGED calls
  BY RecordStep DEF QuietStep, GoodStep
<1>3. PICK c \in Challenges : c = job[s].c
  BY <1>1 DEF Inputs
<1> DEFINE w == [row[c] EXCEPT !.tx = TRUE]
<1>4. w.status = row[c].status /\ w.key = row[c].key
  BY <1>1, TxFields DEF StoreOK
<1>5. row' = row \/ row' = [row EXCEPT ![c] = w]
  BY <1>1, <1>3 DEF Record, StoreOK
<1> HIDE DEF w
<1>6. Settled /\ NoneVerified
  BY <1>1, <1>4, <1>5 DEF Settled, NoneVerified, StoreOK
<1>7. UNCHANGED <<withdrawals, wrong, told>> /\ slips \subseteq slips'
  BY OutcomeSlips DEF Record, history
<1>8. job'[s].pc = "done"
  BY <1>1, AnswerEnds DEF Record
<1> QED
  BY <1>1, <1>2, <1>6, <1>7, <1>8 DEF PlainStep

(* A plain step keeps what is known of the money.                          *)
LEMMA PlainKeeps ==
  ASSUME IInv, IInv', MoneyInv, NEW s \in Requests, PlainStep(s)
  PROVE  MoneyInv'
<1>1. /\ slips \subseteq slips' /\ UNCHANGED <<calls, withdrawals>> /\ Settled
      /\ \A r \in Requests \ {s} : job'[r] = job[r] /\ job[r].pc \notin Critical
      /\ job'[s].pc \notin {"deliver", "withdraw", "record", "undo"}
      /\ job[s].pc \notin {"withdraw", "undo"}
  BY DEF PlainStep, HolderStep
<1>2. /\ \A c \in Challenges : (Closed(c) => Closed(c)') /\ (row[c] # NoRow => row'[c] # NoRow)
      /\ \A c \in Challenges : row[c] = NoRow => row'[c] = NoRow
  BY DEF PlainStep, StoreStep, Keeps, NoIssue
<1>3. \A r \in Requests : /\ job'[r].pc \notin {"deliver", "withdraw", "record", "undo"}
                          /\ job[r].pc \notin {"withdraw", "undo"}
  BY <1>1 DEF Critical, Locked
<1>4. \A w \in withdrawals : w.c \in Challenges /\ calls[w.c] = 1 /\ Closed(w.c)
  BY DEF IInv, TypeOK, UsedInv, MoneyInv, DeskInv
<1>5. told' \subseteq Challenges /\ wrong' \subseteq Challenges
  BY DEF IInv, TypeOK
<1>6. DeskInv'
  <2>1. \A w \in withdrawals' : calls'[w.c] = 1
    BY <1>1, <1>4
  <2>2. \A d \in told' : row'[d] # NoRow
    BY <1>2, <1>5 DEF PlainStep, MoneyInv, DeskInv
  <2> QED
    BY <1>3, <2>1, <2>2 DEF DeskInv
<1>7. GuessInv'
  <2> SUFFICES ASSUME "spend" \notin slips' PROVE GuessInv'
    BY DEF GuessInv
  <2>1. (\A c \in wrong : Closed(c)) /\ (\A w \in withdrawals : w.c \notin wrong)
    BY <1>1 DEF MoneyInv, GuessInv
  <2>2. \A c \in wrong' : c \in wrong \/ (~Closed(c) /\ Closed(c)')
    BY DEF PlainStep
  <2>3. \A c \in wrong' : Closed(c)'
    BY <1>2, <1>5, <2>1, <2>2
  <2>4. \A w \in withdrawals' : w.c \notin wrong'
    BY <1>1, <1>4, <2>1, <2>2
  <2> QED
    BY <1>3, <2>3, <2>4 DEF GuessInv
<1>8. LatestInv'
  <2> SUFFICES ASSUME "supersede" \notin slips' PROVE LatestInv'
    BY DEF LatestInv
  <2>1. /\ \A c, d \in Challenges : c < d /\ row[d] # NoRow => Closed(c)
        /\ \A r \in Requests : job[r].pc = "insert" =>
             \A c \in Challenges : row[c] # NoRow => Closed(c)
        /\ \A w \in withdrawals : ~w.later
    BY <1>1 DEF MoneyInv, LatestInv
  <2>2. \A c, d \in Challenges : c < d /\ row'[d] # NoRow => Closed(c)'
    BY <1>2, <2>1
  <2>3. ASSUME NEW r \in Requests, job'[r].pc = "insert", NEW c \in Challenges, row'[c] # NoRow
        PROVE  Closed(c)'
    <3>1. r = s
      BY <1>1, <2>3 DEF Critical, Locked
    <3> QED
      BY <1>2, <2>3, <3>1 DEF PlainStep
  <2> QED
    BY <1>1, <1>3, <2>1, <2>2, <2>3 DEF LatestInv
<1>9. CancelInv'
  <2> SUFFICES ASSUME "withdraw" \notin slips' PROVE CancelInv'
    BY DEF CancelInv
  <2>1. \A w \in withdrawals : row[w.c].status = "verified"
    BY <1>1 DEF MoneyInv, CancelInv
  <2>2. \A w \in withdrawals' : row'[w.c].status = "verified"
    BY <1>1, <1>4, <2>1 DEF Settled
  <2> QED
    BY <1>3, <2>2 DEF CancelInv
<1>10. PaidInv'
  <2> SUFFICES ASSUME {"restart", "undo", "consume"} \cap slips' = {},
                      NEW c \in Challenges, row'[c].status = "verified"
               PROVE  Closed(c)' /\ Paid(c)'
    BY DEF PaidInv
  <2>1. NoneVerified /\ {"restart", "undo", "consume"} \cap slips = {}
    BY <1>1 DEF PlainStep
  <2>2. Closed(c) /\ Paid(c)
    BY <1>3, <2>1 DEF NoneVerified, MoneyInv, PaidInv
  <2>3. Closed(c)' /\ row'[c].key = row[c].key
    BY <1>1, <1>2, <2>2 DEF Settled
  <2>4. Paid(c)'
    BY <1>1, <2>2, <2>3 DEF Paid, KeyFor
  <2> QED
    BY <2>3, <2>4
<1> QED
  BY <1>6, <1>7, <1>8, <1>9, <1>10 DEF MoneyInv

(* A challenge is issued when all the earlier ones have been: with one     *)
(* issued later they would be closed, and so would this one.               *)
LEMMA InsertMoney ==
  ASSUME IInv, IInv', MoneyInv, NEW s \in Requests, Insert(s)
  PROVE  MoneyInv'
<1>1. /\ TypeOK /\ LockInv /\ Holds(s) /\ job[s].pc = "insert" /\ job[s] \in Jobs /\ StoreOK
  BY Situation DEF Insert
<1>2. HolderStep(s) /\ StoreStep /\ UNCHANGED calls
  BY InsertStep DEF GoodStep
<1> DEFINE new == [status |-> "pending", bank |-> job[s].bank, key |-> job[s].key, tx |-> FALSE]
<1>3. new.status = "pending"
  OBVIOUS
<1> HIDE DEF new
<1>4. PICK c \in Unused, o \in Outcomes :
        /\ row' = IF o = "failed" THEN row ELSE [row EXCEPT ![c] = new]
        /\ copy' = IF o = "ok" THEN [copy EXCEPT ![c] = new] ELSE copy
        /\ Outcome(o, "insert")
        /\ \/ o = "ok" /\ job' = [job EXCEPT ![s].pc = "deliver", ![s].c = c] /\ UNCHANGED queue
           \/ o # "ok" /\ Answer(s, "refused")
  BY DEF Insert, new
<1>5. /\ c \in Challenges /\ row[c] = NoRow /\ ~Closed(c)
      /\ \A d \in Challenges : d < c => row[d] # NoRow
  BY EmptyRow DEF Unused, Closed
<1>6. /\ \A d \in Challenges \ {c} : row'[d] = row[d]
      /\ row'[c] = row[c] \/ row'[c].status = "pending"
      /\ o = "ok" => row'[c].status = "pending"
  BY <1>1, <1>3, <1>4, <1>5 DEF StoreOK
<1>7. slips \subseteq slips' /\ UNCHANGED <<told, withdrawals, wrong, calls>>
  BY <1>4, OutcomeSlips DEF Insert, history
<1>8. job'[s].pc = "done" \/ (o = "ok" /\ job'[s].pc = "deliver" /\ job'[s].c = c)
  <2>1. CASE Answer(s, "refused")
    BY <1>1, <2>1, AnswerEnds
  <2>2. CASE o = "ok" /\ job' = [job EXCEPT ![s].pc = "deliver", ![s].c = c]
    <3>1. job \in [Requests -> Jobs]
      BY <1>1 DEF TypeOK
    <3> DEFINE j == [[job[s] EXCEPT !.pc = "deliver"] EXCEPT !.c = c]
    <3>2. j.pc = "deliver" /\ j.c = c
      BY <1>1, <1>5, JobForChallenge
    <3>3. job' = [job EXCEPT ![s] = j]
      BY <2>2, <3>1
    <3> HIDE DEF j
    <3>4. job'[s] = j
      BY <3>1, <3>3
    <3> QED
      BY <2>2, <3>2, <3>4
  <2> QED
    BY <1>4, <2>1, <2>2
<1>9. \A r \in Requests \ {s} : /\ job'[r].pc \notin Critical /\ job[r].pc \notin Critical
  BY <1>2 DEF HolderStep
<1>10. \A d \in Challenges : (Closed(d) => Closed(d)') /\ (row[d] # NoRow => row'[d] # NoRow)
  BY <1>2 DEF StoreStep, Keeps
<1>11. \A w \in withdrawals : w.c \in Challenges /\ calls[w.c] = 1 /\ Closed(w.c) /\ w.c # c
  BY <1>5 DEF IInv, TypeOK, UsedInv, MoneyInv, DeskInv
<1>12. told \subseteq Challenges /\ wrong \subseteq Challenges /\ Challenges \subseteq Nat
  BY <1>1, ChallengeAssumption DEF TypeOK
<1>13. \A r \in Requests : /\ job'[r].pc \notin {"insert", "withdraw", "record", "undo"}
                           /\ job[r].pc \notin {"withdraw", "undo"}
  BY <1>1, <1>8, <1>9 DEF Critical, Locked
<1>14. DeskInv'
  <2>1. \A w \in withdrawals' : calls'[w.c] = 1
    BY <1>7, <1>11
  <2>2. \A d \in told' : row'[d] # NoRow
    BY <1>7, <1>10, <1>12 DEF MoneyInv, DeskInv
  <2>3. ASSUME NEW r \in Requests, job'[r].pc = "deliver"
        PROVE  ~Closed(job[r].c)'
    <3>1. r = s
      BY <1>9, <2>3 DEF Critical, Locked
    <3>2. job'[r].c = c /\ row'[c].status = "pending"
      BY <1>6, <1>8, <2>3, <3>1
    <3> QED
      BY <3>2 DEF Closed
  <2> QED
    BY <1>13, <2>1, <2>2, <2>3 DEF DeskInv
<1>15. GuessInv'
  BY <1>7, <1>10, <1>12, <1>13 DEF MoneyInv, GuessInv
<1>16. LatestInv'
  <2> SUFFICES ASSUME "supersede" \notin slips' PROVE LatestInv'
    BY DEF LatestInv
  <2>1. /\ \A a, b \in Challenges : a < b /\ row[b] # NoRow => Closed(a)
        /\ \A a \in Challenges : row[a] # NoRow => Closed(a)
        /\ \A w \in withdrawals : ~w.later
    BY <1>1, <1>7 DEF MoneyInv, LatestInv
  <2>2. ASSUME NEW a \in Challenges, NEW b \in Challenges, a < b, row'[b] # NoRow
        PROVE  Closed(a)'
    <3>1. CASE b = c
      BY <1>5, <1>10, <2>1, <2>2, <3>1
    <3>2. CASE b # c
      BY <1>6, <1>10, <2>1, <2>2, <3>2
    <3> QED
      BY <3>1, <3>2
  <2> QED
    BY <1>7, <1>13, <2>1, <2>2 DEF LatestInv
<1>17. CancelInv'
  BY <1>6, <1>7, <1>11, <1>13 DEF MoneyInv, CancelInv
<1>18. PaidInv'
  <2> SUFFICES ASSUME {"restart", "undo", "consume"} \cap slips' = {},
                      NEW d \in Challenges, row'[d].status = "verified"
               PROVE  Closed(d)' /\ Paid(d)'
    BY DEF PaidInv
  <2>1. row'[d] = row[d] /\ {"restart", "undo", "consume"} \cap slips = {}
    BY <1>5, <1>6, <1>7, EmptyRow DEF None
  <2>2. Closed(d) /\ Paid(d)
    BY <1>13, <2>1 DEF MoneyInv, PaidInv
  <2> QED
    BY <1>7, <1>10, <2>1, <2>2 DEF Paid, KeyFor
<1> QED
  BY <1>14, <1>15, <1>16, <1>17, <1>18 DEF MoneyInv

LEMMA KeyOfTaken ==
  ASSUME NEW r \in Rows, NEW key \in Keys \cup {None}
  PROVE  Taken(r, key).status = "verified" /\ Taken(r, key).key = key
BY DEF Taken, Rows

LEMMA JobKeyed ==
  ASSUME NEW j \in Jobs, NEW key \in Keys \cup {None}
  PROVE  [[j EXCEPT !.pc = "withdraw"] EXCEPT !.key = key].key = key
BY DEF Jobs

(* The challenge that is taken: open so far, verified now, with the key of *)
(* the request.                                                            *)
TakesRow(s, c) ==
  /\ Takes(s, c)
  /\ row'[c].status = "verified" /\ row'[c].key = job'[s].key

LEMMA ConsumeRows ==
  ASSUME IInv, NEW s \in Requests, Consume(s)
  PROVE  /\ slips \subseteq slips' /\ UNCHANGED <<told, withdrawals, wrong>>
         /\ PlainStep(s) \/ \E c \in Challenges : TakesRow(s, c)
<1>1. /\ TypeOK /\ LockInv /\ Holds(s) /\ Inputs(s)
      /\ job[s].pc = "check" /\ job[s].op = "verify" /\ job[s] \in Jobs
  BY Situation DEF Consume, Verifying
<1>2. PICK c \in Challenges : c = job[s].c
  BY <1>1 DEF Inputs, Locked
<1>3. HolderStep(s) /\ StoreStep /\ NoIssue /\ UNCHANGED calls
  BY ConsumeStep DEF GoodStep
<1>4. UNCHANGED <<told, withdrawals, wrong>>
  BY DEF Consume, history
<1>5. PICK read \in {"ok", "failed"}, o \in Outcomes :
        LET r == Loaded(c, read)
            key == KeyOf(s, r)
        IN /\ Open(r)
           /\ \/ /\ row' = IF o = "failed" THEN row ELSE [row EXCEPT ![c] = Taken(@, key)]
                 /\ copy' = [copy EXCEPT ![c] = IF o = "ok" THEN Taken(r, key) ELSE r]
                 /\ ReadThenWrite(read, o, "consume")
                 /\ IF o = "ok"
                    THEN /\ job' = [job EXCEPT ![s].pc = "withdraw", ![s].key = key]
                         /\ UNCHANGED queue
                    ELSE Answer(s, "refused")
              \/ /\ Read(c, read)
                 /\ copy' = [copy EXCEPT ![c] = r]
                 /\ Answer(s, "refused")
                 /\ UNCHANGED row
  BY <1>2 DEF Consume
<1> DEFINE r == Loaded(c, read)
           key == KeyOf(s, r)
<1>6. r \in {row[c], copy[c]} /\ r.status = "pending"
  BY <1>2, <1>5, LoadedIsOne DEF Open
<1>7. row \in [Challenges -> Rows] /\ copy \in [Challenges -> Rows] /\ job \in [Requests -> Jobs]
  BY <1>1 DEF TypeOK
<1>8. key \in Keys \cup {None}
  BY <1>1, <1>6, <1>7, FieldsOfJob, FieldsOfRow DEF KeyOf
<1>9. ~Closed(c) /\ row[c] # NoRow
  BY <1>6, PendingHasRow DEF Closed
<1> DEFINE t == Taken(r, key)
           w == Taken(row[c], key)
<1>10. t.status = "verified" /\ w.status = "verified" /\ w.key = key
  BY <1>6, <1>7, <1>8, KeyOfTaken
<1>11. CASE /\ row' = IF o = "failed" THEN row ELSE [row EXCEPT ![c] = Taken(@, key)]
            /\ copy' = [copy EXCEPT ![c] = IF o = "ok" THEN t ELSE r]
            /\ ReadThenWrite(read, o, "consume")
            /\ IF o = "ok"
               THEN /\ job' = [job EXCEPT ![s].pc = "withdraw", ![s].key = key]
                    /\ UNCHANGED queue
               ELSE Answer(s, "refused")
  <2> HIDE DEF r, key
  <2>1. row' = IF o = "failed" THEN row ELSE [row EXCEPT ![c] = w]
    BY <1>7, <1>11
  <2>2. slips \subseteq slips' /\ (o # "ok" => "consume" \in slips')
    BY <1>11, ReadWriteSlips
  <2> HIDE DEF t, w
  <2>3. /\ \A d \in Challenges \ {c} : row'[d] = row[d] /\ copy'[d] = copy[d]
        /\ o = "ok" => row'[c] = w /\ copy'[c] = t
    BY <1>7, <1>11, <2>1
  <2>4. Settled
    BY <1>9, <2>3 DEF Settled
  <2>5. CASE o = "ok"
    <3> DEFINE j == [[job[s] EXCEPT !.pc = "withdraw"] EXCEPT !.key = key]
    <3>1. j.pc = "withdraw" /\ j.c = c /\ j.key = key
      BY <1>1, <1>2, <1>8, JobWithKey, JobKeyed
    <3>2. job' = [job EXCEPT ![s] = j]
      BY <1>7, <1>11, <2>5
    <3> HIDE DEF j
    <3>3. job'[s] = j
      BY <1>7, <3>2
    <3>4. Closed(c)'
      BY <1>10, <2>3, <2>5 DEF Closed, None
    <3>5. TakesRow(s, c)
      BY <1>9, <1>10, <2>3, <2>5, <3>1, <3>3, <3>4 DEF TakesRow, Takes
    <3> QED
      BY <1>4, <2>2, <3>5
  <2>6. CASE o # "ok"
    <3>1. job'[s].pc = "done"
      BY <1>1, <1>11, <2>6, AnswerEnds
    <3>2. PlainStep(s)
      BY <1>1, <1>3, <1>4, <2>2, <2>4, <2>6, <3>1 DEF PlainStep
    <3> QED
      BY <1>4, <2>2, <3>2
  <2> QED
    BY <2>5, <2>6
<1>12. CASE Read(c, read) /\ Answer(s, "refused") /\ UNCHANGED row
  <2>1. slips \subseteq slips'
    BY <1>12, OutcomeSlips DEF Read
  <2>2. job'[s].pc = "done"
    BY <1>1, <1>12, AnswerEnds
  <2>3. PlainStep(s)
    BY <1>1, <1>3, <1>4, <1>12, <2>1, <2>2, StoreSettled DEF PlainStep
  <2> QED
    BY <1>4, <2>1, <2>3
<1> HIDE DEF r, key, t, w
<1> QED
  BY <1>5, <1>11, <1>12 DEF r, key, t

LEMMA TakenMoney ==
  ASSUME IInv, IInv', MoneyInv, NEW s \in Requests, HolderStep(s), StoreStep, NoIssue,
         job[s].pc = "check", slips \subseteq slips',
         UNCHANGED <<calls, told, withdrawals, wrong>>,
         NEW c \in Challenges, TakesRow(s, c)
  PROVE  MoneyInv'
<1>1. /\ ~Closed(c) /\ row[c] # NoRow /\ Closed(c)'
      /\ \A d \in Challenges \ {c} : row'[d] = row[d] /\ copy'[d] = copy[d]
      /\ job'[s].pc = "withdraw" /\ job'[s].c = c
      /\ row'[c].status = "verified" /\ row'[c].key = job'[s].key
  BY DEF TakesRow, Takes
<1>2. \A r \in Requests \ {s} : job'[r].pc \notin Critical /\ job[r].pc \notin Critical
  BY DEF HolderStep
<1>3. /\ \A d \in Challenges : (Closed(d) => Closed(d)') /\ (row[d] # NoRow => row'[d] # NoRow)
      /\ \A d \in Challenges : row[d] = NoRow => row'[d] = NoRow
  BY DEF StoreStep, Keeps, NoIssue
<1>4. \A w \in withdrawals : w.c \in Challenges /\ calls[w.c] = 1 /\ Closed(w.c) /\ w.c # c
  BY <1>1 DEF IInv, TypeOK, UsedInv, MoneyInv, DeskInv
<1>5. told \subseteq Challenges /\ wrong \subseteq Challenges
  BY DEF IInv, TypeOK
<1>6. Challenges \subseteq Nat
  BY ChallengeAssumption
<1>7. \A r \in Requests : /\ job'[r].pc \notin {"deliver", "insert", "record", "undo"}
                          /\ job'[r].pc = "withdraw" => r = s
                          /\ job[r].pc \notin {"withdraw", "undo"}
  BY <1>1, <1>2 DEF Critical, Locked
<1>8. DeskInv'
  <2>1. \A d \in told' : row'[d] # NoRow
    BY <1>3, <1>5 DEF MoneyInv, DeskInv
  <2> QED
    BY <1>1, <1>4, <1>7, <2>1 DEF DeskInv
<1>9. GuessInv'
  BY <1>1, <1>3, <1>5, <1>7 DEF MoneyInv, GuessInv
<1>10. LatestInv'
  <2> SUFFICES ASSUME "supersede" \notin slips' PROVE LatestInv'
    BY DEF LatestInv
  <2>1. /\ \A a, b \in Challenges : a < b /\ row[b] # NoRow => Closed(a)
        /\ \A w \in withdrawals : ~w.later
    BY DEF MoneyInv, LatestInv
  <2>2. \A a, b \in Challenges : a < b /\ row'[b] # NoRow => Closed(a)'
    BY <1>3, <2>1
  <2>3. ASSUME NEW d \in Challenges, d > c
        PROVE  row'[d] = NoRow
    BY <1>1, <1>3, <1>6, <2>1, <2>3
  <2> QED
    BY <1>1, <1>7, <2>1, <2>2, <2>3 DEF LatestInv
<1>11. CancelInv'
  BY <1>1, <1>4, <1>7 DEF MoneyInv, CancelInv
<1>12. PaidInv'
  <2> SUFFICES ASSUME {"restart", "undo", "consume"} \cap slips' = {},
                      NEW d \in Challenges, row'[d].status = "verified", d # c
               PROVE  Closed(d)' /\ Paid(d)'
    BY <1>1 DEF PaidInv
  <2>1. Closed(d) /\ Paid(d)
    BY <1>1, <1>7 DEF MoneyInv, PaidInv
  <2> QED
    BY <1>1, <1>3, <2>1 DEF Paid, KeyFor
<1> QED
  BY <1>8, <1>9, <1>10, <1>11, <1>12 DEF MoneyInv

LEMMA ConsumeMoney ==
  ASSUME IInv, IInv', MoneyInv, NEW s \in Requests, Consume(s)
  PROVE  MoneyInv'
<1>1. GoodStep(s) /\ UNCHANGED calls /\ NoIssue
  BY ConsumeStep
<1>2. job[s].pc = "check"
  BY DEF Consume, Verifying, At
<1> QED
  BY <1>1, <1>2, ConsumeRows, PlainKeeps, TakenMoney DEF GoodStep

(* The call of withdrawFunds: no later challenge was issued, and what the  *)
(* ledger holds under the key is this withdrawal.                          *)
LEMMA WithdrawMoney ==
  ASSUME IInv, IInv', MoneyInv, NEW s \in Requests, Withdraw(s)
  PROVE  MoneyInv'
<1>1. /\ TypeOK /\ LockInv /\ Holds(s) /\ Inputs(s) /\ job[s].pc = "withdraw"
  BY Situation DEF Withdraw
<1>2. PICK c \in Challenges : Uses(s, c)
  BY WithdrawStep
<1>3. /\ calls[c] = 0 /\ Closed(c) /\ job[s].c = c /\ UNCHANGED <<row, copy>>
      /\ calls' = [calls EXCEPT ![c] = 1]
  BY <1>2 DEF Uses, store
<1>4. HolderStep(s)
  BY WithdrawStep DEF GoodStep
<1> DEFINE w == [key |-> LedgerKey(s), c |-> c, bank |-> job[s].bank,
                 later |-> \E d \in told : d > c]
           submitted == IF \E x \in withdrawals : x.key = w.key THEN withdrawals
                        ELSE withdrawals \cup {w}
<1>5. /\ UNCHANGED <<told, wrong>>
      /\ \/ withdrawals' = submitted /\ Fine /\ Goto(s, "record")
         \/ withdrawals' = submitted /\ Outcome("lost", "withdraw") /\ Goto(s, "undo")
         \/ UNCHANGED withdrawals /\ Fine /\ Goto(s, "undo")
  BY <1>3 DEF Withdraw
<1>6. w.c = c /\ w.key = LedgerKey(s) /\ w.later = \E d \in told : d > c
  OBVIOUS
<1>7. LedgerKey(s) = KeyFor(c) /\ row[c].status = "verified" /\ row[c].key = job[s].key
  BY <1>1, <1>3 DEF LedgerKey, KeyFor, MoneyInv, DeskInv
<1> HIDE DEF w
<1>8. /\ withdrawals' \subseteq withdrawals \cup {w} /\ withdrawals \subseteq withdrawals'
      /\ slips \subseteq slips'
      /\ \/ job'[s].pc = "record" /\ \E x \in withdrawals' : x.key = w.key
         \/ job'[s].pc = "undo" /\ ("withdraw" \in slips' \/ withdrawals' = withdrawals)
      /\ job'[s].c = c /\ job'[s].key = job[s].key
  BY <1>1, <1>3, <1>5, GotoStep, OutcomeSlips DEF Fine, Locked
<1>9. \A r \in Requests \ {s} : job'[r].pc \notin Critical /\ job[r].pc \notin Critical
  BY <1>4 DEF HolderStep
<1>10. \A r \in Requests : /\ job'[r].pc \notin {"deliver", "insert", "withdraw"}
                           /\ job'[r].pc \in {"record", "undo"} => r = s
                           /\ job[r].pc \in {"withdraw", "undo"} => r = s
  BY <1>8, <1>9 DEF Critical, Locked
<1>11. calls \in [Challenges -> Nat] /\ told \subseteq Challenges
  BY <1>1 DEF TypeOK
<1>12. \A x \in withdrawals : x.c \in Challenges /\ calls[x.c] = 1 /\ x.c # c
  BY <1>3 DEF IInv, TypeOK, MoneyInv, DeskInv
<1>13. DeskInv'
  <2>1. \A x \in withdrawals' : calls'[x.c] = 1
    BY <1>3, <1>6, <1>8, <1>11, <1>12
  <2>2. \A d \in told' : row'[d] # NoRow
    BY <1>3, <1>5 DEF MoneyInv, DeskInv
  <2>3. job'[s].pc = "record" => Paid(c)'
    BY <1>3, <1>6, <1>7, <1>8 DEF Paid, KeyFor
  <2>4. row'[c].status = "verified" /\ row'[c].key = job'[s].key
    BY <1>3, <1>7, <1>8
  <2> QED
    BY <1>8, <1>10, <2>1, <2>2, <2>3, <2>4 DEF DeskInv
<1>14. GuessInv'
  BY <1>1, <1>3, <1>5, <1>6, <1>8, <1>10 DEF MoneyInv, GuessInv, Closed
<1>15. LatestInv'
  <2> SUFFICES ASSUME "supersede" \notin slips' PROVE LatestInv'
    BY DEF LatestInv
  <2>1. /\ \A a, b \in Challenges : a < b /\ row[b] # NoRow => Closed(a)
        /\ \A d \in Challenges : d > c => row[d] = NoRow
        /\ \A x \in withdrawals : ~x.later
    BY <1>1, <1>3, <1>8 DEF MoneyInv, LatestInv
  <2>2. ~w.later
    BY <1>6, <1>11, <2>1 DEF MoneyInv, DeskInv
  <2> QED
    BY <1>3, <1>8, <1>10, <2>1, <2>2 DEF LatestInv, Closed
<1>16. CancelInv'
  BY <1>3, <1>6, <1>7, <1>8, <1>10, <1>12 DEF MoneyInv, CancelInv
<1>17. PaidInv'
  <2> SUFFICES ASSUME {"restart", "undo", "consume"} \cap slips' = {},
                      NEW d \in Challenges, row'[d].status = "verified"
               PROVE  Closed(d)' /\ (Paid(d)' \/ \E r \in Requests : job'[r].c = d
                                                  /\ job'[r].pc \in {"withdraw", "undo"})
    BY DEF PaidInv
  <2>1. Closed(d)'
    BY <1>3, <1>8 DEF MoneyInv, PaidInv, Closed
  <2>2. ASSUME d = c, job'[s].pc = "record"
        PROVE  Paid(d)'
    BY <1>3, <1>6, <1>7, <1>8, <2>2 DEF Paid, KeyFor
  <2>3. ASSUME d # c
        PROVE  Paid(d)'
    <3>1. Paid(d)
      BY <1>3, <1>8, <1>10, <2>3 DEF MoneyInv, PaidInv
    <3>2. PICK x \in withdrawals : x.key = KeyFor(d)
      BY <3>1 DEF Paid
    <3> QED
      BY <1>3, <1>8, <3>2 DEF Paid, KeyFor
  <2> QED
    BY <1>8, <2>1, <2>2, <2>3
<1> QED
  BY <1>13, <1>14, <1>15, <1>16, <1>17 DEF MoneyInv

LEMMA UndoMoney ==
  ASSUME IInv, IInv', MoneyInv, NEW s \in Requests, Undo(s)
  PROVE  MoneyInv'
<1>1. /\ TypeOK /\ LockInv /\ Holds(s) /\ job[s].pc = "undo" /\ Inputs(s) /\ Relies(s) /\ StoreOK
  BY Situation DEF Undo
<1>2. HolderStep(s) /\ StoreStep /\ NoIssue
  BY UndoStep DEF QuietStep, GoodStep
<1>3. UNCHANGED <<told, calls, withdrawals, wrong>>
  BY DEF Undo, history
<1>4. PICK c \in Challenges : c = job[s].c
  BY <1>1 DEF Inputs
<1>5. PICK o \in Outcomes : Persist(c, copy[c], "cancelled", o) /\ Outcome(o, "undo")
  BY <1>4 DEF Undo
<1> DEFINE w == [row[c] EXCEPT !.status = "cancelled"]
<1>6. w.status = "cancelled"
  BY <1>1, StatusIsSet DEF StoreOK, Status
<1>7. row' = IF o = "failed" THEN row ELSE [row EXCEPT ![c] = w]
  BY <1>1, <1>5 DEF Persist, StoreOK
<1> HIDE DEF w
<1>8. /\ \A d \in Challenges \ {c} : row'[d] = row[d]
      /\ row'[c] = row[c] \/ row'[c].status = "cancelled"
      /\ o = "ok" => row'[c].status = "cancelled"
  BY <1>1, <1>6, <1>7 DEF StoreOK
<1>9. slips \subseteq slips' /\ (o # "ok" => "undo" \in slips')
  BY <1>5, OutcomeSlips
<1>10. job'[s].pc = "done"
  BY <1>1, AnswerEnds DEF Undo
<1>11. \A r \in Requests \ {s} : job'[r].pc \notin Critical /\ job[r].pc \notin Critical
  BY <1>2 DEF HolderStep
<1>12. \A r \in Requests : /\ job'[r].pc \notin {"deliver", "insert", "withdraw", "record", "undo"}
                           /\ job[r].pc \in {"withdraw", "undo"} => r = s
  BY <1>10, <1>11 DEF Critical, Locked
<1>13. /\ \A d \in Challenges : (Closed(d) => Closed(d)') /\ (row[d] # NoRow => row'[d] # NoRow)
       /\ \A d \in Challenges : row[d] = NoRow => row'[d] = NoRow
  BY <1>2 DEF StoreStep, Keeps, NoIssue
<1>14. told \subseteq Challenges /\ wrong \subseteq Challenges
       /\ \A x \in withdrawals : x.c \in Challenges
  BY <1>1 DEF TypeOK
<1>15. DeskInv'
  BY <1>3, <1>12, <1>13, <1>14 DEF MoneyInv, DeskInv
<1>16. GuessInv'
  BY <1>3, <1>9, <1>12, <1>13, <1>14 DEF MoneyInv, GuessInv
<1>17. LatestInv'
  <2> SUFFICES ASSUME "supersede" \notin slips' PROVE LatestInv'
    BY DEF LatestInv
  <2>1. /\ \A a, b \in Challenges : a < b /\ row[b] # NoRow => Closed(a)
        /\ \A x \in withdrawals : ~x.later
    BY <1>9 DEF MoneyInv, LatestInv
  <2>2. \A a, b \in Challenges : a < b /\ row'[b] # NoRow => Closed(a)'
    BY <1>13, <2>1
  <2> QED
    BY <1>3, <1>12, <2>1, <2>2 DEF LatestInv
<1>18. CancelInv'
  BY <1>1, <1>3, <1>4, <1>8, <1>9, <1>12, <1>14 DEF MoneyInv, CancelInv
<1>19. PaidInv'
  <2> SUFFICES ASSUME {"restart", "undo", "consume"} \cap slips' = {},
                      NEW d \in Challenges, row'[d].status = "verified"
               PROVE  Closed(d)' /\ Paid(d)'
    BY DEF PaidInv
  <2>1. d # c /\ row'[d] = row[d]
    BY <1>8, <1>9
  <2>2. Closed(d) /\ Paid(d)
    BY <1>4, <1>9, <1>12, <2>1 DEF MoneyInv, PaidInv
  <2> QED
    BY <1>3, <1>13, <2>1, <2>2 DEF Paid, KeyFor
<1> QED
  BY <1>15, <1>16, <1>17, <1>18, <1>19 DEF MoneyInv

LEMMA RestartMoney ==
  ASSUME IInv, IInv', MoneyInv, Restart
  PROVE  MoneyInv'
<1>1. UNCHANGED <<row, calls>> /\ \A c \in Challenges : copy'[c].status # "pending"
  BY RestartKeeps
<1>2. UNCHANGED <<told, withdrawals, wrong>>
  BY DEF Restart, history
<1>3. slips \subseteq slips' /\ "restart" \in slips'
  BY OutcomeSlips DEF Restart
<1>4. \A r \in Requests : job'[r].pc \notin Critical
  BY DEF Restart, Forget, IInv, TypeOK, Jobs, Critical, Locked, NoJob
<1>5. \A r \in Requests : job'[r].pc \notin {"deliver", "insert", "withdraw", "record", "undo"}
  BY <1>4 DEF Critical, Locked
<1>6. \A c \in Challenges : Closed(c) => Closed(c)'
  BY <1>1 DEF Closed
<1>7. wrong \subseteq Challenges /\ \A x \in withdrawals : x.c \in Challenges
  BY DEF IInv, TypeOK
<1>8. DeskInv'
  BY <1>1, <1>2, <1>5 DEF MoneyInv, DeskInv
<1>9. GuessInv'
  BY <1>2, <1>3, <1>5, <1>6, <1>7 DEF MoneyInv, GuessInv
<1>10. LatestInv'
  BY <1>1, <1>2, <1>3, <1>5, <1>6 DEF MoneyInv, LatestInv
<1>11. CancelInv'
  BY <1>1, <1>2, <1>3, <1>5 DEF MoneyInv, CancelInv
<1>12. PaidInv'
  BY <1>3 DEF PaidInv
<1> QED
  BY <1>8, <1>9, <1>10, <1>11, <1>12 DEF MoneyInv

(* What happens outside the lock touches no challenge and no handler.      *)
AwayStep ==
  /\ UNCHANGED <<row, copy, calls, told, withdrawals, wrong>>
  /\ slips \subseteq slips'
  /\ \A r \in Requests : job'[r] = job[r] \/ (job[r].pc \notin Critical /\ job'[r].pc \notin Critical)

LEMMA AwayMoney ==
  ASSUME MoneyInv, AwayStep
  PROVE  MoneyInv'
<1>1. /\ UNCHANGED <<row, copy, calls, told, withdrawals, wrong>> /\ slips \subseteq slips'
      /\ \A c : Closed(c)' <=> Closed(c)
      /\ \A c : Paid(c)' <=> Paid(c)
  BY DEF AwayStep, Closed, Paid, KeyFor
<1>2. \A r \in Requests :
        \/ job'[r] = job[r]
        \/ /\ job[r].pc \notin {"deliver", "insert", "withdraw", "record", "undo"}
           /\ job'[r].pc \notin {"deliver", "insert", "withdraw", "record", "undo"}
  BY DEF AwayStep, Critical, Locked
<1>3. DeskInv'
  <2>1. ASSUME NEW r \in Requests
        PROVE  /\ job'[r].pc = "deliver" => ~Closed(job[r].c)'
               /\ job'[r].pc \in {"withdraw", "record"} =>
                    row[job'[r].c].status = "verified" /\ row[job'[r].c].key = job'[r].key
               /\ job'[r].pc = "record" => Paid(job[r].c)'
    <3>1. CASE job'[r] = job[r]
      BY <1>1, <3>1 DEF MoneyInv, DeskInv, Closed, Paid, KeyFor
    <3>2. CASE job'[r] # job[r]
      BY <1>2, <3>2
    <3> QED
      BY <3>1, <3>2
  <2>2. \A w \in withdrawals' : calls'[w.c] = 1
    BY <1>1 DEF MoneyInv, DeskInv
  <2>3. \A d \in told' : row'[d] # NoRow
    BY <1>1 DEF MoneyInv, DeskInv
  <2> QED
    BY <1>1, <2>1, <2>2, <2>3 DEF DeskInv
<1>4. GuessInv'
  BY <1>1, <1>2 DEF MoneyInv, GuessInv
<1>5. LatestInv'
  BY <1>1, <1>2 DEF MoneyInv, LatestInv
<1>6. CancelInv'
  BY <1>1, <1>2 DEF MoneyInv, CancelInv
<1>7. PaidInv'
  <2> SUFFICES ASSUME {"restart", "undo", "consume"} \cap slips' = {},
                      NEW d \in Challenges, row'[d].status = "verified"
               PROVE  Closed(d)' /\ (Paid(d)' \/ \E r \in Requests : job'[r].c = d
                                                  /\ job'[r].pc \in {"withdraw", "undo"})
    BY DEF PaidInv
  <2>1. Closed(d) /\ (Paid(d) \/ \E r \in Requests : job[r].c = d
                                  /\ job[r].pc \in {"withdraw", "undo"})
    BY <1>1 DEF MoneyInv, PaidInv
  <2>2. ASSUME NEW r \in Requests, job[r].c = d, job[r].pc \in {"withdraw", "undo"}
        PROVE  job'[r].c = d /\ job'[r].pc \in {"withdraw", "undo"}
    BY <1>2, <2>2
  <2> QED
    BY <1>1, <2>1, <2>2
<1> QED
  BY <1>3, <1>4, <1>5, <1>6, <1>7 DEF MoneyInv

(* The count in the row is the true one until its write fails; so is the   *)
(* copy in memory, until a restart empties it.                             *)
RateInv ==
  ("rateWrite" \notin slips /\ ~({"rateRead", "restart"} \subseteq slips)) =>
    \A k \in {"send", "verify"} :
      /\ rate[k].db = passed[k] /\ passed[k] <= Limit[k]
      /\ rate[k].mem <= passed[k]
      /\ "restart" \notin slips => rate[k].mem = passed[k]

LEMMA CheckLimitRate ==
  ASSUME IInv, RateInv, NEW s \in Requests, CheckLimit(s)
  PROVE  RateInv'
<1> DEFINE k == Gate(s)
<1>1. /\ rate \in [{"send", "verify"} -> [mem : Nat, db : Nat]]
      /\ passed \in [{"send", "verify"} -> Nat] /\ k \in {"send", "verify"}
  BY DEF IInv, TypeOK, Gate
<1>2. PICK read \in {"ok", "failed"} :
        LET n == Counted(k, read)
        IN \/ /\ n >= Limit[k]
              /\ rate' = [rate EXCEPT ![k].mem = n]
              /\ Outcome(read, "rateRead")
              /\ UNCHANGED passed
           \/ /\ n < Limit[k]
              /\ passed' = [passed EXCEPT ![k] = @ + 1]
              /\ \/ /\ rate' = [rate EXCEPT ![k] = [mem |-> n + 1, db |-> n + 1]]
                    /\ Outcome(read, "rateRead")
                 \/ Outcome("failed", "rateWrite")
  BY DEF CheckLimit
<1> DEFINE n == Counted(k, read)
<1>3. n \in Nat /\ Limit[k] \in Nat
  BY <1>1, ChallengeAssumption DEF Counted
<1> SUFFICES ASSUME "rateWrite" \notin slips', ~({"rateRead", "restart"} \subseteq slips')
             PROVE  RateInv'
  BY DEF RateInv
<1>4. slips \subseteq slips' /\ ("rateRead" \in slips' \/ read = "ok") /\ Outcome(read, "rateRead")
  BY <1>2, OutcomeSlips
<1>5. \A j \in {"send", "verify"} :
        /\ rate[j].db = passed[j] /\ passed[j] <= Limit[j] /\ rate[j].mem <= passed[j]
        /\ "restart" \notin slips => rate[j].mem = passed[j]
  BY <1>4 DEF RateInv
<1>6. n = passed[k]
  BY <1>1, <1>4, <1>5 DEF Counted
<1> HIDE DEF n, k
<1>7. CASE n >= Limit[k] /\ rate' = [rate EXCEPT ![k].mem = n] /\ UNCHANGED passed
  <2>1. ASSUME NEW j \in {"send", "verify"}
        PROVE  rate'[j].db = rate[j].db /\ rate'[j].mem = IF j = k THEN n ELSE rate[j].mem
    BY <1>1, <1>7
  <2> QED
    BY <1>1, <1>3, <1>4, <1>5, <1>6, <1>7, <2>1 DEF RateInv
<1>8. CASE /\ n < Limit[k] /\ passed' = [passed EXCEPT ![k] = @ + 1]
           /\ rate' = [rate EXCEPT ![k] = [mem |-> n + 1, db |-> n + 1]]
  <2>1. /\ passed'[k] = n + 1 /\ rate'[k].mem = n + 1 /\ rate'[k].db = n + 1
        /\ \A j \in {"send", "verify"} \ {k} : passed'[j] = passed[j] /\ rate'[j] = rate[j]
    BY <1>1, <1>6, <1>8
  <2>2. n + 1 <= Limit[k]
    BY <1>3, <1>8
  <2>3. "restart" \notin slips' => "restart" \notin slips
    BY <1>4
  <2>4. ASSUME NEW j \in {"send", "verify"}
        PROVE  /\ rate'[j].db = passed'[j] /\ passed'[j] <= Limit[j] /\ rate'[j].mem <= passed'[j]
               /\ "restart" \notin slips' => rate'[j].mem = passed'[j]
    <3>1. CASE j = k
      BY <1>3, <2>1, <2>2, <3>1
    <3>2. CASE j # k
      BY <1>5, <2>1, <2>3, <3>2
    <3> QED
      BY <3>1, <3>2
  <2> QED
    BY <2>4 DEF RateInv
<1> QED
  BY <1>2, <1>7, <1>8, OutcomeSlips DEF n

LEMMA NewWindowRate ==
  ASSUME IInv, RateInv, NEW k \in {"send", "verify"}, NewWindow(k)
  PROVE  RateInv'
<1>1. /\ rate' = [rate EXCEPT ![k] = [mem |-> 0, db |-> 0]]
      /\ passed' = [passed EXCEPT ![k] = 0] /\ slips' = slips
  BY DEF NewWindow
<1>2. /\ rate \in [{"send", "verify"} -> [mem : Nat, db : Nat]]
      /\ passed \in [{"send", "verify"} -> Nat]
  BY DEF IInv, TypeOK
<1>3. /\ passed'[k] = 0 /\ rate'[k].mem = 0 /\ rate'[k].db = 0
      /\ \A j \in {"send", "verify"} \ {k} : passed'[j] = passed[j] /\ rate'[j] = rate[j]
  BY <1>1, <1>2
<1>4. Limit[k] \in Nat
  BY ChallengeAssumption
<1> QED
  BY <1>1, <1>3, <1>4 DEF RateInv

LEMMA RestartRate ==
  ASSUME IInv, RateInv, Restart
  PROVE  RateInv'
<1>1. slips \subseteq slips' /\ "restart" \in slips' /\ passed' = passed
  BY OutcomeSlips DEF Restart
<1>2. /\ rate \in [{"send", "verify"} -> [mem : Nat, db : Nat]]
      /\ passed \in [{"send", "verify"} -> Nat]
  BY DEF IInv, TypeOK
<1>3. \A k \in {"send", "verify"} : rate'[k].mem = 0 /\ rate'[k].db = rate[k].db
  BY <1>2 DEF Restart, Forget
<1> QED
  BY <1>1, <1>2, <1>3 DEF RateInv

LEMMA RateSame ==
  ASSUME RateInv, UNCHANGED <<rate, passed>>, slips \subseteq slips'
  PROVE  RateInv'
BY DEF RateInv

-----------------------------------------------------------------------------
(* Both hold at first, and every step keeps them.                          *)
LEMMA InitMoney == Init => MoneyInv /\ RateInv
<1> SUFFICES ASSUME Init PROVE MoneyInv /\ RateInv
  OBVIOUS
<1>1. /\ \A c \in Challenges : row[c] = NoRow
      /\ \A s \in Requests : job[s].pc = "new"
      /\ withdrawals = {} /\ told = {} /\ wrong = {}
  BY DEF Init, NoJob
<1>2. MoneyInv
  BY <1>1, EmptyRow DEF MoneyInv, DeskInv, GuessInv, LatestInv, CancelInv, PaidInv, None
<1>3. RateInv
  BY ChallengeAssumption DEF Init, RateInv
<1> QED
  BY <1>2, <1>3

LEMMA StepMoney ==
  ASSUME IInv, IInv', MoneyInv, NEW s \in Requests, Step(s)
  PROVE  MoneyInv'
<1>1. DeskInv
  BY DEF MoneyInv
<1>2. CASE Insert(s) \/ Consume(s) \/ Withdraw(s) \/ Undo(s)
  BY <1>2, InsertMoney, ConsumeMoney, WithdrawMoney, UndoMoney
<1>3. CASE ~(Insert(s) \/ Consume(s) \/ Withdraw(s) \/ Undo(s))
  <2>1. PlainStep(s)
    BY <1>1, <1>3, EnterPlain, CheckLimitPlain, SupersedePlain, DeliverPlain, CancelAllPlain,
       CancelPlain, RejectPlain, SpendTryPlain, RecordPlain DEF Step
  <2> QED
    BY <2>1, PlainKeeps
<1> QED
  BY <1>2, <1>3

LEMMA StepRate ==
  ASSUME IInv, RateInv, NEW s \in Requests, Step(s)
  PROVE  RateInv'
<1>1. CASE CheckLimit(s)
  BY <1>1, CheckLimitRate
<1>2. ASSUME ~CheckLimit(s)
      PROVE  UNCHANGED <<rate, passed>> /\ slips \subseteq slips'
  <2>1. CASE Insert(s) \/ Withdraw(s) \/ Record(s) \/ Undo(s) \/ Enter(s)
    BY <2>1, OutcomeSlips DEF Insert, Withdraw, Record, Undo, Enter, Fine
  <2>2. CASE Supersede(s) \/ CancelAll(s) \/ Deliver(s)
    BY <2>2, OutcomeSlips DEF Supersede, CancelAll, SupersedeAll, Deliver, Fine
  <2>3. CASE Cancel(s) \/ Reject(s) \/ SpendTry(s) \/ Consume(s)
    BY <2>3, OutcomeSlips, ReadWriteSlips DEF Cancel, Reject, SpendTry, Consume, Read
  <2> QED
    BY <1>2, <2>1, <2>2, <2>3 DEF Step
<1> QED
  BY <1>1, <1>2, RateSame

LEMMA BeginAway ==
  ASSUME IInv, NEW s \in Requests, NEW op, NEW c, NEW code, NEW key, NEW bk,
         job[s].pc = "new", Enqueue(s, op, c, code, key, bk)
  PROVE  \A r \in Requests : job'[r] = job[r] \/ (job[r].pc \notin Critical /\ job'[r].pc \notin Critical)
BY DEF Enqueue, IInv, TypeOK, Critical, Locked

LEMMA OtherSteps ==
  ASSUME IInv
  PROVE  /\ \A s \in Requests : Arrive(s) => AwayStep /\ UNCHANGED <<rate, passed>>
         /\ \A c \in Challenges : Lapse(c) => AwayStep /\ UNCHANGED <<rate, passed>>
         /\ \A k \in {"send", "verify"} : NewWindow(k) => AwayStep
<1>1. job \in [Requests -> Jobs]
  BY DEF IInv, TypeOK
<1>2. ASSUME NEW s \in Requests, Arrive(s)
      PROVE  AwayStep /\ UNCHANGED <<rate, passed>>
  <2>1. UNCHANGED <<row, copy, calls, told, withdrawals, wrong, slips, rate, passed>>
    BY <1>2 DEF Arrive, Begin, TurnAway, store, history
  <2>2. CASE TurnAway(s)
    <3>1. \A r \in Requests : job'[r] = job[r] \/ r = s
      BY <1>1, <2>2 DEF TurnAway
    <3>2. job[s].pc = "new" /\ job'[s].pc = "done"
      BY <1>1, <2>2 DEF TurnAway, Jobs
    <3> QED
      BY <2>1, <3>1, <3>2 DEF AwayStep, Critical, Locked
  <2>3. CASE ~TurnAway(s)
    <3>1. PICK op, c, code, key, bk : Begin(s, op, c, code, key, bk)
      BY <1>2, <2>3 DEF Arrive
    <3>2. job[s].pc = "new" /\ Enqueue(s, op, c, code, key, bk)
      BY <3>1 DEF Begin
    <3> QED
      BY <2>1, <3>2, BeginAway DEF AwayStep
  <2> QED
    BY <2>2, <2>3
<1>3. ASSUME NEW c \in Challenges, Lapse(c)
      PROVE  AwayStep /\ UNCHANGED <<rate, passed>>
  BY <1>3 DEF Lapse, store, history, AwayStep
<1>4. ASSUME NEW k \in {"send", "verify"}, NewWindow(k)
      PROVE  AwayStep
  BY <1>4 DEF NewWindow, store, history, AwayStep
<1> QED
  BY <1>2, <1>3, <1>4

LEMMA NextMoney == IInv /\ IInv' /\ MoneyInv /\ RateInv /\ [Next]_challengeVars => MoneyInv' /\ RateInv'
<1> SUFFICES ASSUME IInv, IInv', MoneyInv, RateInv, [Next]_challengeVars
             PROVE  MoneyInv' /\ RateInv'
  OBVIOUS
<1>1. ASSUME NEW s \in Requests, Arrive(s) PROVE MoneyInv' /\ RateInv'
  BY <1>1, OtherSteps, AwayMoney, RateSame DEF AwayStep
<1>2. ASSUME NEW s \in Requests, Step(s) PROVE MoneyInv' /\ RateInv'
  BY <1>2, StepMoney, StepRate
<1>3. ASSUME NEW c \in Challenges, Lapse(c) PROVE MoneyInv' /\ RateInv'
  BY <1>3, OtherSteps, AwayMoney, RateSame DEF AwayStep
<1>4. ASSUME NEW k \in {"send", "verify"}, NewWindow(k) PROVE MoneyInv' /\ RateInv'
  BY <1>4, OtherSteps, AwayMoney, NewWindowRate
<1>5. CASE Restart
  BY <1>5, RestartMoney, RestartRate
<1>6. CASE UNCHANGED challengeVars
  <2>1. AwayStep /\ UNCHANGED <<rate, passed>>
    BY <1>6 DEF challengeVars, AwayStep
  <2> QED
    BY <2>1, AwayMoney, RateSame DEF AwayStep
<1> QED
  BY <1>1, <1>2, <1>3, <1>4, <1>5, <1>6 DEF Next

THEOREM MoneyInvariant == Spec => [](MoneyInv /\ RateInv)
BY InitMoney, NextMoney, ChallengeInvariant, PTL DEF Spec

LEMMA MoneyMeans ==
  ASSUME IInv, MoneyInv, RateInv
  PROVE  NoSecondGuess /\ LatestOnly /\ CancelledMeansUnpaid /\ ConsumedIsPaid /\ LimitHolds
<1>1. NoSecondGuess
  BY DEF MoneyInv, GuessInv, NoSecondGuess, Happened
<1>2. LatestOnly
  BY DEF MoneyInv, LatestInv, LatestOnly, Happened
<1>3. CancelledMeansUnpaid
  BY DEF MoneyInv, CancelInv, CancelledMeansUnpaid, Happened
<1>4. ConsumedIsPaid
  BY DEF MoneyInv, PaidInv, ConsumedIsPaid, Happened, Paid, KeyFor
<1>5. LimitHolds
  BY DEF RateInv, LimitHolds, Happened
<1> QED
  BY <1>1, <1>2, <1>3, <1>4, <1>5

(* After a wrong code or amount verifyWithdrawalChallengeAndSubmit never   *)
(* submits under the challenge, unless closing it could not be confirmed.  *)
THEOREM NoWithdrawalAfterWrongCode == Spec => []NoSecondGuess
BY MoneyMeans, MoneyInvariant, ChallengeInvariant, PTL

(* Only the code mailed last admits a withdrawal, unless the database      *)
(* refused to cancel the earlier ones (invalidatePriorPendingChallenges).  *)
THEOREM OnlyLatestCodeAdmits == Spec => []LatestOnly
BY MoneyMeans, MoneyInvariant, ChallengeInvariant, PTL

(* A challenge that is cancelled after it was taken has no withdrawal,     *)
(* unless the answer of withdrawFunds was lost.                            *)
THEOREM CancelledIsUnpaid == Spec => []CancelledMeansUnpaid
BY MoneyMeans, MoneyInvariant, ChallengeInvariant, PTL

(* A verified challenge has its withdrawal or a handler at work on it,     *)
(* unless the process ended in between or a write failed.                  *)
THEOREM VerifiedIsPaid == Spec => []ConsumedIsPaid
BY MoneyMeans, MoneyInvariant, ChallengeInvariant, PTL

(* checkAndIncrementRateLimit never lets more than Limit requests pass in  *)
(* a window, across restarts, unless the write of a count failed or the    *)
(* row could not be read after a restart.                                  *)
THEOREM RateLimitHolds == Spec => []LimitHolds
BY MoneyMeans, MoneyInvariant, ChallengeInvariant, PTL


-----------------------------------------------------------------------------
(***************************************************************************)
(* The account.                                                            *)
(***************************************************************************)

(* Tokens: what was signed out is in memory or in the database, or a       *)
(* restart lost it.                                                        *)
OutInv ==
  /\ toldOut \subseteq lost \cup revoked.mem \cup revoked.db
  /\ late \subseteq lost

(* Recovery authorizations: the memory knows the ones in use.              *)
RecoveryInv ==
  "restart" \notin slips =>
    /\ \A r \in Recoveries : resets[r] <= 1 /\ (resets[r] = 1 => r \in usedJtis)
    /\ \A v \in Visits : visit[v].pc = "update" =>
         visit[v].item \in usedJtis /\ resets[visit[v].item] = 0
    /\ \A u, v \in Visits : visit[u].pc = "update" /\ visit[v].pc = "update"
                            /\ visit[u].item = visit[v].item => u = v

(* Nonces: one that was accepted is neither in memory nor unused, and      *)
(* while one verification is under way there is no other.                  *)
Verifies(v) == visit[v].pc \in {"seen", "mark"}
NonceInv ==
  /\ \A n \in Nonces : nonce[n].mem \/ nonce[n].db # "none" => nonce[n].issued
  /\ \A v \in Visits :
       /\ Verifies(v) /\ visit[v].seen = "unused" => nonce[visit[v].item].issued
       /\ visit[v].pc = "mark" => nonce[visit[v].item].issued
  /\ {"overlap", "nonceMark"} \cap slips = {} =>
       /\ \A u, v \in Visits : Verifies(u) /\ Verifies(v) /\ visit[u].item = visit[v].item => u = v
       /\ \A n \in Nonces :
            \/ accepted[n] = 0
            \/ accepted[n] = 1 /\ nonce[n].issued /\ ~nonce[n].mem /\ nonce[n].db # "unused"
       /\ \A v \in Visits :
            /\ visit[v].pc = "mark" => accepted[visit[v].item] = 0 /\ ~nonce[visit[v].item].mem
            /\ visit[v].pc = "seen" /\ visit[v].seen = "unused" => accepted[visit[v].item] = 0

VisitRecords ==
  [pc : S!VisitSteps, item : Tokens \cup Recoveries \cup Nonces \cup {"none"},
   seen : {"none", "unused", "used"}]
VisitOK ==
  /\ visit \in [Visits -> VisitRecords]
  /\ \A v \in Visits : /\ visit[v].pc = "revoke" => visit[v].item \in Tokens
                       /\ visit[v].pc = "update" => visit[v].item \in Recoveries
                       /\ Verifies(v) => visit[v].item \in Nonces
  /\ resets \in [Recoveries -> Nat] /\ accepted \in [Nonces -> Nat]

SessionInv == S!SessionTypeOK /\ VisitOK /\ OutInv /\ RecoveryInv /\ NonceInv

(* The verification status.  Unless an operation ran into the review of a  *)
(* dossier, memory is right but for an operation that is at work on the    *)
(* documents and will write it; such a review is alone, and what it went   *)
(* through has its verdict.                                                *)
AtDocs(d) == desk[d].pc \in C!DocumentSteps
Owing == {"uploaded", "docReviewed", "docRecorded", "dossier"}
Submitting == {"dossierSent", "dossierBank"}
InMemory == {"overruled", "incomplete", "restart"} \cap slips = {}
Reviewing(d) ==
  /\ \A e \in Desk : AtDocs(e) => e = d
  /\ \A t \in DocTypes : t \in desk[d].left \/ doc.mem[t] = desk[d].verdict
  /\ \E t \in DocTypes : doc.mem[t] # C!NoDoc
  /\ desk[d].verdict = "approved" => \A t \in DocTypes : doc.mem[t] # C!NoDoc
MemoryInv ==
  InMemory =>
    /\ status.mem \in C!Stated \/ \E d \in Desk : desk[d].pc \in Owing
    /\ \A d \in Desk : /\ desk[d].pc \in Submitting => declared
                       /\ desk[d].pc = "dossier" => Reviewing(d)

(* Until two operations cross, at most one is under way; no update is      *)
(* under way until it has written the memory, nor until the one document   *)
(* of a dossier is uploaded; and updates say what the documents say.       *)
Arrived == \A x \in C!Statuses : updates[x] = 0
InStep == {"overruled", "incomplete", "restart", "crossed", "profile"} \cap slips = {}
OneUpload(d) ==
  /\ \A t, u \in desk[d].left \cup desk[d].rows : t = u
  /\ desk[d].left \cap desk[d].rows = {}
  /\ desk[d].left \cup desk[d].rows # {} => Arrived
ProfileInv ==
  InStep =>
    /\ \A d, e \in Desk : AtDocs(d) /\ AtDocs(e) => d = e
    /\ \A d \in Desk : /\ desk[d].pc \in Owing => Arrived
                       /\ desk[d].pc \in Submitting => OneUpload(d)
                       /\ desk[d].pc = "profileSent" => desk[d].verdict \in C!Stated
    /\ \A x \in C!Statuses : updates[x] > 0 => x = C!Derived(doc.mem)
    /\ (\A d \in Desk : ~AtDocs(d)) /\ Arrived => status.db \in C!Stated

DocsInv == MemoryInv /\ ProfileInv

DeskRecords ==
  [pc : {"new", "done", "submitted", "opened", "bankReviewed"} \cup C!DocumentSteps,
   item : DocTypes \cup Banks \cup {0}, verdict : C!Verdicts \cup C!Statuses \cup {"none"},
   left : SUBSET DocTypes, rows : SUBSET DocTypes]
Fits(x) ==
  /\ x.pc \in {"uploaded", "docReviewed"} => x.item \in DocTypes
  /\ x.pc \in {"submitted", "opened", "dossierBank"} => x.item \in Banks
  /\ x.pc = "dossierSent" => x.item \in Banks \cup {0}
  /\ x.pc \in {"docReviewed", "dossier", "opened", "bankReviewed"} => x.verdict \in C!Verdicts
  /\ x.pc = "profileSent" => x.verdict \in C!Statuses
DeskOK ==
  /\ desk \in [Desk -> DeskRecords]
  /\ \A d \in Desk : Fits(desk[d])
  /\ \A b \in {bank.mem, bank.db} : b = C!NoBank \/ b.v \in Banks

(* The payee.  Unless the details changed while an administrator decided   *)
(* on them, everything approved was looked at, and so were the accounts    *)
(* the requests under way were given.                                      *)
BankInv ==
  "resubmitted" \notin slips =>
    /\ bank.mem.status = "approved" => bank.mem.v \in seen
    /\ bank.db.status = "approved" => bank.db.v \in seen
    /\ \A d \in Desk : desk[d].pc \in {"opened", "bankReviewed"} => desk[d].item \in seen

PayeeInv ==
  "resubmitted" \notin slips =>
    /\ \A s \in Requests : (job[s].pc \in Locked /\ job[s].op # "cancel") => job[s].bank \in seen
    /\ \A w \in withdrawals : w.bank \in seen

ComplianceInv == C!ComplianceTypeOK /\ DeskOK /\ DocsInv /\ BankInv

AInv ==
  /\ IInv /\ MoneyInv /\ RateInv
  /\ SessionInv /\ ComplianceInv /\ PayeeInv
  /\ script \in Scripts /\ admitted \subseteq Requests
-----------------------------------------------------------------------------
(* Sessions.  A visit that ends, or that goes on with a record of its own. *)
OneVisit(v, x) ==
  /\ x \in VisitRecords
  /\ visit' \in [Visits -> VisitRecords]
  /\ visit'[v] = x
  /\ \A u \in Visits \ {v} : visit'[u] = visit[u]

LEMMA VisitIs ==
  ASSUME VisitOK, NEW v \in Visits, NEW x \in VisitRecords, visit' = [visit EXCEPT ![v] = x]
  PROVE  OneVisit(v, x)
BY DEF OneVisit, VisitOK

LEMMA VisitLeaves ==
  ASSUME VisitOK, NEW v \in Visits, S!Leave(v)
  PROVE  \E x : OneVisit(v, x) /\ x.pc = "done"
<1> DEFINE x == [S!NoVisit EXCEPT !.pc = "done"]
<1>1. x \in VisitRecords /\ x.pc = "done"
  BY DEF S!NoVisit, VisitRecords, S!VisitSteps
<1>2. visit' = [visit EXCEPT ![v] = x]
  BY DEF S!Leave
<1> HIDE DEF x
<1> QED
  BY <1>1, <1>2, VisitIs

LEMMA VisitGoes ==
  ASSUME VisitOK, NEW v \in Visits, NEW pc \in S!VisitSteps, S!VisitGoto(v, pc)
  PROVE  \E x : /\ OneVisit(v, x) /\ x.pc = pc
                /\ x.item = visit[v].item /\ x.seen = visit[v].seen
<1> DEFINE x == [visit[v] EXCEPT !.pc = pc]
<1>1. visit[v] \in VisitRecords /\ visit \in [Visits -> VisitRecords]
  BY DEF VisitOK
<1>2. x \in VisitRecords /\ x.pc = pc /\ x.item = visit[v].item /\ x.seen = visit[v].seen
  BY <1>1 DEF VisitRecords
<1>3. visit' = [visit EXCEPT ![v] = x]
  BY <1>1 DEF S!VisitGoto
<1> HIDE DEF x
<1> QED
  BY <1>2, <1>3, VisitIs

(* What leaves the visits of one kind alone keeps what is known of them.   *)
LEMMA OutFrame ==
  ASSUME OutInv, UNCHANGED <<toldOut, late, lost>>,
         revoked.mem \cup revoked.db \subseteq revoked'.mem \cup revoked'.db
  PROVE  OutInv'
BY DEF OutInv

LEMMA RecoveryFrame ==
  ASSUME RecoveryInv, UNCHANGED <<usedJtis, resets>>, slips \subseteq slips',
         \A v \in Visits : visit'[v] = visit[v] \/ visit'[v].pc # "update"
  PROVE  RecoveryInv'
BY DEF RecoveryInv

LEMMA NonceFrame ==
  ASSUME NonceInv, UNCHANGED <<nonce, accepted>>, slips \subseteq slips',
         \A v \in Visits : visit'[v] = visit[v] \/ visit'[v].pc \notin {"seen", "mark"}
  PROVE  NonceInv'
<1>1. \A n \in Nonces : nonce'[n].mem \/ nonce'[n].db # "none" => nonce'[n].issued
  BY DEF NonceInv
<1>2. ASSUME NEW v \in Visits
      PROVE  /\ Verifies(v)' /\ visit'[v].seen = "unused" => nonce'[visit'[v].item].issued
             /\ visit'[v].pc = "mark" => nonce'[visit'[v].item].issued
  BY DEF NonceInv, Verifies
<1>3. ASSUME {"overlap", "nonceMark"} \cap slips' = {}
      PROVE  {"overlap", "nonceMark"} \cap slips = {}
  BY <1>3
<1>4. \A v \in Visits : Verifies(v)' => Verifies(v) /\ visit'[v] = visit[v]
  BY DEF Verifies
<1> QED
  BY <1>1, <1>2, <1>3, <1>4 DEF NonceInv, Verifies

LEMMA StumbleSlips ==
  ASSUME NEW kind, S!Stumble(kind) \/ S!Steady
  PROVE  slips \subseteq slips' /\ faults' \in {faults, faults + 1}
BY DEF S!Stumble, S!Steady

LEMMA SignOutKeeps ==
  ASSUME SessionInv, NEW v \in Visits, NEW t \in Tokens, S!SignOut(v, t)
  PROVE  SessionInv' /\ slips \subseteq slips'
<1>1. S!SessionTypeOK /\ VisitOK /\ OutInv /\ RecoveryInv /\ NonceInv
  BY DEF SessionInv
<1>2. PICK x : OneVisit(v, x) /\ x.pc = "done"
  BY <1>1, VisitLeaves DEF S!SignOut
<1>3. /\ UNCHANGED <<usedJtis, nonce, late, lost, resets, accepted>> /\ slips' = slips
      /\ toldOut' = toldOut \cup {t} /\ writes' = writes \cup {t}
      /\ revoked' = [revoked EXCEPT !.mem = @ \cup {t}]
  BY DEF S!SignOut, S!Revoke, S!Steady
<1>4. revoked'.mem = revoked.mem \cup {t} /\ revoked'.db = revoked.db
      /\ revoked' \in [mem : SUBSET S!Hashes, db : SUBSET S!Hashes]
  BY <1>1, <1>3 DEF S!SessionTypeOK, S!Hashes
<1>5. VisitOK'
  BY <1>1, <1>2, <1>3 DEF VisitOK, OneVisit, Verifies
<1>6. S!SessionTypeOK'
  BY <1>1, <1>3, <1>4, <1>5 DEF S!SessionTypeOK, S!Hashes, VisitOK, VisitRecords
<1>7. OutInv'
  BY <1>1, <1>3, <1>4 DEF OutInv
<1>8. RecoveryInv' /\ NonceInv'
  BY <1>1, <1>2, <1>3, RecoveryFrame, NonceFrame DEF OneVisit
<1> QED
  BY <1>3, <1>5, <1>6, <1>7, <1>8 DEF SessionInv

LEMMA AdminSignOutKeeps ==
  ASSUME SessionInv, NEW v \in Visits, NEW t \in Tokens, S!AdminSignOut(v, t)
  PROVE  SessionInv' /\ slips \subseteq slips'
<1>1. S!SessionTypeOK /\ VisitOK /\ OutInv /\ RecoveryInv /\ NonceInv
  BY DEF SessionInv
<1> DEFINE x == [[visit[v] EXCEPT !.pc = "revoke"] EXCEPT !.item = t]
<1>a. visit[v] \in VisitRecords /\ visit \in [Visits -> VisitRecords]
  BY <1>1 DEF VisitOK
<1>b. x \in VisitRecords /\ x.pc = "revoke" /\ x.item = t
  BY <1>a DEF VisitRecords, S!VisitSteps
<1>c. visit' = [visit EXCEPT ![v] = x]
  BY <1>a DEF S!AdminSignOut
<1> HIDE DEF x
<1>2. OneVisit(v, x) /\ x.pc = "revoke" /\ x.item = t
  BY <1>1, <1>b, <1>c, VisitIs
<1>3. /\ UNCHANGED <<writes, usedJtis, nonce, toldOut, late, lost, resets, accepted>>
      /\ slips' = slips /\ revoked' = [revoked EXCEPT !.mem = @ \cup {t}]
  BY DEF S!AdminSignOut, S!Steady, S!sessionHistory
<1>4. revoked'.mem = revoked.mem \cup {t} /\ revoked'.db = revoked.db
      /\ revoked' \in [mem : SUBSET S!Hashes, db : SUBSET S!Hashes]
  BY <1>1, <1>3 DEF S!SessionTypeOK, S!Hashes
<1>5. VisitOK'
  BY <1>1, <1>2, <1>3 DEF VisitOK, OneVisit, Verifies
<1>6. S!SessionTypeOK'
  BY <1>1, <1>3, <1>4, <1>5 DEF S!SessionTypeOK, S!Hashes, VisitOK, VisitRecords
<1>7. OutInv'
  BY <1>1, <1>3, <1>4, OutFrame
<1>8. RecoveryInv' /\ NonceInv'
  BY <1>1, <1>2, <1>3, RecoveryFrame, NonceFrame DEF OneVisit
<1> QED
  BY <1>3, <1>5, <1>6, <1>7, <1>8 DEF SessionInv

LEMMA AdminSignedOutKeeps ==
  ASSUME SessionInv, NEW v \in Visits, S!AdminSignedOut(v)
  PROVE  SessionInv' /\ slips \subseteq slips'
<1>1. S!SessionTypeOK /\ VisitOK /\ OutInv /\ RecoveryInv /\ NonceInv
  BY DEF SessionInv
<1>2. PICK x : OneVisit(v, x) /\ x.pc = "done"
  BY <1>1, VisitLeaves DEF S!AdminSignedOut
<1>3. /\ UNCHANGED <<writes, usedJtis, nonce, late, lost, resets, accepted>>
      /\ slips \subseteq slips'
  BY StumbleSlips DEF S!AdminSignedOut
<1>4. PICK t \in Tokens : t = visit[v].item
  BY <1>1 DEF S!AdminSignedOut, VisitOK
<1>5. \/ revoked' = [revoked EXCEPT !.db = @ \cup {t}] /\ toldOut' = toldOut \cup {t}
      \/ UNCHANGED <<revoked, toldOut>>
  BY <1>4 DEF S!AdminSignedOut
<1>6. /\ revoked' \in [mem : SUBSET S!Hashes, db : SUBSET S!Hashes]
      /\ revoked'.mem = revoked.mem /\ revoked.db \subseteq revoked'.db
      /\ toldOut' = toldOut \/ (toldOut' = toldOut \cup {t} /\ t \in revoked'.db)
  BY <1>1, <1>5 DEF S!SessionTypeOK, S!Hashes
<1>7. VisitOK'
  BY <1>1, <1>2, <1>3 DEF VisitOK, OneVisit, Verifies
<1>8. S!SessionTypeOK'
  BY <1>1, <1>3, <1>6, <1>7 DEF S!SessionTypeOK, VisitOK, VisitRecords
<1>9. OutInv'
  BY <1>1, <1>3, <1>6 DEF OutInv
<1>10. RecoveryInv' /\ NonceInv'
  BY <1>1, <1>2, <1>3, RecoveryFrame, NonceFrame DEF OneVisit
<1> QED
  BY <1>3, <1>7, <1>8, <1>9, <1>10 DEF SessionInv

LEMMA WriteArrivesKeeps ==
  ASSUME SessionInv, NEW h, S!WriteArrives(h)
  PROVE  SessionInv' /\ slips \subseteq slips'
<1>1. S!SessionTypeOK /\ VisitOK /\ OutInv /\ RecoveryInv /\ NonceInv
  BY DEF SessionInv
<1>2. /\ UNCHANGED <<usedJtis, nonce, visit, toldOut, late, lost, resets, accepted>>
      /\ slips' = slips /\ h \in writes /\ writes' = writes \ {h}
      /\ revoked' = [revoked EXCEPT !.db = @ \cup {h}]
  BY DEF S!WriteArrives, S!Steady, S!sessionHistory
<1>3. /\ revoked' \in [mem : SUBSET S!Hashes, db : SUBSET S!Hashes]
      /\ revoked'.mem = revoked.mem /\ revoked.db \subseteq revoked'.db
  BY <1>1, <1>2 DEF S!SessionTypeOK
<1>4. VisitOK'
  BY <1>1, <1>2 DEF VisitOK, Verifies
<1>5. S!SessionTypeOK'
  BY <1>1, <1>2, <1>3 DEF S!SessionTypeOK
<1>6. OutInv' /\ RecoveryInv' /\ NonceInv'
  BY <1>1, <1>2, <1>3, OutFrame, RecoveryFrame, NonceFrame
<1> QED
  BY <1>2, <1>4, <1>5, <1>6 DEF SessionInv

LEMMA JtiWriteFailsKeeps ==
  ASSUME SessionInv, NEW r, S!JtiWriteFails(r)
  PROVE  SessionInv' /\ slips \subseteq slips'
<1>1. S!SessionTypeOK /\ VisitOK /\ OutInv /\ RecoveryInv /\ NonceInv
  BY DEF SessionInv
<1>2. /\ UNCHANGED <<revoked, usedJtis, nonce, visit, toldOut, late, lost, resets, accepted>>
      /\ slips \subseteq slips' /\ writes' \subseteq writes
  BY StumbleSlips DEF S!JtiWriteFails, S!sessionHistory
<1>3. VisitOK'
  BY <1>1, <1>2 DEF VisitOK, Verifies
<1>4. S!SessionTypeOK'
  BY <1>1, <1>2 DEF S!SessionTypeOK
<1>5. OutInv' /\ RecoveryInv' /\ NonceInv'
  BY <1>1, <1>2, OutFrame, RecoveryFrame, NonceFrame
<1> QED
  BY <1>2, <1>3, <1>4, <1>5 DEF SessionInv

(* requireAuth: a token that was signed out and is let in was lost.        *)
LEMMA AdmitKeeps ==
  ASSUME SessionInv, NEW t \in Tokens, S!Admit(t), slips \subseteq slips'
  PROVE  SessionInv'
<1>1. S!SessionTypeOK /\ VisitOK /\ OutInv /\ RecoveryInv /\ NonceInv
  BY DEF SessionInv
<1>2. /\ UNCHANGED <<revoked, writes, usedJtis, nonce, visit, toldOut, lost, resets, accepted>>
      /\ late' = (IF t \in toldOut THEN late \cup {t} ELSE late)
      /\ t \notin revoked.mem \cup revoked.db
  BY DEF S!Admit, S!NotRevoked
<1>3. VisitOK'
  BY <1>1, <1>2 DEF VisitOK, Verifies
<1>4. S!SessionTypeOK'
  BY <1>1, <1>2 DEF S!SessionTypeOK
<1>5. OutInv'
  BY <1>1, <1>2 DEF OutInv
<1>6. RecoveryInv' /\ NonceInv'
  BY <1>1, <1>2, RecoveryFrame, NonceFrame
<1> QED
  BY <1>3, <1>4, <1>5, <1>6 DEF SessionInv

LEMMA RefuseTokenKeeps ==
  ASSUME SessionInv, NEW t \in Tokens, S!RefuseToken(t)
  PROVE  SessionInv' /\ slips \subseteq slips' /\ faults' \in {faults, faults + 1}
<1>1. S!SessionTypeOK /\ VisitOK /\ OutInv /\ RecoveryInv /\ NonceInv
  BY DEF SessionInv
<1>2. /\ UNCHANGED <<writes, usedJtis, nonce, visit, toldOut, late, lost, resets, accepted>>
      /\ slips \subseteq slips' /\ faults' \in {faults, faults + 1}
      /\ revoked' = (IF t \in revoked.db THEN [revoked EXCEPT !.mem = @ \cup {t}] ELSE revoked)
  BY StumbleSlips DEF S!RefuseToken, S!sessionHistory
<1>3. /\ revoked' \in [mem : SUBSET S!Hashes, db : SUBSET S!Hashes]
      /\ revoked.mem \subseteq revoked'.mem /\ revoked'.db = revoked.db
  BY <1>1, <1>2 DEF S!SessionTypeOK, S!Hashes
<1>4. VisitOK'
  BY <1>1, <1>2 DEF VisitOK, Verifies
<1>5. S!SessionTypeOK'
  BY <1>1, <1>2, <1>3 DEF S!SessionTypeOK
<1>6. OutInv' /\ RecoveryInv' /\ NonceInv'
  BY <1>1, <1>2, <1>3, OutFrame, RecoveryFrame, NonceFrame
<1> QED
  BY <1>2, <1>4, <1>5, <1>6 DEF SessionInv

(* resetPassword: the jti enters the memory before the password is set.    *)
LEMMA ResetPasswordKeeps ==
  ASSUME SessionInv, NEW v \in Visits, NEW r \in Recoveries, S!ResetPassword(v, r)
  PROVE  SessionInv' /\ slips \subseteq slips'
<1>1. S!SessionTypeOK /\ VisitOK /\ OutInv /\ RecoveryInv /\ NonceInv
  BY DEF SessionInv
<1>2. UNCHANGED <<nonce, toldOut, late, lost, resets, accepted>> /\ slips' = slips
  BY DEF S!ResetPassword, S!Steady, S!sessionHistory
<1>3. CASE /\ ~S!Spent(r) /\ usedJtis' = usedJtis \cup {r} /\ S!Revoke({<<"jti", r>>})
           /\ visit' = [visit EXCEPT ![v].pc = "update", ![v].item = r]
  <2> DEFINE x == [[visit[v] EXCEPT !.pc = "update"] EXCEPT !.item = r]
  <2>a. visit[v] \in VisitRecords /\ visit \in [Visits -> VisitRecords]
    BY <1>1 DEF VisitOK
  <2>1. x \in VisitRecords /\ x.pc = "update" /\ x.item = r
    BY <2>a DEF VisitRecords, S!VisitSteps
  <2>b. visit' = [visit EXCEPT ![v] = x]
    BY <1>3, <2>a
  <2> HIDE DEF x
  <2>2. OneVisit(v, x) /\ x.item = r
    BY <1>1, <2>1, <2>b, VisitIs
  <2>3. x.pc = "update"
    BY <2>1
  <2>4. r \notin usedJtis /\ usedJtis' = usedJtis \cup {r}
    BY <1>3 DEF S!Spent
  <2>5. <<"jti", r>> \in S!Hashes
    BY DEF S!Hashes
  <2>6. /\ revoked' = [revoked EXCEPT !.mem = @ \cup {<<"jti", r>>}]
        /\ writes' = writes \cup {<<"jti", r>>}
    BY <1>3 DEF S!Revoke
  <2>7. /\ revoked' \in [mem : SUBSET S!Hashes, db : SUBSET S!Hashes]
        /\ revoked.mem \subseteq revoked'.mem /\ revoked'.db = revoked.db
        /\ writes' \subseteq S!Hashes
    BY <1>1, <2>5, <2>6 DEF S!SessionTypeOK
  <2>8. VisitOK'
    BY <1>1, <1>2, <2>2, <2>3 DEF VisitOK, OneVisit, Verifies
  <2>9. S!SessionTypeOK'
    BY <1>1, <1>2, <1>3, <2>7, <2>8 DEF S!SessionTypeOK, VisitOK, VisitRecords
  <2>10. OutInv' /\ NonceInv'
    BY <1>1, <1>2, <2>2, <2>3, <2>7, OutFrame, NonceFrame DEF OneVisit
  <2>11. RecoveryInv'
    <3> SUFFICES ASSUME "restart" \notin slips' PROVE RecoveryInv'
      BY DEF RecoveryInv
    <3>1. /\ \A q \in Recoveries : resets[q] <= 1 /\ (resets[q] = 1 => q \in usedJtis)
          /\ \A u \in Visits : visit[u].pc = "update" =>
               visit[u].item \in usedJtis /\ resets[visit[u].item] = 0
          /\ \A u, w \in Visits : visit[u].pc = "update" /\ visit[w].pc = "update"
                                  /\ visit[u].item = visit[w].item => u = w
      BY <1>1, <1>2 DEF RecoveryInv
    <3>2. resets[r] = 0
      BY <1>1, <2>4, <3>1 DEF VisitOK
    <3>3. visit'[v].pc = "update" /\ visit'[v].item = r
          /\ \A u \in Visits \ {v} : visit'[u] = visit[u]
      BY <2>2, <2>3 DEF OneVisit
    <3>4. \A q \in Recoveries : resets'[q] <= 1 /\ (resets'[q] = 1 => q \in usedJtis')
      BY <1>2, <1>3, <3>1
    <3>5. \A u \in Visits : visit'[u].pc = "update" =>
            visit'[u].item \in usedJtis' /\ resets'[visit'[u].item] = 0
      <4> SUFFICES ASSUME NEW u \in Visits, visit'[u].pc = "update"
                   PROVE  visit'[u].item \in usedJtis' /\ resets[visit'[u].item] = 0
        BY <1>2
      <4>1. CASE u = v
        <5>1. visit'[u].item = r
          BY <3>3, <4>1
        <5> QED
          BY <2>4, <3>2, <5>1
      <4>2. CASE u # v
        <5>1. visit'[u] = visit[u]
          BY <3>3, <4>2
        <5> QED
          BY <2>4, <3>1, <5>1
      <4> QED
        BY <4>1, <4>2
    <3>6. \A u \in Visits \ {v} : visit[u].pc = "update" => visit[u].item # r
      BY <2>4, <3>1
    <3>7. \A u, w \in Visits : visit'[u].pc = "update" /\ visit'[w].pc = "update"
                                /\ visit'[u].item = visit'[w].item => u = w
      BY <3>1, <3>3, <3>6
    <3> QED
      BY <3>4, <3>5, <3>7 DEF RecoveryInv
  <2> QED
    BY <1>2, <2>8, <2>9, <2>10, <2>11 DEF SessionInv
<1>4. CASE S!Leave(v) /\ UNCHANGED <<revoked, writes, usedJtis>>
  <2>1. PICK x : OneVisit(v, x) /\ x.pc = "done"
    BY <1>1, <1>4, VisitLeaves
  <2>2. VisitOK'
    BY <1>1, <1>2, <2>1 DEF VisitOK, OneVisit, Verifies
  <2>3. S!SessionTypeOK'
    BY <1>1, <1>2, <1>4, <2>2 DEF S!SessionTypeOK, VisitOK, VisitRecords
  <2>4. OutInv' /\ RecoveryInv' /\ NonceInv'
    BY <1>1, <1>2, <1>4, <2>1, OutFrame, RecoveryFrame, NonceFrame DEF OneVisit
  <2> QED
    BY <1>2, <2>2, <2>3, <2>4 DEF SessionInv
<1> QED
  BY <1>3, <1>4 DEF S!ResetPassword

LEMMA PasswordUpdatedKeeps ==
  ASSUME SessionInv, NEW v \in Visits, S!PasswordUpdated(v)
  PROVE  SessionInv' /\ slips \subseteq slips'
<1>1. S!SessionTypeOK /\ VisitOK /\ OutInv /\ RecoveryInv /\ NonceInv
  BY DEF SessionInv
<1>2. PICK r \in Recoveries : r = visit[v].item /\ visit[v].pc = "update"
  BY <1>1 DEF S!PasswordUpdated, VisitOK
<1>3. UNCHANGED <<usedJtis, nonce, toldOut, late, lost, accepted>> /\ slips \subseteq slips'
  BY StumbleSlips DEF S!PasswordUpdated
<1>4. PICK x : OneVisit(v, x) /\ x.pc = "done"
  BY <1>1, VisitLeaves DEF S!PasswordUpdated
<1>5. \/ resets' = [resets EXCEPT ![r] = @ + 1] /\ S!Revoke({r})
      \/ UNCHANGED <<resets, revoked, writes>>
  BY <1>2 DEF S!PasswordUpdated
<1>6. /\ revoked' \in [mem : SUBSET S!Hashes, db : SUBSET S!Hashes] /\ writes' \subseteq S!Hashes
      /\ revoked.mem \subseteq revoked'.mem /\ revoked'.db = revoked.db
  BY <1>1, <1>5 DEF S!SessionTypeOK, S!Revoke, S!Hashes
<1>7. /\ resets' \in [Recoveries -> Nat]
      /\ resets' = resets \/ (resets'[r] = resets[r] + 1
                               /\ \A q \in Recoveries \ {r} : resets'[q] = resets[q])
  BY <1>1, <1>5 DEF VisitOK
<1>8. VisitOK'
  BY <1>1, <1>3, <1>4, <1>7 DEF VisitOK, OneVisit, Verifies
<1>9. S!SessionTypeOK'
  BY <1>1, <1>3, <1>6, <1>8 DEF S!SessionTypeOK, VisitOK, VisitRecords
<1>10. OutInv' /\ NonceInv'
  BY <1>1, <1>3, <1>4, <1>6, OutFrame, NonceFrame DEF OneVisit
<1>11. RecoveryInv'
  <2> SUFFICES ASSUME "restart" \notin slips' PROVE RecoveryInv'
    BY DEF RecoveryInv
  <2>1. /\ \A q \in Recoveries : resets[q] <= 1 /\ (resets[q] = 1 => q \in usedJtis)
        /\ \A u \in Visits : visit[u].pc = "update" =>
             visit[u].item \in usedJtis /\ resets[visit[u].item] = 0
        /\ \A u, w \in Visits : visit[u].pc = "update" /\ visit[w].pc = "update"
                                /\ visit[u].item = visit[w].item => u = w
    BY <1>1, <1>3 DEF RecoveryInv
  <2>2. resets[r] = 0 /\ r \in usedJtis
    BY <1>2, <2>1
  <2>3. visit'[v].pc = "done" /\ \A u \in Visits \ {v} : visit'[u] = visit[u]
    BY <1>4 DEF OneVisit
  <2>4. \A u \in Visits \ {v} : visit[u].pc = "update" => visit[u].item # r
    BY <1>2, <2>1
  <2>5. \A q \in Recoveries : resets'[q] <= 1 /\ (resets'[q] = 1 => q \in usedJtis')
    BY <1>3, <1>7, <2>1, <2>2
  <2>6. ASSUME NEW u \in Visits, visit'[u].pc = "update"
        PROVE  visit'[u].item \in usedJtis' /\ resets'[visit'[u].item] = 0
    <3>1. u # v /\ visit'[u] = visit[u] /\ visit[u].item \in Recoveries
      BY <1>1, <2>3, <2>6 DEF VisitOK
    <3> QED
      BY <1>3, <1>7, <2>1, <2>4, <2>6, <3>1
  <2> QED
    BY <2>1, <2>3, <2>5, <2>6 DEF RecoveryInv
<1> QED
  BY <1>3, <1>8, <1>9, <1>10, <1>11 DEF SessionInv

(* A nonce that was not drawn before has not been accepted, and no         *)
(* verification that found it is under way.                                *)
LEMMA CreateNonceKeeps ==
  ASSUME SessionInv, NEW v \in Visits, NEW n \in Nonces, S!CreateNonce(v, n)
  PROVE  SessionInv' /\ slips \subseteq slips'
<1>1. S!SessionTypeOK /\ VisitOK /\ OutInv /\ RecoveryInv /\ NonceInv
  BY DEF SessionInv
<1>2. PICK x : OneVisit(v, x) /\ x.pc = "done"
  BY <1>1, VisitLeaves DEF S!CreateNonce
<1>3. /\ UNCHANGED <<revoked, writes, usedJtis, toldOut, late, lost, resets, accepted>>
      /\ ~nonce[n].issued
  BY DEF S!CreateNonce, S!sessionHistory
<1>4. slips \subseteq slips'
  BY StumbleSlips DEF S!CreateNonce
<1>5. PICK y \in [mem : BOOLEAN, db : {"none", "unused", "used"}, issued : BOOLEAN] :
        nonce' = [nonce EXCEPT ![n] = y] /\ y.issued = TRUE
  <2>1. [mem |-> TRUE, db |-> "unused", issued |-> TRUE]
          \in [mem : BOOLEAN, db : {"none", "unused", "used"}, issued : BOOLEAN]
    OBVIOUS
  <2>2. [mem |-> TRUE, db |-> "none", issued |-> TRUE]
          \in [mem : BOOLEAN, db : {"none", "unused", "used"}, issued : BOOLEAN]
    OBVIOUS
  <2> QED
    BY <2>1, <2>2 DEF S!CreateNonce
<1>6. nonce' \in [Nonces -> [mem : BOOLEAN, db : {"none", "unused", "used"}, issued : BOOLEAN]]
      /\ nonce'[n].issued /\ \A m \in Nonces \ {n} : nonce'[m] = nonce[m]
  BY <1>1, <1>5 DEF S!SessionTypeOK
<1>7. VisitOK'
  BY <1>1, <1>2, <1>3 DEF VisitOK, OneVisit, Verifies
<1>8. S!SessionTypeOK'
  BY <1>1, <1>3, <1>6, <1>7 DEF S!SessionTypeOK, VisitOK, VisitRecords
<1>9. OutInv' /\ RecoveryInv'
  BY <1>1, <1>2, <1>3, <1>4, OutFrame, RecoveryFrame DEF OneVisit
<1>10. \A u \in Visits : Verifies(u)' => visit'[u] = visit[u] /\ Verifies(u) /\ visit[u].item \in Nonces
  BY <1>1, <1>2 DEF OneVisit, Verifies, VisitOK
<1>11. \A u \in Visits : Verifies(u) /\ (visit[u].pc = "mark" \/ visit[u].seen = "unused") =>
         visit[u].item # n
  BY <1>1, <1>3 DEF NonceInv
<1>12. NonceInv'
  <2>1. \A m \in Nonces : nonce'[m].mem \/ nonce'[m].db # "none" => nonce'[m].issued
    BY <1>1, <1>6 DEF NonceInv
  <2>2. ASSUME NEW u \in Visits
        PROVE  /\ Verifies(u)' /\ visit'[u].seen = "unused" => nonce'[visit'[u].item].issued
               /\ visit'[u].pc = "mark" => nonce'[visit'[u].item].issued
    BY <1>1, <1>6, <1>10 DEF NonceInv, Verifies
  <2>3. ASSUME {"overlap", "nonceMark"} \cap slips' = {}
        PROVE  /\ \A u, w \in Visits : Verifies(u)' /\ Verifies(w)' /\ visit'[u].item = visit'[w].item => u = w
               /\ \A m \in Nonces :
                    \/ accepted'[m] = 0
                    \/ accepted'[m] = 1 /\ nonce'[m].issued /\ ~nonce'[m].mem /\ nonce'[m].db # "unused"
               /\ \A u \in Visits :
                    /\ visit'[u].pc = "mark" => accepted'[visit'[u].item] = 0 /\ ~nonce'[visit'[u].item].mem
                    /\ visit'[u].pc = "seen" /\ visit'[u].seen = "unused" => accepted'[visit'[u].item] = 0
    <3>1. {"overlap", "nonceMark"} \cap slips = {}
      BY <1>4, <2>3
    <3>2. accepted[n] = 0
      BY <1>1, <1>3, <3>1 DEF NonceInv
    <3>3. \A u, w \in Visits : Verifies(u)' /\ Verifies(w)' /\ visit'[u].item = visit'[w].item => u = w
      BY <1>1, <1>10, <3>1 DEF NonceInv
    <3>4. \A m \in Nonces :
            \/ accepted'[m] = 0
            \/ accepted'[m] = 1 /\ nonce'[m].issued /\ ~nonce'[m].mem /\ nonce'[m].db # "unused"
      BY <1>1, <1>3, <1>6, <3>1, <3>2 DEF NonceInv
    <3>5. ASSUME NEW u \in Visits
          PROVE  /\ visit'[u].pc = "mark" => accepted'[visit'[u].item] = 0 /\ ~nonce'[visit'[u].item].mem
                 /\ visit'[u].pc = "seen" /\ visit'[u].seen = "unused" => accepted'[visit'[u].item] = 0
      <4>1. visit'[u].pc = "mark" => Verifies(u)' /\ visit[u].pc = "mark" /\ visit'[u] = visit[u]
                                      /\ visit[u].item \in Nonces \ {n}
        BY <1>10, <1>11 DEF Verifies
      <4>2. visit'[u].pc = "seen" => visit'[u] = visit[u]
        BY <1>10 DEF Verifies
      <4> QED
        BY <1>1, <1>3, <1>6, <3>1, <4>1, <4>2 DEF NonceInv
    <3> QED
      BY <3>3, <3>4, <3>5
  <2> QED
    BY <2>1, <2>2, <2>3 DEF NonceInv
<1> QED
  BY <1>4, <1>7, <1>8, <1>9, <1>12 DEF SessionInv

LEMMA ReadNonceKeeps ==
  ASSUME SessionInv, NEW v \in Visits, NEW n \in Nonces, S!ReadNonce(v, n)
  PROVE  SessionInv' /\ slips \subseteq slips' /\ faults' \in {faults, faults + 1}
<1>1. S!SessionTypeOK /\ VisitOK /\ OutInv /\ RecoveryInv /\ NonceInv
  BY DEF SessionInv
<1>2. PICK failed \in BOOLEAN :
        /\ visit' = [visit EXCEPT ![v] = [pc |-> "seen", item |-> n,
                                          seen |-> IF failed THEN "none" ELSE nonce[n].db]]
        /\ faults' = (IF failed THEN faults + 1 ELSE faults)
        /\ slips' = (IF S!Overlaps(n, v) THEN slips \cup {"overlap"} ELSE slips)
  BY DEF S!ReadNonce
<1> DEFINE x == [pc |-> "seen", item |-> n, seen |-> IF failed THEN "none" ELSE nonce[n].db]
<1>3. /\ UNCHANGED <<revoked, writes, usedJtis, nonce, toldOut, late, lost, resets, accepted>>
      /\ slips \subseteq slips' /\ faults' \in {faults, faults + 1} /\ visit[v].pc = "new"
  BY <1>2 DEF S!ReadNonce, S!sessionHistory
<1>4. /\ x \in VisitRecords /\ x.pc = "seen" /\ x.item = n
      /\ x.seen = "unused" => nonce[n].db = "unused"
  BY <1>1 DEF VisitRecords, S!VisitSteps, S!SessionTypeOK
<1>5. visit' = [visit EXCEPT ![v] = x]
  BY <1>2
<1> HIDE DEF x
<1>6. OneVisit(v, x)
  BY <1>1, <1>4, <1>5, VisitIs
<1>7. VisitOK'
  BY <1>1, <1>3, <1>4, <1>6 DEF VisitOK, OneVisit, Verifies
<1>8. S!SessionTypeOK'
  BY <1>1, <1>3, <1>7 DEF S!SessionTypeOK, VisitOK, VisitRecords
<1>9. OutInv' /\ RecoveryInv'
  BY <1>1, <1>3, <1>4, <1>6, OutFrame, RecoveryFrame DEF OneVisit
<1>10. visit'[v] = x /\ \A u \in Visits \ {v} : visit'[u] = visit[u]
  BY <1>6 DEF OneVisit
<1>11. NonceInv'
  <2>1. \A m \in Nonces : nonce'[m].mem \/ nonce'[m].db # "none" => nonce'[m].issued
    BY <1>1, <1>3 DEF NonceInv
  <2>2. nonce[n].db = "unused" => nonce[n].issued
    BY <1>1 DEF NonceInv
  <2>3. ASSUME NEW u \in Visits
        PROVE  /\ Verifies(u)' /\ visit'[u].seen = "unused" => nonce'[visit'[u].item].issued
               /\ visit'[u].pc = "mark" => nonce'[visit'[u].item].issued
    <3>1. CASE u = v
      BY <1>3, <1>4, <1>10, <2>2, <3>1
    <3>2. CASE u # v
      BY <1>1, <1>3, <1>10, <3>2 DEF NonceInv, Verifies
    <3> QED
      BY <3>1, <3>2
  <2>4. ASSUME {"overlap", "nonceMark"} \cap slips' = {}
        PROVE  /\ \A u, w \in Visits : Verifies(u)' /\ Verifies(w)' /\ visit'[u].item = visit'[w].item => u = w
               /\ \A m \in Nonces :
                    \/ accepted'[m] = 0
                    \/ accepted'[m] = 1 /\ nonce'[m].issued /\ ~nonce'[m].mem /\ nonce'[m].db # "unused"
               /\ \A u \in Visits :
                    /\ visit'[u].pc = "mark" => accepted'[visit'[u].item] = 0 /\ ~nonce'[visit'[u].item].mem
                    /\ visit'[u].pc = "seen" /\ visit'[u].seen = "unused" => accepted'[visit'[u].item] = 0
    <3>1. {"overlap", "nonceMark"} \cap slips = {} /\ ~S!Overlaps(n, v)
      BY <1>2, <1>3, <2>4
    <3>2. \A u \in Visits \ {v} : Verifies(u) => visit[u].item # n
      BY <3>1 DEF S!Overlaps, Verifies
    <3>3. ASSUME NEW u \in Visits, NEW w \in Visits,
                 Verifies(u)', Verifies(w)', visit'[u].item = visit'[w].item
          PROVE  u = w
      <4>1. u # v => Verifies(u) /\ visit'[u].item # n /\ visit'[u] = visit[u]
        BY <1>10, <3>2, <3>3 DEF Verifies
      <4>2. w # v => Verifies(w) /\ visit'[w].item # n /\ visit'[w] = visit[w]
        BY <1>10, <3>2, <3>3 DEF Verifies
      <4>3. visit'[v].item = n
        BY <1>4, <1>10
      <4> QED
        BY <1>1, <3>1, <3>3, <4>1, <4>2, <4>3 DEF NonceInv
    <3>4. nonce[n].db = "unused" => accepted[n] = 0
      BY <1>1, <3>1 DEF NonceInv
    <3>5. ASSUME NEW u \in Visits
          PROVE  /\ visit'[u].pc = "mark" => accepted'[visit'[u].item] = 0 /\ ~nonce'[visit'[u].item].mem
                 /\ visit'[u].pc = "seen" /\ visit'[u].seen = "unused" => accepted'[visit'[u].item] = 0
      <4>1. CASE u = v
        BY <1>3, <1>4, <1>10, <3>4, <4>1
      <4>2. CASE u # v
        BY <1>1, <1>3, <1>10, <3>1, <4>2 DEF NonceInv
      <4> QED
        BY <4>1, <4>2
    <3> QED
      BY <1>1, <1>3, <3>1, <3>3, <3>5 DEF NonceInv
  <2> QED
    BY <2>1, <2>3, <2>4 DEF NonceInv
<1> QED
  BY <1>3, <1>7, <1>8, <1>9, <1>11 DEF SessionInv

(* What a verification accepts was not accepted before: its row said so,   *)
(* or the memory, from which the nonce is taken now.                       *)
LEMMA AcceptNonceKeeps ==
  ASSUME SessionInv, NEW v \in Visits, S!AcceptNonce(v)
  PROVE  SessionInv' /\ slips \subseteq slips'
<1>1. S!SessionTypeOK /\ VisitOK /\ OutInv /\ RecoveryInv /\ NonceInv
  BY DEF SessionInv
<1>2. PICK n \in Nonces : n = visit[v].item /\ visit[v].pc = "seen"
  BY <1>1 DEF S!AcceptNonce, VisitOK, Verifies
<1>3. UNCHANGED <<revoked, writes, usedJtis, toldOut, late, lost, resets, accepted>> /\ slips' = slips
  BY DEF S!AcceptNonce, S!sessionHistory, S!Steady
<1>4. CASE /\ S!Acceptable(v)
           /\ nonce' = [nonce EXCEPT ![visit[v].item].mem = FALSE]
           /\ S!VisitGoto(v, "mark")
  <2>1. PICK x : OneVisit(v, x) /\ x.pc = "mark" /\ x.item = n /\ x.seen = visit[v].seen
    <3>1. "mark" \in S!VisitSteps
      BY DEF S!VisitSteps
    <3> QED
      BY <1>1, <1>2, <1>4, <3>1, VisitGoes
  <2>2. /\ nonce' \in [Nonces -> [mem : BOOLEAN, db : {"none", "unused", "used"}, issued : BOOLEAN]]
        /\ nonce'[n].mem = FALSE /\ nonce'[n].db = nonce[n].db /\ nonce'[n].issued = nonce[n].issued
        /\ \A m \in Nonces \ {n} : nonce'[m] = nonce[m]
    BY <1>1, <1>2, <1>4 DEF S!SessionTypeOK
  <2>3. VisitOK'
    BY <1>1, <1>2, <1>3, <2>1 DEF VisitOK, OneVisit, Verifies
  <2>4. S!SessionTypeOK'
    BY <1>1, <1>3, <2>2, <2>3 DEF S!SessionTypeOK, VisitOK, VisitRecords
  <2>5. OutInv' /\ RecoveryInv'
    BY <1>1, <1>3, <2>1, OutFrame, RecoveryFrame DEF OneVisit
  <2>6. /\ visit'[v].pc = "mark" /\ visit'[v].item = n /\ visit'[v].seen = visit[v].seen
        /\ \A u \in Visits \ {v} : visit'[u] = visit[u]
    BY <2>1 DEF OneVisit
  <2>7. nonce[n].issued /\ (visit[v].seen = "unused" \/ nonce[n].mem)
    BY <1>1, <1>2, <1>4 DEF NonceInv, S!Acceptable, Verifies
  <2>8. \A u \in Visits : /\ Verifies(u)' => Verifies(u) /\ visit'[u].item = visit[u].item
                                              /\ visit'[u].seen = visit[u].seen
                                              /\ visit[u].item \in Nonces
                          /\ u # v => visit'[u] = visit[u]
    BY <1>1, <1>2, <2>6 DEF Verifies, VisitOK
  <2>9. NonceInv'
    <3>1. \A m \in Nonces : nonce'[m].mem \/ nonce'[m].db # "none" => nonce'[m].issued
      BY <1>1, <2>2 DEF NonceInv
    <3>2. \A m \in Nonces : nonce[m].issued => nonce'[m].issued
      BY <2>2
    <3>3. ASSUME NEW u \in Visits
          PROVE  /\ Verifies(u)' /\ visit'[u].seen = "unused" => nonce'[visit'[u].item].issued
                 /\ visit'[u].pc = "mark" => nonce'[visit'[u].item].issued
      <4>1. CASE u = v
        BY <2>6, <2>7, <3>2, <4>1
      <4>2. CASE u # v
        BY <1>1, <2>8, <3>2, <4>2 DEF NonceInv, Verifies
      <4> QED
        BY <4>1, <4>2
    <3>4. ASSUME {"overlap", "nonceMark"} \cap slips' = {}
          PROVE  /\ \A u, w \in Visits : Verifies(u)' /\ Verifies(w)' /\ visit'[u].item = visit'[w].item => u = w
                 /\ \A m \in Nonces :
                      \/ accepted'[m] = 0
                      \/ accepted'[m] = 1 /\ nonce'[m].issued /\ ~nonce'[m].mem /\ nonce'[m].db # "unused"
                 /\ \A u \in Visits :
                      /\ visit'[u].pc = "mark" => accepted'[visit'[u].item] = 0 /\ ~nonce'[visit'[u].item].mem
                      /\ visit'[u].pc = "seen" /\ visit'[u].seen = "unused" => accepted'[visit'[u].item] = 0
      <4>1. {"overlap", "nonceMark"} \cap slips = {}
        BY <1>3, <3>4
      <4>2. \A u, w \in Visits : Verifies(u)' /\ Verifies(w)' /\ visit'[u].item = visit'[w].item => u = w
        BY <1>1, <2>8, <4>1 DEF NonceInv
      <4>3. accepted[n] = 0
        BY <1>1, <1>2, <2>7, <4>1 DEF NonceInv
      <4>4. \A m \in Nonces :
              \/ accepted'[m] = 0
              \/ accepted'[m] = 1 /\ nonce'[m].issued /\ ~nonce'[m].mem /\ nonce'[m].db # "unused"
        BY <1>1, <1>3, <2>2, <4>1, <4>3 DEF NonceInv
      <4>5. ASSUME NEW u \in Visits
            PROVE  /\ visit'[u].pc = "mark" => accepted'[visit'[u].item] = 0 /\ ~nonce'[visit'[u].item].mem
                   /\ visit'[u].pc = "seen" /\ visit'[u].seen = "unused" => accepted'[visit'[u].item] = 0
        <5>1. CASE u = v
          BY <1>3, <2>2, <2>6, <4>3, <5>1
        <5>2. CASE u # v
          <6>1. visit'[u] = visit[u]
            BY <2>8, <5>2
          <6>2. ASSUME visit[u].pc = "mark"
                PROVE  accepted[visit[u].item] = 0 /\ ~nonce[visit[u].item].mem /\ visit[u].item \in Nonces
            BY <1>1, <4>1, <6>2 DEF NonceInv, VisitOK, Verifies
          <6>3. \A m \in Nonces : ~nonce[m].mem => ~nonce'[m].mem
            BY <2>2
          <6> QED
            BY <1>1, <1>3, <4>1, <6>1, <6>2, <6>3 DEF NonceInv
        <5> QED
          BY <5>1, <5>2
      <4> QED
        BY <4>2, <4>4, <4>5
    <3> QED
      BY <3>1, <3>3, <3>4 DEF NonceInv
  <2> QED
    BY <1>3, <2>3, <2>4, <2>5, <2>9 DEF SessionInv
<1>5. CASE S!Leave(v) /\ UNCHANGED nonce
  <2>1. PICK x : OneVisit(v, x) /\ x.pc = "done"
    BY <1>1, <1>5, VisitLeaves
  <2>2. VisitOK'
    BY <1>1, <1>3, <2>1 DEF VisitOK, OneVisit, Verifies
  <2>3. S!SessionTypeOK'
    BY <1>1, <1>3, <1>5, <2>2 DEF S!SessionTypeOK, VisitOK, VisitRecords
  <2>4. OutInv' /\ RecoveryInv' /\ NonceInv'
    BY <1>1, <1>3, <1>5, <2>1, OutFrame, RecoveryFrame, NonceFrame DEF OneVisit
  <2> QED
    BY <1>3, <2>2, <2>3, <2>4 DEF SessionInv
<1> QED
  BY <1>4, <1>5 DEF S!AcceptNonce

(* An accepted nonce is out of memory and its row is not unused any more.  *)
LEMMA MarkNonceKeeps ==
  ASSUME SessionInv, NEW v \in Visits, S!MarkNonce(v)
  PROVE  SessionInv' /\ slips \subseteq slips'
<1>1. S!SessionTypeOK /\ VisitOK /\ OutInv /\ RecoveryInv /\ NonceInv
  BY DEF SessionInv
<1>2. PICK n \in Nonces : n = visit[v].item /\ visit[v].pc = "mark"
  BY <1>1 DEF S!MarkNonce, VisitOK, Verifies
<1>3. /\ UNCHANGED <<revoked, writes, usedJtis, toldOut, late, lost, resets>>
      /\ accepted' = [accepted EXCEPT ![n] = @ + 1] /\ S!Leave(v)
      /\ \/ nonce' = [nonce EXCEPT ![n].db = S!Marked(@)] /\ S!Steady
         \/ S!Stumble("nonceMark") /\ UNCHANGED nonce
  BY <1>2 DEF S!MarkNonce
<1>4. PICK x : OneVisit(v, x) /\ x.pc = "done"
  BY <1>1, <1>3, VisitLeaves
<1>5. slips \subseteq slips'
  BY <1>3, StumbleSlips
<1>6. /\ nonce' \in [Nonces -> [mem : BOOLEAN, db : {"none", "unused", "used"}, issued : BOOLEAN]]
      /\ \A m \in Nonces : /\ nonce'[m].mem = nonce[m].mem /\ nonce'[m].issued = nonce[m].issued
                           /\ (nonce'[m].db = "none" <=> nonce[m].db = "none")
                           /\ m # n => nonce'[m] = nonce[m]
      /\ nonce'[n].db = "unused" => "nonceMark" \in slips'
  BY <1>1, <1>3 DEF S!SessionTypeOK, S!Marked, S!Stumble, S!Steady
<1>7. /\ accepted' \in [Nonces -> Nat] /\ accepted'[n] = accepted[n] + 1
      /\ \A m \in Nonces \ {n} : accepted'[m] = accepted[m]
  BY <1>1, <1>3 DEF VisitOK
<1>8. VisitOK'
  BY <1>1, <1>3, <1>4, <1>7 DEF VisitOK, OneVisit, Verifies
<1>9. S!SessionTypeOK'
  BY <1>1, <1>3, <1>6, <1>8 DEF S!SessionTypeOK, VisitOK, VisitRecords
<1>10. OutInv' /\ RecoveryInv'
  BY <1>1, <1>3, <1>4, <1>5, OutFrame, RecoveryFrame DEF OneVisit
<1>11. \A u \in Visits : Verifies(u)' => u # v /\ visit'[u] = visit[u] /\ Verifies(u) /\ visit[u].item \in Nonces
  BY <1>1, <1>4 DEF OneVisit, Verifies, VisitOK
<1>12. NonceInv'
  <2>1. \A m \in Nonces : nonce'[m].mem \/ nonce'[m].db # "none" => nonce'[m].issued
    BY <1>1, <1>6 DEF NonceInv
  <2>2. ASSUME NEW u \in Visits, Verifies(u)'
        PROVE  /\ visit'[u].seen = "unused" => nonce'[visit'[u].item].issued
               /\ visit'[u].pc = "mark" => nonce'[visit'[u].item].issued
    <3>1. visit'[u] = visit[u] /\ Verifies(u) /\ visit[u].item \in Nonces
      BY <1>11, <2>2
    <3> QED
      BY <1>1, <1>6, <3>1 DEF NonceInv
  <2>3. ASSUME NEW u \in Visits, visit'[u].pc = "mark" PROVE Verifies(u)'
    BY <2>3 DEF Verifies
  <2>4. ASSUME {"overlap", "nonceMark"} \cap slips' = {}
        PROVE  /\ \A u, w \in Visits : Verifies(u)' /\ Verifies(w)' /\ visit'[u].item = visit'[w].item => u = w
               /\ \A m \in Nonces :
                    \/ accepted'[m] = 0
                    \/ accepted'[m] = 1 /\ nonce'[m].issued /\ ~nonce'[m].mem /\ nonce'[m].db # "unused"
               /\ \A u \in Visits :
                    /\ visit'[u].pc = "mark" => accepted'[visit'[u].item] = 0 /\ ~nonce'[visit'[u].item].mem
                    /\ visit'[u].pc = "seen" /\ visit'[u].seen = "unused" => accepted'[visit'[u].item] = 0
    <3>1. {"overlap", "nonceMark"} \cap slips = {}
      BY <1>5, <2>4
    <3>2. accepted[n] = 0 /\ ~nonce[n].mem /\ nonce[n].issued /\ nonce'[n].db # "unused"
      BY <1>1, <1>2, <1>6, <2>4, <3>1 DEF NonceInv
    <3>3. \A u, w \in Visits : Verifies(u)' /\ Verifies(w)' /\ visit'[u].item = visit'[w].item => u = w
      BY <1>1, <1>11, <3>1 DEF NonceInv
    <3>4. ASSUME NEW m \in Nonces
          PROVE  \/ accepted'[m] = 0
                 \/ accepted'[m] = 1 /\ nonce'[m].issued /\ ~nonce'[m].mem /\ nonce'[m].db # "unused"
      <4>1. CASE m = n
        BY <1>6, <1>7, <3>2, <4>1
      <4>2. CASE m # n
        BY <1>1, <1>6, <1>7, <3>1, <4>2 DEF NonceInv
      <4> QED
        BY <4>1, <4>2
    <3>5. ASSUME NEW u \in Visits, Verifies(u)'
          PROVE  /\ visit'[u].pc = "mark" => accepted'[visit'[u].item] = 0 /\ ~nonce'[visit'[u].item].mem
                 /\ visit'[u].pc = "seen" /\ visit'[u].seen = "unused" => accepted'[visit'[u].item] = 0
      <4>1. u # v /\ visit'[u] = visit[u] /\ Verifies(u) /\ visit[u].item \in Nonces
        BY <1>11, <3>5
      <4>2. visit[u].item # n
        BY <1>1, <1>2, <3>1, <4>1 DEF NonceInv, Verifies
      <4>3. /\ visit[u].pc = "mark" => accepted[visit[u].item] = 0 /\ ~nonce[visit[u].item].mem
            /\ visit[u].pc = "seen" /\ visit[u].seen = "unused" => accepted[visit[u].item] = 0
        BY <1>1, <3>1 DEF NonceInv
      <4> QED
        BY <1>6, <1>7, <4>1, <4>2, <4>3
    <3>6. ASSUME NEW u \in Visits, visit'[u].pc \in {"seen", "mark"} PROVE Verifies(u)'
      BY <3>6 DEF Verifies
    <3> QED
      BY <3>3, <3>4, <3>5, <3>6
  <2> QED
    BY <2>1, <2>2, <2>3, <2>4 DEF NonceInv
<1> QED
  BY <1>5, <1>8, <1>9, <1>10, <1>12 DEF SessionInv

(* The memory is gone: what was lost is written down, recoveries are no    *)
(* longer promised anything, and no verification is under way.             *)
LEMMA SessionRestartKeeps ==
  ASSUME SessionInv, S!SessionRestart, slips \subseteq slips', "restart" \in slips'
  PROVE  SessionInv'
<1>1. S!SessionTypeOK /\ VisitOK /\ OutInv /\ RecoveryInv /\ NonceInv
  BY DEF SessionInv
<1>2. PICK arrived \in SUBSET writes :
        /\ revoked' = [mem |-> {}, db |-> revoked.db \cup arrived]
        /\ lost' = lost \cup (toldOut \ (revoked.db \cup arrived))
  BY DEF S!SessionRestart
<1>3. /\ writes' = {} /\ usedJtis' = {} /\ UNCHANGED <<toldOut, late, resets, accepted>>
      /\ nonce' = [n \in Nonces |-> [nonce[n] EXCEPT !.mem = FALSE]]
      /\ visit' = [v \in Visits |-> IF visit[v].pc = "new" THEN S!NoVisit
                                    ELSE [S!NoVisit EXCEPT !.pc = "done"]]
  BY DEF S!SessionRestart
<1>4. /\ nonce' \in [Nonces -> [mem : BOOLEAN, db : {"none", "unused", "used"}, issued : BOOLEAN]]
      /\ \A n \in Nonces : ~nonce'[n].mem /\ nonce'[n].db = nonce[n].db /\ nonce'[n].issued = nonce[n].issued
  BY <1>1, <1>3 DEF S!SessionTypeOK
<1>5. /\ visit' \in [Visits -> VisitRecords]
      /\ \A v \in Visits : visit'[v].pc \in {"new", "done"}
  BY <1>3 DEF VisitRecords, S!VisitSteps, S!NoVisit
<1>6. VisitOK'
  BY <1>1, <1>3, <1>5 DEF VisitOK, Verifies
<1>7. S!SessionTypeOK'
  BY <1>1, <1>2, <1>3, <1>4, <1>6 DEF S!SessionTypeOK, VisitOK, VisitRecords
<1>8. OutInv'
  BY <1>1, <1>2, <1>3 DEF OutInv
<1>9. RecoveryInv'
  BY DEF RecoveryInv
<1>10. NonceInv'
  <2>1. {"overlap", "nonceMark"} \cap slips' = {} => {"overlap", "nonceMark"} \cap slips = {}
    OBVIOUS
  <2>2. \A v \in Visits : ~Verifies(v)' /\ visit'[v].pc # "mark" /\ visit'[v].pc # "seen"
    BY <1>5 DEF Verifies
  <2>3. \A n \in Nonces : nonce'[n].mem \/ nonce'[n].db # "none" => nonce'[n].issued
    BY <1>1, <1>4 DEF NonceInv
  <2>4. {"overlap", "nonceMark"} \cap slips' = {} =>
          \A n \in Nonces :
            \/ accepted'[n] = 0
            \/ accepted'[n] = 1 /\ nonce'[n].issued /\ ~nonce'[n].mem /\ nonce'[n].db # "unused"
    BY <1>1, <1>3, <1>4, <2>1 DEF NonceInv
  <2> QED
    BY <2>2, <2>3, <2>4 DEF NonceInv
<1> QED
  BY <1>6, <1>7, <1>8, <1>9, <1>10 DEF SessionInv

(* A step that is none of the sessions'.                                   *)
LEMMA SessionFrame ==
  ASSUME SessionInv, UNCHANGED sessionVars, slips \subseteq slips'
  PROVE  SessionInv'
<1>1. S!SessionTypeOK /\ VisitOK /\ OutInv /\ RecoveryInv /\ NonceInv
  BY DEF SessionInv
<1>2. UNCHANGED <<revoked, writes, usedJtis, nonce, visit, toldOut, late, lost, resets, accepted>>
  BY DEF sessionVars
<1>3. VisitOK' /\ S!SessionTypeOK'
  BY <1>1, <1>2 DEF VisitOK, Verifies, S!SessionTypeOK
<1>4. OutInv' /\ RecoveryInv' /\ NonceInv'
  BY <1>1, <1>2, OutFrame, RecoveryFrame, NonceFrame
<1> QED
  BY <1>3, <1>4 DEF SessionInv

LEMMA SessionStepKeeps ==
  ASSUME SessionInv, SessionStep
  PROVE  SessionInv' /\ slips \subseteq slips' /\ faults' \in {faults, faults + 1}
<1> DEFINE Goal == SessionInv' /\ slips \subseteq slips' /\ faults' \in {faults, faults + 1}
<1>1. ASSUME NEW v \in Visits, NEW t \in Tokens, S!SignOut(v, t) \/ S!AdminSignOut(v, t) PROVE Goal
  <2>1. faults' = faults
    BY <1>1 DEF S!SignOut, S!AdminSignOut, S!Steady
  <2> QED
    BY <1>1, <2>1, SignOutKeeps, AdminSignOutKeeps
<1>2. ASSUME NEW v \in Visits, NEW r \in Recoveries, S!ResetPassword(v, r) PROVE Goal
  <2>1. faults' = faults
    BY <1>2 DEF S!ResetPassword, S!Steady
  <2> QED
    BY <1>2, <2>1, ResetPasswordKeeps
<1>3. ASSUME NEW v \in Visits, NEW n \in Nonces, S!CreateNonce(v, n) \/ S!ReadNonce(v, n) PROVE Goal
  <2>1. CASE S!CreateNonce(v, n)
    <3>1. faults' \in {faults, faults + 1}
      BY <2>1, StumbleSlips DEF S!CreateNonce
    <3> QED
      BY <2>1, <3>1, CreateNonceKeeps
  <2> QED
    BY <1>3, <2>1, ReadNonceKeeps
<1>4. ASSUME NEW v \in Visits,
             S!AdminSignedOut(v) \/ S!PasswordUpdated(v) \/ S!AcceptNonce(v) \/ S!MarkNonce(v)
      PROVE  Goal
  <2>1. faults' \in {faults, faults + 1}
    <3>1. S!AdminSignedOut(v) \/ S!PasswordUpdated(v) => faults' \in {faults, faults + 1}
      BY StumbleSlips DEF S!AdminSignedOut, S!PasswordUpdated
    <3>2. S!AcceptNonce(v) \/ S!MarkNonce(v) => faults' \in {faults, faults + 1}
      BY StumbleSlips DEF S!AcceptNonce, S!MarkNonce
    <3> QED
      BY <1>4, <3>1, <3>2
  <2> QED
    BY <1>4, <2>1, AdminSignedOutKeeps, PasswordUpdatedKeeps, AcceptNonceKeeps, MarkNonceKeeps
<1>5. ASSUME NEW h, S!WriteArrives(h) PROVE Goal
  <2>1. faults' = faults
    BY <1>5 DEF S!WriteArrives, S!Steady
  <2> QED
    BY <1>5, <2>1, WriteArrivesKeeps
<1>6. ASSUME NEW r, S!JtiWriteFails(r) PROVE Goal
  <2>1. faults' = faults + 1
    BY <1>6 DEF S!JtiWriteFails, S!Stumble
  <2> QED
    BY <1>6, <2>1, JtiWriteFailsKeeps
<1> QED
  BY <1>1, <1>2, <1>3, <1>4, <1>5, <1>6 DEF SessionStep

LEMMA InitSession ==
  ASSUME S!SessionInit
  PROVE  SessionInv
<1>1. /\ revoked = [mem |-> {}, db |-> {}] /\ writes = {} /\ usedJtis = {}
      /\ nonce = [n \in Nonces |-> [mem |-> FALSE, db |-> "none", issued |-> FALSE]]
      /\ visit = [v \in Visits |-> S!NoVisit]
      /\ toldOut = {} /\ late = {} /\ lost = {}
      /\ resets = [r \in Recoveries |-> 0]
      /\ accepted = [n \in Nonces |-> 0]
  BY DEF S!SessionInit
<1>2. VisitOK
  BY <1>1 DEF VisitOK, VisitRecords, S!VisitSteps, S!NoVisit, Verifies
<1>3. S!SessionTypeOK
  BY <1>1, <1>2 DEF S!SessionTypeOK, VisitOK, VisitRecords
<1>4. OutInv /\ RecoveryInv
  BY <1>1 DEF OutInv, RecoveryInv, S!NoVisit
<1>5. NonceInv
  BY <1>1 DEF NonceInv, S!NoVisit, Verifies
<1> QED
  BY <1>2, <1>3, <1>4, <1>5 DEF SessionInv
-----------------------------------------------------------------------------

(* Compliance.  A request at the desk goes on with a record of its own.    *)
BankKnown(b) == b = C!NoBank \/ b.v \in Banks
OneDesk(d, x) ==
  /\ x \in DeskRecords
  /\ desk' \in [Desk -> DeskRecords]
  /\ desk'[d] = x
  /\ \A e \in Desk \ {d} : desk'[e] = desk[e]
  /\ Fits(x)

LEMMA DeskIs ==
  ASSUME DeskOK, NEW d \in Desk, NEW x \in DeskRecords, desk' = [desk EXCEPT ![d] = x], Fits(x)
  PROVE  OneDesk(d, x)
BY DEF OneDesk, DeskOK

LEMMA DeskFinishes ==
  ASSUME DeskOK, NEW d \in Desk, C!Finish(d)
  PROVE  \E x : OneDesk(d, x) /\ x.pc = "done"
<1> DEFINE x == [C!NoDesk EXCEPT !.pc = "done"]
<1>1. x \in DeskRecords /\ x.pc = "done" /\ Fits(x)
  BY DEF C!NoDesk, DeskRecords, Fits
<1>2. desk' = [desk EXCEPT ![d] = x]
  BY DEF C!Finish
<1> HIDE DEF x
<1> QED
  BY <1>1, <1>2, DeskIs

LEMMA DeskKeeps ==
  ASSUME DeskOK, NEW d \in Desk, NEW x, OneDesk(d, x), BankKnown(bank.mem)', BankKnown(bank.db)'
  PROVE  DeskOK'
<1>1. desk' \in [Desk -> DeskRecords]
  BY DEF OneDesk
<1>2. ASSUME NEW e \in Desk PROVE Fits(desk'[e])
  BY DEF OneDesk, DeskOK
<1>3. \A b \in {bank'.mem, bank'.db} : b = C!NoBank \/ b.v \in Banks
  BY DEF BankKnown
<1> QED
  BY <1>1, <1>2, <1>3 DEF DeskOK

LEMMA BankStays ==
  ASSUME DeskOK, UNCHANGED bank
  PROVE  BankKnown(bank.mem)' /\ BankKnown(bank.db)'
BY DEF DeskOK, BankKnown

LEMMA DerivedType ==
  ASSUME NEW docs
  PROVE  C!Derived(docs) \in C!Statuses
BY DEF C!Derived, C!Statuses

(* What the status should be depends on the documents in memory alone, and *)
(* on whether a dossier's was the last word.                               *)
LEMMA StatedSame ==
  ASSUME doc'.mem = doc.mem, UNCHANGED declared
  PROVE  C!Stated' = C!Stated /\ C!Derived(doc'.mem) = C!Derived(doc.mem)
BY DEF C!Stated, C!Derived

LEMMA SlipGrows ==
  ASSUME NEW kind, C!Slip(kind) \/ C!InOrder
  PROVE  slips \subseteq slips' /\ faults' \in {faults, faults + 1}
BY DEF C!Slip, C!InOrder

LEMMA StillInStep ==
  ASSUME slips \subseteq slips'
  PROVE  /\ InMemory' => InMemory
         /\ InStep' => InStep /\ InMemory'
BY DEF InMemory, InStep

(* What leaves the documents, or the bank account, alone.                  *)
LEMMA DocsFrame ==
  ASSUME DocsInv, UNCHANGED <<status, updates, declared>>, doc'.mem = doc.mem, slips \subseteq slips',
         \A d \in Desk : \/ desk'[d] = desk[d]
                         \/ ~AtDocs(d) /\ ~AtDocs(d)'
  PROVE  DocsInv'
<1>1. /\ InMemory' => InMemory
      /\ InStep' => InStep
  BY StillInStep
<1>2. C!Stated' = C!Stated /\ C!Derived(doc'.mem) = C!Derived(doc.mem)
  BY StatedSame
<1>3. \A d \in Desk : /\ AtDocs(d)' <=> AtDocs(d)
                      /\ desk'[d].pc \in C!DocumentSteps => desk'[d] = desk[d]
                      /\ desk[d].pc \in C!DocumentSteps => desk'[d] = desk[d]
  BY DEF AtDocs
<1>4. Owing \subseteq C!DocumentSteps /\ Submitting \subseteq C!DocumentSteps
      /\ "dossier" \in C!DocumentSteps /\ "profileSent" \in C!DocumentSteps
  BY DEF Owing, Submitting, C!DocumentSteps
<1>5. Arrived' <=> Arrived
  BY DEF Arrived
<1>6. \A d \in Desk : desk'[d] = desk[d] => /\ Reviewing(d) => Reviewing(d)'
                                            /\ OneUpload(d) => OneUpload(d)'
  BY <1>3, <1>5 DEF Reviewing, OneUpload
<1>7. MemoryInv'
  BY <1>1, <1>2, <1>3, <1>4, <1>6 DEF DocsInv, MemoryInv
<1>8. ProfileInv'
  BY <1>1, <1>2, <1>3, <1>4, <1>5, <1>6 DEF DocsInv, ProfileInv
<1> QED
  BY <1>7, <1>8 DEF DocsInv

LEMMA BankFrame ==
  ASSUME BankInv, UNCHANGED bank, seen \subseteq seen', slips \subseteq slips',
         \A d \in Desk : desk'[d] = desk[d] \/ desk'[d].pc \notin {"opened", "bankReviewed"}
  PROVE  BankInv'
BY DEF BankInv

(* One that starts alone finds the documents quiet, and no review of a     *)
(* dossier goes on past one that starts.                                   *)
LEMMA StartsAlone ==
  ASSUME slips \cup C!Overtakes \subseteq slips'
  PROVE  /\ InStep' => InStep /\ Arrived /\ \A d \in Desk : ~AtDocs(d)
         /\ InMemory' => InMemory /\ \A d \in Desk : desk[d].pc # "dossier"
<1>1. InStep' => InStep /\ C!Quiet
  BY DEF InStep, C!Overtakes
<1>2. InMemory' => InMemory /\ \A d \in Desk : desk[d].pc # "dossier"
  BY DEF InMemory, C!Overtakes
<1> QED
  BY <1>1, <1>2 DEF C!Quiet, C!Idle, Arrived, AtDocs

LEMMA StartingSlips ==
  ASSUME NEW more, C!Starting(more)
  PROVE  /\ slips \cup C!Overtakes \subseteq slips' /\ more \subseteq slips' /\ slips \subseteq slips'
         /\ faults' = faults /\ declared' = (declared /\ ~C!Idle)
BY DEF C!Starting

LEMMA DocsStart ==
  ASSUME DocsInv, slips \cup C!Overtakes \subseteq slips', UNCHANGED <<status, updates>>,
         NEW d \in Desk, NEW x, OneDesk(d, x), x.pc \in Owing,
         declared' = (declared /\ ~C!Idle),
         InMemory' /\ x.pc = "dossier" => Reviewing(d)'
  PROVE  DocsInv'
<1>1. /\ InStep' => InStep /\ Arrived /\ \A e \in Desk : ~AtDocs(e)
      /\ InMemory' => InMemory /\ \A e \in Desk : desk[e].pc # "dossier"
  BY StartsAlone
<1>2. desk'[d] = x /\ \A e \in Desk \ {d} : desk'[e] = desk[e]
  BY DEF OneDesk
<1>3. x.pc \notin Submitting /\ x.pc # "profileSent" /\ AtDocs(d)'
  BY <1>2 DEF Owing, Submitting, AtDocs, C!DocumentSteps
<1>4. MemoryInv'
  <2> SUFFICES ASSUME InMemory' PROVE MemoryInv'
    BY DEF MemoryInv
  <2>1. \E e \in Desk : desk'[e].pc \in Owing
    BY <1>2
  <2>2. ASSUME NEW e \in Desk, desk'[e].pc \in Submitting PROVE declared'
    <3>1. e # d /\ desk[e].pc \in Submitting
      BY <1>2, <1>3, <2>2
    <3>2. declared /\ desk[e].pc \in C!DocumentSteps
      BY <1>1, <3>1 DEF DocsInv, MemoryInv, Submitting, C!DocumentSteps
    <3> QED
      BY <3>2 DEF C!Idle
  <2>3. ASSUME NEW e \in Desk, desk'[e].pc = "dossier" PROVE Reviewing(e)'
    BY <1>1, <1>2, <2>3
  <2> QED
    BY <2>1, <2>2, <2>3 DEF MemoryInv
<1>5. ProfileInv'
  <2> SUFFICES ASSUME InStep' PROVE ProfileInv'
    BY DEF ProfileInv
  <2>1. Arrived' /\ \A y \in C!Statuses : ~(updates'[y] > 0)
    BY <1>1 DEF Arrived
  <2>2. \A e \in Desk \ {d} : ~AtDocs(e)' /\ desk'[e].pc \notin Submitting /\ desk'[e].pc # "profileSent"
    BY <1>1, <1>2 DEF AtDocs, Submitting, C!DocumentSteps
  <2> QED
    BY <1>2, <1>3, <2>1, <2>2 DEF ProfileInv
<1> QED
  BY <1>4, <1>5 DEF DocsInv

(* The status is computed, when an operation is over or a document of a    *)
(* dossier is uploaded.                                                    *)
LEMMA DocsRecomputed ==
  ASSUME DocsInv, C!ComplianceTypeOK, slips \subseteq slips', UNCHANGED declared,
         NEW docs, C!Recompute(docs), doc'.mem = docs,
         NEW d \in Desk, AtDocs(d), desk[d].pc # "dossier", NEW x, OneDesk(d, x),
         InStep => Arrived,
         \/ x.pc = "done"
         \/ x.pc = "dossierSent" /\ desk[d].pc = "dossierSent" /\ (InStep => x.left = {} /\ x.rows = {})
  PROVE  DocsInv'
<1>1. /\ InMemory' => InMemory
      /\ InStep' => InStep
  BY StillInStep
<1>2. C!Derived(docs) \in C!Statuses
  BY DerivedType
<1>3. /\ status'.mem = C!Derived(docs)
      /\ \A y \in C!Statuses : updates'[y] = IF y = C!Derived(docs) THEN updates[y] + 1 ELSE updates[y]
      /\ C!Derived(doc'.mem) = C!Derived(docs) /\ C!Derived(docs) \in C!Stated'
  BY <1>2 DEF C!Recompute, C!ComplianceTypeOK, C!Stated, C!Derived
<1>4. desk'[d] = x /\ \A e \in Desk \ {d} : desk'[e] = desk[e]
  BY DEF OneDesk
<1>5. MemoryInv'
  <2> SUFFICES ASSUME InMemory' PROVE MemoryInv'
    BY DEF MemoryInv
  <2>1. status'.mem \in C!Stated'
    BY <1>3
  <2>2. ASSUME NEW e \in Desk
        PROVE  (desk'[e].pc \in Submitting => declared') /\ desk'[e].pc # "dossier"
    <3>1. (desk[e].pc \in Submitting => declared) /\ (desk[e].pc = "dossier" => d = e)
      BY <1>1 DEF DocsInv, MemoryInv, Reviewing
    <3> QED
      BY <1>4, <3>1 DEF Submitting
  <2> QED
    BY <2>1, <2>2 DEF MemoryInv
<1>6. ProfileInv'
  <2> SUFFICES ASSUME InStep' PROVE ProfileInv'
    BY DEF ProfileInv
  <2>1. \A y \in C!Statuses : updates'[y] > 0 => y = C!Derived(docs)
    BY <1>1, <1>3 DEF Arrived
  <2>2. ~Arrived'
    BY <1>1, <1>2, <1>3 DEF Arrived
  <2>3. \A e \in Desk \ {d} : ~AtDocs(e)
    BY <1>1 DEF DocsInv, ProfileInv
  <2>4. \A e \in Desk \ {d} : ~AtDocs(e)' /\ desk'[e].pc \notin Owing /\ desk'[e].pc \notin Submitting
                              /\ desk'[e].pc # "profileSent"
    BY <1>4, <2>3 DEF AtDocs, Owing, Submitting, C!DocumentSteps
  <2>5. /\ desk'[d].pc \notin Owing /\ desk'[d].pc # "profileSent"
        /\ desk'[d].pc \in Submitting => x.left = {} /\ x.rows = {}
    BY <1>1, <1>4 DEF Owing, Submitting
  <2>6. desk'[d].pc \in Submitting => OneUpload(d)'
    BY <1>4, <2>5 DEF OneUpload
  <2> QED
    BY <1>3, <2>1, <2>2, <2>4, <2>5, <2>6 DEF ProfileInv
<1> QED
  BY <1>5, <1>6 DEF DocsInv

(* An operation on the documents goes on without touching the statuses or  *)
(* the documents in memory.                                                *)
LEMMA DocsGoOn ==
  ASSUME DocsInv, UNCHANGED <<status, updates, declared>>, doc'.mem = doc.mem, slips \subseteq slips',
         NEW d \in Desk, NEW x, OneDesk(d, x),
         \/ {desk[d].pc, x.pc} \subseteq Owing \ {"dossier"}
         \/ /\ desk[d].pc = "dossier" /\ x.pc = "dossier"
            /\ x.left = desk[d].left /\ x.verdict = desk[d].verdict
         \/ /\ {desk[d].pc, x.pc} \subseteq Submitting
            /\ x.left \cup x.rows \subseteq desk[d].left \cup desk[d].rows
            /\ desk[d].left \cap desk[d].rows = {} => x.left \cap x.rows = {}
  PROVE  DocsInv'
<1>1. /\ InMemory' => InMemory
      /\ InStep' => InStep
  BY StillInStep
<1>2. C!Stated' = C!Stated /\ C!Derived(doc'.mem) = C!Derived(doc.mem)
  BY StatedSame
<1>3. desk'[d] = x /\ \A e \in Desk \ {d} : desk'[e] = desk[e]
  BY DEF OneDesk
<1>4. Arrived' <=> Arrived
  BY DEF Arrived
<1>5. \A e \in Desk : /\ AtDocs(e)' <=> AtDocs(e)
                      /\ desk'[e].pc \in Owing <=> desk[e].pc \in Owing
                      /\ desk'[e].pc \in Submitting <=> desk[e].pc \in Submitting
                      /\ desk'[e].pc = "dossier" <=> desk[e].pc = "dossier"
                      /\ desk'[e].pc = "profileSent" => desk'[e] = desk[e]
  BY <1>3 DEF AtDocs, Owing, Submitting, C!DocumentSteps
<1>6. ASSUME NEW e \in Desk, desk'[e].pc = "dossier", Reviewing(e) PROVE Reviewing(e)'
  <2>1. desk'[e].left = desk[e].left /\ desk'[e].verdict = desk[e].verdict
    BY <1>3, <1>6 DEF Owing, Submitting
  <2> QED
    BY <1>5, <1>6, <2>1 DEF Reviewing
<1>7. ASSUME NEW e \in Desk, desk'[e].pc \in Submitting, OneUpload(e) PROVE OneUpload(e)'
  <2>1. CASE e # d
    BY <1>3, <1>4, <1>7, <2>1 DEF OneUpload
  <2>2. CASE e = d
    <3>1. /\ x.left \cup x.rows \subseteq desk[d].left \cup desk[d].rows
          /\ x.left \cap x.rows = {}
      BY <1>3, <1>7, <2>2 DEF Owing, Submitting, OneUpload
    <3> QED
      BY <1>3, <1>4, <1>7, <2>2, <3>1 DEF OneUpload
  <2> QED
    BY <2>1, <2>2
<1>8. MemoryInv'
  BY <1>1, <1>2, <1>5, <1>6 DEF DocsInv, MemoryInv
<1>9. ProfileInv'
  BY <1>1, <1>2, <1>4, <1>5, <1>7 DEF DocsInv, ProfileInv
<1> QED
  BY <1>8, <1>9 DEF DocsInv

LEMMA UploadKeeps ==
  ASSUME ComplianceInv, NEW d \in Desk, NEW t \in DocTypes, C!Upload(d, t)
  PROVE  ComplianceInv' /\ slips \subseteq slips' /\ faults' \in {faults, faults + 1}
<1>1. C!ComplianceTypeOK /\ DeskOK /\ DocsInv /\ BankInv
  BY DEF ComplianceInv
<1> DEFINE x == [[desk[d] EXCEPT !.pc = "uploaded"] EXCEPT !.item = t]
<1>2. desk[d] \in DeskRecords /\ desk \in [Desk -> DeskRecords]
  BY <1>1 DEF DeskOK
<1>3. x \in DeskRecords /\ x.pc = "uploaded" /\ x.item = t
  BY <1>2 DEF DeskRecords, C!DocumentSteps
<1>4. desk' = [desk EXCEPT ![d] = x]
  BY <1>2 DEF C!Upload
<1> HIDE DEF x
<1>5. OneDesk(d, x)
  BY <1>1, <1>3, <1>4, DeskIs DEF Fits
<1>6. /\ UNCHANGED <<status, updates, bank, suspended, seen>> /\ C!Starting({})
      /\ doc' = [doc EXCEPT !.db[t] = "pending"]
  BY DEF C!Upload
<1>7. /\ slips \subseteq slips' /\ faults' = faults
      /\ slips \cup C!Overtakes \subseteq slips' /\ declared' = (declared /\ ~C!Idle)
  BY <1>6, StartingSlips
<1>8. DeskOK'
  BY <1>1, <1>5, <1>6, BankStays, DeskKeeps
<1>9. C!ComplianceTypeOK'
  BY <1>1, <1>6, <1>7 DEF C!ComplianceTypeOK, C!Docs
<1>10. DocsInv'
  BY <1>1, <1>3, <1>5, <1>6, <1>7, DocsStart DEF Owing
<1>11. BankInv'
  BY <1>1, <1>3, <1>5, <1>6, <1>7, BankFrame DEF OneDesk
<1> QED
  BY <1>7, <1>8, <1>9, <1>10, <1>11 DEF ComplianceInv

LEMMA UploadFailsKeeps ==
  ASSUME ComplianceInv, NEW d \in Desk, NEW t \in DocTypes, C!UploadFails(d, t)
  PROVE  ComplianceInv' /\ slips \subseteq slips' /\ faults' \in {faults, faults + 1}
<1>1. C!ComplianceTypeOK /\ DeskOK /\ DocsInv /\ BankInv
  BY DEF ComplianceInv
<1>2. PICK x : OneDesk(d, x) /\ x.pc = "done"
  BY <1>1, DeskFinishes DEF C!UploadFails
<1>3. /\ UNCHANGED <<status, updates, bank, suspended, seen, declared>> /\ desk[d].pc = "new"
      /\ doc' \in {doc, [doc EXCEPT !.db[t] = "pending"]}
  BY DEF C!UploadFails
<1>4. slips \subseteq slips' /\ faults' \in {faults, faults + 1}
  BY SlipGrows DEF C!UploadFails
<1>5. doc' \in [mem : C!Docs, db : C!Docs] /\ doc'.mem = doc.mem
  BY <1>1, <1>3 DEF C!ComplianceTypeOK, C!Docs
<1>6. DeskOK'
  BY <1>1, <1>2, <1>3, BankStays, DeskKeeps
<1>7. C!ComplianceTypeOK'
  BY <1>1, <1>3, <1>5 DEF C!ComplianceTypeOK
<1>8. DocsInv' /\ BankInv'
  BY <1>1, <1>2, <1>3, <1>4, <1>5, DocsFrame, BankFrame DEF OneDesk, AtDocs, C!DocumentSteps
<1> QED
  BY <1>4, <1>6, <1>7, <1>8 DEF ComplianceInv

LEMMA UploadedKeeps ==
  ASSUME ComplianceInv, NEW d \in Desk, C!Uploaded(d)
  PROVE  ComplianceInv' /\ slips \subseteq slips' /\ faults' \in {faults, faults + 1}
<1>1. C!ComplianceTypeOK /\ DeskOK /\ DocsInv /\ BankInv
  BY DEF ComplianceInv
<1> DEFINE docs == [doc.mem EXCEPT ![desk[d].item] = "pending"]
<1>2. PICK x : OneDesk(d, x) /\ x.pc = "done"
  BY <1>1, DeskFinishes DEF C!Uploaded
<1>3. /\ UNCHANGED <<bank, suspended, seen, declared>> /\ slips' = slips /\ faults' = faults
      /\ desk[d].pc = "uploaded" /\ C!Recompute(docs) /\ doc' = [doc EXCEPT !.mem = docs]
  BY DEF C!Uploaded, C!InOrder
<1>4. docs \in C!Docs
  BY <1>1 DEF C!ComplianceTypeOK, C!Docs
<1> HIDE DEF docs
<1>5. doc' \in [mem : C!Docs, db : C!Docs] /\ doc'.mem = docs
  BY <1>1, <1>3, <1>4 DEF C!ComplianceTypeOK
<1>6. DeskOK'
  BY <1>1, <1>2, <1>3, BankStays, DeskKeeps
<1>7. C!ComplianceTypeOK'
  BY <1>1, <1>3, <1>5, DerivedType DEF C!ComplianceTypeOK, C!Recompute
<1>8. AtDocs(d) /\ desk[d].pc # "dossier" /\ (InStep => Arrived)
  BY <1>1, <1>3 DEF DocsInv, ProfileInv, Owing, AtDocs, C!DocumentSteps
<1>9. DocsInv'
  BY <1>1, <1>2, <1>3, <1>5, <1>8, DocsRecomputed
<1>10. BankInv'
  BY <1>1, <1>2, <1>3, BankFrame DEF OneDesk
<1> QED
  BY <1>3, <1>6, <1>7, <1>9, <1>10 DEF ComplianceInv

LEMMA ReviewDocKeeps ==
  ASSUME ComplianceInv, NEW d \in Desk, NEW t \in DocTypes, NEW verdict \in C!Verdicts,
         C!ReviewDoc(d, t, verdict)
  PROVE  ComplianceInv' /\ slips \subseteq slips' /\ faults' \in {faults, faults + 1}
<1>1. C!ComplianceTypeOK /\ DeskOK /\ DocsInv /\ BankInv
  BY DEF ComplianceInv
<1> DEFINE x == [C!NoDesk EXCEPT !.pc = "docReviewed", !.item = t, !.verdict = verdict]
<1>2. x \in DeskRecords /\ x.pc = "docReviewed" /\ x.item = t /\ x.verdict = verdict
  BY DEF DeskRecords, C!DocumentSteps, C!NoDesk
<1>3. desk' = [desk EXCEPT ![d] = x]
  BY DEF C!ReviewDoc
<1> HIDE DEF x
<1>4. OneDesk(d, x)
  BY <1>1, <1>2, <1>3, DeskIs DEF Fits
<1>5. /\ UNCHANGED <<status, updates, bank, suspended, seen>> /\ C!Starting({})
      /\ doc' = [doc EXCEPT !.mem[t] = verdict]
  BY DEF C!ReviewDoc
<1>6. /\ slips \subseteq slips' /\ faults' = faults
      /\ slips \cup C!Overtakes \subseteq slips' /\ declared' = (declared /\ ~C!Idle)
  BY <1>5, StartingSlips
<1>7. DeskOK'
  BY <1>1, <1>4, <1>5, BankStays, DeskKeeps
<1>8. C!ComplianceTypeOK'
  BY <1>1, <1>5, <1>6 DEF C!ComplianceTypeOK, C!Docs
<1>9. DocsInv'
  BY <1>1, <1>2, <1>4, <1>5, <1>6, DocsStart DEF Owing
<1>10. BankInv'
  BY <1>1, <1>2, <1>4, <1>5, <1>6, BankFrame DEF OneDesk
<1> QED
  BY <1>6, <1>7, <1>8, <1>9, <1>10 DEF ComplianceInv

LEMMA RowWrittenKeeps ==
  ASSUME C!ComplianceTypeOK, NEW t \in DocTypes, NEW verdict \in C!Verdicts, C!RowWritten(t, verdict)
  PROVE  /\ doc' \in [mem : C!Docs, db : C!Docs] /\ doc'.mem = doc.mem
         /\ slips \subseteq slips' /\ faults' \in {faults, faults + 1}
BY SlipGrows DEF C!ComplianceTypeOK, C!RowWritten, C!Docs

LEMMA DocReviewedKeeps ==
  ASSUME ComplianceInv, NEW d \in Desk, C!DocReviewed(d)
  PROVE  ComplianceInv' /\ slips \subseteq slips' /\ faults' \in {faults, faults + 1}
<1>1. C!ComplianceTypeOK /\ DeskOK /\ DocsInv /\ BankInv
  BY DEF ComplianceInv
<1>2. /\ UNCHANGED <<status, updates, bank, suspended, seen, declared>>
      /\ desk[d].pc = "docReviewed" /\ C!RowWritten(desk[d].item, desk[d].verdict)
      /\ desk[d].verdict \in C!Verdicts /\ desk[d].item \in DocTypes
      /\ desk \in [Desk -> DeskRecords] /\ desk[d] \in DeskRecords
  BY <1>1 DEF C!DocReviewed, DeskOK, Fits
<1>3. /\ doc' \in [mem : C!Docs, db : C!Docs] /\ doc'.mem = doc.mem
      /\ slips \subseteq slips' /\ faults' \in {faults, faults + 1}
  BY <1>1, <1>2, RowWrittenKeeps
<1> DEFINE x == [desk[d] EXCEPT !.pc = "docRecorded"]
<1>4. x \in DeskRecords /\ x.pc = "docRecorded"
  BY <1>2 DEF DeskRecords, C!DocumentSteps
<1>5. desk' = [desk EXCEPT ![d] = x]
  BY <1>2 DEF C!DocReviewed
<1> HIDE DEF x
<1>6. OneDesk(d, x)
  BY <1>1, <1>4, <1>5, DeskIs DEF Fits
<1>7. DeskOK'
  BY <1>1, <1>2, <1>6, BankStays, DeskKeeps
<1>8. C!ComplianceTypeOK'
  BY <1>1, <1>2, <1>3 DEF C!ComplianceTypeOK
<1>9. DocsInv'
  BY <1>1, <1>2, <1>3, <1>4, <1>6, DocsGoOn DEF Owing
<1>10. BankInv'
  BY <1>1, <1>2, <1>3, <1>4, <1>6, BankFrame DEF OneDesk
<1> QED
  BY <1>3, <1>7, <1>8, <1>9, <1>10 DEF ComplianceInv

LEMMA DocRecordedKeeps ==
  ASSUME ComplianceInv, NEW d \in Desk, C!DocRecorded(d)
  PROVE  ComplianceInv' /\ slips \subseteq slips' /\ faults' \in {faults, faults + 1}
<1>1. C!ComplianceTypeOK /\ DeskOK /\ DocsInv /\ BankInv
  BY DEF ComplianceInv
<1>2. PICK x : OneDesk(d, x) /\ x.pc = "done"
  BY <1>1, DeskFinishes DEF C!DocRecorded
<1>3. /\ UNCHANGED <<doc, bank, suspended, seen, declared>> /\ slips' = slips /\ faults' = faults
      /\ desk[d].pc = "docRecorded" /\ C!Recompute(doc.mem)
  BY DEF C!DocRecorded, C!InOrder
<1>4. DeskOK'
  BY <1>1, <1>2, <1>3, BankStays, DeskKeeps
<1>5. C!ComplianceTypeOK'
  BY <1>1, <1>3, DerivedType DEF C!ComplianceTypeOK, C!Recompute
<1>6. AtDocs(d) /\ desk[d].pc # "dossier" /\ (InStep => Arrived)
  BY <1>1, <1>3 DEF DocsInv, ProfileInv, Owing, AtDocs, C!DocumentSteps
<1>7. DocsInv'
  BY <1>1, <1>2, <1>3, <1>6, DocsRecomputed
<1>8. BankInv'
  BY <1>1, <1>2, <1>3, BankFrame DEF OneDesk
<1> QED
  BY <1>3, <1>4, <1>5, <1>7, <1>8 DEF ComplianceInv

LEMMA ReviewDossierKeeps ==
  ASSUME ComplianceInv, NEW d \in Desk, NEW verdict \in C!Verdicts, C!ReviewDossier(d, verdict)
  PROVE  ComplianceInv' /\ slips \subseteq slips' /\ faults' \in {faults, faults + 1}
<1>1. C!ComplianceTypeOK /\ DeskOK /\ DocsInv /\ BankInv
  BY DEF ComplianceInv
<1> DEFINE more == (IF C!Idle THEN {} ELSE {"overruled"})
                     \cup (IF verdict = "approved" /\ \E t \in DocTypes : doc.mem[t] = C!NoDoc
                           THEN {"incomplete"} ELSE {})
           x == [C!NoDesk EXCEPT !.pc = "dossier", !.verdict = verdict, !.left = DocTypes]
<1>2. x \in DeskRecords /\ x.pc = "dossier" /\ x.left = DocTypes /\ x.verdict = verdict
  BY DEF DeskRecords, C!DocumentSteps, C!NoDesk
<1>3. desk' = [desk EXCEPT ![d] = x]
  BY DEF C!ReviewDossier
<1>4. /\ UNCHANGED <<doc, status, updates, bank, suspended, seen>> /\ C!Starting(more)
      /\ verdict = "approved" \/ \E t \in DocTypes : doc.mem[t] # C!NoDoc
  BY DEF C!ReviewDossier
<1>5. /\ "overruled" \notin more => C!Idle
      /\ "incomplete" \notin more => (verdict = "approved" => \A t \in DocTypes : doc.mem[t] # C!NoDoc)
  OBVIOUS
<1> HIDE DEF x, more
<1>6. OneDesk(d, x)
  BY <1>1, <1>2, <1>3, DeskIs DEF Fits
<1>7. /\ slips \subseteq slips' /\ more \subseteq slips' /\ faults' = faults
      /\ slips \cup C!Overtakes \subseteq slips' /\ declared' = (declared /\ ~C!Idle)
  BY <1>4, StartingSlips
<1>8. DeskOK'
  BY <1>1, <1>4, <1>6, BankStays, DeskKeeps
<1>9. C!ComplianceTypeOK'
  BY <1>1, <1>4, <1>7 DEF C!ComplianceTypeOK
<1>10. ASSUME InMemory' PROVE Reviewing(d)'
  <2>1. /\ C!Idle
        /\ verdict = "approved" => \A t \in DocTypes : doc.mem[t] # C!NoDoc
    BY <1>5, <1>7, <1>10 DEF InMemory
  <2>2. desk'[d] = x /\ \A e \in Desk : AtDocs(e)' => e = d
    BY <1>6, <2>1 DEF C!Idle, AtDocs, OneDesk
  <2>3. \E t \in DocTypes : doc'.mem[t] # C!NoDoc
    BY <1>4, <2>1, AccountAssumption
  <2> QED
    BY <1>2, <1>4, <2>1, <2>2, <2>3 DEF Reviewing
<1>11. DocsInv'
  BY <1>1, <1>2, <1>4, <1>6, <1>7, <1>10, DocsStart DEF Owing
<1>12. BankInv'
  BY <1>1, <1>2, <1>4, <1>6, <1>7, BankFrame DEF OneDesk
<1> QED
  BY <1>7, <1>8, <1>9, <1>11, <1>12 DEF ComplianceInv

(* approveKyc and rejectKyc: what was gone through has the verdict.        *)
LEMMA NextDocumentKeeps ==
  ASSUME ComplianceInv, NEW d \in Desk, NEW t \in DocTypes, C!NextDocument(d, t)
  PROVE  ComplianceInv' /\ slips \subseteq slips' /\ faults' \in {faults, faults + 1}
<1>1. C!ComplianceTypeOK /\ DeskOK /\ DocsInv /\ BankInv
  BY DEF ComplianceInv
<1>2. /\ UNCHANGED <<status, updates, bank, suspended, seen, declared>>
      /\ slips' = slips /\ faults' = faults
      /\ desk[d].pc = "dossier" /\ desk[d].verdict \in C!Verdicts
      /\ doc' = [doc EXCEPT !.mem[t] = desk[d].verdict]
      /\ desk \in [Desk -> DeskRecords] /\ desk[d] \in DeskRecords
  BY <1>1 DEF C!NextDocument, C!InOrder, DeskOK, Fits
<1> DEFINE x == [[desk[d] EXCEPT !.left = desk[d].left \ {t}] EXCEPT !.rows = {t}]
<1>3. /\ x \in DeskRecords /\ x.pc = "dossier" /\ x.left = desk[d].left \ {t}
      /\ x.verdict = desk[d].verdict
  BY <1>2 DEF DeskRecords
<1>4. desk' = [desk EXCEPT ![d] = x]
  BY <1>2 DEF C!NextDocument
<1> HIDE DEF x
<1>5. OneDesk(d, x)
  BY <1>1, <1>2, <1>3, <1>4, DeskIs DEF Fits
<1>6. DeskOK'
  BY <1>1, <1>2, <1>5, BankStays, DeskKeeps
<1>7. /\ doc' \in [mem : C!Docs, db : C!Docs]
      /\ doc'.mem[t] = desk[d].verdict
      /\ \A u \in DocTypes \ {t} : doc'.mem[u] = doc.mem[u]
  BY <1>1, <1>2 DEF C!ComplianceTypeOK, C!Docs
<1>8. C!ComplianceTypeOK'
  BY <1>1, <1>2, <1>7 DEF C!ComplianceTypeOK
<1>9. desk'[d] = x /\ \A e \in Desk \ {d} : desk'[e] = desk[e]
  BY <1>5 DEF OneDesk
<1>10. DocsInv'
  <2>1. /\ InMemory' <=> InMemory
        /\ InStep' => InStep
        /\ Arrived' <=> Arrived
    BY <1>2 DEF InMemory, InStep, Arrived
  <2>2. \A e \in Desk : AtDocs(e)' <=> AtDocs(e)
    BY <1>2, <1>3, <1>9 DEF AtDocs
  <2>3. ASSUME InMemory, NEW e \in Desk, desk'[e].pc = "dossier" PROVE Reviewing(e)'
    <3>1. e = d /\ Reviewing(d)
      BY <1>1, <1>2, <1>9, <2>3 DEF DocsInv, MemoryInv, Reviewing, AtDocs, C!DocumentSteps
    <3>2. doc'.mem[t] # C!NoDoc /\ \A u \in DocTypes : doc.mem[u] # C!NoDoc => doc'.mem[u] # C!NoDoc
      BY <1>2, <1>7 DEF C!Verdicts, C!NoDoc
    <3>3. \A u \in DocTypes : u \in x.left \/ doc'.mem[u] = x.verdict
      BY <1>3, <1>7, <3>1 DEF Reviewing
    <3> QED
      BY <1>3, <1>9, <2>2, <3>1, <3>2, <3>3 DEF Reviewing
  <2>4. MemoryInv'
    <3>1. desk'[d].pc \in Owing
      BY <1>3, <1>9 DEF Owing
    <3>2. \A e \in Desk : desk'[e].pc \in Submitting => desk[e].pc \in Submitting
      BY <1>2, <1>3, <1>9
    <3> QED
      BY <1>1, <1>2, <2>1, <2>3, <3>1, <3>2 DEF DocsInv, MemoryInv
  <2>5. ProfileInv'
    <3> SUFFICES ASSUME InStep' PROVE ProfileInv'
      BY DEF ProfileInv
    <3>1. Arrived /\ \A e \in Desk \ {d} : ~AtDocs(e)
      BY <1>1, <1>2, <2>1 DEF DocsInv, ProfileInv, Owing, AtDocs, C!DocumentSteps
    <3>2. \A e \in Desk \ {d} : desk'[e].pc \notin Submitting /\ desk'[e].pc # "profileSent"
      BY <1>9, <3>1 DEF AtDocs, Submitting, C!DocumentSteps
    <3>3. desk'[d].pc \notin Submitting /\ desk'[d].pc # "profileSent" /\ AtDocs(d)'
      BY <1>3, <1>9 DEF Submitting, AtDocs, C!DocumentSteps
    <3>4. \A y \in C!Statuses : ~(updates'[y] > 0)
      BY <1>2, <3>1 DEF Arrived
    <3> QED
      BY <2>1, <2>2, <3>1, <3>2, <3>3, <3>4 DEF ProfileInv
  <2> QED
    BY <2>4, <2>5 DEF DocsInv
<1>11. BankInv'
  BY <1>1, <1>2, <1>3, <1>5, BankFrame DEF OneDesk
<1> QED
  BY <1>2, <1>6, <1>8, <1>10, <1>11 DEF ComplianceInv

LEMMA DocumentWrittenKeeps ==
  ASSUME ComplianceInv, NEW d \in Desk, NEW t \in DocTypes, C!DocumentWritten(d, t)
  PROVE  ComplianceInv' /\ slips \subseteq slips' /\ faults' \in {faults, faults + 1}
<1>1. C!ComplianceTypeOK /\ DeskOK /\ DocsInv /\ BankInv
  BY DEF ComplianceInv
<1>2. /\ UNCHANGED <<status, updates, bank, suspended, seen, declared>>
      /\ desk[d].pc = "dossier" /\ C!RowWritten(t, desk[d].verdict)
      /\ desk[d].verdict \in C!Verdicts
      /\ desk \in [Desk -> DeskRecords] /\ desk[d] \in DeskRecords
  BY <1>1 DEF C!DocumentWritten, DeskOK, Fits
<1>3. /\ doc' \in [mem : C!Docs, db : C!Docs] /\ doc'.mem = doc.mem
      /\ slips \subseteq slips' /\ faults' \in {faults, faults + 1}
  BY <1>1, <1>2, RowWrittenKeeps
<1> DEFINE x == [desk[d] EXCEPT !.rows = {}]
<1>4. /\ x \in DeskRecords /\ x.pc = "dossier" /\ x.verdict = desk[d].verdict
      /\ x.left = desk[d].left
  BY <1>2 DEF DeskRecords
<1>5. desk' = [desk EXCEPT ![d] = x]
  BY <1>2 DEF C!DocumentWritten
<1> HIDE DEF x
<1>6. OneDesk(d, x)
  BY <1>1, <1>2, <1>4, <1>5, DeskIs DEF Fits
<1>7. DeskOK'
  BY <1>1, <1>2, <1>6, BankStays, DeskKeeps
<1>8. C!ComplianceTypeOK'
  BY <1>1, <1>2, <1>3 DEF C!ComplianceTypeOK
<1>9. DocsInv'
  BY <1>1, <1>2, <1>3, <1>4, <1>6, DocsGoOn
<1>10. BankInv'
  BY <1>1, <1>2, <1>3, <1>4, <1>6, BankFrame DEF OneDesk
<1> QED
  BY <1>3, <1>7, <1>8, <1>9, <1>10 DEF ComplianceInv

(* A status is set that what is known of the documents allows.             *)
LEMMA DeclareKeeps ==
  ASSUME ComplianceInv, NEW d \in Desk, AtDocs(d), NEW result \in C!Statuses, C!Declare(d, result),
         UNCHANGED <<doc, updates, bank, suspended, seen, declared>>,
         InMemory => result \in C!Stated
  PROVE  ComplianceInv' /\ slips \subseteq slips' /\ faults' \in {faults, faults + 1}
<1>1. C!ComplianceTypeOK /\ DeskOK /\ DocsInv /\ BankInv
  BY DEF ComplianceInv
<1>2. slips' = slips /\ faults' = faults /\ status' = [status EXCEPT !.mem = result]
  BY DEF C!Declare, C!InOrder
<1> DEFINE x == [C!NoDesk EXCEPT !.pc = "profileSent", !.verdict = result]
<1>3. x \in DeskRecords /\ x.pc = "profileSent" /\ x.verdict = result
  BY DEF DeskRecords, C!DocumentSteps, C!NoDesk
<1>4. desk' = [desk EXCEPT ![d] = x]
  BY DEF C!Declare
<1> HIDE DEF x
<1>5. OneDesk(d, x)
  BY <1>1, <1>3, <1>4, DeskIs DEF Fits
<1>6. DeskOK'
  BY <1>1, <1>5, BankStays, DeskKeeps
<1>7. status' \in [mem : C!Statuses, db : C!Statuses] /\ status'.mem = result
  BY <1>1, <1>2 DEF C!ComplianceTypeOK
<1>8. C!ComplianceTypeOK'
  BY <1>1, <1>7 DEF C!ComplianceTypeOK
<1>9. desk'[d] = x /\ \A e \in Desk \ {d} : desk'[e] = desk[e]
  BY <1>5 DEF OneDesk
<1>10. DocsInv'
  <2>1. /\ InMemory' <=> InMemory
        /\ InStep' => InStep /\ InMemory
        /\ Arrived' <=> Arrived
    BY <1>2 DEF InMemory, InStep, Arrived
  <2>2. C!Stated' = C!Stated /\ C!Derived(doc'.mem) = C!Derived(doc.mem)
    BY StatedSame
  <2>3. MemoryInv'
    <3> SUFFICES ASSUME InMemory' PROVE MemoryInv'
      BY DEF MemoryInv
    <3>1. status'.mem \in C!Stated'
      BY <1>7, <2>1, <2>2
    <3>2. ASSUME NEW e \in Desk
          PROVE  (desk'[e].pc \in Submitting => declared') /\ desk'[e].pc # "dossier"
      <4>1. (desk[e].pc \in Submitting => declared) /\ (desk[e].pc = "dossier" => d = e)
        BY <1>1, <2>1 DEF DocsInv, MemoryInv, Reviewing
      <4> QED
        BY <1>3, <1>9, <4>1 DEF Submitting
    <3> QED
      BY <3>1, <3>2 DEF MemoryInv
  <2>4. ProfileInv'
    <3> SUFFICES ASSUME InStep' PROVE ProfileInv'
      BY DEF ProfileInv
    <3>1. /\ \A e \in Desk \ {d} : ~AtDocs(e)
          /\ \A y \in C!Statuses : updates'[y] > 0 => y = C!Derived(doc'.mem)
      BY <1>1, <2>1, <2>2 DEF DocsInv, ProfileInv
    <3>2. \A e \in Desk \ {d} : /\ ~AtDocs(e)' /\ desk'[e].pc \notin Owing
                                /\ desk'[e].pc \notin Submitting /\ desk'[e].pc # "profileSent"
      BY <1>9, <3>1 DEF AtDocs, Owing, Submitting, C!DocumentSteps
    <3>3. /\ AtDocs(d)' /\ desk'[d].pc \notin Owing /\ desk'[d].pc \notin Submitting
          /\ desk'[d].verdict \in C!Stated'
      BY <1>3, <1>9, <2>1, <2>2 DEF AtDocs, Owing, Submitting, C!DocumentSteps
    <3> QED
      BY <3>1, <3>2, <3>3 DEF ProfileInv
  <2> QED
    BY <2>3, <2>4 DEF DocsInv
<1>11. BankInv'
  BY <1>1, <1>2, <1>3, <1>5, BankFrame DEF OneDesk
<1> QED
  BY <1>2, <1>6, <1>8, <1>10, <1>11 DEF ComplianceInv

(* The verdict is what the documents then say, as none was missing; and a  *)
(* submitted dossier may say pending.                                      *)
LEMMA DossierReviewedKeeps ==
  ASSUME ComplianceInv, NEW d \in Desk, C!DossierReviewed(d)
  PROVE  ComplianceInv' /\ slips \subseteq slips' /\ faults' \in {faults, faults + 1}
<1> DEFINE result == IF desk[d].verdict = "approved" THEN "verified" ELSE "rejected"
<1>1. /\ desk[d].pc = "dossier" /\ desk[d].verdict \in C!Verdicts
      /\ \A t \in desk[d].left : doc.mem[t] = C!NoDoc
      /\ C!Declare(d, result) /\ UNCHANGED <<doc, updates, bank, suspended, seen, declared>>
  BY DEF C!DossierReviewed, ComplianceInv, DeskOK, Fits
<1>2. result \in C!Statuses /\ AtDocs(d)
  BY <1>1 DEF C!Statuses, AtDocs, C!DocumentSteps
<1>3. ASSUME InMemory PROVE result \in C!Stated
  <2>1. Reviewing(d)
    BY <1>1, <1>3 DEF ComplianceInv, DocsInv, MemoryInv
  <2>2. \A t \in DocTypes : doc.mem[t] = C!NoDoc \/ doc.mem[t] = desk[d].verdict
    BY <1>1, <2>1 DEF Reviewing
  <2>3. CASE desk[d].verdict = "approved"
    <3>1. \A t \in DocTypes : doc.mem[t] = "approved"
      BY <2>1, <2>2, <2>3 DEF Reviewing
    <3> QED
      BY <2>3, <3>1 DEF C!Stated, C!Derived
  <2>4. CASE desk[d].verdict = "rejected"
    <3>1. \E t \in DocTypes : doc.mem[t] = "rejected"
      BY <2>1, <2>2, <2>4 DEF Reviewing
    <3> QED
      BY <2>4, <3>1 DEF C!Stated, C!Derived
  <2> QED
    BY <1>1, <2>3, <2>4 DEF C!Verdicts
<1> HIDE DEF result
<1> QED
  BY <1>1, <1>2, <1>3, DeclareKeeps

LEMMA DossierSubmittedKeeps ==
  ASSUME ComplianceInv, NEW d \in Desk, C!DossierSubmitted(d)
  PROVE  ComplianceInv' /\ slips \subseteq slips' /\ faults' \in {faults, faults + 1}
<1>1. /\ desk[d].pc = "dossierSent" /\ C!Declare(d, "pending")
      /\ UNCHANGED <<doc, updates, bank, suspended, seen, declared>>
  BY DEF C!DossierSubmitted
<1>2. "pending" \in C!Statuses /\ AtDocs(d)
  BY <1>1 DEF C!Statuses, AtDocs, C!DocumentSteps
<1>3. ASSUME InMemory PROVE "pending" \in C!Stated
  <2>1. declared
    BY <1>1, <1>3 DEF ComplianceInv, DocsInv, MemoryInv, Submitting
  <2> QED
    BY <2>1 DEF C!Stated
<1> QED
  BY <1>1, <1>2, <1>3, DeclareKeeps

LEMMA ProfileWrittenKeeps ==
  ASSUME ComplianceInv, NEW d \in Desk, C!ProfileWritten(d)
  PROVE  ComplianceInv' /\ slips \subseteq slips' /\ faults' \in {faults, faults + 1}
<1>1. C!ComplianceTypeOK /\ DeskOK /\ DocsInv /\ BankInv
  BY DEF ComplianceInv
<1>2. PICK x : OneDesk(d, x) /\ x.pc = "done"
  BY <1>1, DeskFinishes DEF C!ProfileWritten
<1>3. /\ UNCHANGED <<doc, updates, bank, suspended, seen, declared>>
      /\ desk[d].pc = "profileSent" /\ desk[d].verdict \in C!Statuses
      /\ \/ status' = [status EXCEPT !.db = desk[d].verdict] /\ C!InOrder
         \/ C!Slip("profile") /\ UNCHANGED status
  BY <1>1 DEF C!ProfileWritten, DeskOK, Fits
<1>4. slips \subseteq slips' /\ faults' \in {faults, faults + 1}
  BY <1>3, SlipGrows
<1>5. DeskOK'
  BY <1>1, <1>2, <1>3, BankStays, DeskKeeps
<1>6. status' \in [mem : C!Statuses, db : C!Statuses] /\ status'.mem = status.mem
  BY <1>1, <1>3 DEF C!ComplianceTypeOK
<1>7. C!ComplianceTypeOK'
  BY <1>1, <1>3, <1>6 DEF C!ComplianceTypeOK
<1>8. desk'[d].pc = "done" /\ \A e \in Desk \ {d} : desk'[e] = desk[e]
  BY <1>2 DEF OneDesk
<1>9. DocsInv'
  <2>1. /\ InMemory' => InMemory
        /\ InStep' => InStep
    BY <1>4, StillInStep
  <2>2. C!Stated' = C!Stated /\ C!Derived(doc'.mem) = C!Derived(doc.mem) /\ (Arrived' <=> Arrived)
    BY <1>3, StatedSame DEF Arrived
  <2>3. MemoryInv'
    <3> SUFFICES ASSUME InMemory' PROVE MemoryInv'
      BY DEF MemoryInv
    <3>1. \A e \in Desk : desk[e].pc \in Owing => desk'[e] = desk[e]
      BY <1>3, <1>8 DEF Owing
    <3>2. ASSUME NEW e \in Desk
          PROVE  (desk'[e].pc \in Submitting => declared') /\ desk'[e].pc # "dossier"
      <4>1. /\ desk[e].pc \in Submitting => declared
            /\ desk[e].pc = "dossier" => d = e
        BY <1>1, <1>3, <2>1 DEF DocsInv, MemoryInv, Reviewing, AtDocs, C!DocumentSteps
      <4> QED
        BY <1>3, <1>8, <4>1 DEF Submitting
    <3>3. status'.mem \in C!Stated' \/ \E e \in Desk : desk'[e].pc \in Owing
      BY <1>1, <1>6, <2>1, <2>2, <3>1 DEF DocsInv, MemoryInv
    <3> QED
      BY <3>2, <3>3 DEF MemoryInv
  <2>4. ProfileInv'
    <3> SUFFICES ASSUME InStep' PROVE ProfileInv'
      BY DEF ProfileInv
    <3>1. AtDocs(d)
      BY <1>3 DEF AtDocs, C!DocumentSteps
    <3>2. /\ \A e \in Desk \ {d} : ~AtDocs(e)
          /\ \A y \in C!Statuses : updates'[y] > 0 => y = C!Derived(doc'.mem)
          /\ desk[d].verdict \in C!Stated'
      BY <1>1, <1>3, <2>1, <2>2, <3>1 DEF DocsInv, ProfileInv
    <3>3. status'.db = desk[d].verdict
      BY <1>1, <1>3 DEF InStep, C!Slip, C!ComplianceTypeOK
    <3>4. \A e \in Desk : /\ ~AtDocs(e)' /\ desk'[e].pc \notin Owing
                          /\ desk'[e].pc \notin Submitting /\ desk'[e].pc # "profileSent"
      BY <1>8, <3>2 DEF AtDocs, Owing, Submitting, C!DocumentSteps
    <3> QED
      BY <3>2, <3>3, <3>4 DEF ProfileInv
  <2> QED
    BY <2>3, <2>4 DEF DocsInv
<1>10. BankInv'
  BY <1>1, <1>2, <1>3, <1>4, BankFrame DEF OneDesk
<1> QED
  BY <1>4, <1>5, <1>7, <1>9, <1>10 DEF ComplianceInv

(* submitKyc: until the status is set nobody takes it back that a dossier  *)
(* was submitted.                                                          *)
LEMMA SubmitDossierKeeps ==
  ASSUME ComplianceInv, NEW d \in Desk, NEW T \in SUBSET DocTypes, NEW b \in Banks \cup {0},
         C!SubmitDossier(d, T, b)
  PROVE  ComplianceInv' /\ slips \subseteq slips' /\ faults' \in {faults, faults + 1}
<1>1. C!ComplianceTypeOK /\ DeskOK /\ DocsInv /\ BankInv
  BY DEF ComplianceInv
<1> DEFINE x == [C!NoDesk EXCEPT !.pc = "dossierSent", !.left = T, !.item = b]
<1>2. x \in DeskRecords /\ x.pc = "dossierSent" /\ x.left = T /\ x.rows = {} /\ x.item = b
  BY DEF DeskRecords, C!DocumentSteps, C!NoDesk
<1>3. desk' = [desk EXCEPT ![d] = x]
  BY DEF C!SubmitDossier
<1> HIDE DEF x
<1>4. OneDesk(d, x)
  BY <1>1, <1>2, <1>3, DeskIs DEF Fits
<1>5. /\ UNCHANGED <<doc, status, updates, bank, suspended, seen, faults>> /\ declared' = TRUE
      /\ slips' = slips \cup C!Overtakes \cup (IF \E t, u \in T : t # u THEN {"crossed"} ELSE {})
      /\ desk[d].pc = "new"
  BY DEF C!SubmitDossier
<1>6. DeskOK'
  BY <1>1, <1>4, <1>5, BankStays, DeskKeeps
<1>7. C!ComplianceTypeOK'
  BY <1>1, <1>5 DEF C!ComplianceTypeOK
<1>8. /\ InStep' => InStep /\ Arrived /\ \A e \in Desk : ~AtDocs(e)
      /\ InMemory' => InMemory /\ \A e \in Desk : desk[e].pc # "dossier"
      /\ InStep' => \A t, u \in T : t = u
  BY <1>5, StartsAlone DEF InStep
<1>9. desk'[d] = x /\ \A e \in Desk \ {d} : desk'[e] = desk[e]
  BY <1>4 DEF OneDesk
<1>10. C!Stated \subseteq C!Stated'
  BY <1>5 DEF C!Stated, C!Derived
<1>11. MemoryInv'
  <2> SUFFICES ASSUME InMemory' PROVE MemoryInv'
    BY DEF MemoryInv
  <2>1. \A e \in Desk : desk[e].pc \in Owing => desk'[e] = desk[e]
    BY <1>5, <1>9 DEF Owing
  <2>2. status'.mem \in C!Stated' \/ \E e \in Desk : desk'[e].pc \in Owing
    BY <1>1, <1>5, <1>8, <1>10, <2>1 DEF DocsInv, MemoryInv
  <2>3. \A e \in Desk : desk'[e].pc # "dossier"
    BY <1>2, <1>8, <1>9
  <2> QED
    BY <1>5, <2>2, <2>3 DEF MemoryInv
<1>12. ProfileInv'
  <2> SUFFICES ASSUME InStep' PROVE ProfileInv'
    BY DEF ProfileInv
  <2>1. Arrived' /\ \A y \in C!Statuses : ~(updates'[y] > 0)
    BY <1>5, <1>8 DEF Arrived
  <2>2. \A e \in Desk \ {d} : /\ ~AtDocs(e)' /\ desk'[e].pc \notin Owing
                              /\ desk'[e].pc \notin Submitting /\ desk'[e].pc # "profileSent"
    BY <1>8, <1>9 DEF AtDocs, Owing, Submitting, C!DocumentSteps
  <2>3. AtDocs(d)' /\ desk'[d].pc \notin Owing /\ desk'[d].pc # "profileSent"
    BY <1>2, <1>9 DEF AtDocs, Owing, C!DocumentSteps
  <2>4. OneUpload(d)'
    BY <1>2, <1>8, <1>9, <2>1 DEF OneUpload
  <2> QED
    BY <2>1, <2>2, <2>3, <2>4 DEF ProfileInv
<1>13. slips \subseteq slips'
  BY <1>5
<1>14. BankInv'
  BY <1>1, <1>2, <1>4, <1>5, <1>13, BankFrame DEF OneDesk
<1> QED
  BY <1>5, <1>6, <1>7, <1>11, <1>12, <1>13, <1>14 DEF ComplianceInv, DocsInv

LEMMA DossierRowKeeps ==
  ASSUME ComplianceInv, NEW d \in Desk, NEW t \in DocTypes, C!DossierRow(d, t)
  PROVE  ComplianceInv' /\ slips \subseteq slips' /\ faults' \in {faults, faults + 1}
<1>1. C!ComplianceTypeOK /\ DeskOK /\ DocsInv /\ BankInv
  BY DEF ComplianceInv
<1>2. /\ UNCHANGED <<status, updates, bank, suspended, seen, declared>>
      /\ desk[d].pc = "dossierSent" /\ t \in desk[d].left
      /\ doc' \in {doc, [doc EXCEPT !.db[t] = "pending"]}
      /\ desk \in [Desk -> DeskRecords] /\ desk[d] \in DeskRecords /\ Fits(desk[d])
  BY <1>1 DEF C!DossierRow, DeskOK
<1>3. slips \subseteq slips' /\ faults' \in {faults, faults + 1}
  BY SlipGrows DEF C!DossierRow
<1>4. doc' \in [mem : C!Docs, db : C!Docs] /\ doc'.mem = doc.mem
  BY <1>1, <1>2 DEF C!ComplianceTypeOK, C!Docs
<1>5. PICK x \in DeskRecords :
        /\ desk' = [desk EXCEPT ![d] = x] /\ x.pc = "dossierSent" /\ x.item = desk[d].item
        /\ x.left = desk[d].left \ {t} /\ x.rows \in {desk[d].rows, desk[d].rows \cup {t}}
  <2> DEFINE y == [desk[d] EXCEPT !.left = desk[d].left \ {t}]
             z == [[desk[d] EXCEPT !.left = desk[d].left \ {t}] EXCEPT !.rows = desk[d].rows \cup {t}]
  <2>1. /\ y \in DeskRecords /\ y.pc = "dossierSent" /\ y.item = desk[d].item
        /\ y.left = desk[d].left \ {t} /\ y.rows = desk[d].rows
    BY <1>2 DEF DeskRecords
  <2>2. /\ z \in DeskRecords /\ z.pc = "dossierSent" /\ z.item = desk[d].item
        /\ z.left = desk[d].left \ {t} /\ z.rows = desk[d].rows \cup {t}
    BY <1>2 DEF DeskRecords
  <2>3. desk' = [desk EXCEPT ![d] = y] \/ desk' = [desk EXCEPT ![d] = z]
    BY <1>2 DEF C!DossierRow
  <2> HIDE DEF y, z
  <2> QED
    BY <2>1, <2>2, <2>3
<1>6. OneDesk(d, x)
  BY <1>1, <1>2, <1>5, DeskIs DEF Fits
<1>7. DeskOK'
  BY <1>1, <1>2, <1>6, BankStays, DeskKeeps
<1>8. C!ComplianceTypeOK'
  BY <1>1, <1>2, <1>4 DEF C!ComplianceTypeOK
<1>9. DocsInv'
  <2>1. /\ x.left \cup x.rows \subseteq desk[d].left \cup desk[d].rows
        /\ desk[d].left \cap desk[d].rows = {} => x.left \cap x.rows = {}
    BY <1>2, <1>5
  <2> QED
    BY <1>1, <1>2, <1>3, <1>4, <1>5, <1>6, <2>1, DocsGoOn DEF Submitting
<1>10. BankInv'
  BY <1>1, <1>2, <1>3, <1>5, <1>6, BankFrame DEF OneDesk
<1> QED
  BY <1>3, <1>7, <1>8, <1>9, <1>10 DEF ComplianceInv

LEMMA DossierUploadedKeeps ==
  ASSUME ComplianceInv, NEW d \in Desk, NEW t \in DocTypes, C!DossierUploaded(d, t)
  PROVE  ComplianceInv' /\ slips \subseteq slips' /\ faults' \in {faults, faults + 1}
<1>1. C!ComplianceTypeOK /\ DeskOK /\ DocsInv /\ BankInv
  BY DEF ComplianceInv
<1> DEFINE docs == [doc.mem EXCEPT ![t] = "pending"]
           x == [desk[d] EXCEPT !.rows = desk[d].rows \ {t}]
<1>2. /\ UNCHANGED <<bank, suspended, seen, declared>> /\ slips' = slips /\ faults' = faults
      /\ desk[d].pc = "dossierSent" /\ t \in desk[d].rows
      /\ C!Recompute(docs) /\ doc' = [doc EXCEPT !.mem = docs]
      /\ desk \in [Desk -> DeskRecords] /\ desk[d] \in DeskRecords /\ Fits(desk[d])
  BY <1>1 DEF C!DossierUploaded, C!InOrder, DeskOK
<1>3. docs \in C!Docs
  BY <1>1 DEF C!ComplianceTypeOK, C!Docs
<1>4. /\ x \in DeskRecords /\ x.pc = "dossierSent" /\ x.item = desk[d].item
      /\ x.left = desk[d].left /\ x.rows = desk[d].rows \ {t}
  BY <1>2 DEF DeskRecords
<1>5. desk' = [desk EXCEPT ![d] = x]
  BY <1>2 DEF C!DossierUploaded
<1> HIDE DEF docs, x
<1>6. doc' \in [mem : C!Docs, db : C!Docs] /\ doc'.mem = docs
  BY <1>1, <1>2, <1>3 DEF C!ComplianceTypeOK
<1>7. OneDesk(d, x)
  BY <1>1, <1>2, <1>4, <1>5, DeskIs DEF Fits
<1>8. DeskOK'
  BY <1>1, <1>2, <1>7, BankStays, DeskKeeps
<1>9. C!ComplianceTypeOK'
  BY <1>1, <1>2, <1>6, DerivedType DEF C!ComplianceTypeOK, C!Recompute
<1>10. AtDocs(d) /\ desk[d].pc # "dossier"
  BY <1>2 DEF AtDocs, C!DocumentSteps
<1>11. ASSUME InStep PROVE Arrived /\ x.left = {} /\ x.rows = {}
  <2>1. OneUpload(d)
    BY <1>1, <1>2, <1>11 DEF DocsInv, ProfileInv, Submitting
  <2> QED
    BY <1>2, <1>4, <2>1 DEF OneUpload
<1>12. DocsInv'
  BY <1>1, <1>2, <1>4, <1>6, <1>7, <1>10, <1>11, DocsRecomputed
<1>13. BankInv'
  BY <1>1, <1>2, <1>4, <1>7, BankFrame DEF OneDesk
<1> QED
  BY <1>2, <1>8, <1>9, <1>12, <1>13 DEF ComplianceInv

LEMMA UpdateArrivesKeeps ==
  ASSUME ComplianceInv, NEW y \in C!Statuses, C!UpdateArrives(y)
  PROVE  ComplianceInv' /\ slips \subseteq slips' /\ faults' \in {faults, faults + 1}
<1>1. C!ComplianceTypeOK /\ DeskOK /\ DocsInv /\ BankInv
  BY DEF ComplianceInv
<1>2. /\ UNCHANGED <<doc, bank, suspended, desk, seen, declared>> /\ updates[y] > 0
      /\ updates' = [updates EXCEPT ![y] = @ - 1]
      /\ \/ status' = [status EXCEPT !.db = y] /\ C!InOrder
         \/ C!Slip("profile") /\ UNCHANGED status
  BY DEF C!UpdateArrives
<1>3. slips \subseteq slips' /\ faults' \in {faults, faults + 1}
  BY <1>2, SlipGrows
<1>4. DeskOK'
  BY <1>1, <1>2 DEF DeskOK
<1>5. updates' \in [C!Statuses -> Nat] /\ updates'[y] = updates[y] - 1
      /\ \A z \in C!Statuses \ {y} : updates'[z] = updates[z]
  BY <1>1, <1>2 DEF C!ComplianceTypeOK
<1>6. status' \in [mem : C!Statuses, db : C!Statuses] /\ status'.mem = status.mem
  BY <1>1, <1>2 DEF C!ComplianceTypeOK
<1>7. C!ComplianceTypeOK'
  BY <1>1, <1>2, <1>5, <1>6 DEF C!ComplianceTypeOK
<1>8. DocsInv'
  <2>1. /\ InMemory' => InMemory
        /\ InStep' => InStep
    BY <1>3, StillInStep
  <2>2. C!Stated' = C!Stated /\ C!Derived(doc'.mem) = C!Derived(doc.mem)
    BY <1>2, StatedSame
  <2>3. \A e \in Desk : (AtDocs(e)' <=> AtDocs(e)) /\ (Reviewing(e) => Reviewing(e)')
    BY <1>2 DEF AtDocs, Reviewing
  <2>4. MemoryInv'
    BY <1>1, <1>2, <1>6, <2>1, <2>2, <2>3 DEF DocsInv, MemoryInv
  <2>5. ProfileInv'
    <3> SUFFICES ASSUME InStep' PROVE ProfileInv'
      BY DEF ProfileInv
    <3>1. y = C!Derived(doc.mem) /\ y \in C!Stated'
      BY <1>1, <1>2, <2>1, <2>2 DEF DocsInv, ProfileInv, C!Stated
    <3>2. status'.db = y
      BY <1>1, <1>2 DEF InStep, C!Slip, C!ComplianceTypeOK
    <3>3. ~Arrived
      BY <1>2 DEF Arrived
    <3>4. \A z \in C!Statuses : updates'[z] > 0 => z = C!Derived(doc'.mem)
      BY <1>1, <1>5, <2>1, <2>2, <3>1 DEF DocsInv, ProfileInv
    <3>5. \A e \in Desk : OneUpload(e) => OneUpload(e)'
      BY <1>2, <3>3 DEF OneUpload
    <3> QED
      BY <1>1, <1>2, <2>1, <2>2, <2>3, <3>1, <3>2, <3>3, <3>4, <3>5 DEF DocsInv, ProfileInv
  <2> QED
    BY <2>4, <2>5 DEF DocsInv
<1>9. BankInv'
  BY <1>1, <1>2, <1>3, BankFrame
<1> QED
  BY <1>3, <1>4, <1>7, <1>8, <1>9 DEF ComplianceInv

(* submitBankAccount: new details are pending, in the row and in memory.   *)
LEMMA SubmitBankKeeps ==
  ASSUME ComplianceInv, NEW d \in Desk, NEW b \in Banks, C!SubmitBank(d, b)
  PROVE  ComplianceInv' /\ slips \subseteq slips' /\ faults' \in {faults, faults + 1}
<1>1. C!ComplianceTypeOK /\ DeskOK /\ DocsInv /\ BankInv
  BY DEF ComplianceInv
<1> DEFINE x == [[desk[d] EXCEPT !.pc = "submitted"] EXCEPT !.item = b]
<1>2. desk[d] \in DeskRecords /\ desk \in [Desk -> DeskRecords]
  BY <1>1 DEF DeskOK
<1>3. x \in DeskRecords /\ x.pc = "submitted" /\ x.item = b
  BY <1>2 DEF DeskRecords, C!DocumentSteps
<1>4. desk' = [desk EXCEPT ![d] = x]
  BY <1>2 DEF C!SubmitBank
<1> HIDE DEF x
<1>5. OneDesk(d, x)
  BY <1>1, <1>3, <1>4, DeskIs DEF Fits
<1>6. /\ UNCHANGED <<doc, status, updates, suspended, seen, declared>> /\ desk[d].pc = "new"
      /\ \/ bank' = [bank EXCEPT !.db = C!Resubmission(b)]
         \/ UNCHANGED bank
  BY DEF C!SubmitBank
<1>7. slips \subseteq slips' /\ faults' \in {faults, faults + 1}
  BY SlipGrows DEF C!SubmitBank
<1>8. /\ bank' \in [mem : C!BankRecords, db : C!BankRecords]
      /\ bank'.mem = bank.mem
      /\ bank'.db = bank.db \/ (bank'.db.v = b /\ bank'.db.status = "pending")
  BY <1>1, <1>6 DEF C!ComplianceTypeOK, C!BankRecords, C!Resubmission
<1>9. DeskOK'
  <2>1. BankKnown(bank.mem)' /\ BankKnown(bank.db)'
    BY <1>1, <1>8 DEF BankKnown, DeskOK
  <2> QED
    BY <1>1, <1>5, <2>1, DeskKeeps
<1>10. C!ComplianceTypeOK'
  BY <1>1, <1>6, <1>8 DEF C!ComplianceTypeOK
<1>11. DocsInv'
  BY <1>1, <1>3, <1>5, <1>6, <1>7, DocsFrame DEF OneDesk, AtDocs, C!DocumentSteps
<1>12. BankInv'
  BY <1>1, <1>3, <1>5, <1>6, <1>7, <1>8 DEF BankInv, OneDesk
<1> QED
  BY <1>7, <1>9, <1>10, <1>11, <1>12 DEF ComplianceInv

LEMMA SubmittedKeeps ==
  ASSUME ComplianceInv, NEW d \in Desk, C!Submitted(d)
  PROVE  ComplianceInv' /\ slips \subseteq slips' /\ faults' \in {faults, faults + 1}
<1>1. C!ComplianceTypeOK /\ DeskOK /\ DocsInv /\ BankInv
  BY DEF ComplianceInv
<1>2. PICK x : OneDesk(d, x) /\ x.pc = "done"
  BY <1>1, DeskFinishes DEF C!Submitted
<1>3. /\ UNCHANGED <<doc, status, updates, suspended, seen, declared>> /\ slips' = slips /\ faults' = faults
      /\ bank' = [bank EXCEPT !.mem = C!Resubmission(desk[d].item)]
      /\ desk[d].pc = "submitted" /\ desk[d].item \in Banks
  BY <1>1 DEF C!Submitted, C!InOrder, DeskOK, Fits
<1>4. /\ bank' \in [mem : C!BankRecords, db : C!BankRecords]
      /\ bank'.db = bank.db /\ bank'.mem.v \in Banks /\ bank'.mem.status = "pending"
  BY <1>1, <1>3 DEF C!ComplianceTypeOK, C!BankRecords, C!Resubmission
<1>5. DeskOK'
  <2>1. BankKnown(bank.mem)' /\ BankKnown(bank.db)'
    BY <1>1, <1>4 DEF BankKnown, DeskOK
  <2> QED
    BY <1>1, <1>2, <2>1, DeskKeeps
<1>6. C!ComplianceTypeOK'
  BY <1>1, <1>3, <1>4 DEF C!ComplianceTypeOK
<1>7. DocsInv'
  BY <1>1, <1>2, <1>3, DocsFrame DEF OneDesk, AtDocs, C!DocumentSteps
<1>8. BankInv'
  BY <1>1, <1>2, <1>3, <1>4 DEF BankInv, OneDesk
<1> QED
  BY <1>3, <1>5, <1>6, <1>7, <1>8 DEF ComplianceInv

(* The same in a dossier.                                                  *)
LEMMA DossierBankKeeps ==
  ASSUME ComplianceInv, NEW d \in Desk, C!DossierBank(d)
  PROVE  ComplianceInv' /\ slips \subseteq slips' /\ faults' \in {faults, faults + 1}
<1>1. C!ComplianceTypeOK /\ DeskOK /\ DocsInv /\ BankInv
  BY DEF ComplianceInv
<1> DEFINE x == [desk[d] EXCEPT !.pc = "dossierBank"]
<1>2. /\ UNCHANGED <<doc, status, updates, suspended, seen, declared>>
      /\ desk[d].pc = "dossierSent" /\ desk[d].item \in Banks
      /\ \/ bank' = [bank EXCEPT !.db = C!Resubmission(desk[d].item)]
         \/ UNCHANGED bank
      /\ desk[d] \in DeskRecords /\ desk \in [Desk -> DeskRecords]
  BY <1>1 DEF C!DossierBank, DeskOK, Fits
<1>3. /\ x \in DeskRecords /\ x.pc = "dossierBank" /\ x.item = desk[d].item
      /\ x.left = desk[d].left /\ x.rows = desk[d].rows
  BY <1>2 DEF DeskRecords, C!DocumentSteps
<1>4. desk' = [desk EXCEPT ![d] = x]
  BY <1>2 DEF C!DossierBank
<1> HIDE DEF x
<1>5. OneDesk(d, x)
  BY <1>1, <1>2, <1>3, <1>4, DeskIs DEF Fits
<1>6. slips \subseteq slips' /\ faults' \in {faults, faults + 1}
  BY SlipGrows DEF C!DossierBank
<1>7. /\ bank' \in [mem : C!BankRecords, db : C!BankRecords]
      /\ bank'.mem = bank.mem
      /\ bank'.db = bank.db \/ (bank'.db.v \in Banks /\ bank'.db.status = "pending")
  BY <1>1, <1>2 DEF C!ComplianceTypeOK, C!BankRecords, C!Resubmission
<1>8. DeskOK'
  <2>1. BankKnown(bank.mem)' /\ BankKnown(bank.db)'
    BY <1>1, <1>7 DEF BankKnown, DeskOK
  <2> QED
    BY <1>1, <1>5, <2>1, DeskKeeps
<1>9. C!ComplianceTypeOK'
  BY <1>1, <1>2, <1>7 DEF C!ComplianceTypeOK
<1>10. DocsInv'
  BY <1>1, <1>2, <1>3, <1>5, <1>6, DocsGoOn DEF Submitting
<1>11. BankInv'
  BY <1>1, <1>2, <1>3, <1>5, <1>6, <1>7 DEF BankInv, OneDesk
<1> QED
  BY <1>6, <1>8, <1>9, <1>10, <1>11 DEF ComplianceInv

LEMMA DossierBankedKeeps ==
  ASSUME ComplianceInv, NEW d \in Desk, C!DossierBanked(d)
  PROVE  ComplianceInv' /\ slips \subseteq slips' /\ faults' \in {faults, faults + 1}
<1>1. C!ComplianceTypeOK /\ DeskOK /\ DocsInv /\ BankInv
  BY DEF ComplianceInv
<1> DEFINE x == [[desk[d] EXCEPT !.pc = "dossierSent"] EXCEPT !.item = 0]
<1>2. /\ UNCHANGED <<doc, status, updates, suspended, seen, declared>> /\ slips' = slips /\ faults' = faults
      /\ bank' = [bank EXCEPT !.mem = C!Resubmission(desk[d].item)]
      /\ desk[d].pc = "dossierBank" /\ desk[d].item \in Banks
      /\ desk[d] \in DeskRecords /\ desk \in [Desk -> DeskRecords]
  BY <1>1 DEF C!DossierBanked, C!InOrder, DeskOK, Fits
<1>3. /\ x \in DeskRecords /\ x.pc = "dossierSent" /\ x.item = 0
      /\ x.left = desk[d].left /\ x.rows = desk[d].rows
  BY <1>2 DEF DeskRecords, C!DocumentSteps
<1>4. desk' = [desk EXCEPT ![d] = x]
  BY <1>2 DEF C!DossierBanked
<1> HIDE DEF x
<1>5. OneDesk(d, x)
  BY <1>1, <1>3, <1>4, DeskIs DEF Fits
<1>6. /\ bank' \in [mem : C!BankRecords, db : C!BankRecords]
      /\ bank'.db = bank.db /\ bank'.mem.v \in Banks /\ bank'.mem.status = "pending"
  BY <1>1, <1>2 DEF C!ComplianceTypeOK, C!BankRecords, C!Resubmission
<1>7. DeskOK'
  <2>1. BankKnown(bank.mem)' /\ BankKnown(bank.db)'
    BY <1>1, <1>6 DEF BankKnown, DeskOK
  <2> QED
    BY <1>1, <1>5, <2>1, DeskKeeps
<1>8. C!ComplianceTypeOK'
  BY <1>1, <1>2, <1>6 DEF C!ComplianceTypeOK
<1>9. DocsInv'
  BY <1>1, <1>2, <1>3, <1>5, DocsGoOn DEF Submitting
<1>10. BankInv'
  BY <1>1, <1>2, <1>3, <1>5, <1>6 DEF BankInv, OneDesk
<1> QED
  BY <1>2, <1>7, <1>8, <1>9, <1>10 DEF ComplianceInv

(* An administrator's look is remembered; his verdict reaches what he      *)
(* looked at, or a resubmission is noted.                                  *)
LEMMA OpenBankKeeps ==
  ASSUME ComplianceInv, NEW d \in Desk, NEW verdict \in C!Verdicts, C!OpenBank(d, verdict)
  PROVE  ComplianceInv' /\ slips \subseteq slips' /\ faults' \in {faults, faults + 1}
<1>1. C!ComplianceTypeOK /\ DeskOK /\ DocsInv /\ BankInv
  BY DEF ComplianceInv
<1> DEFINE x == [C!NoDesk EXCEPT !.pc = "opened", !.item = bank.mem.v, !.verdict = verdict]
<1>2. /\ UNCHANGED <<doc, status, updates, bank, suspended, declared>> /\ desk[d].pc = "new"
      /\ slips' = slips /\ faults' = faults /\ seen' = seen \cup {bank.mem.v}
      /\ bank.mem.v \in Banks
  BY <1>1 DEF C!OpenBank, C!InOrder, DeskOK
<1>3. x \in DeskRecords /\ x.pc = "opened" /\ x.item = bank.mem.v /\ x.verdict = verdict
  BY <1>2 DEF DeskRecords, C!DocumentSteps, C!NoDesk
<1>4. desk' = [desk EXCEPT ![d] = x]
  BY DEF C!OpenBank
<1> HIDE DEF x
<1>5. OneDesk(d, x)
  BY <1>1, <1>2, <1>3, <1>4, DeskIs DEF Fits
<1>6. DeskOK'
  BY <1>1, <1>2, <1>5, BankStays, DeskKeeps
<1>7. C!ComplianceTypeOK'
  BY <1>1, <1>2 DEF C!ComplianceTypeOK
<1>8. DocsInv'
  BY <1>1, <1>2, <1>3, <1>5, DocsFrame DEF OneDesk, AtDocs, C!DocumentSteps
<1>9. BankInv'
  BY <1>1, <1>2, <1>3, <1>5 DEF BankInv, OneDesk
<1> QED
  BY <1>2, <1>6, <1>7, <1>8, <1>9 DEF ComplianceInv

LEMMA ReviewBankKeeps ==
  ASSUME ComplianceInv, NEW d \in Desk, C!ReviewBank(d)
  PROVE  ComplianceInv' /\ slips \subseteq slips' /\ faults' \in {faults, faults + 1}
<1>1. C!ComplianceTypeOK /\ DeskOK /\ DocsInv /\ BankInv
  BY DEF ComplianceInv
<1> DEFINE x == [desk[d] EXCEPT !.pc = "bankReviewed"]
<1>2. /\ UNCHANGED <<doc, status, updates, suspended, seen, declared, faults>>
      /\ desk[d].pc = "opened" /\ bank.mem # C!NoBank
      /\ bank' = [bank EXCEPT !.mem.status = desk[d].verdict]
      /\ slips' = (IF bank.mem.v # desk[d].item THEN slips \cup {"resubmitted"} ELSE slips)
      /\ desk \in [Desk -> DeskRecords] /\ desk[d].verdict \in C!Verdicts
      /\ bank.mem.v \in Banks
  BY <1>1 DEF C!ReviewBank, DeskOK, Fits
<1>3. /\ x \in DeskRecords /\ x.pc = "bankReviewed" /\ x.item = desk[d].item
      /\ x.verdict = desk[d].verdict
  BY <1>2 DEF DeskRecords
<1>4. desk' = [desk EXCEPT ![d] = x]
  BY <1>2 DEF C!ReviewBank
<1> HIDE DEF x
<1>5. OneDesk(d, x)
  BY <1>1, <1>2, <1>3, <1>4, DeskIs DEF Fits
<1>6. /\ bank' \in [mem : C!BankRecords, db : C!BankRecords]
      /\ bank'.db = bank.db /\ bank'.mem.v = bank.mem.v /\ bank'.mem.v \in Banks
      /\ slips \subseteq slips'
  BY <1>1, <1>2 DEF C!ComplianceTypeOK, C!BankRecords
<1>7. DeskOK'
  <2>1. BankKnown(bank.mem)' /\ BankKnown(bank.db)'
    BY <1>1, <1>6 DEF BankKnown, DeskOK
  <2> QED
    BY <1>1, <1>5, <2>1, DeskKeeps
<1>8. C!ComplianceTypeOK'
  BY <1>1, <1>2, <1>6 DEF C!ComplianceTypeOK
<1>9. DocsInv'
  BY <1>1, <1>2, <1>3, <1>5, <1>6, DocsFrame DEF OneDesk, AtDocs, C!DocumentSteps
<1>10. BankInv'
  <2> SUFFICES ASSUME "resubmitted" \notin slips' PROVE BankInv'
    BY DEF BankInv
  <2>1. "resubmitted" \notin slips /\ bank.mem.v = desk[d].item
    BY <1>2
  <2>2. desk[d].item \in seen
    BY <1>1, <1>2, <2>1 DEF BankInv
  <2> QED
    BY <1>1, <1>2, <1>3, <1>5, <1>6, <2>1, <2>2 DEF BankInv, OneDesk
<1> QED
  BY <1>2, <1>6, <1>7, <1>8, <1>9, <1>10 DEF ComplianceInv

LEMMA BankReviewedKeeps ==
  ASSUME ComplianceInv, NEW d \in Desk, C!BankReviewed(d)
  PROVE  ComplianceInv' /\ slips \subseteq slips' /\ faults' \in {faults, faults + 1}
<1>1. C!ComplianceTypeOK /\ DeskOK /\ DocsInv /\ BankInv
  BY DEF ComplianceInv
<1>2. PICK x : OneDesk(d, x) /\ x.pc = "done"
  BY <1>1, DeskFinishes DEF C!BankReviewed
<1>3. /\ UNCHANGED <<doc, status, updates, suspended, seen, declared>>
      /\ desk[d].pc = "bankReviewed" /\ desk[d].verdict \in C!Verdicts
      /\ \/ /\ bank' = (IF bank.db = C!NoBank THEN bank ELSE [bank EXCEPT !.db.status = desk[d].verdict])
            /\ slips' = (IF bank.db.v # desk[d].item THEN slips \cup {"resubmitted"} ELSE slips)
            /\ UNCHANGED faults
         \/ C!Slip("bank") /\ UNCHANGED bank
  BY <1>1 DEF C!BankReviewed, DeskOK, Fits
<1>4. slips \subseteq slips' /\ faults' \in {faults, faults + 1}
  BY <1>3, SlipGrows
<1>5. /\ bank' \in [mem : C!BankRecords, db : C!BankRecords]
      /\ bank'.mem = bank.mem
      /\ bank'.db = bank.db \/ (bank'.db.v = bank.db.v /\ bank.db # C!NoBank)
      /\ bank'.db = bank.db \/ bank.db.v = desk[d].item \/ "resubmitted" \in slips'
  BY <1>1, <1>3 DEF C!ComplianceTypeOK, C!BankRecords
<1>6. DeskOK'
  <2>1. BankKnown(bank.mem)' /\ BankKnown(bank.db)'
    BY <1>1, <1>5 DEF BankKnown, DeskOK
  <2> QED
    BY <1>1, <1>2, <2>1, DeskKeeps
<1>7. C!ComplianceTypeOK'
  BY <1>1, <1>3, <1>5 DEF C!ComplianceTypeOK
<1>8. DocsInv'
  BY <1>1, <1>2, <1>3, <1>4, DocsFrame DEF OneDesk, AtDocs, C!DocumentSteps
<1>9. BankInv'
  <2> SUFFICES ASSUME "resubmitted" \notin slips' PROVE BankInv'
    BY DEF BankInv
  <2>1. "resubmitted" \notin slips /\ desk[d].item \in seen
    BY <1>1, <1>3, <1>4 DEF BankInv
  <2>2. bank'.db = bank.db \/ bank'.db.v \in seen
    BY <1>5, <2>1
  <2> QED
    BY <1>1, <1>2, <1>3, <1>5, <2>1, <2>2 DEF BankInv, OneDesk
<1> QED
  BY <1>4, <1>6, <1>7, <1>8, <1>9 DEF ComplianceInv

LEMMA SuspendKeeps ==
  ASSUME ComplianceInv, NEW d \in Desk, NEW flag \in BOOLEAN, C!Suspend(d, flag)
  PROVE  ComplianceInv' /\ slips \subseteq slips' /\ faults' \in {faults, faults + 1}
<1>1. C!ComplianceTypeOK /\ DeskOK /\ DocsInv /\ BankInv
  BY DEF ComplianceInv
<1>2. PICK x : OneDesk(d, x) /\ x.pc = "done"
  BY <1>1, DeskFinishes DEF C!Suspend
<1>3. /\ UNCHANGED <<doc, status, updates, bank, seen, declared>> /\ desk[d].pc = "new"
      /\ slips' = slips /\ faults' = faults /\ suspended' = flag
  BY DEF C!Suspend, C!InOrder
<1>4. DeskOK'
  BY <1>1, <1>2, <1>3, BankStays, DeskKeeps
<1>5. C!ComplianceTypeOK'
  BY <1>1, <1>3 DEF C!ComplianceTypeOK
<1>6. DocsInv' /\ BankInv'
  BY <1>1, <1>2, <1>3, DocsFrame, BankFrame DEF OneDesk, AtDocs, C!DocumentSteps
<1> QED
  BY <1>3, <1>4, <1>5, <1>6 DEF ComplianceInv

(* A request reads the bank account again; the desk does not notice.       *)
LEMMA RefreshKeeps ==
  ASSUME ComplianceInv, bank' = C!Refreshed \/ UNCHANGED bank,
         UNCHANGED <<doc, status, updates, suspended, desk, seen, declared>>, slips \subseteq slips'
  PROVE  ComplianceInv'
<1>1. C!ComplianceTypeOK /\ DeskOK /\ DocsInv /\ BankInv
  BY DEF ComplianceInv
<1>2. /\ bank'.mem = bank.mem \/ bank'.mem = bank.db
      /\ bank'.db = bank.db /\ bank' \in [mem : C!BankRecords, db : C!BankRecords]
  BY <1>1 DEF C!Refreshed, C!Both, C!ComplianceTypeOK
<1>3. DeskOK'
  BY <1>1, <1>2 DEF DeskOK
<1>4. C!ComplianceTypeOK'
  BY <1>1, <1>2 DEF C!ComplianceTypeOK
<1>5. DocsInv'
  BY <1>1, DocsFrame
<1>6. BankInv'
  BY <1>1, <1>2 DEF BankInv
<1> QED
  BY <1>3, <1>4, <1>5, <1>6 DEF ComplianceInv

LEMMA ComplianceFrame ==
  ASSUME ComplianceInv, UNCHANGED complianceVars, slips \subseteq slips'
  PROVE  ComplianceInv'
BY RefreshKeeps DEF complianceVars

LEMMA ComplianceRestartKeeps ==
  ASSUME ComplianceInv, C!ComplianceRestart, slips \subseteq slips', "restart" \in slips'
  PROVE  ComplianceInv'
<1>1. C!ComplianceTypeOK /\ DeskOK /\ DocsInv /\ BankInv
  BY DEF ComplianceInv
<1>2. PICK db \in {status.db} \cup {x \in C!Statuses : updates[x] > 0} : status' = C!Both(db)
  BY DEF C!ComplianceRestart
<1>3. /\ doc' = C!Both(doc.db) /\ updates' = [x \in C!Statuses |-> 0] /\ bank' = C!Both(bank.db)
      /\ suspended' = FALSE /\ UNCHANGED <<seen, declared>>
      /\ desk' = [d \in Desk |-> IF desk[d].pc = "new" THEN C!NoDesk ELSE [C!NoDesk EXCEPT !.pc = "done"]]
  BY DEF C!ComplianceRestart
<1>4. C!NoDesk \in DeskRecords /\ [C!NoDesk EXCEPT !.pc = "done"] \in DeskRecords
      /\ C!NoDesk.pc = "new" /\ [C!NoDesk EXCEPT !.pc = "done"].pc = "done"
  BY DEF C!NoDesk, DeskRecords, C!DocumentSteps
<1>5. desk' \in [Desk -> DeskRecords] /\ \A d \in Desk : desk'[d].pc \in {"new", "done"}
  BY <1>3, <1>4
<1>6. bank'.mem = bank.db /\ bank'.db = bank.db /\ bank' \in [mem : C!BankRecords, db : C!BankRecords]
  BY <1>1, <1>3 DEF C!Both, C!ComplianceTypeOK
<1>7. DeskOK'
  BY <1>1, <1>5, <1>6 DEF DeskOK, Fits
<1>8. C!ComplianceTypeOK'
  BY <1>1, <1>2, <1>3, <1>6 DEF C!ComplianceTypeOK, C!Both
<1>9. DocsInv'
  BY DEF DocsInv, MemoryInv, ProfileInv, InMemory, InStep
<1>10. BankInv'
  BY <1>1, <1>3, <1>5, <1>6 DEF BankInv
<1> QED
  BY <1>7, <1>8, <1>9, <1>10 DEF ComplianceInv

LEMMA ComplianceStepKeeps ==
  ASSUME ComplianceInv, ComplianceStep
  PROVE  ComplianceInv' /\ slips \subseteq slips' /\ faults' \in {faults, faults + 1}
<1> DEFINE Goal == ComplianceInv' /\ slips \subseteq slips' /\ faults' \in {faults, faults + 1}
<1>1. ASSUME NEW d \in Desk, NEW t \in DocTypes, C!Upload(d, t) PROVE Goal
  BY <1>1, UploadKeeps
<1>2. ASSUME NEW d \in Desk, NEW t \in DocTypes, NEW x \in C!Verdicts, C!ReviewDoc(d, t, x) PROVE Goal
  BY <1>2, ReviewDocKeeps
<1>3. ASSUME NEW d \in Desk, NEW x \in C!Verdicts, C!ReviewDossier(d, x) PROVE Goal
  BY <1>3, ReviewDossierKeeps
<1>4. ASSUME NEW d \in Desk, NEW b \in Banks, C!SubmitBank(d, b) PROVE Goal
  BY <1>4, SubmitBankKeeps
<1>5. ASSUME NEW d \in Desk, NEW x \in C!Verdicts, C!OpenBank(d, x) PROVE Goal
  BY <1>5, OpenBankKeeps
<1>6. ASSUME NEW d \in Desk, NEW flag \in BOOLEAN, C!Suspend(d, flag) PROVE Goal
  BY <1>6, SuspendKeeps
<1>7. ASSUME NEW d \in Desk, NEW t \in DocTypes,
             \/ C!UploadFails(d, t) \/ C!NextDocument(d, t) \/ C!DocumentWritten(d, t)
             \/ C!DossierRow(d, t) \/ C!DossierUploaded(d, t)
      PROVE  Goal
  BY <1>7, UploadFailsKeeps, NextDocumentKeeps, DocumentWrittenKeeps, DossierRowKeeps,
     DossierUploadedKeeps
<1>8. ASSUME NEW d \in Desk, NEW T \in SUBSET DocTypes, NEW b \in Banks \cup {0},
             C!SubmitDossier(d, T, b)
      PROVE  Goal
  BY <1>8, SubmitDossierKeeps
<1>9. ASSUME NEW d \in Desk,
             \/ C!Uploaded(d) \/ C!DocReviewed(d) \/ C!DocRecorded(d)
             \/ C!DossierReviewed(d) \/ C!DossierSubmitted(d) \/ C!ProfileWritten(d)
      PROVE  Goal
  BY <1>9, UploadedKeeps, DocReviewedKeeps, DocRecordedKeeps, DossierReviewedKeeps,
     DossierSubmittedKeeps, ProfileWrittenKeeps
<1>10. ASSUME NEW d \in Desk,
              \/ C!Submitted(d) \/ C!DossierBank(d) \/ C!DossierBanked(d)
              \/ C!ReviewBank(d) \/ C!BankReviewed(d)
       PROVE  Goal
  BY <1>10, SubmittedKeeps, DossierBankKeeps, DossierBankedKeeps, ReviewBankKeeps, BankReviewedKeeps
<1>11. ASSUME NEW x \in C!Statuses, C!UpdateArrives(x) PROVE Goal
  BY <1>11, UpdateArrivesKeeps
<1> HIDE DEF Goal
<1>12. ASSUME NEW d \in Desk,
              \/ \E t \in DocTypes : \/ C!Upload(d, t) \/ C!UploadFails(d, t)
                                    \/ \E x \in C!Verdicts : C!ReviewDoc(d, t, x)
              \/ \E x \in C!Verdicts : C!ReviewDossier(d, x)
              \/ \E T \in SUBSET DocTypes, b \in Banks \cup {0} : C!SubmitDossier(d, T, b)
              \/ \E b \in Banks : C!SubmitBank(d, b)
              \/ \E x \in C!Verdicts : C!OpenBank(d, x)
              \/ \E flag \in BOOLEAN : C!Suspend(d, flag)
       PROVE  Goal
  BY <1>1, <1>2, <1>3, <1>4, <1>5, <1>6, <1>7, <1>8, <1>12
<1>13. ASSUME NEW d \in Desk,
              \/ \E t \in DocTypes : \/ C!NextDocument(d, t) \/ C!DocumentWritten(d, t)
                                    \/ C!DossierRow(d, t) \/ C!DossierUploaded(d, t)
              \/ C!Uploaded(d) \/ C!DocReviewed(d) \/ C!DocRecorded(d)
              \/ C!DossierReviewed(d) \/ C!DossierSubmitted(d) \/ C!ProfileWritten(d)
              \/ C!Submitted(d) \/ C!DossierBank(d) \/ C!DossierBanked(d)
              \/ C!ReviewBank(d) \/ C!BankReviewed(d)
       PROVE  Goal
  BY <1>7, <1>9, <1>10, <1>13
<1>14. Goal
  BY <1>11, <1>12, <1>13 DEF ComplianceStep
<1> QED
  BY <1>14 DEF Goal

(* The user starts out verified, with a bank account on file that was      *)
(* approved, or with nothing on file.                                      *)
LEMMA InitCompliance ==
  ASSUME C!ComplianceInit
  PROVE  ComplianceInv
<1>1. PICK start \in Verified :
        /\ doc = C!Both([d \in DocTypes |-> IF start THEN "approved" ELSE C!NoDoc])
        /\ status = C!Both(IF start THEN "verified" ELSE "unverified")
        /\ updates = [x \in C!Statuses |-> 0]
        /\ bank = C!Both(IF start THEN [v |-> 1, status |-> "approved"] ELSE C!NoBank)
        /\ suspended = FALSE
        /\ desk = [d \in Desk |-> C!NoDesk]
        /\ seen = IF start THEN {1} ELSE {}
        /\ declared = FALSE
  BY DEF C!ComplianceInit
<1>2. start \in BOOLEAN /\ 1 \in Banks
  BY AccountAssumption
<1>3. DeskOK
  <2>1. C!NoDesk \in DeskRecords /\ Fits(C!NoDesk)
    BY DEF C!NoDesk, DeskRecords, C!DocumentSteps, Fits
  <2>2. bank.mem = bank.db /\ (bank.mem = C!NoBank \/ bank.mem.v = 1)
    BY <1>1, <1>2 DEF C!Both
  <2> QED
    BY <1>1, <1>2, <2>1, <2>2 DEF DeskOK
<1>4. C!ComplianceTypeOK
  <2>1. doc \in [mem : C!Docs, db : C!Docs]
    BY <1>1, <1>2 DEF C!Both, C!Docs, C!Verdicts, C!NoDoc
  <2>2. status \in [mem : C!Statuses, db : C!Statuses] /\ updates \in [C!Statuses -> Nat]
    BY <1>1, <1>2 DEF C!Both, C!Statuses
  <2>3. bank \in [mem : C!BankRecords, db : C!BankRecords]
    BY <1>1, <1>2 DEF C!Both, C!BankRecords, C!NoBank, C!Verdicts
  <2> QED
    BY <1>1, <1>2, <2>1, <2>2, <2>3 DEF C!ComplianceTypeOK
<1>5. DocsInv
  <2>1. \A d \in Desk : /\ ~AtDocs(d) /\ desk[d].pc \notin Owing
                        /\ desk[d].pc \notin Submitting
                        /\ desk[d].pc # "dossier" /\ desk[d].pc # "profileSent"
    BY <1>1 DEF AtDocs, Owing, Submitting, C!DocumentSteps, C!NoDesk
  <2>2. \A x \in C!Statuses : updates[x] = 0
    BY <1>1
  <2>3. status.mem = C!Derived(doc.mem) /\ status.db = C!Derived(doc.mem)
    <3>1. DocTypes # {}
      BY AccountAssumption
    <3>2. CASE start
      BY <1>1, <3>1, <3>2 DEF C!Both, C!Derived, C!NoDoc
    <3>3. CASE ~start
      BY <1>1, <3>1, <3>3 DEF C!Both, C!Derived, C!NoDoc
    <3> QED
      BY <3>2, <3>3
  <2>4. C!Derived(doc.mem) \in C!Stated
    BY DEF C!Stated
  <2> QED
    BY <2>1, <2>2, <2>3, <2>4 DEF DocsInv, MemoryInv, ProfileInv
<1>6. BankInv
  BY <1>1, <1>2 DEF BankInv, C!Both, C!NoBank, C!NoDesk
<1> QED
  BY <1>3, <1>4, <1>5, <1>6 DEF ComplianceInv
-----------------------------------------------------------------------------
(* The code protocol in the account.  What a step does to the requests     *)
(* under way: they keep what they were asked for and the bank account they *)
(* were given.                                                             *)
Carries ==
  \A r \in Requests : job'[r].pc \in Locked =>
    job[r].pc \in Locked /\ job'[r].op = job[r].op /\ job'[r].bank = job[r].bank

LEMMA GotoCarries ==
  ASSUME TypeOK, NEW s \in Requests, job[s].pc \in Locked, NEW pc, Goto(s, pc)
  PROVE  Carries
BY DEF TypeOK, Jobs, Goto, Carries

LEMMA AnswerCarries ==
  ASSUME TypeOK, NEW s \in Requests, NEW answer, Answer(s, answer)
  PROVE  Carries
BY DEF TypeOK, Jobs, NoJob, Answer, Carries, Locked

LEMMA InsertCarries ==
  ASSUME TypeOK, NEW s \in Requests, Insert(s)
  PROVE  Carries
<1>1. job[s].pc \in Locked
  BY DEF Insert, At, Locked
<1>2. PICK c : job' = [job EXCEPT ![s].pc = "deliver", ![s].c = c] \/ Answer(s, "refused")
  BY DEF Insert
<1>3. CASE job' = [job EXCEPT ![s].pc = "deliver", ![s].c = c]
  BY <1>1, <1>3 DEF TypeOK, Jobs, Carries
<1> QED
  BY <1>2, <1>3, AnswerCarries

LEMMA ConsumeCarries ==
  ASSUME TypeOK, NEW s \in Requests, Consume(s)
  PROVE  Carries
<1>1. job[s].pc \in Locked
  BY DEF Consume, Verifying, At, Locked
<1>2. PICK key : job' = [job EXCEPT ![s].pc = "withdraw", ![s].key = key] \/ Answer(s, "refused")
  BY DEF Consume
<1>3. CASE job' = [job EXCEPT ![s].pc = "withdraw", ![s].key = key]
  BY <1>1, <1>3 DEF TypeOK, Jobs, Carries
<1> QED
  BY <1>2, <1>3, AnswerCarries

LEMMA StepCarries ==
  ASSUME IInv, NEW s \in Requests, Step(s)
  PROVE  Carries
<1>1. TypeOK
  BY DEF IInv
<1>2. CASE Insert(s) \/ Consume(s)
  BY <1>1, <1>2, InsertCarries, ConsumeCarries
<1>3. ASSUME ~Insert(s), ~Consume(s)
      PROVE  job[s].pc \in Locked /\ \E x : Goto(s, x) \/ Answer(s, x)
  <2>1. CASE Enter(s) \/ CheckLimit(s)
    BY <2>1 DEF Enter, CheckLimit, At, Locked
  <2>2. CASE Supersede(s) \/ Deliver(s) \/ CancelAll(s) \/ Cancel(s)
    BY <2>2 DEF Supersede, Deliver, CancelAll, Cancel, At, Locked
  <2>3. CASE Reject(s) \/ SpendTry(s)
    BY <2>3 DEF Reject, SpendTry, Verifying, At, Locked
  <2>4. CASE Withdraw(s) \/ Record(s) \/ Undo(s)
    BY <2>4 DEF Withdraw, Record, Undo, At, Locked
  <2> QED
    BY <1>3, <2>1, <2>2, <2>3, <2>4 DEF Step
<1> QED
  BY <1>1, <1>2, <1>3, GotoCarries, AnswerCarries

LEMMA StepPays ==
  ASSUME IInv, NEW s \in Requests, Step(s)
  PROVE  \A w \in withdrawals' : \/ w \in withdrawals
                                 \/ /\ job[s].pc \in Locked /\ job[s].op # "cancel"
                                    /\ w.bank = job[s].bank
<1>1. CASE Withdraw(s)
  <2>1. job[s].pc = "withdraw"
    BY <1>1 DEF Withdraw, At
  <2>2. job[s].pc \in Locked /\ job[s].op = "verify"
    BY <2>1 DEF Locked, IInv, JobInv, Inputs
  <2>3. \A w \in withdrawals' : w \in withdrawals \/ w.bank = job[s].bank
    BY <1>1 DEF Withdraw
  <2> QED
    BY <2>2, <2>3
<1>2. ASSUME ~Withdraw(s)
      PROVE  withdrawals' = withdrawals
  <2>1. CASE Enter(s) \/ CheckLimit(s) \/ Supersede(s) \/ Insert(s) \/ Deliver(s) \/ CancelAll(s)
    BY <2>1 DEF Enter, CheckLimit, Supersede, Insert, Deliver, CancelAll, history
  <2>2. CASE Cancel(s) \/ Reject(s) \/ SpendTry(s) \/ Consume(s) \/ Record(s) \/ Undo(s)
    BY <2>2 DEF Cancel, Reject, SpendTry, Consume, Record, Undo, history
  <2> QED
    BY <1>2, <2>1, <2>2 DEF Step
<1> QED
  BY <1>1, <1>2

LEMMA StepSlips ==
  ASSUME NEW s \in Requests, Step(s)
  PROVE  slips \subseteq slips'
<1>1. CASE Insert(s) \/ Withdraw(s) \/ Record(s) \/ Undo(s) \/ Enter(s)
  BY <1>1, OutcomeSlips DEF Insert, Withdraw, Record, Undo, Enter, Fine
<1>2. CASE Supersede(s) \/ CancelAll(s) \/ Deliver(s)
  BY <1>2, OutcomeSlips DEF Supersede, CancelAll, SupersedeAll, Deliver, Fine
<1>3. CASE Cancel(s) \/ Reject(s) \/ SpendTry(s) \/ Consume(s)
  BY <1>3, OutcomeSlips, ReadWriteSlips DEF Cancel, Reject, SpendTry, Consume, Read
<1>4. CASE CheckLimit(s)
  BY <1>4, OutcomeSlips DEF CheckLimit
<1> QED
  BY <1>1, <1>2, <1>3, <1>4 DEF Step

(* The payee of the requests.                                              *)
LEMMA PayeeStep ==
  ASSUME IInv, PayeeInv, NEW s \in Requests, Step(s), seen \subseteq seen'
  PROVE  PayeeInv'
<1> SUFFICES ASSUME "resubmitted" \notin slips' PROVE PayeeInv'
  BY DEF PayeeInv
<1>1. "resubmitted" \notin slips
  BY StepSlips
<1>2. /\ \A r \in Requests : (job[r].pc \in Locked /\ job[r].op # "cancel") => job[r].bank \in seen
      /\ \A w \in withdrawals : w.bank \in seen
  BY <1>1 DEF PayeeInv
<1>3. \A r \in Requests : (job'[r].pc \in Locked /\ job'[r].op # "cancel") => job'[r].bank \in seen'
  BY <1>2, StepCarries DEF Carries
<1>4. \A w \in withdrawals' : w.bank \in seen'
  BY <1>2, StepPays
<1> QED
  BY <1>3, <1>4 DEF PayeeInv

LEMMA PayeeAway ==
  ASSUME PayeeInv, UNCHANGED withdrawals, seen \subseteq seen', slips \subseteq slips',
         \A r \in Requests : \/ job'[r] = job[r]
                             \/ job'[r].pc \notin Locked
                             \/ "resubmitted" \notin slips => job'[r].op = "cancel" \/ job'[r].bank \in seen
  PROVE  PayeeInv'
BY DEF PayeeInv

(* The payee is approved (isBankEligible), so it was looked at, unless it  *)
(* was resubmitted under the eyes of an administrator.                     *)
LEMMA PayeeSeen ==
  ASSUME ComplianceInv, NEW read \in {"ok", "failed"}, C!Eligible(read), "resubmitted" \notin slips
  PROVE  C!Payee(read).v \in seen
<1>1. BankInv
  BY DEF ComplianceInv
<1>2. C!Payee(read).status = "approved"
  BY DEF C!Eligible
<1>3. C!Payee(read) = bank.mem \/ C!Payee(read) = bank.db
  BY DEF C!Payee, C!Refreshed, C!Both
<1> QED
  BY <1>1, <1>2, <1>3 DEF BankInv
-----------------------------------------------------------------------------
(* The steps of the account, one by one.                                   *)
ChallengeInv == IInv /\ MoneyInv /\ RateInv

(* What a step does to the code protocol: one of its own, or one that      *)
(* leaves the store alone and touches no request that holds the lock.      *)
OwnStep == [Next]_challengeVars
SideStep ==
  /\ IInv' /\ AwayStep /\ UNCHANGED <<rate, passed>>
  /\ \A r \in Requests : job'[r].pc = "withdraw" => job'[r] = job[r]

LEMMA ChallengeKeeps ==
  ASSUME ChallengeInv, OwnStep \/ SideStep
  PROVE  ChallengeInv'
<1>1. CASE OwnStep
  BY <1>1, NextInv, NextMoney DEF ChallengeInv, OwnStep
<1>2. CASE SideStep
  BY <1>2, AwayMoney, RateSame DEF ChallengeInv, SideStep, AwayStep
<1> QED
  BY <1>1, <1>2

LEMMA CodesKept ==
  ASSUME ChallengeInv, OwnStep \/ SideStep
  PROVE  OneTime!Next \/ Mapped' = Mapped
<1>1. IInv /\ IInv'
  BY ChallengeKeeps DEF ChallengeInv
<1>2. CASE OwnStep
  BY <1>1, <1>2, NextMaps DEF OwnStep
<1>3. CASE SideStep
  BY <1>1, <1>3, SameStages DEF SideStep, AwayStep
<1> QED
  BY <1>2, <1>3

LEMMA SideKeepsTypes ==
  ASSUME ChallengeInv, UNCHANGED RestOfChallenge, faults' \in {faults, faults + 1},
         slips \subseteq slips', UNCHANGED job \/ \E s \in Requests : job[s].pc = "new" /\ Dismiss(s)
  PROVE  SideStep /\ UNCHANGED withdrawals /\ \A r \in Requests : job'[r] = job[r] \/ job'[r].pc \notin Locked
<1>1. TypeOK /\ IInv
  BY DEF ChallengeInv, IInv
<1>2. UNCHANGED <<row, copy, lapsed, rate, queue, told, withdrawals, calls, wrong, passed>>
  BY DEF RestOfChallenge, store, history
<1>3. faults' \in Nat
  BY <1>1 DEF TypeOK
<1> DEFINE j == [NoJob EXCEPT !.pc = "done", !.answer = "refused"]
<1>4. j \in Jobs /\ j.pc = "done"
  BY FinishedJob
<1>5. UNCHANGED job \/ \E s \in Requests : job[s].pc = "new" /\ job' = [job EXCEPT ![s] = j]
  BY DEF Dismiss
<1> HIDE DEF j
<1>6. /\ job' \in [Requests -> Jobs]
      /\ \A r \in Requests : job'[r] = job[r] \/ (job'[r].pc = "done" /\ job[r].pc = "new")
  BY <1>1, <1>4, <1>5 DEF TypeOK
<1>7. IInv'
  BY <1>1, <1>2, <1>3, <1>6, FrameKeeps DEF TypeOK, Critical, Locked
<1>8. \A r \in Requests : /\ \/ job'[r] = job[r]
                             \/ job[r].pc \notin Critical /\ job'[r].pc \notin Critical
                          /\ job'[r].pc = "withdraw" => job'[r] = job[r]
                          /\ job'[r] = job[r] \/ job'[r].pc \notin Locked
  BY <1>6 DEF Critical, Locked
<1> QED
  BY <1>2, <1>7, <1>8 DEF SideStep, AwayStep

(* What is left to show of a step: that it is one of the two kinds, and    *)
(* that the other parts keep their invariants.                             *)
KeepsAll == (OwnStep \/ SideStep) /\ SessionInv' /\ ComplianceInv' /\ PayeeInv'

LEMMA AdmissionKeeps ==
  ASSUME AInv, NEW s \in Requests, Admission(s)
  PROVE  KeepsAll
<1>1. /\ SessionInv /\ ComplianceInv /\ PayeeInv
      /\ UNCHANGED <<challengeVars, complianceVars>> /\ \E t \in Tokens : S!Admit(t)
  BY DEF AInv, Admission
<1>2. slips' = slips /\ job' = job /\ withdrawals' = withdrawals /\ seen' = seen
  BY <1>1 DEF challengeVars, complianceVars
<1>3. SessionInv'
  BY <1>1, <1>2, AdmitKeeps
<1>4. ComplianceInv'
  BY <1>1, <1>2, ComplianceFrame
<1>5. PayeeInv'
  BY <1>1, <1>2, PayeeAway
<1> QED
  BY <1>1, <1>3, <1>4, <1>5 DEF KeepsAll, OwnStep

LEMMA NoAdmissionKeeps ==
  ASSUME AInv, NEW s \in Requests, NoAdmission(s)
  PROVE  KeepsAll
<1>1. /\ ChallengeInv /\ SessionInv /\ ComplianceInv /\ PayeeInv
      /\ UNCHANGED <<RestOfChallenge, complianceVars>> /\ Dismiss(s) /\ job[s].pc = "new"
  BY DEF AInv, ChallengeInv, NoAdmission, Waiting
<1>2. SessionInv' /\ slips \subseteq slips' /\ faults' \in {faults, faults + 1}
  <2>1. CASE \E t \in Tokens : S!RefuseToken(t)
    BY <1>1, <2>1, RefuseTokenKeeps
  <2>2. CASE UNCHANGED <<sessionVars, faults, slips>>
    BY <1>1, <2>2, SessionFrame
  <2> QED
    BY <2>1, <2>2 DEF NoAdmission
<1>3. ComplianceInv' /\ seen' = seen
  BY <1>1, <1>2, ComplianceFrame DEF complianceVars
<1>4. SideStep /\ UNCHANGED withdrawals /\ \A r \in Requests : job'[r] = job[r] \/ job'[r].pc \notin Locked
  BY <1>1, <1>2, SideKeepsTypes
<1>5. PayeeInv'
  BY <1>1, <1>2, <1>3, <1>4, PayeeAway
<1> QED
  BY <1>2, <1>3, <1>4, <1>5 DEF KeepsAll

LEMMA NotEligibleKeeps ==
  ASSUME AInv, NEW s \in Requests, NotEligible(s)
  PROVE  KeepsAll
<1>1. /\ ChallengeInv /\ SessionInv /\ ComplianceInv /\ PayeeInv
      /\ UNCHANGED <<RestOfChallenge, sessionVars, faults, slips>> /\ Dismiss(s) /\ job[s].pc = "new"
      /\ bank' = C!Refreshed /\ UNCHANGED <<doc, status, updates, suspended, desk, seen, declared>>
  BY DEF AInv, ChallengeInv, NotEligible, Waiting
<1>2. SessionInv' /\ ComplianceInv'
  BY <1>1, SessionFrame, RefreshKeeps
<1>3. SideStep /\ UNCHANGED withdrawals /\ \A r \in Requests : job'[r] = job[r] \/ job'[r].pc \notin Locked
  BY <1>1, SideKeepsTypes
<1>4. PayeeInv'
  BY <1>1, <1>3, PayeeAway
<1> QED
  BY <1>2, <1>3, <1>4 DEF KeepsAll

(* The request that takes its place at the lock.                           *)
LEMMA Enqueued ==
  ASSUME TypeOK, NEW s \in Requests, NEW op, NEW c, NEW code, NEW key, NEW bk,
         Enqueue(s, op, c, code, key, bk)
  PROVE  \A r \in Requests : job'[r] = job[r] \/ (job'[r].op = op /\ job'[r].bank = bk)
BY DEF TypeOK, Enqueue

LEMMA ProceedKeeps ==
  ASSUME AInv, NEW s \in Requests, Proceed(s)
  PROVE  KeepsAll
<1>1. /\ IInv /\ TypeOK /\ SessionInv /\ ComplianceInv /\ PayeeInv
      /\ UNCHANGED <<sessionVars, doc, status, updates, suspended, desk, seen, declared>>
  BY DEF AInv, IInv, Proceed
<1>2. PICK c \in Challenges \cup {NoId}, code \in {None, "right", "wrong"}, key \in Keys \cup {None} :
        \/ /\ Op(s) = "cancel" /\ Begin(s, Op(s), c, code, key, NoId) /\ UNCHANGED bank
        \/ /\ Op(s) \in {"request", "verify"} /\ C!Eligible("ok") /\ bank' = C!Refreshed
           /\ Begin(s, Op(s), c, code, key, C!Payee("ok").v)
  BY DEF Proceed
<1>3. PICK bk : /\ Begin(s, Op(s), c, code, key, bk) /\ Op(s) \in {"request", "verify", "cancel"}
                /\ Op(s) # "cancel" => C!Eligible("ok") /\ bk = C!Payee("ok").v
                /\ bank' = C!Refreshed \/ UNCHANGED bank
  BY <1>2
<1>4. bk \in Banks \cup {NoId}
  BY <1>3 DEF Begin, Allowed
<1>5. OwnStep
  BY <1>3, <1>4 DEF OwnStep, Next, Arrive
<1>6. /\ UNCHANGED <<withdrawals, slips>> /\ Enqueue(s, Op(s), c, code, key, bk)
  BY <1>3 DEF Begin, history
<1>7. SessionInv' /\ ComplianceInv'
  BY <1>1, <1>3, <1>6, SessionFrame, RefreshKeeps
<1>8. "resubmitted" \notin slips => Op(s) = "cancel" \/ bk \in seen
  BY <1>1, <1>3, PayeeSeen
<1>9. \A r \in Requests : job'[r] = job[r] \/ (job'[r].op = Op(s) /\ job'[r].bank = bk)
  BY <1>1, <1>6, Enqueued
<1>10. PayeeInv'
  BY <1>1, <1>6, <1>8, <1>9, PayeeAway
<1> QED
  BY <1>5, <1>7, <1>10 DEF KeepsAll

LEMMA ProceedUnreadKeeps ==
  ASSUME AInv, NEW s \in Requests, ProceedUnread(s)
  PROVE  KeepsAll
<1>1. /\ IInv /\ TypeOK /\ SessionInv /\ ComplianceInv /\ PayeeInv
      /\ UNCHANGED <<store, lapsed, rate, told, history, passed>> /\ job[s].pc = "new"
      /\ UNCHANGED <<sessionVars, doc, status, updates, suspended, desk, seen, declared>>
      /\ bank' = C!Refreshed /\ Op(s) \in {"request", "verify"} /\ C!Eligible("failed")
  BY DEF AInv, IInv, ProceedUnread, Waiting
<1>2. PICK c \in Challenges \cup {NoId}, code \in {None, "right", "wrong"}, key \in Keys \cup {None} :
        /\ Allowed(Op(s), c, code, key, C!Payee("failed").v)
        /\ Enqueue(s, Op(s), c, code, key, C!Payee("failed").v)
  BY DEF ProceedUnread
<1> DEFINE bk == C!Payee("failed").v
<1>3. bk \in Banks /\ Op(s) \in {"request", "verify", "cancel"}
  BY <1>1, <1>2 DEF Allowed
<1>4. "resubmitted" \notin slips => bk \in seen
  BY <1>1, PayeeSeen
<1> HIDE DEF bk
<1>5. Allowed(Op(s), c, code, key, bk) /\ Enqueue(s, Op(s), c, code, key, bk)
  BY <1>2 DEF bk
<1>6. slips \subseteq slips' /\ faults' \in {faults, faults + 1}
  BY StumbleSlips DEF ProceedUnread
<1>7. faults' \in Nat
  BY <1>1, <1>6 DEF TypeOK
<1>8. IInv' /\ \A r \in Requests : job'[r].pc = "withdraw" => job'[r] = job[r]
  BY <1>1, <1>3, <1>5, <1>7, EnqueueKeeps
<1>9. \A r \in Requests : job'[r] = job[r] \/ (job[r].pc \notin Critical /\ job'[r].pc \notin Critical)
  BY <1>1, <1>5, BeginAway
<1>10. SideStep
  BY <1>1, <1>6, <1>8, <1>9 DEF SideStep, AwayStep, store, history
<1>11. SessionInv' /\ ComplianceInv'
  BY <1>1, <1>6, SessionFrame, RefreshKeeps
<1>12. \A r \in Requests : job'[r] = job[r] \/ (job'[r].op = Op(s) /\ job'[r].bank = bk)
  BY <1>1, <1>5, Enqueued
<1>13. PayeeInv'
  BY <1>1, <1>4, <1>6, <1>12, PayeeAway DEF history
<1> QED
  BY <1>10, <1>11, <1>13 DEF KeepsAll

LEMMA ChallengeStepKeeps ==
  ASSUME AInv, ChallengeStep
  PROVE  KeepsAll
<1>1. /\ IInv /\ SessionInv /\ ComplianceInv /\ PayeeInv
      /\ UNCHANGED <<sessionVars, complianceVars>> /\ seen' = seen
  BY DEF AInv, ChallengeStep, Outside, complianceVars
<1>2. OwnStep
  BY DEF ChallengeStep, OwnStep, Next
<1>3. slips \subseteq slips' /\ PayeeInv'
  <2>1. ASSUME NEW s \in Requests, Step(s) PROVE slips \subseteq slips' /\ PayeeInv'
    BY <1>1, <2>1, StepSlips, PayeeStep
  <2>2. ASSUME NEW c \in Challenges, Lapse(c) PROVE slips \subseteq slips' /\ PayeeInv'
    BY <1>1, <2>2, PayeeAway DEF Lapse, history
  <2>3. ASSUME NEW k \in {"send", "verify"}, NewWindow(k) PROVE slips \subseteq slips' /\ PayeeInv'
    BY <1>1, <2>3, PayeeAway DEF NewWindow, history
  <2> QED
    BY <2>1, <2>2, <2>3 DEF ChallengeStep
<1>4. SessionInv' /\ ComplianceInv'
  BY <1>1, <1>3, SessionFrame, ComplianceFrame
<1> QED
  BY <1>2, <1>3, <1>4 DEF KeepsAll

LEMMA SessionStepKeepsAll ==
  ASSUME AInv, SessionStep
  PROVE  KeepsAll
<1>1. /\ ChallengeInv /\ SessionInv /\ ComplianceInv /\ PayeeInv
      /\ UNCHANGED <<RestOfChallenge, job, complianceVars>> /\ seen' = seen
  BY DEF AInv, ChallengeInv, SessionStep, complianceVars
<1>2. SessionInv' /\ slips \subseteq slips' /\ faults' \in {faults, faults + 1}
  BY <1>1, SessionStepKeeps
<1>3. SideStep /\ UNCHANGED withdrawals
  BY <1>1, <1>2, SideKeepsTypes
<1>4. ComplianceInv' /\ PayeeInv'
  BY <1>1, <1>2, <1>3, ComplianceFrame, PayeeAway
<1> QED
  BY <1>2, <1>3, <1>4 DEF KeepsAll

LEMMA SeenGrows ==
  ASSUME ComplianceStep
  PROVE  seen \subseteq seen'
<1>1. ASSUME NEW d \in Desk, NEW x, C!OpenBank(d, x) PROVE seen \subseteq seen'
  BY <1>1 DEF C!OpenBank
<1>2. ASSUME NEW d \in Desk, NEW t, NEW x, NEW y,
             \/ C!Upload(d, t) \/ C!UploadFails(d, t) \/ C!ReviewDoc(d, t, x) \/ C!ReviewDossier(d, x)
             \/ C!SubmitDossier(d, x, y) \/ C!SubmitBank(d, t) \/ C!Suspend(d, x)
      PROVE  seen \subseteq seen'
  BY <1>2 DEF C!Upload, C!UploadFails, C!ReviewDoc, C!ReviewDossier, C!SubmitDossier, C!SubmitBank,
              C!Suspend
<1>3. ASSUME NEW d \in Desk, NEW t,
             \/ C!NextDocument(d, t) \/ C!DocumentWritten(d, t)
             \/ C!DossierRow(d, t) \/ C!DossierUploaded(d, t)
             \/ C!Uploaded(d) \/ C!DocReviewed(d) \/ C!DocRecorded(d)
             \/ C!DossierReviewed(d) \/ C!DossierSubmitted(d) \/ C!ProfileWritten(d)
             \/ C!Submitted(d) \/ C!DossierBank(d) \/ C!DossierBanked(d)
             \/ C!ReviewBank(d) \/ C!BankReviewed(d)
      PROVE  seen \subseteq seen'
  BY <1>3 DEF C!NextDocument, C!DocumentWritten, C!DossierRow, C!DossierUploaded,
              C!Uploaded, C!DocReviewed, C!DocRecorded, C!DossierReviewed, C!DossierSubmitted,
              C!ProfileWritten, C!Submitted, C!DossierBank, C!DossierBanked, C!ReviewBank,
              C!BankReviewed
<1>4. ASSUME NEW x, C!UpdateArrives(x) PROVE seen \subseteq seen'
  BY <1>4 DEF C!UpdateArrives
<1> QED
  BY <1>1, <1>2, <1>3, <1>4 DEF ComplianceStep

LEMMA ComplianceStepKeepsAll ==
  ASSUME AInv, ComplianceStep
  PROVE  KeepsAll
<1>1. /\ ChallengeInv /\ SessionInv /\ ComplianceInv /\ PayeeInv
      /\ UNCHANGED <<RestOfChallenge, job, sessionVars>>
  BY DEF AInv, ChallengeInv, ComplianceStep
<1>2. ComplianceInv' /\ slips \subseteq slips' /\ faults' \in {faults, faults + 1}
  BY <1>1, ComplianceStepKeeps
<1>3. SideStep /\ UNCHANGED withdrawals
  BY <1>1, <1>2, SideKeepsTypes
<1>4. SessionInv' /\ PayeeInv'
  BY <1>1, <1>2, <1>3, SessionFrame, PayeeAway, SeenGrows
<1> QED
  BY <1>2, <1>3, <1>4 DEF KeepsAll

LEMMA AccountRestartKeeps ==
  ASSUME AInv, AccountRestart
  PROVE  KeepsAll
<1>1. /\ IInv /\ SessionInv /\ ComplianceInv /\ PayeeInv
      /\ Restart /\ S!SessionRestart /\ C!ComplianceRestart /\ seen' = seen
  BY DEF AInv, AccountRestart, C!ComplianceRestart
<1>2. slips' = slips \cup {"restart", "failed"} /\ UNCHANGED withdrawals
  BY <1>1 DEF Restart, Outcome, history
<1>3. \A r \in Requests : job'[r] = job[r] \/ job'[r].pc \notin Locked
  BY <1>1 DEF Restart, Forget, NoJob, Locked
<1>4. SessionInv' /\ ComplianceInv'
  BY <1>1, <1>2, SessionRestartKeeps, ComplianceRestartKeeps
<1>5. PayeeInv'
  BY <1>1, <1>2, <1>3, PayeeAway
<1>6. OwnStep
  BY <1>1 DEF OwnStep, Next
<1> QED
  BY <1>4, <1>5, <1>6 DEF KeepsAll

LEMMA AccountKeeps == AInv /\ [AccountNext]_vars => (OwnStep \/ SideStep) /\ AInv'
<1> SUFFICES ASSUME AInv, [AccountNext]_vars
             PROVE  (OwnStep \/ SideStep) /\ AInv'
  OBVIOUS
<1>1. KeepsAll
  <2>1. ASSUME NEW s \in Requests,
               \/ Admission(s) \/ NoAdmission(s) \/ Proceed(s) \/ ProceedUnread(s) \/ NotEligible(s)
        PROVE  KeepsAll
    BY <2>1, AdmissionKeeps, NoAdmissionKeeps, ProceedKeeps, ProceedUnreadKeeps, NotEligibleKeeps
  <2>2. CASE ChallengeStep \/ SessionStep \/ ComplianceStep
    BY <2>2, ChallengeStepKeeps, SessionStepKeepsAll, ComplianceStepKeepsAll
  <2>3. CASE AccountRestart
    BY <2>3, AccountRestartKeeps
  <2>4. CASE UNCHANGED vars
    <3>1. /\ SessionInv /\ ComplianceInv /\ PayeeInv
          /\ UNCHANGED <<challengeVars, sessionVars, complianceVars>>
      BY <2>4 DEF AInv, vars
    <3>2. slips' = slips /\ job' = job /\ withdrawals' = withdrawals /\ seen' = seen
      BY <3>1 DEF challengeVars, complianceVars
    <3>3. SessionInv' /\ ComplianceInv' /\ PayeeInv'
      BY <3>1, <3>2, SessionFrame, ComplianceFrame, PayeeAway
    <3> QED
      BY <3>1, <3>3 DEF KeepsAll, OwnStep
  <2> QED
    BY <2>1, <2>2, <2>3, <2>4 DEF AccountNext
<1>2. ChallengeInv'
  BY <1>1, ChallengeKeeps DEF AInv, ChallengeInv, KeepsAll
<1>3. script' = script /\ admitted' \subseteq Requests
  <2>1. script \in Scripts /\ admitted \subseteq Requests
    BY DEF AInv
  <2>2. ASSUME NEW s \in Requests,
               Admission(s) \/ NoAdmission(s) \/ Proceed(s) \/ ProceedUnread(s) \/ NotEligible(s)
        PROVE  script' = script /\ admitted' \subseteq Requests
    BY <2>1, <2>2 DEF Admission, NoAdmission, Proceed, ProceedUnread, NotEligible
  <2>3. CASE ChallengeStep \/ SessionStep \/ ComplianceStep \/ AccountRestart
    BY <2>1, <2>3 DEF ChallengeStep, SessionStep, ComplianceStep, AccountRestart, Outside
  <2>4. CASE UNCHANGED vars
    BY <2>1, <2>4 DEF vars
  <2> QED
    BY <2>2, <2>3, <2>4 DEF AccountNext
<1> QED
  BY <1>1, <1>2, <1>3 DEF AInv, ChallengeInv, KeepsAll

LEMMA InitAccount == AccountInit => AInv
<1> SUFFICES ASSUME AccountInit PROVE AInv
  OBVIOUS
<1>1. IInv /\ MoneyInv /\ RateInv
  BY InitInv, InitMoney DEF AccountInit
<1>2. SessionInv /\ ComplianceInv
  BY InitSession, InitCompliance DEF AccountInit
<1>3. PayeeInv
  BY DEF AccountInit, Init, PayeeInv, NoJob, Locked
<1> QED
  BY <1>1, <1>2, <1>3 DEF AccountInit, AInv
-----------------------------------------------------------------------------
(* The inductive invariant of the account.                                 *)
THEOREM AccountInvariant == AccountSpec => []AInv
BY InitAccount, AccountKeeps, PTL DEF AccountSpec

(* What AInv says of the account between two steps.                        *)
LEMMA AccountMeans ==
  ASSUME AInv
  PROVE  /\ AccountTypeOK /\ PaidToSeenAccount /\ SignedOutStaysOut
         /\ RecoveryOnce /\ NonceOnce /\ StatusAgrees
<1>1. AccountTypeOK
  BY DEF AInv, IInv, SessionInv, ComplianceInv, AccountTypeOK
<1>2. PaidToSeenAccount
  BY DEF AInv, PayeeInv, PaidToSeenAccount, Happened
<1>3. SignedOutStaysOut
  BY DEF AInv, SessionInv, OutInv, SignedOutStaysOut, S!SignedOutStaysOut
<1>4. RecoveryOnce
  BY DEF AInv, SessionInv, RecoveryInv, RecoveryOnce, S!RecoveryOnce
<1>5. NonceOnce
  BY DEF AInv, SessionInv, NonceInv, NonceOnce, S!NonceOnce
<1>6. StatusAgrees
  <2>1. MemoryInv /\ ProfileInv
    BY DEF AInv, ComplianceInv, DocsInv
  <2>2. ASSUME C!Idle, InMemory PROVE status.mem \in C!Stated
    <3>1. \A d \in Desk : desk[d].pc \notin Owing
      BY <2>2 DEF C!Idle, Owing, C!DocumentSteps
    <3> QED
      BY <2>1, <2>2, <3>1 DEF MemoryInv
  <2>3. ASSUME C!Quiet, InStep PROVE status.db \in C!Stated
    <3>1. Arrived /\ \A d \in Desk : desk[d].pc \notin Owing /\ ~AtDocs(d)
      BY <2>3 DEF C!Quiet, C!Idle, Owing, C!DocumentSteps, AtDocs, Arrived
    <3> QED
      BY <2>1, <2>3, <3>1 DEF ProfileInv
  <2> QED
    BY <2>2, <2>3 DEF StatusAgrees, C!StatusAgrees, InMemory, InStep
<1> QED
  BY <1>1, <1>2, <1>3, <1>4, <1>5, <1>6

(* Whatever is requested, signed out, reviewed and restarted, the state of *)
(* the account keeps its types.                                            *)
THEOREM AccountTypes == AccountSpec => []AccountTypeOK
BY AccountMeans, AccountInvariant, PTL

(* requireApprovedBank and resolveAuthoritativeUserAndBank let money go    *)
(* only to details an administrator looked at (approveBankAccount), unless *)
(* the user submitted others while he decided (submitBankAccount).         *)
THEOREM PayeeWasLookedAt == AccountSpec => []PaidToSeenAccount
BY AccountMeans, AccountInvariant, PTL

(* requireAuth admits no token after logout or adminLogout answered for    *)
(* it, unless a restart came before the write nobody waited for.           *)
THEOREM NoTokenAfterSignOut == AccountSpec => []SignedOutStaysOut
BY AccountMeans, AccountInvariant, PTL

(* resetPassword takes a recovery authorization once, whoever presents it  *)
(* at the same time, unless a restart emptied usedRecoveryJtis.            *)
THEOREM OneResetPerRecovery == AccountSpec => []RecoveryOnce
BY AccountMeans, AccountInvariant, PTL

(* verifyWalletSignature accepts a nonce once, unless two verifications    *)
(* overlap at its awaits or the row could not be marked as used.           *)
THEOREM OneLoginPerNonce == AccountSpec => []NonceOnce
BY AccountMeans, AccountInvariant, PTL

(* Between operations the status in memory is the one                      *)
(* recomputeUserVerificationStatus derives from the documents, however the *)
(* operations crossed, or pending if the last of them was submitKyc; once  *)
(* the updates nobody waits for are over, so is the profile, when the      *)
(* operations came one after the other and no write failed.  Compliance    *)
(* names the exceptions.                                                   *)
THEOREM StatusFollowsDocuments == AccountSpec => []StatusAgrees
BY AccountMeans, AccountInvariant, PTL

(* In the account too, where requests are admitted or turned away, bank    *)
(* accounts change under way and a restart takes everything in memory, the *)
(* properties of the code protocol hold.                                   *)
THEOREM AccountMoney ==
  AccountSpec => [](/\ OncePerChallenge /\ NoSecondGuess /\ LatestOnly
                    /\ CancelledMeansUnpaid /\ ConsumedIsPaid /\ LimitHolds)
<1>1. AInv => /\ OncePerChallenge /\ NoSecondGuess /\ LatestOnly
              /\ CancelledMeansUnpaid /\ ConsumedIsPaid /\ LimitHolds
  <2> SUFFICES ASSUME AInv
               PROVE  /\ OncePerChallenge /\ NoSecondGuess /\ LatestOnly
                      /\ CancelledMeansUnpaid /\ ConsumedIsPaid /\ LimitHolds
    OBVIOUS
  <2>1. NoSecondGuess /\ LatestOnly /\ CancelledMeansUnpaid /\ ConsumedIsPaid /\ LimitHolds
    BY MoneyMeans DEF AInv
  <2>2. OncePerChallenge
    BY DEF AInv, IInv, UsedInv, OncePerChallenge
  <2> QED
    BY <2>1, <2>2
<1> QED
  BY <1>1, AccountInvariant, PTL

(* The account implements OneTimeCode: requireAuth, the eligibility checks *)
(* and everything else that goes on beside the protocol are steps in which *)
(* no code is issued, taken, used or opened again.                         *)
THEOREM AccountImplementsOneTimeCode == AccountSpec => ImplementsOneTimeCode
<1>1. AccountInit => OneTime!Init
  <2> SUFFICES ASSUME AccountInit PROVE OneTime!Init
    OBVIOUS
  <2>1. \A c \in Challenges : StageOf(c) = "fresh"
    BY DEF AccountInit, Init, StageOf, NoJob
  <2> QED
    BY <2>1 DEF OneTime!Init
<1>2. AInv /\ [AccountNext]_vars => [OneTime!Next]_[c \in Challenges |-> StageOf(c)]
  BY AccountKeeps, CodesKept DEF AInv, ChallengeInv, Mapped
<1> QED
  BY <1>1, <1>2, AccountInvariant, PTL DEF AccountSpec, ImplementsOneTimeCode, OneTime!Spec

=============================================================================
