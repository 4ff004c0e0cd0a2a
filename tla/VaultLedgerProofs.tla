--------------------------- MODULE VaultLedgerProofs ---------------------------
(***************************************************************************)
(* Theorems about VaultLedger, for any transactions, requests, amounts and *)
(* numbers of faults.                                                      *)
(*                                                                         *)
(* That settled transactions stay settled is not inductive: the update of  *)
(* a row checks nothing.  It rests on the lock (one handler at work, the   *)
(* first of the queue) and on the status the handler saw when it got it,   *)
(* which must be the row's until the row is written.                       *)
(***************************************************************************)
EXTENDS VaultLedger, TotalsProofs, SequenceTheorems

Deciding == {"look", "queued", "rpc", "profile", "row", "rollback"}

\* What a handler is at each phase.
Shape(h) ==
  /\ h.pc # "idle" => h.op \in Operation
  /\ h.pc \in Working \cup {"look", "queued"} => h.op \in Creating \cup Reviewing
  /\ h.pc \in Deciding => ((h.tx = "none") <=> (h.op \in Creating))
  /\ h.pc = "done" => h.tx # "none"
  /\ h.pc = "rpc" => h.op = "request"
  /\ h.pc \in {"profile", "rollback"} => h.op \in Moving
  /\ h.pc \in {"debit", "record"} => h.op = "checkout"
  /\ h.pc \in {"look", "queued", "rpc", "profile"} => h.inserted = 0
  /\ h.pc = "row" => h.inserted \in {0, 1}

Shapes == \A r \in Requests : Shape(req[r])

\* Mutual exclusion: whoever is at work is the first of the queue.
LockHeld == \A r \in Requests : req[r].pc \in Working => queue # <<>> /\ Head(queue) = r

\* The queue holds each of its handlers once, and no one else's; whoever waits is
\* in it.
QueueFits ==
  /\ \A r \in Requests : req[r].pc = "queued" => \E i \in 1..Len(queue) : queue[i] = r
  /\ \A i \in 1..Len(queue) : req[queue[i]].pc \in Working \cup {"queued"}
  /\ \A i, j \in 1..Len(queue) : queue[i] = queue[j] => i = j

\* The transaction of a handler is one of the kind it handles, and deposits are
\* never cancelled.
KindsFit ==
  /\ \A r \in Requests : req[r].tx # "none" => rows[req[r].tx].type = Type(req[r].op)
  /\ \A t \in Txs : rows[t].type = "deposit" => rows[t].status # "cancelled"

\* While nobody was misled, the row is still as the handler found it when it
\* decided to go on.
DecisionsHold ==
  \A r \in Requests :
    req[r].pc \in {"profile", "row"} /\ req[r].tx # "none" =>
      rows[req[r].tx].status \in ReadIn(req[r].op)

LockInv == TypeOK /\ Shapes /\ LockHeld /\ QueueFits
IInv == LockInv /\ KindsFit /\ (~torn => DecisionsHold)

-----------------------------------------------------------------------------
(***************************************************************************)
(* The tables.                                                             *)
(***************************************************************************)
LEMMA MovedType ==
  ASSUME NEW op \in Moving, NEW n \in Nat, NEW p \in Profile
  PROVE  Moved(op, n, p) \in Profile
<1>1. \A a, b \in Nat : Monus(a, b) \in Nat
  BY DEF Monus
<1>2. p = [balance |-> p.balance, reserved |-> p.reserved] /\ p.balance \in Nat /\ p.reserved \in Nat
  BY DEF Profile
<1> QED BY <1>1, <1>2 DEF Moved, Moving, Operation, Creating, Reviewing, Profile

LEMMA WritesType ==
  ASSUME NEW op \in Operation
  PROVE  Writes(op) \in Status /\ Type(op) \in {"deposit", "withdraw"}
BY DEF Writes, Type, Status, Final, Operation, Creating, Reviewing

LEMMA NewRowType ==
  ASSUME NEW h \in Handler, h.op \in Operation
  PROVE  /\ NewRow(h) \in Row
         /\ NewRow(h).type = Type(h.op)
         /\ NewRow(h).status = Writes(h.op)
BY WritesType DEF NewRow, Row, Handler

\* A handler goes on only with a transaction that is still open.
LEMMA OpenRead ==
  ASSUME NEW op \in Reviewing, NEW s \in ReadIn(op), Type(op) = "deposit" => s # "cancelled"
  PROVE  s \in Status \ Final
BY DEF ReadIn, Reviewing, Type, Status, Final

LEMMA ReadInType ==
  ASSUME NEW op \in Reviewing
  PROVE  ReadIn(op) \subseteq Status
BY DEF ReadIn, Reviewing, Status, Final
-----------------------------------------------------------------------------

(***************************************************************************)
(* The lock.  A step of a handler changes that handler and the queue.      *)
(***************************************************************************)
Waiting == Working \cup {"queued"}
OthersStay(r) == \A s \in Requests \ {r} : req'[s] = req[s]

LEMMA LockJoin ==
  ASSUME LockInv, NEW r \in Requests, OthersStay(r), queue' = Append(queue, r),
         req[r].pc \notin Waiting, req'[r].pc = "queued"
  PROVE  LockHeld' /\ QueueFits'
<1>1. queue \in Seq(Requests) /\ Len(queue) \in Nat
  BY DEF LockInv, TypeOK
<1>2. /\ queue' \in Seq(Requests) /\ Len(queue') = Len(queue) + 1
      /\ \A i \in 1..Len(queue) : queue'[i] = queue[i]
      /\ queue'[Len(queue) + 1] = r
  BY <1>1, AppendProperties
<1>3. \A i \in 1..Len(queue) : queue[i] \in Requests \ {r}
  BY <1>1, ElementOfSeq DEF LockInv, QueueFits, Waiting
<1>4. QueueFits'
  BY <1>1, <1>2, <1>3 DEF LockInv, QueueFits, OthersStay
<1>5. ASSUME queue # <<>> PROVE queue' # <<>> /\ Head(queue') = Head(queue)
  <2>1. Len(queue) # 0
    BY <1>1, <1>5, EmptySeq
  <2>2. queue' # <<>> /\ Len(queue') # 0
    BY <1>1, <1>2, EmptySeq
  <2> QED BY <1>1, <1>2, <2>1, <2>2, HeadTailProperties
<1>6. LockHeld'
  BY <1>5 DEF LockInv, LockHeld, OthersStay, Working
<1> QED BY <1>4, <1>6

LEMMA LockMove ==
  ASSUME LockInv, NEW r \in Requests, OthersStay(r), queue' = queue,
         queue # <<>>, Head(queue) = r, req'[r].pc \in Waiting
  PROVE  LockHeld' /\ QueueFits'
<1>1. queue \in Seq(Requests)
  BY DEF LockInv, TypeOK
<1>2. \A i \in 1..Len(queue) : queue[i] \in Requests
  BY <1>1, ElementOfSeq
<1> QED BY <1>2 DEF LockInv, LockHeld, QueueFits, OthersStay, Waiting

LEMMA LockLeave ==
  ASSUME LockInv, NEW r \in Requests, OthersStay(r), queue' = Tail(queue),
         queue # <<>>, Head(queue) = r, req'[r].pc = "idle"
  PROVE  LockHeld' /\ QueueFits'
<1>1. queue \in Seq(Requests) /\ Len(queue) \in Nat
  BY DEF LockInv, TypeOK
<1>2. /\ Tail(queue) \in Seq(Requests) /\ Len(queue') = Len(queue) - 1
      /\ \A i \in 1..Len(queue') : queue'[i] = queue[i + 1]
      /\ queue[1] = r
  BY <1>1, HeadTailProperties
<1>3. Len(queue) > 0
  BY <1>1, EmptySeq
<1>4. \A i \in 1..Len(queue) : queue[i] \in Requests
  BY <1>1, ElementOfSeq
<1>5. \A i \in 1..Len(queue') : i + 1 \in 1..Len(queue) /\ queue'[i] \in Requests \ {r}
  BY <1>1, <1>2, <1>3, <1>4 DEF LockInv, QueueFits
<1>6. /\ \A i \in 1..Len(queue') : req'[queue'[i]].pc \in Waiting
      /\ \A i, j \in 1..Len(queue') : queue'[i] = queue'[j] => i = j
  BY <1>1, <1>2, <1>3, <1>5 DEF LockInv, QueueFits, OthersStay, Waiting
<1>7. ASSUME NEW s \in Requests, req'[s].pc = "queued"
      PROVE  \E i \in 1..Len(queue') : queue'[i] = s
  <2>1. s # r /\ req[s].pc = "queued"
    BY <1>7 DEF OthersStay
  <2>2. PICK i \in 1..Len(queue) : queue[i] = s
    BY <2>1 DEF LockInv, QueueFits
  <2>3. i - 1 \in 1..Len(queue') /\ queue'[i - 1] = s
    BY <1>1, <1>2, <2>1, <2>2
  <2> QED BY <2>3
<1>8. LockHeld'
  BY DEF LockInv, LockHeld, OthersStay, Working
<1> QED BY <1>6, <1>7, <1>8 DEF QueueFits, Waiting

\* What a checkout does does not touch the lock.
LEMMA LockAside ==
  ASSUME LockInv, NEW r \in Requests, OthersStay(r), queue' = queue,
         req[r].pc \notin Waiting, req'[r].pc \notin Waiting
  PROVE  LockHeld' /\ QueueFits'
<1>1. queue \in Seq(Requests)
  BY DEF LockInv, TypeOK
<1>2. \A i \in 1..Len(queue) : queue[i] \in Requests
  BY <1>1, ElementOfSeq
<1> QED BY <1>2 DEF LockInv, LockHeld, QueueFits, OthersStay, Waiting

-----------------------------------------------------------------------------
(***************************************************************************)
(* Types and mutual exclusion: one lemma per way to change a handler.      *)
(***************************************************************************)
LEMMA HandlerStep ==
  ASSUME LockInv, NEW r \in Requests, NEW h \in Handler, Shape(h),
         req' = [req EXCEPT ![r] = h]
  PROVE  req' \in [Requests -> Handler] /\ OthersStay(r) /\ req'[r] = h /\ Shapes'
BY DEF LockInv, TypeOK, Shapes, OthersStay

LEMMA IdleShape == Idle \in Handler /\ Shape(Idle)
BY DEF Idle, Handler, Profile, Unread, Shape, Working, Deciding

LEMMA LeaveStep ==
  ASSUME LockInv, NEW r \in Requests, queue # <<>>, Head(queue) = r, Leave(r)
  PROVE  /\ req' \in [Requests -> Handler] /\ OthersStay(r) /\ req'[r] = Idle /\ Shapes'
         /\ queue' \in Seq(Requests) /\ LockHeld' /\ QueueFits'
<1>1. req' \in [Requests -> Handler] /\ OthersStay(r) /\ req'[r] = Idle /\ Shapes'
  BY IdleShape, HandlerStep DEF Leave
<1>2. queue' \in Seq(Requests)
  BY HeadTailProperties DEF Leave, LockInv, TypeOK
<1>3. LockHeld' /\ QueueFits'
  BY <1>1, LockLeave DEF Leave, Idle
<1> QED BY <1>1, <1>2, <1>3

\* The holder of the lock goes on.
LEMMA MoveStep ==
  ASSUME LockInv, NEW r \in Requests, queue # <<>>, Head(queue) = r,
         NEW h \in Handler, Shape(h), h.pc \in Waiting,
         req' = [req EXCEPT ![r] = h], queue' = queue
  PROVE  /\ req' \in [Requests -> Handler] /\ OthersStay(r) /\ req'[r] = h /\ Shapes'
         /\ queue' \in Seq(Requests) /\ LockHeld' /\ QueueFits'
<1>1. req' \in [Requests -> Handler] /\ OthersStay(r) /\ req'[r] = h /\ Shapes'
  BY HandlerStep
<1>2. LockHeld' /\ QueueFits'
  BY <1>1, LockMove
<1> QED BY <1>1, <1>2 DEF LockInv, TypeOK

LEMMA AsideStep ==
  ASSUME LockInv, NEW r \in Requests, req[r].pc \notin Waiting,
         NEW h \in Handler, Shape(h), h.pc \notin Waiting,
         req' = [req EXCEPT ![r] = h], queue' = queue
  PROVE  /\ req' \in [Requests -> Handler] /\ OthersStay(r) /\ req'[r] = h /\ Shapes'
         /\ queue' \in Seq(Requests) /\ LockHeld' /\ QueueFits'
<1>1. req' \in [Requests -> Handler] /\ OthersStay(r) /\ req'[r] = h /\ Shapes'
  BY HandlerStep
<1>2. LockHeld' /\ QueueFits'
  BY <1>1, LockAside
<1> QED BY <1>1, <1>2 DEF LockInv, TypeOK

LEMMA JoinStep ==
  ASSUME LockInv, NEW r \in Requests, req[r].pc \notin Waiting,
         NEW h \in Handler, Shape(h), h.pc = "queued",
         req' = [req EXCEPT ![r] = h], queue' = Append(queue, r)
  PROVE  /\ req' \in [Requests -> Handler] /\ OthersStay(r) /\ req'[r] = h /\ Shapes'
         /\ queue' \in Seq(Requests) /\ LockHeld' /\ QueueFits'
<1>1. req' \in [Requests -> Handler] /\ OthersStay(r) /\ req'[r] = h /\ Shapes'
  BY HandlerStep
<1>2. LockHeld' /\ QueueFits'
  BY <1>1, LockJoin
<1>3. queue' \in Seq(Requests)
  BY AppendProperties DEF LockInv, TypeOK
<1> QED BY <1>1, <1>2, <1>3

-----------------------------------------------------------------------------
LEMMA FaultsType ==
  ASSUME TypeOK, UNCHANGED faults \/ Fault
  PROVE  faults' \in 0..MaxFaults
BY VaultAssumption DEF TypeOK, Fault

\* A handler that gets the lock goes on or leaves.
LEMMA EnterChoice ==
  ASSUME LockInv, NEW r \in Requests, Enter(r)
  PROVE  /\ queue # <<>> /\ Head(queue) = r /\ req[r].pc = "queued"
         /\ Proceed(r) \/ Leave(r)
         /\ UNCHANGED <<profile, rows>> /\ torn' \in BOOLEAN /\ (torn => torn')
         /\ cache' \in [Txs -> Status \cup {"none"}] /\ faults' \in 0..MaxFaults
<1>1. queue # <<>> /\ Head(queue) = r /\ req[r].pc = "queued"
  BY DEF Enter, EnterUnlocked, At
<1>2. Proceed(r) \/ Leave(r)
  BY DEF Enter, EnterUnlocked
<1>3. UNCHANGED faults \/ Fault
  BY DEF Enter, EnterUnlocked
<1>4. \A t \in Txs : rows[t].status \in Status \cup {"none"}
  BY DEF LockInv, TypeOK, Row, NoRow
<1>5. cache' = cache \/ cache' = [cache EXCEPT ![req[r].tx] = rows[req[r].tx].status]
  BY DEF Enter, EnterUnlocked
<1>6. cache' \in [Txs -> Status \cup {"none"}]
  BY <1>4, <1>5 DEF LockInv, TypeOK
<1>7. torn' \in BOOLEAN /\ (torn => torn')
  <2>1. torn' = torn \/ \E b \in BOOLEAN : torn' = (torn \/ b)
    BY DEF Enter, EnterUnlocked
  <2> QED BY <2>1 DEF LockInv, TypeOK
<1> QED BY <1>1, <1>2, <1>3, <1>6, <1>7, FaultsType DEF Enter, EnterUnlocked, LockInv

LEMMA ProceedStep ==
  ASSUME LockInv, NEW r \in Requests, queue # <<>>, Head(queue) = r,
         req[r].pc = "queued", Proceed(r)
  PROVE  /\ req' \in [Requests -> Handler] /\ OthersStay(r) /\ Shapes'
         /\ req'[r].pc \in {"profile", "rpc", "row"}
         /\ req'[r].tx = req[r].tx /\ req'[r].op = req[r].op
         /\ queue' \in Seq(Requests) /\ LockHeld' /\ QueueFits'
<1> DEFINE op == req[r].op
           read == IF op \in Moving THEN profile ELSE Unread
           h == [req[r] EXCEPT !.pc = FirstWrite(op), !.read = read]
<1>1. req' = [req EXCEPT ![r] = h] /\ queue' = queue
  BY DEF Proceed
<1>2. req[r] \in Handler /\ Shape(req[r]) /\ read \in Profile
  BY DEF LockInv, TypeOK, Shapes, Unread, Profile
<1>3. op \in Creating \cup Reviewing /\ op \in Operation
  BY <1>2 DEF Shape
<1>4. /\ FirstWrite(op) \in {"profile", "rpc", "row"}
      /\ FirstWrite(op) = "profile" => op \in Moving
      /\ FirstWrite(op) = "rpc" => op = "request"
  BY DEF FirstWrite
<1>5. h \in Handler
  <2> HIDE DEF read, op
  <2> QED BY <1>2, <1>4 DEF Handler
<1>6. /\ h.pc = FirstWrite(op) /\ h.tx = req[r].tx /\ h.op = op
      /\ h.inserted = req[r].inserted
  BY <1>2 DEF Handler
<1>7. Shape(h)
  <2> HIDE DEF h
  <2> QED BY <1>2, <1>3, <1>4, <1>6 DEF Shape, Working, Deciding
<1>8. h.pc \in Waiting
  BY <1>4, <1>6 DEF Waiting, Working
<1> HIDE DEF h
<1> QED BY <1>1, <1>4, <1>5, <1>6, <1>7, <1>8, MoveStep

LEMMA EnterStep ==
  ASSUME LockInv, NEW r \in Requests, Enter(r)
  PROVE  LockInv'
<1>1. CASE Proceed(r)
  BY <1>1, EnterChoice, ProceedStep DEF LockInv, TypeOK
<1>2. CASE Leave(r)
  BY <1>2, EnterChoice, LeaveStep DEF LockInv, TypeOK
<1> QED BY <1>1, <1>2, EnterChoice

\* A handler that starts, by what it starts as.
LEMMA BeginStep ==
  ASSUME LockInv, NEW r \in Requests, Ask(r)
  PROVE  /\ req[r].pc = "idle" /\ OthersStay(r) /\ LockInv'
         /\ UNCHANGED <<rows, cache, torn>>
         /\ \/ req'[r].pc \in {"queued", "debit"} /\ req'[r].tx = "none"
            \/ /\ req'[r].pc = "look" /\ req'[r].tx \in Txs
               /\ rows[req'[r].tx].type = Type(req'[r].op)
<1> DEFINE Started(h) == Begin(r, h) /\ h \in Handler /\ Shape(h)
<1>1. ASSUME NEW h, Started(h)
      PROVE  req' = [req EXCEPT ![r] = h] /\ req[r].pc = "idle" /\ req[r].pc \notin Waiting
  BY <1>1 DEF Begin, Idle, Waiting, Working
<1>2. ASSUME NEW op \in Requested, NEW n \in Amounts, NEW key \in Keys \cup {"none"},
             NEW ref \in Refs \cup {"none"}, Create(r, op, n, key, ref)
      PROVE  /\ OthersStay(r) /\ LockInv' /\ req[r].pc = "idle"
             /\ UNCHANGED <<rows, cache, torn>>
             /\ req'[r].pc = "queued" /\ req'[r].tx = "none"
  <2> DEFINE h == [Idle EXCEPT !.pc = "queued", !.op = op, !.amount = n, !.key = key, !.ref = ref]
  <2>1. n \in Nat /\ op \in Creating /\ Begin(r, h) /\ queue' = Append(queue, r)
    BY <1>2, VaultAssumption DEF Amounts, Create
  <2>2. h \in Handler
    BY <2>1, IdleShape DEF Handler, Operation
  <2>3. h.pc = "queued" /\ h.tx = "none" /\ h.op = op /\ h.inserted = 0
    BY DEF Idle
  <2> HIDE DEF h
  <2>4. Shape(h)
    BY <2>1, <2>3 DEF Shape, Working, Deciding, Operation
  <2>5. /\ req' \in [Requests -> Handler] /\ OthersStay(r) /\ req'[r] = h /\ Shapes'
        /\ queue' \in Seq(Requests) /\ LockHeld' /\ QueueFits'
    BY <1>1, <2>1, <2>2, <2>3, <2>4, JoinStep
  <2> QED BY <1>1, <1>2, <2>1, <2>2, <2>3, <2>4, <2>5 DEF Create, LockInv, TypeOK
<1>3. ASSUME NEW op \in Requested, NEW t \in Txs, NEW ref \in Refs \cup {"none"},
             Review(r, op, t, ref)
      PROVE  /\ OthersStay(r) /\ LockInv' /\ req[r].pc = "idle"
             /\ UNCHANGED <<rows, cache, torn>>
             /\ req'[r].pc = "look" /\ req'[r].tx \in Txs
             /\ rows[req'[r].tx].type = Type(req'[r].op)
  <2> DEFINE h == [Idle EXCEPT !.pc = "look", !.op = op, !.tx = t, !.amount = rows[t].amount,
                              !.ref = ref, !.saw = rows[t].status]
  <2>1. rows[t] \in Row \cup {NoRow} /\ rows[t].amount \in Nat /\ t # "none"
    BY VaultAssumption DEF LockInv, TypeOK, Row, NoRow
  <2>2. rows[t].status \in Status \cup {"none"}
    BY <2>1 DEF Row, NoRow
  <2>3. op \in Reviewing /\ op \notin Creating /\ Begin(r, h) /\ queue' = queue
    BY <1>3 DEF Review, Reviewing, Creating
  <2>4. h \in Handler
    BY <2>1, <2>2, <2>3, IdleShape DEF Handler, Operation
  <2>5. h.pc = "look" /\ h.tx = t /\ h.op = op /\ h.inserted = 0
    BY DEF Idle
  <2> HIDE DEF h
  <2>6. Shape(h) /\ h.pc \notin Waiting
    BY <2>1, <2>3, <2>5 DEF Shape, Working, Deciding, Operation, Waiting
  <2>7. /\ req' \in [Requests -> Handler] /\ OthersStay(r) /\ req'[r] = h /\ Shapes'
        /\ queue' \in Seq(Requests) /\ LockHeld' /\ QueueFits'
    BY <1>1, <2>3, <2>4, <2>6, AsideStep
  <2> QED BY <1>1, <1>3, <2>3, <2>4, <2>5, <2>6, <2>7 DEF Review, LockInv, TypeOK
<1>4. ASSUME NEW n \in Withdrawals, Checkout(r, n)
      PROVE  /\ OthersStay(r) /\ LockInv' /\ req[r].pc = "idle"
             /\ UNCHANGED <<rows, cache, torn>>
             /\ req'[r].pc = "debit" /\ req'[r].tx = "none"
  <2> DEFINE h == [Idle EXCEPT !.pc = "debit", !.op = "checkout", !.amount = n, !.read = profile]
  <2>1. Begin(r, h) /\ queue' = queue
    BY <1>4 DEF Checkout
  <2>2. h \in Handler
    <3>1. n \in Nat /\ profile \in Profile
      BY VaultAssumption DEF LockInv, TypeOK
    <3> QED BY <3>1, IdleShape DEF Handler, Operation
  <2>3. h.pc = "debit" /\ h.tx = "none" /\ h.op = "checkout"
    BY DEF Idle
  <2> HIDE DEF h
  <2>4. Shape(h) /\ h.pc \notin Waiting
    BY <2>3 DEF Shape, Working, Deciding, Operation, Waiting
  <2>5. /\ req' \in [Requests -> Handler] /\ OthersStay(r) /\ req'[r] = h /\ Shapes'
        /\ queue' \in Seq(Requests) /\ LockHeld' /\ QueueFits'
    BY <1>1, <2>1, <2>2, <2>4, AsideStep
  <2> QED BY <1>1, <1>4, <2>1, <2>2, <2>3, <2>4, <2>5 DEF Checkout, LockInv, TypeOK
<1> QED BY <1>2, <1>3, <1>4 DEF Ask

LEMMA ArriveStep ==
  ASSUME LockInv, NEW r \in Requests, Join(r)
  PROVE  /\ req[r].pc = "look" /\ OthersStay(r) /\ LockInv'
         /\ req'[r].pc = "queued" /\ req'[r].tx = req[r].tx /\ req'[r].op = req[r].op
         /\ UNCHANGED <<rows, torn>>
<1>1. req[r].pc = "look" /\ req[r].pc \notin Waiting
  BY DEF Join, At, Waiting, Working
<1>2. req[r] \in Handler /\ Shape(req[r])
  BY DEF LockInv, TypeOK, Shapes
<1> DEFINE h == [req[r] EXCEPT !.pc = "queued", !.saw = "none"]
<1>3. req' = [req EXCEPT ![r] = h] /\ queue' = Append(queue, r)
  BY DEF Join
<1>4. /\ h \in Handler /\ h.pc = "queued" /\ h.tx = req[r].tx /\ h.op = req[r].op
      /\ h.inserted = req[r].inserted
  BY <1>2 DEF Handler
<1> HIDE DEF h
<1>5. Shape(h)
  BY <1>1, <1>2, <1>4 DEF Shape, Working, Deciding
<1>6. /\ req' \in [Requests -> Handler] /\ OthersStay(r) /\ req'[r] = h /\ Shapes'
      /\ queue' \in Seq(Requests) /\ LockHeld' /\ QueueFits'
  BY <1>1, <1>3, <1>4, <1>5, JoinStep
<1>7. cache' \in [Txs -> Status \cup {"none"}] /\ faults' \in 0..MaxFaults
  BY <1>2, FaultsType DEF Join, LockInv, TypeOK, Handler
<1> QED BY <1>1, <1>4, <1>6, <1>7 DEF Join, LockInv, TypeOK

-----------------------------------------------------------------------------
\* What the remaining steps of a handler do to its record.
LEMMA RpcStep ==
  ASSUME LockInv, NEW r \in Requests, RequestByRpc(r)
  PROVE  /\ req[r].pc = "rpc" /\ queue # <<>> /\ Head(queue) = r
         /\ req'[r].pc = "row" /\ req'[r].tx = "none"
         /\ OthersStay(r)
         /\ LockInv'
<1>1. req[r].pc = "rpc" /\ queue # <<>> /\ Head(queue) = r /\ UNCHANGED queue
  BY DEF RequestByRpc, At, LockInv, LockHeld, Working
<1>2. /\ req[r] \in Handler /\ Shape(req[r]) /\ req[r].op \in Operation
      /\ req[r].tx = "none" /\ req[r].inserted = 0 /\ req[r].op \in Creating
  BY <1>1 DEF LockInv, TypeOK, Shapes, Shape, Deciding, Working, Creating
<1>3. PICK h \in Handler :
        /\ req' = [req EXCEPT ![r] = h]
        /\ h.pc = "row" /\ h.tx = "none" /\ h.op = req[r].op /\ h.inserted \in {0, 1}
  <2>1. CASE Goto(r, "row")
    <3> DEFINE g == [req[r] EXCEPT !.pc = "row"]
    <3>1. req' = [req EXCEPT ![r] = g]
      BY <2>1 DEF Goto
    <3>2. g \in Handler /\ g.pc = "row" /\ g.tx = "none" /\ g.op = req[r].op /\ g.inserted = 0
      BY <1>2 DEF Handler
    <3> HIDE DEF g
    <3> QED BY <3>1, <3>2
  <2>2. CASE req' = [req EXCEPT ![r].pc = "row", ![r].inserted = 1]
    <3> DEFINE g == [req[r] EXCEPT !.pc = "row", !.inserted = 1]
    <3>1. req' = [req EXCEPT ![r] = g]
      BY <2>2
    <3>2. g \in Handler /\ g.pc = "row" /\ g.tx = "none" /\ g.op = req[r].op /\ g.inserted = 1
      <4>1. 1 \in 0..2
        OBVIOUS
      <4> QED BY <1>2, <4>1 DEF Handler
    <3> HIDE DEF g
    <3> QED BY <3>1, <3>2
  <2> QED BY <2>1, <2>2 DEF RequestByRpc
<1>5. Shape(h) /\ h.pc \in Waiting
  BY <1>2, <1>3 DEF Shape, Working, Deciding, Waiting
<1>6. /\ req' \in [Requests -> Handler] /\ OthersStay(r) /\ req'[r] = h /\ Shapes'
      /\ queue' \in Seq(Requests) /\ LockHeld' /\ QueueFits'
  BY <1>1, <1>3, <1>5, MoveStep
<1>7. rows' \in [Txs -> Row \cup {NoRow}]
  <2>1. NewRow(req[r]) \in Row
    BY <1>2, NewRowType
  <2> QED BY <2>1 DEF RequestByRpc, LockInv, TypeOK
<1>8. faults' \in 0..MaxFaults
  BY FaultsType DEF RequestByRpc, LockInv
<1> QED BY <1>1, <1>3, <1>6, <1>7, <1>8 DEF RequestByRpc, LockInv, TypeOK

LEMMA WriteProfileStep ==
  ASSUME LockInv, NEW r \in Requests, WriteProfile(r)
  PROVE  /\ req[r].pc = "profile" /\ queue # <<>> /\ Head(queue) = r
         /\ \/ req'[r] = Idle
            \/ req'[r].pc = "row" /\ req'[r].tx = req[r].tx /\ req'[r].op = req[r].op
         /\ OthersStay(r)
         /\ LockInv'
<1>1. req[r].pc = "profile" /\ queue # <<>> /\ Head(queue) = r
  BY DEF WriteProfile, At, LockInv, LockHeld, Working
<1>2. req[r] \in Handler /\ Shape(req[r]) /\ req[r].op \in Moving /\ req[r].inserted = 0
  BY <1>1 DEF LockInv, TypeOK, Shapes, Shape
<1>3. profile' \in Profile
  <2>1. Moved(req[r].op, req[r].amount, req[r].read) \in Profile
    BY <1>2, MovedType DEF Handler
  <2> QED BY <2>1 DEF WriteProfile, LockInv, TypeOK
<1>4. torn' \in BOOLEAN /\ faults' \in 0..MaxFaults
  BY FaultsType DEF WriteProfile, LockInv, TypeOK
<1>5. CASE Leave(r)
  BY <1>1, <1>3, <1>4, <1>5, LeaveStep DEF WriteProfile, LockInv, TypeOK
<1>6. CASE Goto(r, "row") /\ UNCHANGED queue
  <2> DEFINE h == [req[r] EXCEPT !.pc = "row"]
  <2>1. req' = [req EXCEPT ![r] = h]
    BY <1>6 DEF Goto
  <2>2. /\ h \in Handler /\ h.pc = "row" /\ h.tx = req[r].tx /\ h.op = req[r].op
        /\ h.inserted = req[r].inserted
    BY <1>2 DEF Handler
  <2> HIDE DEF h
  <2>3. Shape(h) /\ h.pc \in Waiting
    BY <1>1, <1>2, <2>2 DEF Shape, Working, Deciding, Waiting
  <2>4. /\ req' \in [Requests -> Handler] /\ OthersStay(r) /\ req'[r] = h /\ Shapes'
        /\ queue' \in Seq(Requests) /\ LockHeld' /\ QueueFits'
    BY <1>1, <1>6, <2>1, <2>2, <2>3, MoveStep
  <2> QED BY <1>1, <1>3, <1>4, <1>6, <2>2, <2>4 DEF WriteProfile, LockInv, TypeOK
<1> QED BY <1>5, <1>6 DEF WriteProfile

-----------------------------------------------------------------------------
\* The row a handler writes: a new one, or the one under review.
LEMMA AppliedRow ==
  ASSUME LockInv, KindsFit, NEW r \in Requests, req[r].pc = "row",
         NEW t \in IF req[r].tx = "none" THEN Unused ELSE {req[r].tx},
         Applied(req[r], t)
  PROVE  /\ t \in Txs
         /\ rows' \in [Txs -> Row \cup {NoRow}]
         /\ rows'[t] \in Row
         /\ rows'[t].type = Type(req[r].op)
         /\ rows'[t].status = Writes(req[r].op)
         /\ \A u \in Txs \ {t} : rows'[u] = rows[u]
<1>1. /\ req[r] \in Handler /\ Shape(req[r]) /\ req[r].op \in Operation
      /\ rows \in [Txs -> Row \cup {NoRow}]
  BY DEF LockInv, TypeOK, Shapes, Shape
<1>2. t \in Txs
  BY <1>1 DEF Unused, Handler
<1>3. CASE req[r].tx = "none"
  <2>1. rows' = [rows EXCEPT ![t] = NewRow(req[r])]
    BY <1>3 DEF Applied
  <2> QED BY <1>1, <1>2, <2>1, NewRowType
<1>4. CASE req[r].tx # "none"
  <2>1. t = req[r].tx /\ rows[t].type = Type(req[r].op)
    BY <1>4 DEF KindsFit
  <2>2. rows[t] \in Row
    BY <1>1, <1>2, <2>1, WritesType DEF NoRow
  <2> DEFINE ref == IF req[r].ref = "none" THEN rows[t].ref ELSE req[r].ref
             new == [rows[t] EXCEPT !.status = Writes(req[r].op), !.ref = ref]
  <2>3. rows' = [rows EXCEPT ![t] = new]
    BY <1>4, <2>1 DEF Applied
  <2>4. ref \in Refs \cup {"none"}
    BY <1>1, <2>2 DEF Handler, Row
  <2> HIDE DEF ref
  <2>5. new \in Row /\ new.type = rows[t].type /\ new.status = Writes(req[r].op)
    BY <1>1, <2>2, <2>4, WritesType DEF Row
  <2> HIDE DEF new
  <2> QED BY <1>1, <1>2, <2>1, <2>3, <2>5
<1> QED BY <1>3, <1>4

\* A handler whose write of the row fails undoes the profile, or leaves.
LEMMA WriteFailsStep ==
  ASSUME LockInv, NEW r \in Requests, queue # <<>>, Head(queue) = r,
         req[r].pc = "row", WriteFails(r)
  PROVE  /\ req' \in [Requests -> Handler] /\ OthersStay(r) /\ Shapes'
         /\ \/ req'[r] = Idle
            \/ req'[r].pc = "rollback" /\ req'[r].tx = req[r].tx /\ req'[r].op = req[r].op
         /\ queue' \in Seq(Requests) /\ LockHeld' /\ QueueFits'
<1>1. CASE Leave(r)
  BY <1>1, LeaveStep
<1>2. CASE req[r].op \in Moving /\ Goto(r, "rollback") /\ UNCHANGED queue
  <2> DEFINE h == [req[r] EXCEPT !.pc = "rollback"]
  <2>1. req' = [req EXCEPT ![r] = h]
    BY <1>2 DEF Goto
  <2>2. req[r] \in Handler /\ Shape(req[r])
    BY DEF LockInv, TypeOK, Shapes
  <2>3. h \in Handler /\ h.pc = "rollback" /\ h.tx = req[r].tx /\ h.op = req[r].op
    BY <2>2 DEF Handler
  <2> HIDE DEF h
  <2>4. Shape(h) /\ h.pc \in Waiting
    BY <1>2, <2>2, <2>3 DEF Shape, Working, Deciding, Waiting
  <2> QED BY <1>2, <2>1, <2>3, <2>4, MoveStep
<1> QED BY <1>1, <1>2 DEF WriteFails

LEMMA WriteRowStep ==
  ASSUME LockInv, KindsFit, NEW r \in Requests, WriteRow(r)
  PROVE  /\ req[r].pc = "row" /\ queue # <<>> /\ Head(queue) = r
         /\ OthersStay(r)
         /\ \/ UNCHANGED rows
            \/ \E t \in IF req[r].tx = "none" THEN Unused ELSE {req[r].tx} : Applied(req[r], t)
         /\ torn' \in BOOLEAN
         /\ \/ torn' = torn /\ UNCHANGED rows /\ req'[r] = Idle
            \/ /\ torn' = torn /\ UNCHANGED rows
               /\ req'[r].pc = "rollback" /\ req'[r].tx = req[r].tx /\ req'[r].op = req[r].op
            \/ /\ torn' = torn
               /\ req'[r].pc = "done" /\ req'[r].op = req[r].op
               /\ req'[r].tx \in IF req[r].tx = "none" THEN Unused ELSE {req[r].tx}
               /\ Applied(req[r], req'[r].tx)
            \/ /\ torn'
               /\ \/ req'[r] = Idle
                  \/ req'[r].pc = "rollback" /\ req'[r].tx = req[r].tx /\ req'[r].op = req[r].op
         /\ LockInv'
<1>1. req[r].pc = "row" /\ queue # <<>> /\ Head(queue) = r
  BY DEF WriteRow, At, LockInv, LockHeld, Working
<1>2. req[r] \in Handler /\ Shape(req[r]) /\ req[r].op \in Operation /\ req[r].inserted \in {0, 1}
  BY <1>1 DEF LockInv, TypeOK, Shapes, Shape
<1> DEFINE targets == IF req[r].tx = "none" THEN Unused ELSE {req[r].tx}
<1>3. /\ UNCHANGED rows \/ \E t \in targets : Applied(req[r], t)
      /\ faults' \in 0..MaxFaults /\ torn' \in BOOLEAN
      /\ UNCHANGED <<profile, cache>>
  BY FaultsType DEF WriteRow, LockInv, TypeOK
<1>4. rows' \in [Txs -> Row \cup {NoRow}]
  BY <1>1, <1>3, AppliedRow DEF LockInv, TypeOK
<1>5. CASE WriteFails(r) /\ ((torn' = torn /\ UNCHANGED rows) \/ torn')
  <2>1. /\ req' \in [Requests -> Handler] /\ OthersStay(r) /\ Shapes'
        /\ \/ req'[r] = Idle
           \/ req'[r].pc = "rollback" /\ req'[r].tx = req[r].tx /\ req'[r].op = req[r].op
        /\ queue' \in Seq(Requests) /\ LockHeld' /\ QueueFits'
    BY <1>1, <1>5, WriteFailsStep
  <2>2. LockInv'
    BY <1>3, <1>4, <2>1 DEF LockInv, TypeOK
  <2> QED BY <1>1, <1>3, <1>5, <2>1, <2>2
<1>6. ASSUME NEW t \in targets, Applied(req[r], t), UNCHANGED <<queue, torn>>,
             req' = [req EXCEPT ![r].pc = "done", ![r].tx = t,
                       ![r].inserted = IF req[r].tx = "none" THEN @ + 1 ELSE @]
      PROVE  /\ OthersStay(r) /\ LockInv'
             /\ req'[r].pc = "done" /\ req'[r].op = req[r].op /\ req'[r].tx = t
  <2>1. t \in Txs /\ t # "none"
    BY <1>1, <1>6, AppliedRow, VaultAssumption
  <2> DEFINE n == IF req[r].tx = "none" THEN req[r].inserted + 1 ELSE req[r].inserted
             h == [req[r] EXCEPT !.pc = "done", !.tx = t, !.inserted = n]
  <2>2. req' = [req EXCEPT ![r] = h]
    BY <1>6 DEF LockInv, TypeOK
  <2>3. n \in 0..2
    BY <1>2
  <2> HIDE DEF n
  <2>4. h \in Handler /\ h.pc = "done" /\ h.tx = t /\ h.op = req[r].op
    BY <1>2, <2>1, <2>3 DEF Handler
  <2> HIDE DEF h
  <2>5. Shape(h) /\ h.pc \in Waiting
    BY <1>1, <1>2, <2>1, <2>4 DEF Shape, Working, Deciding, Waiting
  <2>6. /\ req' \in [Requests -> Handler] /\ OthersStay(r) /\ req'[r] = h /\ Shapes'
        /\ queue' \in Seq(Requests) /\ LockHeld' /\ QueueFits'
    BY <1>1, <1>6, <2>2, <2>4, <2>5, MoveStep
  <2> QED BY <1>3, <1>4, <2>4, <2>6 DEF LockInv, TypeOK
<1>7. \/ WriteFails(r) /\ ((torn' = torn /\ UNCHANGED rows) \/ torn')
      \/ \E t \in targets :
           /\ Applied(req[r], t) /\ UNCHANGED <<queue, torn>>
           /\ req' = [req EXCEPT ![r].pc = "done", ![r].tx = t,
                       ![r].inserted = IF req[r].tx = "none" THEN @ + 1 ELSE @]
  BY DEF WriteRow
<1> QED BY <1>1, <1>3, <1>5, <1>6, <1>7

-----------------------------------------------------------------------------
\* The last steps, which leave the lock, and those that never had it.
LEMMA RollbackStep ==
  ASSUME LockInv, NEW r \in Requests, Rollback(r)
  PROVE  /\ req[r].pc = "rollback" /\ req'[r] = Idle /\ OthersStay(r)
         /\ UNCHANGED <<rows, cache>> /\ (torn => torn')
         /\ LockInv'
<1>1. req[r].pc = "rollback" /\ queue # <<>> /\ Head(queue) = r
  BY DEF Rollback, At, LockInv, LockHeld, Working
<1>2. req[r] \in Handler
  BY DEF LockInv, TypeOK
<1>3. profile' \in Profile /\ torn' \in BOOLEAN /\ faults' \in 0..MaxFaults
  BY <1>2, FaultsType DEF Rollback, LockInv, TypeOK, Handler
<1> QED BY <1>1, <1>3, LeaveStep DEF Rollback, LockInv, TypeOK

LEMMA DoneStep ==
  ASSUME LockInv, NEW r \in Requests, Done(r)
  PROVE  /\ req[r].pc = "done" /\ queue # <<>> /\ Head(queue) = r
         /\ req'[r] = Idle /\ OthersStay(r) /\ req[r].tx \in Txs
         /\ UNCHANGED <<rows, torn>>
         /\ LockInv'
<1>1. req[r].pc = "done" /\ queue # <<>> /\ Head(queue) = r
  BY DEF Done, At, LockInv, LockHeld, Working
<1>2. req[r] \in Handler /\ Shape(req[r])
  BY DEF LockInv, TypeOK, Shapes
<1>3. req[r].op \in Operation /\ req[r].tx \in Txs
  BY <1>1, <1>2 DEF Shape, Handler
<1>4. cache' \in [Txs -> Status \cup {"none"}]
  BY <1>3, WritesType DEF Done, LockInv, TypeOK
<1>5. torn' \in BOOLEAN /\ faults' \in 0..MaxFaults
  BY FaultsType DEF Done, LockInv, TypeOK
<1> QED BY <1>1, <1>3, <1>4, <1>5, LeaveStep DEF Done, LockInv, TypeOK

LEMMA DebitStep ==
  ASSUME LockInv, NEW r \in Requests, Debit(r)
  PROVE  /\ req[r].pc = "debit" /\ OthersStay(r)
         /\ req'[r].pc = "record" /\ req'[r].tx = req[r].tx /\ req'[r].op = req[r].op
         /\ UNCHANGED <<rows, cache>> /\ (torn => torn')
         /\ LockInv'
<1>1. req[r].pc = "debit" /\ req[r].pc \notin Waiting
  BY DEF Debit, At, Waiting, Working
<1>2. req[r] \in Handler /\ Shape(req[r])
  BY DEF LockInv, TypeOK, Shapes
<1>3. Moved("checkout", req[r].amount, req[r].read) \in Profile
  BY <1>2, MovedType DEF Handler, Moving, Operation
<1>4. profile' \in Profile
  BY <1>3 DEF Debit, LockInv, TypeOK, Profile
<1>5. torn' \in BOOLEAN /\ faults' \in 0..MaxFaults
  BY FaultsType DEF Debit, LockInv, TypeOK
<1> DEFINE h == [req[r] EXCEPT !.pc = "record"]
<1>6. req' = [req EXCEPT ![r] = h] /\ queue' = queue
  BY DEF Debit, Goto
<1>7. h \in Handler /\ h.pc = "record" /\ h.tx = req[r].tx /\ h.op = req[r].op
  BY <1>2 DEF Handler
<1> HIDE DEF h
<1>8. Shape(h) /\ h.pc \notin Waiting
  BY <1>1, <1>2, <1>7 DEF Shape, Working, Deciding, Waiting
<1>9. /\ req' \in [Requests -> Handler] /\ OthersStay(r) /\ req'[r] = h /\ Shapes'
      /\ queue' \in Seq(Requests) /\ LockHeld' /\ QueueFits'
  BY <1>1, <1>6, <1>7, <1>8, AsideStep
<1> QED BY <1>1, <1>4, <1>5, <1>7, <1>9 DEF Debit, LockInv, TypeOK

LEMMA RecordStep ==
  ASSUME LockInv, NEW r \in Requests, Record(r)
  PROVE  /\ req[r].pc = "record" /\ req[r].op = "checkout" /\ OthersStay(r) /\ req'[r] = Idle
         /\ UNCHANGED cache /\ (torn => torn')
         /\ UNCHANGED rows \/ \E t \in Unused : rows' = [rows EXCEPT ![t] = NewRow(req[r])]
         /\ LockInv'
<1>1. req[r].pc = "record" /\ req[r].pc \notin Waiting
  BY DEF Record, At, Waiting, Working
<1>2. req[r] \in Handler /\ Shape(req[r])
  BY DEF LockInv, TypeOK, Shapes
<1>3. req[r].op = "checkout" /\ req[r].op \in Operation
  BY <1>1, <1>2 DEF Shape, Operation
<1>4. UNCHANGED rows \/ \E t \in Unused : rows' = [rows EXCEPT ![t] = NewRow(req[r])]
  BY DEF Record
<1>5. rows' \in [Txs -> Row \cup {NoRow}]
  BY <1>2, <1>3, <1>4, NewRowType DEF LockInv, TypeOK
<1>6. torn' \in BOOLEAN /\ faults' \in 0..MaxFaults
  BY FaultsType DEF Record, LockInv, TypeOK
<1>7. Idle.pc \notin Waiting /\ queue' = queue /\ req' = [req EXCEPT ![r] = Idle]
  BY DEF Record, Idle, Waiting, Working
<1>8. /\ req' \in [Requests -> Handler] /\ OthersStay(r) /\ req'[r] = Idle /\ Shapes'
      /\ queue' \in Seq(Requests) /\ LockHeld' /\ QueueFits'
  BY <1>1, <1>7, AsideStep, IdleShape
<1> QED BY <1>1, <1>3, <1>4, <1>5, <1>6, <1>8 DEF Record, LockInv, TypeOK

LEMMA RestartStep ==
  ASSUME LockInv, Restart
  PROVE  /\ LockInv'
         /\ \A r \in Requests : req'[r] = Idle
         /\ UNCHANGED rows
<1>1. \A t \in Txs : rows[t].status \in Status \cup {"none"}
  BY DEF LockInv, TypeOK, Row, NoRow
<1>2. cache' \in [Txs -> Status \cup {"none"}]
  BY <1>1 DEF Restart, Stored
<1>3. \A r \in Requests : req'[r] = Idle
  BY DEF Restart
<1>4. req' \in [Requests -> Handler] /\ Shapes'
  BY <1>3, IdleShape DEF Restart, Shapes
<1>5. queue' = <<>> /\ queue' \in Seq(Requests) /\ Len(queue') = 0
  BY DEF Restart
<1>6. LockHeld' /\ QueueFits'
  BY <1>3, <1>5 DEF LockHeld, QueueFits, Idle, Working
<1>7. torn' \in BOOLEAN /\ faults' \in 0..MaxFaults
  BY FaultsType DEF Restart, LockInv, TypeOK
<1> QED BY <1>2, <1>3, <1>4, <1>5, <1>6, <1>7 DEF Restart, LockInv, TypeOK

-----------------------------------------------------------------------------
(***************************************************************************)
(* Rows, map and decisions.                                                *)
(***************************************************************************)
LEMMA WorkerAlone ==
  ASSUME LockInv, NEW r \in Requests, queue # <<>>, Head(queue) = r
  PROVE  \A s \in Requests \ {r} : req[s].pc \notin Working
BY DEF LockInv, LockHeld

LEMMA WritesFits ==
  ASSUME NEW op \in Operation, Type(op) = "deposit"
  PROVE  Writes(op) # "cancelled"
BY DEF Writes, Type, Operation, Creating, Reviewing

\* No handler refers to a row that is not there.
LEMMA UnusedFree ==
  ASSUME KindsFit, NEW t \in Unused, NEW s \in Requests
  PROVE  req[s].tx # t \/ t = "none"
BY DEF KindsFit, Unused, NoRow, Type

\* Steps that do not touch the rows, of a handler that decides nothing.
LEMMA StayStep ==
  ASSUME IInv, NEW r \in Requests, OthersStay(r), UNCHANGED rows, torn => torn', LockInv',
         \/ req'[r].tx = "none"
         \/ /\ req'[r].tx = req[r].tx /\ req'[r].op = req[r].op
            /\ req'[r].pc # "profile"
            /\ req'[r].pc = "row" => req[r].pc \in {"profile", "row"}
  PROVE  IInv'
<1>1. KindsFit'
  BY DEF IInv, KindsFit, OthersStay
<1>2. ASSUME ~torn' PROVE DecisionsHold'
  BY <1>2 DEF IInv, DecisionsHold, OthersStay
<1> QED BY <1>1, <1>2 DEF IInv

\* A row is written: a new one, or by the holder of the lock.
LEMMA WrittenKinds ==
  ASSUME IInv, NEW r \in Requests, OthersStay(r), NEW t \in Txs, LockInv',
         rows'[t].type \in {"deposit", "withdraw"},
         rows'[t].type = "deposit" => rows'[t].status # "cancelled",
         rows[t] = NoRow \/ rows[t].type = rows'[t].type,
         \A u \in Txs \ {t} : rows'[u] = rows[u],
         req'[r].tx # "none" => rows'[req'[r].tx].type = Type(req'[r].op)
  PROVE  KindsFit'
<1>1. \A s \in Requests \ {r} : req[s] \in Handler /\ req'[s] = req[s]
  BY DEF OthersStay, IInv, LockInv, TypeOK
<1>2. \A s \in Requests \ {r} : req[s].tx # "none" => rows'[req[s].tx].type = Type(req[s].op)
  BY <1>1 DEF IInv, KindsFit, NoRow, Type, Handler
<1>3. \A u \in Txs : rows'[u].type = "deposit" => rows'[u].status # "cancelled"
  BY DEF IInv, KindsFit
<1> QED BY <1>1, <1>2, <1>3 DEF KindsFit

\* A new row beside the handlers at work.
LEMMA InsertStep ==
  ASSUME IInv, NEW r \in Requests, OthersStay(r), NEW t \in Unused, LockInv',
         req[r].op \in Operation, rows' = [rows EXCEPT ![t] = NewRow(req[r])],
         torn => torn', req'[r].tx = "none"
  PROVE  /\ IInv'
         /\ \A u \in Txs : rows[u].status \in Final => rows'[u] = rows[u]
<1>1. /\ req[r] \in Handler /\ rows \in [Txs -> Row \cup {NoRow}]
      /\ t \in Txs /\ rows[t] = NoRow /\ t # "none"
  BY VaultAssumption DEF IInv, LockInv, TypeOK, Unused
<1>2. /\ rows'[t].type = Type(req[r].op) /\ rows'[t].status = Writes(req[r].op)
      /\ \A u \in Txs \ {t} : rows'[u] = rows[u]
  BY <1>1, NewRowType
<1>3. KindsFit'
  BY <1>1, <1>2, WrittenKinds, WritesFits, WritesType
<1>4. \A s \in Requests : req[s].tx # t
  BY <1>1, UnusedFree DEF IInv
<1>5. \A s \in Requests \ {r} : req[s].tx # "none" => req[s].tx \in Txs \ {t}
  BY <1>4 DEF IInv, LockInv, TypeOK, Handler
<1>6. ASSUME ~torn' PROVE DecisionsHold'
  BY <1>2, <1>5, <1>6 DEF IInv, DecisionsHold, OthersStay
<1>7. NoRow.status \notin Final
  BY DEF NoRow, Final
<1> QED BY <1>1, <1>2, <1>3, <1>6, <1>7 DEF IInv

-----------------------------------------------------------------------------
(***************************************************************************)
(* The invariant and RowsFinal, action by action.                          *)
(***************************************************************************)
FinalStay == ~torn' => \A t \in Txs : rows[t].status \in Final => rows'[t] = rows[t]

LEMMA EnterInv ==
  ASSUME IInv, NEW r \in Requests, Enter(r)
  PROVE  IInv' /\ FinalStay
<1>1. /\ LockInv /\ LockInv' /\ UNCHANGED rows /\ (torn => torn')
      /\ req[r] \in Handler /\ Shape(req[r])
  BY EnterStep, EnterChoice DEF IInv, LockInv, TypeOK, Shapes
<1>2. queue # <<>> /\ Head(queue) = r /\ req[r].pc = "queued"
  BY <1>1, EnterChoice
<1>3. \A s \in Requests : req[s].pc \notin Working
  BY <1>1, <1>2, WorkerAlone DEF Working
<1>4. OthersStay(r) /\ (req'[r] = Idle \/ (req'[r].tx = req[r].tx /\ req'[r].op = req[r].op))
  BY <1>1, <1>2, EnterChoice, ProceedStep, LeaveStep
<1>5. KindsFit'
  BY <1>1, <1>4 DEF IInv, KindsFit, OthersStay, Idle
<1>6. ASSUME ~torn', req[r].tx # "none"
      PROVE  Leave(r) \/ rows[req[r].tx].status \in ReadIn(req[r].op)
  <2> DEFINE h == req[r]
             seen == [cache EXCEPT ![h.tx] = rows[h.tx].status]
  <2>1. h.tx \in Txs
    BY <1>1, <1>6 DEF Handler
  <2>2. seen[h.tx] = rows[h.tx].status /\ Stored[h.tx] = rows[h.tx].status
    BY <1>1, <2>1 DEF LockInv, TypeOK, Stored
  <2>3. \/ Leave(r)
        \/ \E b \in BOOLEAN : Admits(h, StatusOf(h.tx, seen), b)
        \/ /\ \E b \in BOOLEAN : Admits(h, StatusOf(h.tx, cache), b)
           /\ torn' = (torn \/ StatusOf(h.tx, cache) # StatusOf(h.tx, Stored))
    <3>1. Taken(h) \in BOOLEAN
      BY DEF Taken, Duplicate
    <3> QED BY <1>6, <3>1 DEF Enter, EnterUnlocked
  <2> HIDE DEF seen
  <2>4. CASE \E b \in BOOLEAN : Admits(h, StatusOf(h.tx, seen), b)
    BY <1>6, <2>2, <2>4 DEF Admits, StatusOf
  <2>5. CASE /\ \E b \in BOOLEAN : Admits(h, StatusOf(h.tx, cache), b)
             /\ torn' = (torn \/ StatusOf(h.tx, cache) # StatusOf(h.tx, Stored))
    <3>1. StatusOf(h.tx, cache) = StatusOf(h.tx, Stored)
      BY <1>6, <2>5
    <3> QED BY <1>6, <2>2, <2>5, <3>1 DEF Admits, StatusOf
  <2> QED BY <2>3, <2>4, <2>5
<1>7. ASSUME ~torn' PROVE DecisionsHold'
  <2>1. ASSUME req'[r].pc \in {"profile", "row"}, req'[r].tx # "none"
        PROVE  rows'[req'[r].tx].status \in ReadIn(req'[r].op)
    <3>1. req'[r] # Idle
      BY <2>1 DEF Idle
    <3>2. ~Leave(r)
      BY <1>1, <1>2, <3>1, LeaveStep
    <3> QED BY <1>1, <1>4, <1>6, <1>7, <2>1, <3>1, <3>2
  <2> QED BY <1>3, <1>4, <2>1 DEF DecisionsHold, OthersStay, Working
<1> QED BY <1>1, <1>5, <1>7 DEF IInv, FinalStay

LEMMA AskInv ==
  ASSUME IInv, NEW r \in Requests, Ask(r)
  PROVE  IInv' /\ FinalStay
<1>1. /\ OthersStay(r) /\ LockInv' /\ UNCHANGED <<rows, torn>>
      /\ \/ req'[r].tx = "none"
         \/ /\ req'[r].pc = "look" /\ req'[r].tx \in Txs
            /\ rows[req'[r].tx].type = Type(req'[r].op)
  BY BeginStep DEF IInv
<1>2. CASE req'[r].tx = "none"
  BY <1>1, <1>2, StayStep DEF FinalStay
<1>3. CASE req'[r].pc = "look" /\ rows[req'[r].tx].type = Type(req'[r].op)
  <2>1. KindsFit'
    BY <1>1, <1>3 DEF IInv, KindsFit, OthersStay
  <2>2. ASSUME ~torn' PROVE DecisionsHold'
    BY <1>1, <1>3, <2>2 DEF IInv, DecisionsHold, OthersStay
  <2> QED BY <1>1, <2>1, <2>2 DEF IInv, FinalStay
<1> QED BY <1>1, <1>2, <1>3

-----------------------------------------------------------------------------
LEMMA WriteRowInv ==
  ASSUME IInv, NEW r \in Requests, WriteRow(r)
  PROVE  IInv' /\ FinalStay
<1> DEFINE targets == IF req[r].tx = "none" THEN Unused ELSE {req[r].tx}
<1>1. /\ LockInv /\ KindsFit /\ LockInv' /\ UNCHANGED cache
      /\ req[r].pc = "row" /\ queue # <<>> /\ Head(queue) = r /\ OthersStay(r)
  BY WriteRowStep DEF IInv, WriteRow
<1>2. torn => torn'
  BY DEF WriteRow
<1>3. \A s \in Requests \ {r} : req[s].pc \notin Working
  BY <1>1, WorkerAlone
<1>4. req[r] \in Handler /\ Shape(req[r]) /\ req[r].op \in Operation
  BY <1>1 DEF LockInv, TypeOK, Shapes, Shape
<1>5. CASE UNCHANGED rows /\ req'[r] = Idle
  BY <1>1, <1>2, <1>5, StayStep DEF Idle, FinalStay
<1>6. CASE UNCHANGED rows /\ req'[r].pc = "rollback" /\ req'[r].tx = req[r].tx /\ req'[r].op = req[r].op
  BY <1>1, <1>2, <1>6, StayStep DEF FinalStay
<1>7. ASSUME NEW t \in targets, Applied(req[r], t),
             req'[r].tx # "none" => req'[r].op = req[r].op,
             \/ torn' /\ (req'[r].tx = "none" \/ req'[r].tx = req[r].tx)
             \/ req'[r].pc = "done" /\ req'[r].tx = t
      PROVE  IInv' /\ FinalStay
  <2>1. /\ t \in Txs /\ rows'[t].type = Type(req[r].op) /\ rows'[t].status = Writes(req[r].op)
        /\ \A u \in Txs \ {t} : rows'[u] = rows[u]
    BY <1>1, <1>7, AppliedRow
  <2>2. rows[t] = NoRow \/ (req[r].tx = t /\ rows[t].type = rows'[t].type)
    <3>1. CASE req[r].tx = "none"
      BY <3>1, <1>7 DEF Unused
    <3>2. CASE req[r].tx # "none"
      BY <1>1, <1>7, <2>1, <3>2 DEF KindsFit
    <3> QED BY <3>1, <3>2
  <2>3. req'[r].tx # "none" => req'[r].tx = t
    BY <1>7
  <2>4. KindsFit'
    BY <1>1, <1>4, <1>7, <2>1, <2>2, <2>3, WrittenKinds, WritesFits, WritesType
  <2>5. ASSUME ~torn' PROVE DecisionsHold'
    BY <1>1, <1>3, <1>7, <2>5 DEF DecisionsHold, OthersStay, Working
  <2>6. ASSUME ~torn' PROVE rows[t].status \notin Final
    <3>1. CASE rows[t] = NoRow
      BY <3>1 DEF NoRow, Final
    <3>2. CASE req[r].tx = t
      <4>1. req[r].op \in Reviewing /\ t # "none"
        BY <1>1, <1>4, <2>1, <3>2, VaultAssumption DEF Shape, Working, Deciding
      <4>2. rows[t].status \in ReadIn(req[r].op)
        BY <1>1, <1>2, <2>6, <3>2, <4>1 DEF IInv, DecisionsHold
      <4>3. Type(req[r].op) = "deposit" => rows[t].status # "cancelled"
        BY <1>1, <2>1, <3>2, <4>1 DEF KindsFit
      <4> QED BY <4>1, <4>2, <4>3, OpenRead
    <3> QED BY <2>2, <3>1, <3>2
  <2> QED BY <1>1, <2>1, <2>4, <2>5, <2>6 DEF IInv, FinalStay
<1>8. \/ UNCHANGED rows /\ req'[r] = Idle
      \/ UNCHANGED rows /\ req'[r].pc = "rollback" /\ req'[r].tx = req[r].tx /\ req'[r].op = req[r].op
      \/ \E t \in targets :
           /\ Applied(req[r], t)
           /\ req'[r].tx # "none" => req'[r].op = req[r].op
           /\ \/ torn' /\ (req'[r].tx = "none" \/ req'[r].tx = req[r].tx)
              \/ req'[r].pc = "done" /\ req'[r].tx = t
  <2>1. Idle.tx = "none"
    BY DEF Idle
  <2>2. /\ \/ UNCHANGED rows
           \/ \E t \in targets : Applied(req[r], t)
        /\ \/ UNCHANGED rows /\ req'[r] = Idle
           \/ UNCHANGED rows /\ req'[r].pc = "rollback" /\ req'[r].tx = req[r].tx /\ req'[r].op = req[r].op
           \/ /\ req'[r].pc = "done" /\ req'[r].op = req[r].op
              /\ req'[r].tx \in targets /\ Applied(req[r], req'[r].tx)
           \/ /\ torn'
              /\ \/ req'[r] = Idle
                 \/ req'[r].pc = "rollback" /\ req'[r].tx = req[r].tx /\ req'[r].op = req[r].op
    <3> HIDE DEF targets
    <3> QED BY <1>1, WriteRowStep DEF targets
  <2> HIDE DEF targets
  <2>3. CASE req'[r].pc = "done" /\ req'[r].op = req[r].op
             /\ req'[r].tx \in targets /\ Applied(req[r], req'[r].tx)
    BY <2>3
  <2>4. CASE torn' /\ req'[r] = Idle
    BY <2>1, <2>2, <2>4
  <2>5. CASE torn' /\ req'[r].pc = "rollback" /\ req'[r].tx = req[r].tx /\ req'[r].op = req[r].op
    BY <2>2, <2>5
  <2> QED BY <2>2, <2>3, <2>4, <2>5
<1> QED BY <1>5, <1>6, <1>7, <1>8

-----------------------------------------------------------------------------
LEMMA RestartInv ==
  ASSUME IInv, Restart
  PROVE  IInv' /\ FinalStay
<1>1. LockInv' /\ UNCHANGED rows /\ \A r \in Requests : req'[r] = Idle
  BY RestartStep DEF IInv
<1>2. KindsFit' /\ DecisionsHold'
  BY <1>1 DEF IInv, KindsFit, DecisionsHold, Idle
<1> QED BY <1>1, <1>2 DEF IInv, FinalStay

LEMMA HandleInv ==
  ASSUME IInv, NEW r \in Requests, Handle(r)
  PROVE  IInv' /\ FinalStay
<1>1. LockInv
  BY DEF IInv
<1>2. CASE RequestByRpc(r)
  <2>1. /\ req[r].pc = "rpc" /\ req'[r].pc = "row" /\ req'[r].tx = "none" /\ OthersStay(r) /\ LockInv'
        /\ UNCHANGED <<cache, torn>> /\ req[r].op \in Operation
    BY <1>1, <1>2, RpcStep DEF RequestByRpc, LockInv, Shapes, Shape
  <2>2. CASE UNCHANGED rows
    BY <2>1, <2>2, StayStep DEF FinalStay
  <2>3. CASE \E t \in Unused : rows' = [rows EXCEPT ![t] = NewRow(req[r])]
    BY <2>1, <2>3, InsertStep DEF FinalStay
  <2> QED BY <1>2, <2>2, <2>3 DEF RequestByRpc
<1>3. CASE WriteProfile(r)
  <2>1. /\ req[r].pc = "profile" /\ OthersStay(r) /\ LockInv'
        /\ \/ req'[r] = Idle
           \/ req'[r].pc = "row" /\ req'[r].tx = req[r].tx /\ req'[r].op = req[r].op
    BY <1>1, <1>3, WriteProfileStep
  <2>2. UNCHANGED <<rows, cache>> /\ (torn => torn')
    BY <1>1, <1>3 DEF WriteProfile, LockInv, TypeOK
  <2> QED BY <2>1, <2>2, StayStep DEF FinalStay, Idle
<1>4. CASE Rollback(r)
  BY <1>1, <1>4, RollbackStep, StayStep DEF FinalStay, Idle
<1>5. CASE Debit(r)
  BY <1>1, <1>5, DebitStep, StayStep DEF FinalStay
<1>6. CASE Record(r)
  <2>1. /\ req[r].pc = "record" /\ req[r].op \in Operation /\ req'[r] = Idle /\ OthersStay(r)
        /\ LockInv' /\ UNCHANGED cache /\ (torn => torn')
    BY <1>1, <1>6, RecordStep DEF Operation
  <2>2. req'[r].tx = "none"
    BY <2>1 DEF Idle
  <2>3. CASE UNCHANGED rows
    BY <2>1, <2>2, <2>3, StayStep DEF FinalStay
  <2>4. CASE \E t \in Unused : rows' = [rows EXCEPT ![t] = NewRow(req[r])]
    BY <2>1, <2>2, <2>4, InsertStep DEF FinalStay
  <2> QED BY <1>1, <1>6, <2>3, <2>4, RecordStep
<1>7. CASE Join(r)
  BY <1>1, <1>7, ArriveStep, StayStep DEF FinalStay
<1>8. CASE Done(r)
  BY <1>1, <1>8, DoneStep, StayStep DEF FinalStay, Idle
<1> QED BY <1>2, <1>3, <1>4, <1>5, <1>6, <1>7, <1>8, EnterInv, WriteRowInv DEF Handle

LEMMA NextInv == IInv /\ [Next]_vars => IInv' /\ [FinalStay]_vars
<1>1. CASE UNCHANGED vars
  BY <1>1 DEF vars, IInv, LockInv, TypeOK, Shapes, Shape, LockHeld, QueueFits, KindsFit,
              DecisionsHold
<1>2. CASE IInv /\ Next
  BY <1>2, AskInv, HandleInv, RestartInv DEF Next
<1> QED BY <1>1, <1>2

LEMMA InitInv == Init => IInv
<1> SUFFICES ASSUME Init PROVE IInv
  OBVIOUS
<1>1. \A r \in Requests : req[r] = Idle
  BY DEF Init
<1>2. TypeOK
  <2>1. profile \in Profile /\ cache \in [Txs -> Status \cup {"none"}]
    BY DEF Init, Profile
  <2>2. rows \in [Txs -> Row \cup {NoRow}] /\ req \in [Requests -> Handler]
    BY IdleShape DEF Init
  <2>3. queue \in Seq(Requests)
    BY DEF Init
  <2>4. faults = 0 /\ 0 \in 0..MaxFaults
    BY VaultAssumption DEF Init
  <2>5. torn \in BOOLEAN
    BY DEF Init
  <2> QED BY <2>1, <2>2, <2>3, <2>4, <2>5 DEF TypeOK
<1>3. Shapes /\ LockHeld /\ QueueFits
  BY <1>1, IdleShape DEF Init, Shapes, LockHeld, QueueFits, Idle, Working
<1>4. KindsFit
  BY <1>1 DEF Init, KindsFit, Idle, NoRow
<1>5. DecisionsHold
  BY <1>1 DEF Init, DecisionsHold, Idle
<1> QED BY <1>2, <1>3, <1>4, <1>5 DEF IInv, LockInv

-----------------------------------------------------------------------------
\* The invariant holds for every set of requests, transactions and amounts, with
\* or without the SQL functions, and through any number of faults.
THEOREM Invariance == Spec => []IInv
<1>1. IInv /\ [Next]_vars => IInv'
  BY NextInv
<1> QED BY <1>1, InitInv, PTL DEF Spec

\* Balance and reservation never go below zero, and every row and handler is one
\* the code can produce.
THEOREM TypeCorrect == Spec => []TypeOK
<1>1. IInv => TypeOK
  BY DEF IInv, LockInv
<1> QED BY <1>1, Invariance, PTL

\* withUserVaultLock excludes: two handlers are never at work for one user, though
\* the holder may fail, leave or be restarted at any await.
Exclusive ==
  \A r, s \in Requests : req[r].pc \in Working /\ req[s].pc \in Working => r = s

THEOREM LockExcludes == Spec => []Exclusive
<1>1. IInv => Exclusive
  BY DEF IInv, LockInv, LockHeld, Exclusive
<1> QED BY <1>1, Invariance, PTL

\* The lock loses nobody and waits for nobody who is gone: its queue is who holds
\* it or waits for it, each once, the holder first.
THEOREM LockPassedOn == Spec => []LockServed
<1>1. IInv => LockServed
  <2> SUFFICES ASSUME IInv PROVE LockServed
    OBVIOUS
  <2>1. queue \in Seq(Requests) /\ Len(queue) \in Nat
    BY DEF IInv, LockInv, TypeOK
  <2>2. ASSUME NEW r \in Requests, req[r].pc \in Working
        PROVE  1 \in 1..Len(queue) /\ queue[1] = r /\ Head(queue) = r
    <3>1. queue # <<>> /\ Head(queue) = r
      BY <2>2 DEF IInv, LockInv, LockHeld
    <3> QED BY <2>1, <3>1, EmptySeq, HeadTailProperties
  <2> QED BY <2>1, <2>2 DEF IInv, LockInv, QueueFits, LockServed
<1> QED BY <1>1, Invariance, PTL

\* Two handlers of one transaction never both move its money: who decides to go on
\* holds the lock, and the transaction stays open until it writes the row.
THEOREM HandledOnceOnly == Spec => []HandledOnce
<1>1. IInv => HandledOnce
  <2> SUFFICES ASSUME IInv, ~torn, NEW r \in Requests,
                      req[r].pc \in {"profile", "row"}, req[r].tx # "none"
               PROVE  rows[req[r].tx].status \notin Final
    BY DEF HandledOnce
  <2>1. req[r].op \in Reviewing
    BY DEF IInv, LockInv, Shapes, Shape, Working, Deciding
  <2>2. rows[req[r].tx].status \in ReadIn(req[r].op)
    BY DEF IInv, DecisionsHold
  <2>3. req[r].tx \in Txs
    BY DEF IInv, LockInv, TypeOK, Handler
  <2>4. Type(req[r].op) = "deposit" => rows[req[r].tx].status # "cancelled"
    BY <2>3 DEF IInv, KindsFit
  <2> QED BY <2>1, <2>2, <2>4, OpenRead
<1> QED BY <1>1, Invariance, PTL

\* A settled, rejected or cancelled transaction is never written again, though the
\* update does not check it and the handler may have read its status in the map,
\* as long as the map was right.
THEOREM RowsStayFinal == Spec => RowsFinal
<1>1. IInv /\ [Next]_vars =>
        [~torn' => \A t \in Txs : rows[t].status \in Final => rows'[t] = rows[t]]_vars
  BY NextInv DEF FinalStay
<1> QED BY <1>1, Invariance, PTL DEF Spec, RowsFinal
-----------------------------------------------------------------------------
(***************************************************************************)
(* The books.  A handler changes the profile first and the rows after, so  *)
(* what the rows account for differs from the profile by what the handlers *)
(* between their two writes have moved: any number of checkouts, and at    *)
(* most one holder of the lock.                                            *)
(***************************************************************************)
Undone(h) == (h.pc \in {"row", "rollback"} /\ h.op \in Moving) \/ h.pc = "record"

Under(h, ops) == IF Undone(h) /\ h.op \in ops THEN h.amount ELSE 0
InFlight(ops) == Total([r \in Requests |-> Under(req[r], ops)])

Gives == {"credit", "payout", "confirm"}
Takes == {"settle", "checkout"}
Holding == {"withdraw"}
Frees == {"settle", "cancel", "return"}

BalanceFits == profile.balance + Debits + InFlight(Takes) = Credits + InFlight(Gives)
ReserveFits == profile.reserved + InFlight(Frees) = Pending + InFlight(Holding)

Covered(p) == p.reserved <= p.balance

\* What a handler read allows what it is about to do, or has done, without going
\* below zero; so the truncated differences of the code are differences, and the
\* profile it read is what undoing them gives.
ReadFits(h) ==
  /\ h.pc = "profile" /\ h.op = "withdraw" => h.read.reserved + h.amount <= h.read.balance
  /\ h.pc = "debit" => h.amount <= h.read.balance
  /\ h.pc \in {"row", "rollback"} /\ h.op \in Moving =>
       /\ Covered(h.read)
       /\ h.op \in Frees => h.amount <= h.read.reserved

AmountsFit == \A r \in Requests : req[r].tx # "none" => req[r].amount = rows[req[r].tx].amount

WholeBooks ==
  Covered(profile) /\ BalanceFits /\ ReserveFits /\ \A r \in Requests : ReadFits(req[r])

BookInv == IInv /\ AmountsFit /\ (~torn => WholeBooks)
-----------------------------------------------------------------------------
(***************************************************************************)
(* What a step does to the sums.                                           *)
(***************************************************************************)
Counted(row, type, statuses) ==
  IF row.type = type /\ row.status \in statuses THEN row.amount ELSE 0

LEMMA SumType ==
  ASSUME TypeOK, NEW type, NEW statuses
  PROVE  /\ [t \in Txs |-> Counted(rows[t], type, statuses)] \in [Txs -> Nat]
         /\ SumOf(type, statuses) = Total([t \in Txs |-> Counted(rows[t], type, statuses)])
         /\ SumOf(type, statuses) \in Nat
<1>1. \A t \in Txs : rows[t].amount \in Nat
  BY DEF TypeOK, Row, NoRow
<1>2. [t \in Txs |-> Counted(rows[t], type, statuses)] \in [Txs -> Nat]
  BY <1>1 DEF Counted
<1>3. SumOf(type, statuses) = Total([t \in Txs |-> Counted(rows[t], type, statuses)])
  BY DEF SumOf, Counted
<1> QED BY <1>2, <1>3, VaultAssumption, TotalType

LEMMA SumPut ==
  ASSUME TypeOK, TypeOK', NEW t \in Txs, \A u \in Txs \ {t} : rows'[u] = rows[u],
         NEW type, NEW statuses
  PROVE  SumOf(type, statuses)' = SumOf(type, statuses) - Counted(rows[t], type, statuses)
                                    + Counted(rows'[t], type, statuses)
<1> DEFINE f == [u \in Txs |-> Counted(rows[u], type, statuses)]
           g == [u \in Txs |-> Counted(rows'[u], type, statuses)]
<1>0. f \in [Txs -> Nat]
  BY SumType
<1>1. /\ f \in [Txs -> Nat] /\ SumOf(type, statuses) = Total(f)
      /\ g \in [Txs -> Nat] /\ SumOf(type, statuses)' = Total(g)
  <2>1. f \in [Txs -> Nat] /\ SumOf(type, statuses) = Total(f)
    BY SumType
  <2>2. g \in [Txs -> Nat]
    BY DEF TypeOK, Row, NoRow, Counted
  <2>3. SumOf(type, statuses)' = Total(g)
    BY DEF SumOf, Counted
  <2> QED BY <2>1, <2>2, <2>3
<1>2. f[t] = Counted(rows[t], type, statuses) /\ g[t] = Counted(rows'[t], type, statuses)
  OBVIOUS
<1>3. \A u \in Txs \ {t} : g[u] = f[u]
  OBVIOUS
<1> HIDE DEF f, g
<1>4. g = [f EXCEPT ![t] = g[t]] /\ g[t] \in Nat
  BY <1>1, <1>3
<1>5. IsFiniteSet(Txs)
  BY VaultAssumption
<1>6. \A n \in Nat : Total([f EXCEPT ![t] = n]) = Total(f) - f[t] + n
  BY <1>0, <1>5, TotalPut, Zenon
<1> QED BY <1>1, <1>2, <1>4, <1>6

LEMMA UnderType ==
  ASSUME TypeOK, TypeOK', NEW r \in Requests, NEW ops
  PROVE  Under(req[r], ops) \in Nat /\ Under(req'[r], ops) \in Nat
BY DEF Under, TypeOK, Handler

LEMMA FlightType ==
  ASSUME TypeOK, NEW ops
  PROVE  /\ [r \in Requests |-> Under(req[r], ops)] \in [Requests -> Nat]
         /\ InFlight(ops) \in Nat
<1>1. [r \in Requests |-> Under(req[r], ops)] \in [Requests -> Nat]
  BY DEF TypeOK, Handler, Under
<1> QED BY <1>1, VaultAssumption, TotalType DEF InFlight

LEMMA FlightPut ==
  ASSUME TypeOK, TypeOK', NEW r \in Requests, OthersStay(r), NEW ops
  PROVE  InFlight(ops)' = InFlight(ops) - Under(req[r], ops) + Under(req'[r], ops)
<1> DEFINE f == [s \in Requests |-> Under(req[s], ops)]
           g == [s \in Requests |-> Under(req'[s], ops)]
<1>1. f \in [Requests -> Nat] /\ g \in [Requests -> Nat]
  BY DEF TypeOK, Handler, Under
<1>2. f[r] = Under(req[r], ops) /\ g[r] = Under(req'[r], ops)
  OBVIOUS
<1>3. \A s \in Requests \ {r} : g[s] = f[s]
  BY DEF OthersStay
<1>4. InFlight(ops) = Total(f) /\ InFlight(ops)' = Total(g)
  BY DEF InFlight
<1> HIDE DEF f, g
<1>5. g = [f EXCEPT ![r] = g[r]] /\ g[r] \in Nat
  BY <1>1, <1>3
<1>6. IsFiniteSet(Requests)
  BY VaultAssumption
<1>7. \A n \in Nat : Total([f EXCEPT ![r] = n]) = Total(f) - f[r] + n
  BY <1>1, <1>6, TotalPut, Zenon
<1> QED BY <1>2, <1>4, <1>5, <1>7

\* No handler between its writes: nothing is in flight.
LEMMA NothingInFlight ==
  ASSUME TypeOK, NEW ops, \A r \in Requests : Under(req[r], ops) = 0
  PROVE  InFlight(ops) = 0
BY FlightType, TotalZero DEF InFlight

\* A step that keeps the rows keeps the books if it moves as much in the profile
\* as in what its handler has in flight.
LEMMA ProfileStep ==
  ASSUME TypeOK, TypeOK', BalanceFits, ReserveFits, NEW r \in Requests, OthersStay(r),
         UNCHANGED rows,
         profile'.balance - profile.balance
           = Under(req[r], Takes) - Under(req'[r], Takes)
             + Under(req'[r], Gives) - Under(req[r], Gives),
         profile'.reserved - profile.reserved
           = Under(req[r], Frees) - Under(req'[r], Frees)
             + Under(req'[r], Holding) - Under(req[r], Holding)
  PROVE  BalanceFits' /\ ReserveFits'
<1>1. /\ InFlight(Takes) \in Nat /\ InFlight(Gives) \in Nat
      /\ InFlight(Frees) \in Nat /\ InFlight(Holding) \in Nat
  BY FlightType
<1>2. Credits \in Nat /\ Debits \in Nat /\ Pending \in Nat
  BY SumType DEF Credits, Debits, Pending
<1>3. Credits' = Credits /\ Debits' = Debits /\ Pending' = Pending
  BY DEF Credits, Debits, Pending, SumOf
<1>4. /\ InFlight(Takes)' = InFlight(Takes) - Under(req[r], Takes) + Under(req'[r], Takes)
      /\ InFlight(Gives)' = InFlight(Gives) - Under(req[r], Gives) + Under(req'[r], Gives)
  BY FlightPut
<1>10. /\ InFlight(Frees)' = InFlight(Frees) - Under(req[r], Frees) + Under(req'[r], Frees)
      /\ InFlight(Holding)'
           = InFlight(Holding) - Under(req[r], Holding) + Under(req'[r], Holding)
  BY FlightPut
<1>5. /\ profile.balance \in Nat /\ profile'.balance \in Nat
      /\ profile.reserved \in Nat /\ profile'.reserved \in Nat
  BY DEF TypeOK, Profile
<1>6. /\ Under(req[r], Takes) \in Nat /\ Under(req'[r], Takes) \in Nat
      /\ Under(req[r], Gives) \in Nat /\ Under(req'[r], Gives) \in Nat
  BY UnderType
<1>11. /\ Under(req[r], Frees) \in Nat /\ Under(req'[r], Frees) \in Nat
      /\ Under(req[r], Holding) \in Nat /\ Under(req'[r], Holding) \in Nat
  BY UnderType
<1>7. BalanceFits'
  BY <1>1, <1>2, <1>3, <1>4, <1>5, <1>6 DEF BalanceFits
<1>8. ReserveFits'
  BY <1>1, <1>2, <1>3, <1>10, <1>5, <1>11 DEF ReserveFits
<1> QED BY <1>7, <1>8

\* A step that keeps the profile keeps the books if it enters in a row what its
\* handler had in flight.
Credit(row) == Counted(row, "deposit", {"completed"})
Debited(row) == Counted(row, "withdraw", {"completed"})
Reserve(row) == Counted(row, "withdraw", {"pending_review", "settlement_processing"})

LEMMA EntryStep ==
  ASSUME TypeOK, TypeOK', BalanceFits, ReserveFits, NEW r \in Requests, OthersStay(r),
         UNCHANGED profile, NEW t \in Txs, \A u \in Txs \ {t} : rows'[u] = rows[u],
         Credit(rows'[t]) - Credit(rows[t]) - Debited(rows'[t]) + Debited(rows[t])
           = Under(req'[r], Takes) - Under(req[r], Takes)
             + Under(req[r], Gives) - Under(req'[r], Gives),
         Reserve(rows'[t]) - Reserve(rows[t])
           = Under(req'[r], Frees) - Under(req[r], Frees)
             + Under(req[r], Holding) - Under(req'[r], Holding)
  PROVE  BalanceFits' /\ ReserveFits'
<1>1. /\ InFlight(Takes) \in Nat /\ InFlight(Gives) \in Nat
      /\ InFlight(Frees) \in Nat /\ InFlight(Holding) \in Nat
  BY FlightType
<1>2. Credits \in Nat /\ Debits \in Nat /\ Pending \in Nat
  BY SumType DEF Credits, Debits, Pending
<1>3. /\ Credits' = Credits - Credit(rows[t]) + Credit(rows'[t])
      /\ Debits' = Debits - Debited(rows[t]) + Debited(rows'[t])
      /\ Pending' = Pending - Reserve(rows[t]) + Reserve(rows'[t])
  BY SumPut, Zenon DEF Credits, Debits, Pending, Credit, Debited, Reserve
<1>4. /\ InFlight(Takes)' = InFlight(Takes) - Under(req[r], Takes) + Under(req'[r], Takes)
      /\ InFlight(Gives)' = InFlight(Gives) - Under(req[r], Gives) + Under(req'[r], Gives)
  BY FlightPut
<1>10. /\ InFlight(Frees)' = InFlight(Frees) - Under(req[r], Frees) + Under(req'[r], Frees)
      /\ InFlight(Holding)'
           = InFlight(Holding) - Under(req[r], Holding) + Under(req'[r], Holding)
  BY FlightPut
<1>5. profile.balance \in Nat /\ profile.reserved \in Nat
  BY DEF TypeOK, Profile
<1>6. /\ Under(req[r], Takes) \in Nat /\ Under(req'[r], Takes) \in Nat
      /\ Under(req[r], Gives) \in Nat /\ Under(req'[r], Gives) \in Nat
  BY UnderType
<1>11. /\ Under(req[r], Frees) \in Nat /\ Under(req'[r], Frees) \in Nat
      /\ Under(req[r], Holding) \in Nat /\ Under(req'[r], Holding) \in Nat
  BY UnderType
<1>7. /\ Credit(rows[t]) \in Nat /\ Credit(rows'[t]) \in Nat
      /\ Debited(rows[t]) \in Nat /\ Debited(rows'[t]) \in Nat
      /\ Reserve(rows[t]) \in Nat /\ Reserve(rows'[t]) \in Nat
  BY DEF Credit, Debited, Reserve, Counted, TypeOK, Row, NoRow
<1>8. BalanceFits'
  BY <1>1, <1>2, <1>3, <1>4, <1>5, <1>6, <1>7 DEF BalanceFits
<1>9. ReserveFits'
  BY <1>1, <1>2, <1>3, <1>10, <1>5, <1>11, <1>7 DEF ReserveFits
<1> QED BY <1>8, <1>9

-----------------------------------------------------------------------------
(***************************************************************************)
(* The books, action by action.                                            *)
(***************************************************************************)
LEMMA UnderNone ==
  ASSUME NEW h, ~Undone(h), NEW ops
  PROVE  Under(h, ops) = 0
BY DEF Under

LEMMA UnderSome ==
  ASSUME NEW h, Undone(h), NEW ops
  PROVE  /\ h.op \in ops => Under(h, ops) = h.amount
         /\ h.op \notin ops => Under(h, ops) = 0
BY DEF Under

LEMMA AmountsStep ==
  ASSUME IInv, AmountsFit, NEW r \in Requests, OthersStay(r),
         \A u \in Txs : rows[u] = NoRow \/ rows'[u].amount = rows[u].amount,
         req'[r].tx # "none" => req'[r].amount = rows'[req'[r].tx].amount
  PROVE  AmountsFit'
<1>1. \A s \in Requests : req[s] \in Handler
  BY DEF IInv, LockInv, TypeOK
<1>2. ASSUME NEW s \in Requests \ {r}, req'[s].tx # "none"
      PROVE  req'[s].amount = rows'[req'[s].tx].amount
  <2>1. req'[s] = req[s] /\ req[s].tx \in Txs
    BY <1>1, <1>2 DEF OthersStay, Handler
  <2>2. rows[req[s].tx].type \in {"deposit", "withdraw"}
    BY <1>2, <2>1 DEF IInv, KindsFit, Type
  <2>3. rows[req[s].tx] # NoRow
    BY <2>2 DEF NoRow
  <2> QED BY <1>2, <2>1, <2>3 DEF AmountsFit
<1> QED BY <1>2 DEF AmountsFit

\* The reads of the other handlers still fit.
LEMMA BooksStep ==
  ASSUME NEW r \in Requests, OthersStay(r), WholeBooks, BalanceFits', ReserveFits',
         Covered(profile'), ReadFits(req'[r])
  PROVE  WholeBooks'
<1>1. \A s \in Requests : ReadFits(req'[s])
  BY DEF OthersStay, WholeBooks
<1> QED BY <1>1 DEF WholeBooks, ReadFits, Covered

\* A step that moves no money and enters none.
LEMMA BooksStay ==
  ASSUME TypeOK, TypeOK', NEW r \in Requests, OthersStay(r), WholeBooks,
         UNCHANGED <<profile, rows>>, ReadFits(req'[r]),
         \A ops : Under(req'[r], ops) = Under(req[r], ops)
  PROVE  WholeBooks'
<1>1. /\ Under(req'[r], Takes) = Under(req[r], Takes)
      /\ Under(req'[r], Gives) = Under(req[r], Gives)
      /\ Under(req'[r], Frees) = Under(req[r], Frees)
      /\ Under(req'[r], Holding) = Under(req[r], Holding)
  OBVIOUS
<1>2. /\ Under(req[r], Takes) \in Nat /\ Under(req[r], Gives) \in Nat
      /\ Under(req[r], Frees) \in Nat /\ Under(req[r], Holding) \in Nat
  BY UnderType
<1>3. /\ profile'.balance - profile.balance = 0 /\ profile'.reserved - profile.reserved = 0
  BY DEF TypeOK, Profile
<1>4. /\ profile'.balance - profile.balance
           = Under(req[r], Takes) - Under(req'[r], Takes)
             + Under(req'[r], Gives) - Under(req[r], Gives)
      /\ profile'.reserved - profile.reserved
           = Under(req[r], Frees) - Under(req'[r], Frees)
             + Under(req'[r], Holding) - Under(req[r], Holding)
  BY <1>1, <1>2, <1>3
<1>5. BalanceFits' /\ ReserveFits'
  BY <1>4, ProfileStep DEF WholeBooks
<1> QED BY <1>5, BooksStep DEF WholeBooks

LEMMA IdleFits == ReadFits(Idle) /\ ~Undone(Idle) /\ Idle.tx = "none"
BY DEF ReadFits, Undone, Idle

-----------------------------------------------------------------------------
BookStep == AmountsFit' /\ (~torn' /\ WholeBooks => WholeBooks')

\* A handler that starts has moved nothing; a checkout starts with money to spend.
LEMMA AskBooks ==
  ASSUME BookInv, NEW r \in Requests, Ask(r), IInv'
  PROVE  BookStep
<1>1. /\ req[r].pc = "idle" /\ OthersStay(r) /\ UNCHANGED <<profile, rows, torn>>
      /\ TypeOK /\ TypeOK' /\ req'[r] \in Handler
  <2>1. UNCHANGED profile
    BY DEF Ask, Create, Review, Checkout
  <2> QED BY <2>1, BeginStep DEF BookInv, IInv, LockInv, TypeOK
<1>2. /\ req'[r].pc \in {"queued", "look", "debit"}
      /\ req'[r].tx # "none" => req'[r].amount = rows[req'[r].tx].amount
      /\ req'[r].pc = "debit" => req'[r].amount <= Spendable(profile) /\ req'[r].read = profile
  <2>1. CASE \E op \in Requested, n \in Amounts, key \in Keys \cup {"none"},
                ref \in Refs \cup {"none"} : Create(r, op, n, key, ref)
    BY <2>1 DEF Create, Begin, Idle, TypeOK, BookInv, IInv, LockInv
  <2>2. CASE \E op \in Requested, t \in Txs, ref \in Refs \cup {"none"} : Review(r, op, t, ref)
    BY <2>2 DEF Review, Begin, Idle, TypeOK, BookInv, IInv, LockInv
  <2>3. CASE \E n \in Withdrawals : Checkout(r, n)
    BY <2>3 DEF Checkout, Begin, Idle, TypeOK, BookInv, IInv, LockInv
  <2> QED BY <2>1, <2>2, <2>3 DEF Ask
<1>3. AmountsFit'
  BY <1>1, <1>2, AmountsStep DEF BookInv
<1>4. ASSUME WholeBooks PROVE ReadFits(req'[r])
  <2>1. /\ profile.balance \in Nat /\ profile.reserved \in Nat /\ req'[r].amount \in Nat
        /\ profile.reserved <= profile.balance
    BY <1>1, <1>4 DEF TypeOK, Profile, Handler, WholeBooks, Covered
  <2>2. Spendable(profile) <= profile.balance
    BY <2>1 DEF Spendable, Monus
  <2>3. req'[r].pc = "debit" => req'[r].amount <= req'[r].read.balance
    BY <1>2, <2>1, <2>2 DEF Spendable, Monus
  <2> QED BY <1>2, <2>3 DEF ReadFits
<1>5. ~Undone(req[r]) /\ ~Undone(req'[r])
  BY <1>1, <1>2 DEF Undone
<1>6. WholeBooks => WholeBooks'
  BY <1>1, <1>4, <1>5, UnderNone, BooksStay
<1> QED BY <1>3, <1>6 DEF BookStep

LEMMA JoinBooks ==
  ASSUME BookInv, NEW r \in Requests, Join(r), IInv'
  PROVE  BookStep
<1>1. TypeOK /\ TypeOK' /\ UNCHANGED <<profile, rows, torn>> /\ req[r] \in Handler
  BY DEF Join, BookInv, IInv, LockInv, TypeOK
<1>2. /\ OthersStay(r) /\ req[r].pc = "look" /\ req'[r].pc = "queued"
      /\ req'[r].tx = req[r].tx /\ req'[r].amount = req[r].amount
  BY <1>1 DEF Join, At, OthersStay, TypeOK, Handler
<1>3. AmountsFit'
  BY <1>1, <1>2, AmountsStep DEF BookInv, AmountsFit
<1>4. ReadFits(req'[r]) /\ ~Undone(req[r]) /\ ~Undone(req'[r])
  BY <1>2 DEF ReadFits, Undone
<1> QED BY <1>1, <1>2, <1>3, <1>4, UnderNone, BooksStay DEF BookStep

LEMMA DoneBooks ==
  ASSUME BookInv, NEW r \in Requests, Done(r), IInv'
  PROVE  BookStep
<1>1. TypeOK /\ TypeOK' /\ UNCHANGED <<profile, rows, torn>>
  BY DEF Done, BookInv, IInv, LockInv
<1>2. OthersStay(r) /\ req[r].pc = "done" /\ req'[r] = Idle
  BY <1>1 DEF Done, Leave, At, OthersStay, TypeOK
<1>3. AmountsFit'
  BY <1>1, <1>2, IdleFits, AmountsStep DEF BookInv
<1>4. ReadFits(req'[r]) /\ ~Undone(req[r]) /\ ~Undone(req'[r])
  BY <1>2, IdleFits DEF Undone
<1> QED BY <1>1, <1>2, <1>3, <1>4, UnderNone, BooksStay DEF BookStep

-----------------------------------------------------------------------------
\* Whoever gets the lock has moved nothing, and who reserves money has it.
LEMMA EnterBooks ==
  ASSUME BookInv, NEW r \in Requests, Enter(r), IInv'
  PROVE  BookStep
<1>1. /\ LockInv /\ TypeOK /\ TypeOK' /\ UNCHANGED <<profile, rows>> /\ (torn => torn')
      /\ queue # <<>> /\ Head(queue) = r /\ req[r].pc = "queued"
      /\ req[r] \in Handler /\ req'[r] \in Handler /\ Shape(req[r])
  BY EnterChoice DEF BookInv, IInv, LockInv, TypeOK, Shapes
<1>2. Leave(r) \/ (Proceed(r) /\ \E status, taken : Admits(req[r], status, taken))
  BY DEF Enter, EnterUnlocked
<1>3. CASE Leave(r)
  <2>1. OthersStay(r) /\ req'[r] = Idle
    BY <1>1, <1>3 DEF Leave, OthersStay, TypeOK
  <2>2. ~Undone(req[r])
    BY <1>1 DEF Undone
  <2>3. AmountsFit'
    BY <1>1, <2>1, IdleFits, AmountsStep DEF BookInv
  <2> QED BY <1>1, <2>1, <2>2, <2>3, IdleFits, UnderNone, BooksStay DEF BookStep
<1>4. CASE Proceed(r) /\ \E status, taken : Admits(req[r], status, taken)
  <2>1. /\ OthersStay(r) /\ req'[r].tx = req[r].tx /\ req'[r].op = req[r].op
        /\ req'[r].amount = req[r].amount /\ req'[r].pc = FirstWrite(req[r].op)
        /\ req'[r].read = IF req[r].op \in Moving THEN profile ELSE Unread
    BY <1>1, <1>4 DEF Proceed, OthersStay, TypeOK, Handler
  <2>2. AmountsFit'
    BY <1>1, <2>1, AmountsStep DEF BookInv, AmountsFit
  <2>3. /\ req'[r].pc \in {"profile", "rpc", "row"}
        /\ req'[r].pc = "profile" <=> req[r].op \in Moving
    BY <2>1 DEF FirstWrite, Moving
  <2>4. ~Undone(req[r]) /\ ~Undone(req'[r])
    BY <1>1, <2>1, <2>3 DEF Undone
  <2>5. ASSUME WholeBooks, req[r].op = "withdraw"
        PROVE  profile.reserved + req[r].amount <= profile.balance
    <3>1. req[r].amount <= Spendable(profile)
      BY <1>4, <2>5 DEF Admits
    <3>2. /\ profile.balance \in Nat /\ profile.reserved \in Nat /\ req[r].amount \in Nat
          /\ profile.reserved <= profile.balance
      BY <1>1, <2>5 DEF TypeOK, Profile, Handler, WholeBooks, Covered
    <3> QED BY <3>1, <3>2 DEF Spendable, Monus
  <2>6. WholeBooks => ReadFits(req'[r])
    BY <2>1, <2>3, <2>5 DEF ReadFits
  <2> QED BY <1>1, <2>1, <2>2, <2>4, <2>6, UnderNone, BooksStay DEF BookStep
<1> QED BY <1>2, <1>3, <1>4

\* The money a settlement or a release takes off is there: while the books are
\* whole, the reservation covers every pending withdrawal.
LEMMA ReservedFor ==
  ASSUME BookInv, ~torn, WholeBooks, NEW r \in Requests, req[r].pc = "profile",
         req[r].op \in Frees
  PROVE  /\ req[r].tx \in Txs /\ req[r].amount = rows[req[r].tx].amount
         /\ req[r].amount <= profile.reserved
<1> DEFINE t == req[r].tx
<1>1. /\ LockInv /\ KindsFit /\ TypeOK /\ req[r] \in Handler /\ Shape(req[r])
      /\ queue # <<>> /\ Head(queue) = r
  BY DEF BookInv, IInv, LockInv, TypeOK, Shapes, LockHeld, Working
<1>2. t # "none" /\ t \in Txs
  BY <1>1 DEF Shape, Deciding, Frees, Creating, Handler
<1>3. req[r].amount = rows[t].amount /\ rows[t].type = "withdraw"
  BY <1>1, <1>2 DEF BookInv, AmountsFit, KindsFit, Type, Frees
<1>4. rows[t].status \in {"pending_review", "settlement_processing"}
  <2>1. rows[t].status \in ReadIn(req[r].op)
    BY <1>2 DEF BookInv, IInv, DecisionsHold
  <2> QED BY <2>1 DEF ReadIn, Frees, Status, Final
<1>5. rows[t].amount <= Pending
  <2> DEFINE f == [u \in Txs |-> Counted(rows[u], "withdraw",
                                   {"pending_review", "settlement_processing"})]
  <2>1. f \in [Txs -> Nat] /\ Pending = Total(f)
    BY <1>1, SumType DEF Pending
  <2>2. f[t] = rows[t].amount
    BY <1>2, <1>3, <1>4 DEF Counted
  <2>3. IsFiniteSet(Txs)
    BY VaultAssumption
  <2> HIDE DEF f
  <2>4. f[t] <= Total(f)
    BY <1>2, <2>1, <2>3, TotalMember, Zenon
  <2> QED BY <2>1, <2>2, <2>4
<1>6. InFlight(Frees) = 0
  <2>1. ASSUME NEW s \in Requests PROVE Under(req[s], Frees) = 0
    <3>1. CASE s = r
      BY <3>1 DEF Under, Undone
    <3>2. CASE s # r
      <4>1. req[s].pc \notin Working /\ Shape(req[s])
        BY <1>1, <3>2, WorkerAlone DEF LockInv, Shapes
      <4> QED BY <4>1 DEF Under, Undone, Shape, Working, Frees
    <3> QED BY <3>1, <3>2
  <2> QED BY <1>1, <2>1, NothingInFlight
<1>7. profile.reserved \in Nat /\ Pending \in Nat /\ InFlight(Holding) \in Nat
  BY <1>1, SumType, FlightType DEF TypeOK, Profile, Pending
<1>8. rows[t].amount \in Nat
  BY <1>1, <1>3 DEF Handler
<1> QED BY <1>2, <1>3, <1>5, <1>6, <1>7, <1>8 DEF WholeBooks, ReserveFits

-----------------------------------------------------------------------------
\* Between its writes a handler has in flight what it moved in the profile.
LEMMA MovedBy ==
  ASSUME NEW h, Undone(h), h.op \in Moving \ {"checkout"}, h.amount \in Nat,
         NEW p \in Profile, Covered(p), h.op \in Frees => h.amount <= p.reserved
  PROVE  LET q == Moved(h.op, h.amount, p)
         IN /\ q.balance = p.balance + Under(h, Gives) - Under(h, Takes)
            /\ q.reserved = p.reserved + Under(h, Holding) - Under(h, Frees)
            /\ (h.op = "withdraw" => p.reserved + h.amount <= p.balance) => Covered(q)
<1>1. p.balance \in Nat /\ p.reserved \in Nat /\ p.reserved <= p.balance
  BY DEF Profile, Covered
<1>2. CASE h.op \in Gives
  <2>1. Moved(h.op, h.amount, p) = [p EXCEPT !.balance = @ + h.amount]
    BY <1>2 DEF Moved, Gives
  <2>2. /\ Under(h, Gives) = h.amount /\ Under(h, Takes) = 0
        /\ Under(h, Holding) = 0 /\ Under(h, Frees) = 0
    BY <1>2, UnderSome DEF Gives, Takes, Holding, Frees
  <2> QED BY <1>1, <2>1, <2>2 DEF Profile, Covered
<1>3. CASE h.op = "withdraw"
  <2>1. Moved(h.op, h.amount, p) = [p EXCEPT !.reserved = @ + h.amount]
    BY <1>3 DEF Moved
  <2>2. /\ Under(h, Gives) = 0 /\ Under(h, Takes) = 0
        /\ Under(h, Holding) = h.amount /\ Under(h, Frees) = 0
    BY <1>3, UnderSome DEF Gives, Takes, Holding, Frees
  <2> QED BY <1>1, <1>3, <2>1, <2>2 DEF Profile, Covered
<1>4. CASE h.op = "settle"
  <2>1. /\ Moved(h.op, h.amount, p).balance = Monus(p.balance, h.amount)
        /\ Moved(h.op, h.amount, p).reserved = Monus(p.reserved, h.amount)
    BY <1>4 DEF Moved
  <2>2. /\ Under(h, Gives) = 0 /\ Under(h, Takes) = h.amount
        /\ Under(h, Holding) = 0 /\ Under(h, Frees) = h.amount
    BY <1>4, UnderSome DEF Gives, Takes, Holding, Frees
  <2>3. /\ Monus(p.balance, h.amount) = p.balance - h.amount
        /\ Monus(p.reserved, h.amount) = p.reserved - h.amount
    BY <1>1, <1>4 DEF Monus, Frees
  <2> QED BY <1>1, <1>4, <2>1, <2>2, <2>3 DEF Covered
<1>5. CASE h.op \in {"cancel", "return"}
  <2>1. Moved(h.op, h.amount, p) = [p EXCEPT !.reserved = Monus(@, h.amount)]
    BY <1>5 DEF Moved
  <2>2. /\ Under(h, Gives) = 0 /\ Under(h, Takes) = 0
        /\ Under(h, Holding) = 0 /\ Under(h, Frees) = h.amount
    BY <1>5, UnderSome DEF Gives, Takes, Holding, Frees
  <2>3. Monus(p.reserved, h.amount) = p.reserved - h.amount /\ h.amount <= p.reserved
    BY <1>1, <1>5 DEF Monus, Frees
  <2> QED BY <1>1, <2>1, <2>2, <2>3 DEF Profile, Covered
<1> QED
  BY <1>2, <1>3, <1>4, <1>5 DEF Moving, Operation, Creating, Reviewing, Gives

\* The first write of a handler.
LEMMA WriteProfileBooks ==
  ASSUME BookInv, NEW r \in Requests, WriteProfile(r), IInv'
  PROVE  BookStep
<1> DEFINE h == req[r]
<1>1. /\ LockInv /\ TypeOK /\ TypeOK' /\ h \in Handler /\ Shape(h) /\ h.pc = "profile"
      /\ OthersStay(r) /\ UNCHANGED rows /\ torn \in BOOLEAN /\ req'[r] \in Handler
  BY WriteProfileStep DEF BookInv, IInv, LockInv, TypeOK, Shapes, WriteProfile
<1>2. \/ profile' = Moved(h.op, h.amount, h.read) /\ torn' = (torn \/ profile # h.read)
         /\ Goto(r, "row")
      \/ UNCHANGED <<profile, torn>> /\ Leave(r)
      \/ torn' /\ Leave(r)
  BY DEF WriteProfile
<1>3. req'[r] = Idle \/ req'[r] = [h EXCEPT !.pc = "row"]
  BY <1>1, <1>2 DEF Goto, Leave, TypeOK
<1>4. AmountsFit'
  <2>1. req'[r].tx # "none" => req'[r].tx = h.tx /\ req'[r].amount = h.amount
    BY <1>1, <1>3, IdleFits DEF Handler
  <2> QED BY <1>1, <2>1, AmountsStep DEF BookInv, AmountsFit
<1>5. ~Undone(h)
  BY <1>1 DEF Undone
<1>6. CASE UNCHANGED <<profile, torn>> /\ Leave(r)
  <2>1. req'[r] = Idle
    BY <1>1, <1>6 DEF Leave, TypeOK
  <2> QED BY <1>1, <1>4, <1>5, <1>6, <2>1, IdleFits, UnderNone, BooksStay DEF BookStep
<1>7. ASSUME profile' = Moved(h.op, h.amount, h.read), torn' = (torn \/ profile # h.read),
             Goto(r, "row"), ~torn', WholeBooks
      PROVE  WholeBooks'
  <2> DEFINE g == req'[r]
  <2>1. /\ g = [h EXCEPT !.pc = "row"] /\ g.pc = "row" /\ g.op = h.op
        /\ g.amount = h.amount /\ g.read = h.read /\ g.amount \in Nat
    BY <1>1, <1>7 DEF Goto, TypeOK, Handler
  <2>2. /\ h.op \in Moving \ {"checkout"} /\ ~torn /\ h.read = profile
        /\ profile \in Profile /\ Covered(profile)
    BY <1>1, <1>7 DEF Shape, Working, Creating, Reviewing, TypeOK, WholeBooks
  <2>3. h.op \in Frees => h.amount <= profile.reserved
    BY <1>1, <1>7, <2>2, ReservedFor
  <2>4. h.op = "withdraw" => profile.reserved + h.amount <= profile.balance
    BY <1>1, <1>7, <2>2 DEF WholeBooks, ReadFits
  <2>5. Undone(g)
    BY <2>1, <2>2 DEF Undone
  <2> HIDE DEF g, h
  <2>6. /\ profile'.balance = profile.balance + Under(g, Gives) - Under(g, Takes)
        /\ profile'.reserved = profile.reserved + Under(g, Holding) - Under(g, Frees)
        /\ Covered(profile')
    BY <1>7, <2>1, <2>2, <2>3, <2>4, <2>5, MovedBy
  <2>7. ReadFits(g)
    BY <2>1, <2>2, <2>3 DEF ReadFits
  <2> USE DEF g, h
  <2>8. /\ Under(h, Takes) = 0 /\ Under(h, Gives) = 0 /\ Under(h, Frees) = 0
        /\ Under(h, Holding) = 0
    BY <1>5, UnderNone
  <2>9. BalanceFits' /\ ReserveFits'
    <3>1. /\ Under(g, Takes) \in Nat /\ Under(g, Gives) \in Nat
          /\ Under(g, Frees) \in Nat /\ Under(g, Holding) \in Nat
          /\ profile.balance \in Nat /\ profile.reserved \in Nat
      BY <1>1, UnderType DEF TypeOK, Profile
    <3>2. /\ profile'.balance - profile.balance
               = Under(h, Takes) - Under(g, Takes) + Under(g, Gives) - Under(h, Gives)
          /\ profile'.reserved - profile.reserved
               = Under(h, Frees) - Under(g, Frees) + Under(g, Holding) - Under(h, Holding)
      <4> HIDE DEF g, h
      <4> QED BY <2>6, <2>8, <3>1
    <3> QED BY <1>1, <1>7, <3>2, ProfileStep DEF WholeBooks
  <2> QED BY <1>1, <1>7, <2>6, <2>7, <2>9, BooksStep
<1> QED BY <1>2, <1>4, <1>6, <1>7 DEF BookStep

\* Undoing the first write.
LEMMA RollbackBooks ==
  ASSUME BookInv, NEW r \in Requests, Rollback(r), IInv'
  PROVE  BookStep
<1> DEFINE h == req[r]
<1>1. /\ LockInv /\ TypeOK /\ TypeOK' /\ h \in Handler /\ Shape(h) /\ h.pc = "rollback"
      /\ OthersStay(r) /\ UNCHANGED rows /\ torn \in BOOLEAN /\ req'[r] = Idle
  BY RollbackStep DEF BookInv, IInv, LockInv, TypeOK, Shapes
<1>2. AmountsFit'
  BY <1>1, IdleFits, AmountsStep DEF BookInv
<1>3. ASSUME ~torn', WholeBooks PROVE WholeBooks'
  <2>1. /\ profile' = h.read /\ profile = Moved(h.op, h.amount, h.read)
    BY <1>1, <1>3 DEF Rollback
  <2>2. h.op \in Moving \ {"checkout"} /\ h.read \in Profile /\ h.amount \in Nat
    BY <1>1 DEF Shape, Working, Creating, Reviewing, Handler
  <2>3. Covered(h.read) /\ (h.op \in Frees => h.amount <= h.read.reserved)
    BY <1>1, <1>3, <2>2 DEF WholeBooks, ReadFits
  <2>4. Undone(h)
    BY <1>1, <2>2 DEF Undone
  <2> HIDE DEF h
  <2>5. /\ profile.balance = h.read.balance + Under(h, Gives) - Under(h, Takes)
        /\ profile.reserved = h.read.reserved + Under(h, Holding) - Under(h, Frees)
    BY <2>1, <2>2, <2>3, <2>4, MovedBy
  <2>6. /\ Under(Idle, Takes) = 0 /\ Under(Idle, Gives) = 0
        /\ Under(Idle, Frees) = 0 /\ Under(Idle, Holding) = 0
    BY IdleFits, UnderNone
  <2>7. /\ Under(h, Takes) \in Nat /\ Under(h, Gives) \in Nat
        /\ Under(h, Frees) \in Nat /\ Under(h, Holding) \in Nat
    BY <2>2 DEF Under
  <2>8. /\ profile'.balance - profile.balance
             = Under(h, Takes) - Under(Idle, Takes) + Under(Idle, Gives) - Under(h, Gives)
        /\ profile'.reserved - profile.reserved
             = Under(h, Frees) - Under(Idle, Frees) + Under(Idle, Holding) - Under(h, Holding)
    BY <2>1, <2>2, <2>5, <2>6, <2>7 DEF Profile
  <2>9. BalanceFits' /\ ReserveFits'
    BY <1>1, <1>3, <2>8, ProfileStep DEF WholeBooks, h
  <2> QED BY <1>1, <1>3, <2>1, <2>3, <2>9, IdleFits, BooksStep
<1> QED BY <1>2, <1>3 DEF BookStep

\* The vault rail of the checkout takes its money off first.
LEMMA DebitBooks ==
  ASSUME BookInv, NEW r \in Requests, Debit(r), IInv'
  PROVE  BookStep
<1> DEFINE h == req[r]
           g == req'[r]
<1>1. /\ LockInv /\ TypeOK /\ TypeOK' /\ h \in Handler /\ Shape(h) /\ h.pc = "debit"
      /\ OthersStay(r) /\ UNCHANGED rows /\ torn \in BOOLEAN /\ Goto(r, "record")
  BY DebitStep DEF BookInv, IInv, LockInv, TypeOK, Shapes, Debit
<1>2. g.pc = "record" /\ g.op = h.op /\ g.amount = h.amount /\ g.tx = h.tx
  BY <1>1 DEF Goto, TypeOK, Handler
<1>3. AmountsFit'
  BY <1>1, <1>2, AmountsStep DEF BookInv, AmountsFit
<1>4. ASSUME ~torn', WholeBooks PROVE WholeBooks'
  <2>1. /\ Moved("checkout", h.amount, h.read).balance >= profile.reserved
        /\ profile' = [profile EXCEPT !.balance = Moved("checkout", h.amount, h.read).balance]
        /\ profile.balance = h.read.balance
    BY <1>1, <1>4 DEF Debit
  <2>2. /\ h.op = "checkout" /\ h.read \in Profile /\ h.amount \in Nat /\ profile \in Profile
    BY <1>1 DEF Shape, Handler, TypeOK
  <2>3. h.amount <= h.read.balance
    BY <1>1, <1>4 DEF WholeBooks, ReadFits
  <2>4. Moved("checkout", h.amount, h.read).balance = h.read.balance - h.amount
    <3> HIDE DEF h
    <3>1. Moved("checkout", h.amount, h.read).balance = Monus(h.read.balance, h.amount)
      BY <2>2 DEF Moved, Profile
    <3> QED BY <2>2, <2>3, <3>1 DEF Monus, Profile
  <2>5. ~Undone(h) /\ Undone(g)
    BY <1>1, <1>2 DEF Undone
  <2>6. ReadFits(g)
    BY <1>2 DEF ReadFits
  <2> HIDE DEF h, g
  <2>7. /\ Under(h, Takes) = 0 /\ Under(h, Gives) = 0
        /\ Under(h, Frees) = 0 /\ Under(h, Holding) = 0
        /\ Under(g, Takes) = h.amount /\ Under(g, Gives) = 0
        /\ Under(g, Frees) = 0 /\ Under(g, Holding) = 0
    BY <1>2, <2>2, <2>5, UnderNone, UnderSome DEF Takes, Gives, Frees, Holding
  <2>8. /\ profile'.balance = profile.balance - h.amount
        /\ profile'.reserved = profile.reserved /\ Covered(profile')
    BY <2>1, <2>2, <2>4 DEF Profile, Covered
  <2>9. /\ profile'.balance - profile.balance
             = Under(h, Takes) - Under(g, Takes) + Under(g, Gives) - Under(h, Gives)
        /\ profile'.reserved - profile.reserved
             = Under(h, Frees) - Under(g, Frees) + Under(g, Holding) - Under(h, Holding)
    BY <2>2, <2>7, <2>8 DEF Profile
  <2>10. BalanceFits' /\ ReserveFits'
    BY <1>1, <1>4, <2>9, ProfileStep DEF WholeBooks, h, g
  <2> QED BY <1>1, <1>4, <2>6, <2>8, <2>10, BooksStep DEF g
<1> QED BY <1>3, <1>4 DEF BookStep

-----------------------------------------------------------------------------
\* A new row enters what its handler had in flight.
LEMMA NewEntry ==
  ASSUME NEW h \in Handler, h.op \in Creating \cup {"checkout"},
         Undone(h) <=> h.op \in Moving
  PROVE  /\ Credit(NoRow) = 0 /\ Debited(NoRow) = 0 /\ Reserve(NoRow) = 0
         /\ Credit(NewRow(h)) = Under(h, Gives)
         /\ Debited(NewRow(h)) = Under(h, Takes)
         /\ Reserve(NewRow(h)) = Under(h, Holding)
         /\ Under(h, Frees) = 0
<1>1. Credit(NoRow) = 0 /\ Debited(NoRow) = 0 /\ Reserve(NoRow) = 0
  BY DEF Credit, Debited, Reserve, Counted, NoRow
<1>2. /\ NewRow(h).type = Type(h.op) /\ NewRow(h).status = Writes(h.op)
      /\ NewRow(h).amount = h.amount
  BY DEF NewRow
<1> HIDE DEF NewRow
<1>3. CASE h.op \in {"credit", "payout"}
  <2>1. Type(h.op) = "deposit" /\ Writes(h.op) = "completed"
    BY <1>3 DEF Type, Writes
  <2>2. h.op \in Moving
    BY <1>3 DEF Moving, Operation, Creating
  <2> QED BY <1>1, <1>2, <1>3, <2>1, <2>2, UnderSome
          DEF Credit, Debited, Reserve, Counted, Gives, Takes, Holding, Frees
<1>4. CASE h.op = "request"
  <2>1. Type(h.op) = "deposit" /\ Writes(h.op) = "pending_review"
    BY <1>4 DEF Type, Writes
  <2>2. h.op \notin Moving
    BY <1>4 DEF Moving
  <2> QED BY <1>1, <1>2, <2>1, <2>2, UnderNone DEF Credit, Debited, Reserve, Counted
<1>5. CASE h.op = "withdraw"
  <2>1. Type(h.op) = "withdraw" /\ Writes(h.op) = "pending_review"
    BY <1>5 DEF Type, Writes
  <2>2. h.op \in Moving
    BY <1>5 DEF Moving, Operation, Creating
  <2> QED BY <1>1, <1>2, <1>5, <2>1, <2>2, UnderSome
          DEF Credit, Debited, Reserve, Counted, Gives, Takes, Holding, Frees
<1>6. CASE h.op = "checkout"
  <2>1. Type(h.op) = "withdraw" /\ Writes(h.op) = "completed"
    BY <1>6 DEF Type, Writes
  <2>2. h.op \in Moving
    BY <1>6 DEF Moving, Operation
  <2> QED BY <1>1, <1>2, <1>6, <2>1, <2>2, UnderSome
          DEF Credit, Debited, Reserve, Counted, Gives, Takes, Holding, Frees
<1> QED BY <1>3, <1>4, <1>5, <1>6 DEF Creating

LEMMA NewBooks ==
  ASSUME TypeOK, TypeOK', WholeBooks, NEW r \in Requests, OthersStay(r), UNCHANGED profile,
         NEW t \in Unused, rows' = [rows EXCEPT ![t] = NewRow(req[r])],
         req[r].op \in Creating \cup {"checkout"},
         Undone(req[r]) <=> req[r].op \in Moving, ~Undone(req'[r]), ReadFits(req'[r])
  PROVE  WholeBooks'
<1> DEFINE h == req[r]
           g == req'[r]
<1>1. /\ t \in Txs /\ rows[t] = NoRow /\ rows'[t] = NewRow(h)
      /\ \A u \in Txs \ {t} : rows'[u] = rows[u]
      /\ h \in Handler
  BY DEF Unused, TypeOK
<1>2. /\ Credit(NoRow) = 0 /\ Debited(NoRow) = 0 /\ Reserve(NoRow) = 0
      /\ Credit(NewRow(h)) = Under(h, Gives)
      /\ Debited(NewRow(h)) = Under(h, Takes)
      /\ Reserve(NewRow(h)) = Under(h, Holding)
      /\ Under(h, Frees) = 0
  BY <1>1, NewEntry
<1>3. /\ Under(g, Gives) = 0 /\ Under(g, Takes) = 0
      /\ Under(g, Holding) = 0 /\ Under(g, Frees) = 0
  BY UnderNone
<1>4. /\ Under(h, Takes) \in Nat /\ Under(h, Gives) \in Nat /\ Under(h, Holding) \in Nat
  BY UnderType
<1>5. /\ Credit(rows'[t]) - Credit(rows[t]) - Debited(rows'[t]) + Debited(rows[t])
           = Under(g, Takes) - Under(h, Takes) + Under(h, Gives) - Under(g, Gives)
      /\ Reserve(rows'[t]) - Reserve(rows[t])
           = Under(g, Frees) - Under(h, Frees) + Under(h, Holding) - Under(g, Holding)
  <2> HIDE DEF h, g
  <2> QED BY <1>1, <1>2, <1>3, <1>4
<1>6. BalanceFits' /\ ReserveFits'
  BY <1>1, <1>5, EntryStep DEF WholeBooks
<1> QED BY <1>6, BooksStep DEF WholeBooks, Covered

LEMMA RpcBooks ==
  ASSUME BookInv, NEW r \in Requests, RequestByRpc(r), IInv'
  PROVE  BookStep
<1>1. /\ LockInv /\ TypeOK /\ TypeOK' /\ req[r] \in Handler /\ Shape(req[r])
      /\ req[r].pc = "rpc" /\ req[r].op = "request"
      /\ req'[r].pc = "row" /\ req'[r].tx = "none" /\ OthersStay(r)
      /\ UNCHANGED <<profile, torn>>
  BY RpcStep DEF BookInv, IInv, LockInv, TypeOK, Shapes, Shape, RequestByRpc
<1>2. req'[r].op = "request"
  BY <1>1 DEF RequestByRpc, Goto, TypeOK, Handler
<1>3. ~Undone(req[r]) /\ ~Undone(req'[r]) /\ req[r].op \notin Moving /\ ReadFits(req'[r])
  BY <1>1, <1>2 DEF Undone, Moving, ReadFits
<1>4. CASE UNCHANGED rows
  <2>1. AmountsFit'
    BY <1>1, <1>4, AmountsStep DEF BookInv
  <2> QED BY <1>1, <1>3, <1>4, <2>1, UnderNone, BooksStay DEF BookStep
<1>5. CASE \E t \in Unused : rows' = [rows EXCEPT ![t] = NewRow(req[r])]
  <2>1. \A u \in Txs : rows[u] = NoRow \/ rows'[u].amount = rows[u].amount
    BY <1>1, <1>5 DEF Unused, TypeOK
  <2>2. AmountsFit'
    BY <1>1, <2>1, AmountsStep DEF BookInv
  <2>3. WholeBooks => WholeBooks'
    BY <1>1, <1>3, <1>5, NewBooks DEF Creating
  <2> QED BY <2>2, <2>3 DEF BookStep
<1> QED BY <1>4, <1>5 DEF RequestByRpc

LEMMA RecordBooks ==
  ASSUME BookInv, NEW r \in Requests, Record(r), IInv'
  PROVE  BookStep
<1>1. /\ LockInv /\ TypeOK /\ TypeOK' /\ req[r].pc = "record" /\ req[r].op = "checkout"
      /\ req'[r] = Idle /\ OthersStay(r) /\ UNCHANGED profile
  BY RecordStep DEF BookInv, IInv, LockInv, Record
<1>2. Undone(req[r]) /\ ~Undone(req'[r]) /\ req[r].op \in Moving /\ ReadFits(req'[r])
  BY <1>1, IdleFits DEF Undone, Moving, Operation
<1>3. \A u \in Txs : rows[u] = NoRow \/ rows'[u].amount = rows[u].amount
  BY <1>1 DEF Record, Unused, TypeOK
<1>4. AmountsFit'
  BY <1>1, <1>3, IdleFits, AmountsStep DEF BookInv
<1>5. ASSUME ~torn', WholeBooks PROVE WholeBooks'
  <2>1. \E t \in Unused : rows' = [rows EXCEPT ![t] = NewRow(req[r])]
    BY <1>5 DEF Record
  <2> QED BY <1>1, <1>2, <1>5, <2>1, NewBooks
<1> QED BY <1>4, <1>5 DEF BookStep

-----------------------------------------------------------------------------
\* A review enters in the row what its handler had in flight, as the row is still
\* open.
LEMMA ReviewEntry ==
  ASSUME NEW h \in Handler, h.op \in Reviewing, Undone(h) <=> h.op \in Moving,
         NEW row, row.type = Type(h.op), row.status \in ReadIn(h.op), row.amount = h.amount,
         NEW new, new.type = row.type, new.amount = row.amount, new.status = Writes(h.op)
  PROVE  /\ Credit(new) - Credit(row) = Under(h, Gives)
         /\ Debited(new) - Debited(row) = Under(h, Takes)
         /\ Reserve(row) - Reserve(new) = Under(h, Frees)
         /\ Under(h, Holding) = 0
<1>1. h.amount \in Nat
  BY DEF Handler
<1>2. CASE h.op = "confirm"
  <2>1. /\ Type(h.op) = "deposit" /\ Writes(h.op) = "completed"
        /\ ReadIn(h.op) = {"pending_review"}
    BY <1>2 DEF Type, Writes, ReadIn
  <2>2. h.op \in Moving
    BY <1>2 DEF Moving, Operation, Reviewing
  <2> QED BY <1>1, <1>2, <2>1, <2>2, UnderSome
          DEF Credit, Debited, Reserve, Counted, Gives, Takes, Holding, Frees
<1>3. CASE h.op = "reject"
  <2>1. /\ Type(h.op) = "deposit" /\ Writes(h.op) = "rejected"
        /\ ReadIn(h.op) = Status \ {"completed", "rejected"}
    BY <1>3 DEF Type, Writes, ReadIn
  <2>2. h.op \notin Moving
    BY <1>3 DEF Moving
  <2> QED BY <1>1, <2>1, <2>2, UnderNone DEF Credit, Debited, Reserve, Counted
<1>4. CASE h.op = "process"
  <2>1. /\ Type(h.op) = "withdraw" /\ Writes(h.op) = "settlement_processing"
        /\ ReadIn(h.op) = {"pending_review"}
    BY <1>4 DEF Type, Writes, ReadIn
  <2>2. h.op \notin Moving
    BY <1>4 DEF Moving
  <2> QED BY <1>1, <2>1, <2>2, UnderNone DEF Credit, Debited, Reserve, Counted
<1>5. CASE h.op = "settle"
  <2>1. /\ Type(h.op) = "withdraw" /\ Writes(h.op) = "completed"
        /\ ReadIn(h.op) = {"pending_review", "settlement_processing"}
    BY <1>5 DEF Type, Writes, ReadIn
  <2>2. h.op \in Moving
    BY <1>5 DEF Moving, Operation, Reviewing
  <2> QED BY <1>1, <1>5, <2>1, <2>2, UnderSome
          DEF Credit, Debited, Reserve, Counted, Gives, Takes, Holding, Frees
<1>6. CASE h.op \in {"cancel", "return"}
  <2>1. /\ Type(h.op) = "withdraw" /\ Writes(h.op) \in {"cancelled", "rejected"}
        /\ ReadIn(h.op) \subseteq {"pending_review", "settlement_processing"}
    BY <1>6 DEF Type, Writes, ReadIn, Status, Final
  <2>2. h.op \in Moving
    BY <1>6 DEF Moving, Operation, Reviewing
  <2> QED BY <1>1, <1>6, <2>1, <2>2, UnderSome
          DEF Credit, Debited, Reserve, Counted, Gives, Takes, Holding, Frees
<1> QED BY <1>2, <1>3, <1>4, <1>5, <1>6 DEF Reviewing

LEMMA ReviewBooks ==
  ASSUME BookInv, ~torn, WholeBooks, TypeOK', NEW r \in Requests, OthersStay(r),
         UNCHANGED profile, req[r].pc = "row", req[r].tx # "none", Applied(req[r], req[r].tx),
         ~Undone(req'[r]), ReadFits(req'[r])
  PROVE  WholeBooks'
<1> DEFINE h == req[r]
           g == req'[r]
           t == h.tx
<1>1. TypeOK /\ LockInv /\ KindsFit /\ h \in Handler /\ Shape(h)
  BY DEF BookInv, IInv, LockInv, TypeOK, Shapes
<1>2. t \in Txs /\ h.op \in Reviewing /\ (Undone(h) <=> h.op \in Moving)
  BY <1>1 DEF Handler, Shape, Working, Deciding, Undone
<1>3. /\ rows[t].type = Type(h.op) /\ rows[t].status \in ReadIn(h.op)
      /\ rows[t].amount = h.amount
  BY <1>1 DEF KindsFit, BookInv, IInv, DecisionsHold, AmountsFit
<1>4. /\ rows'[t].type = rows[t].type /\ rows'[t].status = Writes(h.op)
      /\ \A u \in Txs \ {t} : rows'[u] = rows[u]
  BY <1>1, <1>3, AppliedRow
<1>5. rows'[t].amount = rows[t].amount
  <2>1. rows[t] \in Row
    BY <1>1, <1>2, <1>3 DEF TypeOK, NoRow, Type
  <2>2. rows'[t] = [rows[t] EXCEPT !.status = Writes(h.op),
                                   !.ref = IF h.ref = "none" THEN rows[t].ref ELSE h.ref]
    BY <1>1, <1>2 DEF Applied, TypeOK
  <2> QED BY <2>1, <2>2 DEF Row
<1> HIDE DEF h, g, t
<1>6. /\ Credit(rows'[t]) - Credit(rows[t]) = Under(h, Gives)
      /\ Debited(rows'[t]) - Debited(rows[t]) = Under(h, Takes)
      /\ Reserve(rows[t]) - Reserve(rows'[t]) = Under(h, Frees)
      /\ Under(h, Holding) = 0
  BY <1>1, <1>2, <1>3, <1>4, <1>5, ReviewEntry
<1>7. /\ Under(g, Gives) = 0 /\ Under(g, Takes) = 0
      /\ Under(g, Holding) = 0 /\ Under(g, Frees) = 0
  BY UnderNone DEF g
<1>8. /\ Credit(rows[t]) \in Nat /\ Credit(rows'[t]) \in Nat
      /\ Debited(rows[t]) \in Nat /\ Debited(rows'[t]) \in Nat
      /\ Reserve(rows[t]) \in Nat /\ Reserve(rows'[t]) \in Nat
  BY <1>2, <1>1 DEF Credit, Debited, Reserve, Counted, TypeOK, Row, NoRow
<1>9. /\ Credit(rows'[t]) - Credit(rows[t]) - Debited(rows'[t]) + Debited(rows[t])
           = Under(g, Takes) - Under(h, Takes) + Under(h, Gives) - Under(g, Gives)
      /\ Reserve(rows'[t]) - Reserve(rows[t])
           = Under(g, Frees) - Under(h, Frees) + Under(h, Holding) - Under(g, Holding)
  BY <1>6, <1>7, <1>8
<1>10. BalanceFits' /\ ReserveFits'
  BY <1>1, <1>2, <1>4, <1>9, EntryStep DEF WholeBooks, h, g
<1> QED BY <1>10, BooksStep DEF WholeBooks, Covered

LEMMA AppliedAmount ==
  ASSUME LockInv, KindsFit, AmountsFit, NEW r \in Requests, req[r].pc = "row",
         NEW t \in IF req[r].tx = "none" THEN Unused ELSE {req[r].tx},
         Applied(req[r], t)
  PROVE  /\ \A u \in Txs : rows[u] = NoRow \/ rows'[u].amount = rows[u].amount
         /\ rows'[t].amount = req[r].amount
<1>1. /\ t \in Txs /\ \A u \in Txs \ {t} : rows'[u] = rows[u]
  BY AppliedRow
<1>2. rows \in [Txs -> Row \cup {NoRow}]
  BY DEF LockInv, TypeOK
<1>3. CASE req[r].tx = "none"
  <2>1. rows'[t] = NewRow(req[r]) /\ rows[t] = NoRow
    BY <1>1, <1>2, <1>3 DEF Applied, Unused
  <2> QED BY <1>1, <2>1 DEF NewRow
<1>4. CASE req[r].tx # "none"
  <2>1. t = req[r].tx /\ rows[t].type = Type(req[r].op) /\ rows[t].amount = req[r].amount
    BY <1>4 DEF KindsFit, AmountsFit
  <2>2. rows[t] \in Row
    BY <1>1, <1>2, <2>1 DEF NoRow, Type
  <2>3. rows'[t] = [rows[t] EXCEPT !.status = Writes(req[r].op),
                       !.ref = IF req[r].ref = "none" THEN rows[t].ref ELSE req[r].ref]
    BY <1>1, <1>2, <1>4, <2>1 DEF Applied
  <2>4. rows'[t].amount = rows[t].amount
    BY <2>2, <2>3 DEF Row
  <2> QED BY <1>1, <2>1, <2>4
<1> QED BY <1>3, <1>4

\* The second write of a handler.
LEMMA WriteRowBooks ==
  ASSUME BookInv, NEW r \in Requests, WriteRow(r), IInv'
  PROVE  BookStep
<1> DEFINE h == req[r]
           g == req'[r]
           targets == IF h.tx = "none" THEN Unused ELSE {h.tx}
           done(t) == [h EXCEPT !.pc = "done", !.tx = t,
                        !.inserted = IF h.tx = "none" THEN @ + 1 ELSE @]
<1>1. /\ LockInv /\ KindsFit /\ AmountsFit /\ TypeOK /\ TypeOK' /\ h \in Handler /\ Shape(h)
      /\ h.pc = "row" /\ OthersStay(r) /\ UNCHANGED profile
  BY WriteRowStep DEF BookInv, IInv, LockInv, TypeOK, Shapes, WriteRow
<1>2. \/ \E t \in targets : Applied(h, t) /\ g = done(t)
      \/ UNCHANGED rows /\ WriteFails(r)
      \/ torn' /\ WriteFails(r) /\ \E t \in targets : Applied(h, t)
  BY <1>1 DEF WriteRow, TypeOK
<1>3. (torn => torn') /\ torn \in BOOLEAN
  BY <1>1 DEF WriteRow, TypeOK
<1>4. WriteFails(r) => \/ g = Idle /\ h.op \notin Moving
                       \/ g = [h EXCEPT !.pc = "rollback"] /\ h.op \in Moving
  BY <1>1 DEF WriteFails, Goto, Leave, TypeOK
<1>5. WriteFails(r) => \/ g.tx = "none"
                       \/ g.tx = h.tx /\ g.amount = h.amount
  BY <1>1, <1>4, IdleFits DEF Handler
<1>6. UNCHANGED rows \/ \E t \in targets : Applied(h, t)
  BY <1>2
<1>7. /\ \A u \in Txs : rows[u] = NoRow \/ rows'[u].amount = rows[u].amount
      /\ h.tx # "none" => rows'[h.tx].amount = h.amount
  <2>1. CASE UNCHANGED rows
    BY <1>1, <2>1 DEF AmountsFit
  <2>2. ASSUME NEW t \in targets, Applied(h, t)
        PROVE  /\ \A u \in Txs : rows[u] = NoRow \/ rows'[u].amount = rows[u].amount
               /\ h.tx # "none" => rows'[h.tx].amount = h.amount
    BY <1>1, <2>2, AppliedAmount
  <2> QED BY <1>6, <2>1, <2>2
<1>8. g.tx # "none" => g.amount = rows'[g.tx].amount
  <2>1. CASE WriteFails(r)
    BY <1>5, <1>7, <2>1
  <2>2. ASSUME NEW t \in targets, Applied(h, t), g = done(t)
        PROVE  g.amount = rows'[g.tx].amount
    <3>1. g.tx = t /\ g.amount = h.amount
      BY <1>1, <2>2 DEF Handler
    <3> QED BY <1>1, <2>2, <3>1, AppliedAmount
  <2> HIDE DEF g, h, targets, done
  <2> QED BY <1>2, <2>1, <2>2
<1>9. AmountsFit'
  BY <1>1, <1>7, <1>8, AmountsStep DEF BookInv
<1>10. Undone(h) <=> h.op \in Moving
  BY <1>1 DEF Undone
<1>11. ASSUME ~torn', WholeBooks, UNCHANGED rows, WriteFails(r)
       PROVE  WholeBooks'
  <2>1. CASE g = Idle /\ h.op \notin Moving
    <3>1. ReadFits(g) /\ \A ops : Under(g, ops) = Under(h, ops)
      BY <1>10, <2>1, IdleFits, UnderNone
    <3> QED BY <1>1, <1>11, <3>1, BooksStay
  <2>2. CASE g = [h EXCEPT !.pc = "rollback"] /\ h.op \in Moving
    <3>1. /\ g.pc = "rollback" /\ g.op = h.op /\ g.amount = h.amount /\ g.read = h.read
      BY <1>1, <2>2 DEF Handler
    <3>2. ReadFits(h)
      BY <1>11 DEF WholeBooks
    <3>3. ReadFits(g)
      BY <1>1, <2>2, <3>1, <3>2 DEF ReadFits
    <3>4. Undone(g)
      BY <2>2, <3>1 DEF Undone
    <3>5. \A ops : Under(g, ops) = Under(h, ops)
      BY <1>10, <2>2, <3>1, <3>4 DEF Under
    <3> QED BY <1>1, <1>11, <3>3, <3>5, BooksStay
  <2> QED BY <1>4, <1>11, <2>1, <2>2
<1>12. ASSUME ~torn', WholeBooks, NEW t \in targets, Applied(h, t), g = done(t)
       PROVE  WholeBooks'
  <2>1. g.pc = "done"
    BY <1>1, <1>12 DEF Handler
  <2>2. ~Undone(g) /\ ReadFits(g)
    BY <2>1 DEF Undone, ReadFits
  <2>3. CASE h.tx = "none"
    <3>1. h.op \in Creating
      BY <1>1, <2>3 DEF Shape, Deciding
    <3>2. rows' = [rows EXCEPT ![t] = NewRow(h)] /\ t \in Unused
      BY <1>12, <2>3 DEF Applied
    <3> QED BY <1>1, <1>10, <1>12, <2>2, <3>1, <3>2, NewBooks
  <2>4. CASE h.tx # "none"
    <3>1. t = h.tx
      BY <2>4
    <3> QED BY <1>1, <1>3, <1>12, <2>2, <2>4, <3>1, ReviewBooks
  <2> QED BY <2>3, <2>4
<1>13. ~torn' /\ WholeBooks => WholeBooks'
  <2> HIDE DEF g, h, targets, done
  <2> QED BY <1>2, <1>11, <1>12
<1> QED BY <1>9, <1>13 DEF BookStep

-----------------------------------------------------------------------------
\* A crash that cuts no pair of writes leaves nothing in flight.
LEMMA RestartBooks ==
  ASSUME BookInv, Restart, IInv'
  PROVE  BookStep
<1>1. /\ TypeOK /\ TypeOK' /\ UNCHANGED <<profile, rows>>
      /\ \A r \in Requests : req'[r] = Idle
  BY DEF Restart, BookInv, IInv, LockInv
<1>2. AmountsFit'
  BY <1>1, IdleFits DEF AmountsFit
<1>3. ASSUME ~torn', WholeBooks PROVE WholeBooks'
  <2>1. \A r \in Requests : ~Undone(req[r])
    BY <1>3 DEF Restart, MidWrite, At, Undone
  <2>2. \A r \in Requests : ~Undone(req'[r])
    BY <1>1, IdleFits
  <2>3. \A ops : InFlight(ops) = 0
    BY <1>1, <2>1, UnderNone, NothingInFlight
  <2>4. \A ops : InFlight(ops)' = 0
    <3> SUFFICES ASSUME NEW ops PROVE InFlight(ops)' = 0
      OBVIOUS
    <3> DEFINE f == [r \in Requests |-> Under(req'[r], ops)]
    <3>1. \A r \in Requests : Under(req'[r], ops) = 0
      BY <2>2, UnderNone
    <3>2. f \in [Requests -> Nat] /\ \A r \in Requests : f[r] = 0
      BY <3>1
    <3> HIDE DEF f
    <3>3. Total(f) = 0
      BY <3>2, TotalZero
    <3> QED BY <3>3 DEF InFlight, f
  <2>5. Credits' = Credits /\ Debits' = Debits /\ Pending' = Pending
    BY <1>1 DEF Credits, Debits, Pending, SumOf
  <2>6. /\ InFlight(Takes)' = InFlight(Takes) /\ InFlight(Gives)' = InFlight(Gives)
        /\ InFlight(Frees)' = InFlight(Frees) /\ InFlight(Holding)' = InFlight(Holding)
    BY <2>3, <2>4
  <2>7. BalanceFits' /\ ReserveFits'
    BY <1>1, <1>3, <2>5, <2>6 DEF WholeBooks, BalanceFits, ReserveFits
  <2>8. \A r \in Requests : ReadFits(req'[r])
    BY <1>1, IdleFits
  <2> QED BY <1>1, <1>3, <2>7, <2>8 DEF WholeBooks, Covered, ReadFits
<1> QED BY <1>2, <1>3 DEF BookStep

LEMMA NextBooks ==
  BookInv /\ [Next]_vars => BookInv'
<1> SUFFICES ASSUME BookInv, [Next]_vars PROVE BookInv'
  OBVIOUS
<1>1. IInv' /\ (torn => torn')
  <2>1. IInv'
    BY NextInv DEF BookInv
  <2>2. torn \in BOOLEAN
    BY DEF BookInv, IInv, LockInv, TypeOK
  <2>3. CASE UNCHANGED vars
    BY <2>1, <2>3 DEF vars
  <2>4. ASSUME Restart PROVE torn => torn'
    BY <2>2, <2>4 DEF Restart
  <2>5. ASSUME NEW r \in Requests, Ask(r) PROVE torn => torn'
    BY <2>5 DEF Ask, Create, Review, Checkout
  <2>6. ASSUME NEW r \in Requests, Handle(r) PROVE torn => torn'
    <3>1. CASE Enter(r)
      BY <3>1, EnterChoice DEF BookInv, IInv
    <3>2. CASE Join(r) \/ RequestByRpc(r) \/ Done(r)
      BY <3>2 DEF Join, RequestByRpc, Done
    <3>3. CASE WriteProfile(r) \/ WriteRow(r)
      BY <2>2, <3>3 DEF WriteProfile, WriteRow
    <3>4. CASE Rollback(r) \/ Debit(r) \/ Record(r)
      BY <2>2, <3>4 DEF Rollback, Debit, Record
    <3> QED BY <2>6, <3>1, <3>2, <3>3, <3>4 DEF Handle
  <2>7. ASSUME Next PROVE torn => torn'
    BY <2>4, <2>5, <2>6, <2>7 DEF Next
  <2> QED BY <2>1, <2>3, <2>7
<1>2. CASE UNCHANGED vars
  BY <1>2, <1>1 DEF vars, BookInv, AmountsFit, WholeBooks, Covered, BalanceFits, ReserveFits,
                    ReadFits, Credits, Debits, Pending, SumOf, InFlight, Under, Undone
<1>3. CASE Next
  <2>1. BookStep
    <3>1. ASSUME NEW r \in Requests, Handle(r) PROVE BookStep
      BY <1>1, <3>1, JoinBooks, EnterBooks, RpcBooks, WriteProfileBooks, WriteRowBooks,
         RollbackBooks, DoneBooks, DebitBooks, RecordBooks DEF Handle
    <3> QED BY <1>1, <1>3, <3>1, AskBooks, RestartBooks DEF Next
  <2>2. torn \in BOOLEAN /\ torn' \in BOOLEAN
    BY <1>1 DEF BookInv, IInv, LockInv, TypeOK
  <2> QED BY <1>1, <2>1, <2>2 DEF BookInv, BookStep
<1> QED BY <1>2, <1>3

LEMMA InitBooks == Init => BookInv
<1> SUFFICES ASSUME Init PROVE BookInv
  OBVIOUS
<1>1. IInv /\ TypeOK /\ \A r \in Requests : req[r] = Idle
  BY InitInv DEF Init, IInv, LockInv
<1>2. AmountsFit /\ \A r \in Requests : ReadFits(req[r]) /\ ~Undone(req[r])
  BY <1>1, IdleFits DEF AmountsFit
<1>3. \A ops : InFlight(ops) = 0
  BY <1>1, <1>2, UnderNone, NothingInFlight
<1>4. Credits = 0 /\ Debits = 0 /\ Pending = 0
  <2>1. ASSUME NEW type, NEW statuses PROVE SumOf(type, statuses) = 0
    <3> DEFINE f == [t \in Txs |-> Counted(rows[t], type, statuses)]
    <3>1. f \in [Txs -> Nat] /\ SumOf(type, statuses) = Total(f)
      BY <1>1, SumType
    <3>2. \A t \in Txs : f[t] = 0
      BY DEF Init, Counted, NoRow
    <3> HIDE DEF f
    <3> QED BY <3>1, <3>2, TotalZero
  <2> QED BY <2>1 DEF Credits, Debits, Pending
<1>5. Covered(profile) /\ BalanceFits /\ ReserveFits
  BY <1>3, <1>4 DEF Init, Covered, BalanceFits, ReserveFits
<1> QED BY <1>1, <1>2, <1>5 DEF BookInv, WholeBooks

-----------------------------------------------------------------------------
\* Between writes the balance is what the settled transactions give and the
\* reservation what the pending withdrawals hold, for any number of handlers,
\* transactions, amounts and faults, as long as no pair of writes was cut or
\* overwrote another change and nobody was misled.
THEOREM AlwaysBalanced == Spec => []Balanced
<1>1. BookInv => Balanced
  <2> SUFFICES ASSUME BookInv, Quiet, ~torn
               PROVE  profile.balance + Debits = Credits /\ profile.reserved = Pending
    BY DEF Balanced
  <2>1. TypeOK /\ WholeBooks
    BY DEF BookInv, IInv, LockInv
  <2>2. \A ops : InFlight(ops) = 0
    BY <2>1, UnderNone, NothingInFlight DEF Quiet, MidWrite, At, Undone
  <2>3. profile.balance \in Nat /\ profile.reserved \in Nat
    BY <2>1 DEF TypeOK, Profile
  <2>4. Credits \in Nat /\ Debits \in Nat /\ Pending \in Nat
    BY <2>1, SumType DEF Credits, Debits, Pending
  <2> QED BY <2>1, <2>2, <2>3, <2>4 DEF WholeBooks, BalanceFits, ReserveFits
<1> QED BY <1>1, InitBooks, NextBooks, PTL DEF Spec

\* Money that is reserved for withdrawals is never spent, however a checkout races
\* the holder of the lock.  The table has a constraint for it; only the debit of a
\* checkout can meet it, and the other writes never would.
THEOREM ReservationCovered == Spec => [](~torn => profile.reserved <= profile.balance)
<1>1. BookInv => (~torn => profile.reserved <= profile.balance)
  BY DEF BookInv, WholeBooks, Covered
<1> QED BY <1>1, InitBooks, NextBooks, PTL DEF Spec
=============================================================================
