------------------------------ MODULE VaultLedger ------------------------------
(***************************************************************************)
(* A user's money (Backend/src/services/vaultTransactionService.js): the   *)
(* balance and the reservation in the row of the table profiles, and the   *)
(* rows of vault_transactions that are to account for them.                *)
(*                                                                         *)
(* A handler changes the profile and a transaction in two writes, under a  *)
(* lock of the user that lives in the process: `queue' is its chain of     *)
(* promises.  The vault rail of the checkout (paymentController.js) writes *)
(* both as well, without the lock.  The lock is per user and no handler    *)
(* touches two users, so there is one user here.                           *)
(***************************************************************************)
EXTENDS Naturals, Sequences, FiniteSets, FiniteSetsExt, Totals

CONSTANTS
  Txs,          \* identifiers of transactions
  Requests,     \* slots for handlers in flight
  Deposits,     \* amounts of deposits
  Withdrawals,  \* amounts of withdrawals and purchases
  Keys,         \* idempotency keys a client may send
  Refs,         \* settlement references of banks and payment providers
  Requested,    \* operations the requests ask for
  RpcDeployed,  \* whether the SQL functions of the migration are installed
  MaxFaults     \* bound on crashes, database failures and lost answers

Creating == {"credit", "payout", "request", "withdraw"}
Reviewing == {"confirm", "reject", "process", "settle", "cancel", "return"}
Operation == Creating \cup Reviewing \cup {"checkout"}

ASSUME VaultAssumption ==
  /\ IsFiniteSet(Txs) /\ IsFiniteSet(Requests)
  /\ Deposits \cup Withdrawals \subseteq Nat \ {0}
  /\ "none" \notin Txs \cup Keys \cup Refs
  /\ Requested \subseteq Operation
  /\ RpcDeployed \in BOOLEAN
  /\ MaxFaults \in Nat

Amounts == Deposits \cup Withdrawals

VARIABLES
  profile,  \* the user's balance and what is reserved of it
  rows,     \* vault_transactions
  cache,    \* transactionsMap: the status it holds for a transaction
  queue,    \* the handlers that hold (the first) and await the lock
  req,      \* the handlers in flight
  faults,   \* crashes, failures and lost answers so far
  torn      \* history: a pair of writes was cut or overwrote another change, or a
            \* handler went by a status the row no longer has

vars == <<profile, rows, cache, queue, req, faults, torn>>

Final == {"completed", "rejected", "cancelled"}
Status == {"pending_review", "settlement_processing"} \cup Final

(***************************************************************************)
(* The tables of the handlers.  credit and payout are the depositFunds of  *)
(* a verified settlement and of an internal payout, request that of a      *)
(* manual bank transfer; return is cancelOrRejectWithdrawal by an          *)
(* administrator, cancel by the owner.                                     *)
(***************************************************************************)
Type(op) == IF op \in {"credit", "payout", "request", "confirm", "reject"}
            THEN "deposit" ELSE "withdraw"

ReadInLoose(op) ==
  CASE op \in {"confirm", "process"} -> {"pending_review"}
    [] op = "reject" -> Status \ {"completed", "rejected"}
    [] op = "settle" -> {"pending_review", "settlement_processing"}
    [] op = "cancel" -> Status \ {"completed", "settlement_processing"}
    [] op = "return" -> Status \ {"completed"}

\* The statuses from which a handler goes on: it answers idempotently, or
\* refuses, in the others.
ReadIn(op) ==
  CASE op \in {"confirm", "process"} -> {"pending_review"}
    [] op = "reject" -> Status \ {"completed", "rejected"}
    [] op = "settle" -> {"pending_review", "settlement_processing"}
    [] op = "cancel" -> Status \ (Final \cup {"settlement_processing"})
    [] op = "return" -> Status \ Final

Writes(op) ==
  CASE op \in {"request", "withdraw"} -> "pending_review"
    [] op = "process" -> "settlement_processing"
    [] op \in {"credit", "payout", "confirm", "settle", "checkout"} -> "completed"
    [] op \in {"reject", "return"} -> "rejected"
    [] op = "cancel" -> "cancelled"

Referred == {"credit", "payout", "confirm", "settle"}    \* need a reference
Moving == Operation \ {"request", "reject", "process"}   \* change the profile

Monus(a, b) == IF a > b THEN a - b ELSE 0

Moved(op, n, p) ==
  CASE op \in {"credit", "payout", "confirm"} -> [p EXCEPT !.balance = @ + n]
    [] op = "withdraw" -> [p EXCEPT !.reserved = @ + n]
    [] op = "settle" -> [balance |-> Monus(p.balance, n), reserved |-> Monus(p.reserved, n)]
    [] op \in {"cancel", "return"} -> [p EXCEPT !.reserved = Monus(@, n)]
    [] op = "checkout" -> [p EXCEPT !.balance = Monus(@, n)]

Spendable(p) == Monus(p.balance, p.reserved)
-----------------------------------------------------------------------------
NoRow == [type |-> "none", amount |-> 0, status |-> "none", key |-> "none", ref |-> "none"]

Row == [type: {"deposit", "withdraw"}, amount: Nat, status: Status,
        key: Keys \cup {"none"}, ref: Refs \cup {"none"}]

Profile == [balance: Nat, reserved: Nat]

Unread == [balance |-> 0, reserved |-> 0]

Idle == [pc |-> "idle", op |-> "none", tx |-> "none", amount |-> 0, key |-> "none",
         ref |-> "none", saw |-> "none", read |-> Unread, inserted |-> 0]

\* `tx' is the transaction under review, "none" while it is to be created; `saw' is
\* the status a read on its way back will put in the map, `read' the profile the
\* handler read, and `inserted' the rows it has inserted.
Handler ==
  [pc: {"idle", "look", "queued", "rpc", "profile", "row", "rollback", "done", "debit", "record"},
   op: Operation \cup {"none"}, tx: Txs \cup {"none"}, amount: Nat, key: Keys \cup {"none"},
   ref: Refs \cup {"none"}, saw: Status \cup {"none"}, read: Profile, inserted: 0..2]

TypeOK ==
  /\ profile \in Profile
  /\ rows \in [Txs -> Row \cup {NoRow}]
  /\ cache \in [Txs -> Status \cup {"none"}]
  /\ queue \in Seq(Requests)
  /\ req \in [Requests -> Handler]
  /\ faults \in 0..MaxFaults
  /\ torn \in BOOLEAN

Init ==
  /\ profile = [balance |-> 0, reserved |-> 0]
  /\ rows = [t \in Txs |-> NoRow]
  /\ cache = [t \in Txs |-> "none"]
  /\ queue = <<>>
  /\ req = [r \in Requests |-> Idle]
  /\ faults = 0
  /\ torn = FALSE

-----------------------------------------------------------------------------
At(r, pc) == req[r].pc = pc
Goto(r, pc) == req' = [req EXCEPT ![r].pc = pc]
Fault == faults < MaxFaults /\ faults' = faults + 1

LeaveForgetful(r) == req' = [req EXCEPT ![r] = Idle] /\ UNCHANGED queue

\* The finally of withUserVaultLock.
Leave(r) == req' = [req EXCEPT ![r] = Idle] /\ queue' = Tail(queue)

Unused == {t \in Txs : rows[t] = NoRow}

\* Bound: a handler starts only if the rows that it and the others in flight may
\* insert are available.
Inserts(op) ==
  CASE op \in Reviewing \cup {"none"} -> 0
    [] op = "request" /\ RpcDeployed -> 2
    [] OTHER -> 1

Room(op) ==
  LET Claims(r) == Inserts(req[r].op)
  IN Cardinality(Unused) >= Inserts(op) + MapThenSumSet(Claims, Requests)

\* Unique indexes of vault_transactions: another row has the key or reference.
Holds(h, t) ==
  /\ t # h.tx /\ rows[t] # NoRow
  /\ \/ h.key # "none" /\ rows[t].key = h.key
     \/ h.ref # "none" /\ rows[t].ref = h.ref
Duplicate(h) == \E t \in Txs : Holds(h, t)

NewRow(h) ==
  [type |-> Type(h.op), amount |-> h.amount, status |-> Writes(h.op), key |-> h.key,
   ref |-> h.ref]

-----------------------------------------------------------------------------
(***************************************************************************)
(* A handler starts, and joins the chain of promises.  What it looks up    *)
(* before that it looks up again when it holds the lock, except for the    *)
(* type and the amount of the transaction, which never change; but the     *)
(* answer of that first look, when it comes, goes into transactionsMap.    *)
(***************************************************************************)
Begin(r, h) ==
  /\ req[r] = Idle
  /\ Room(h.op)
  /\ req' = [req EXCEPT ![r] = h]

\* depositFunds and withdrawFunds.
Create(r, op, n, key, ref) ==
  /\ op \in Creating
  /\ n \in IF Type(op) = "deposit" THEN Deposits ELSE Withdrawals
  /\ (ref # "none") = (op \in Referred)
  /\ Begin(r, [Idle EXCEPT !.pc = "queued", !.op = op, !.amount = n, !.key = key, !.ref = ref])
  /\ queue' = Append(queue, r)
  /\ UNCHANGED <<profile, rows, cache, faults, torn>>

\* confirmDeposit, rejectDeposit, markWithdrawalProcessing, settleWithdrawal and
\* cancelOrRejectWithdrawal.
Review(r, op, t, ref) ==
  /\ op \in Reviewing
  /\ rows[t].type = Type(op)
  /\ (ref # "none") = (op \in Referred)
  /\ Begin(r, [Idle EXCEPT !.pc = "look", !.op = op, !.tx = t, !.amount = rows[t].amount,
                           !.ref = ref, !.saw = rows[t].status])
  /\ UNCHANGED <<profile, rows, cache, queue, faults, torn>>

\* The answer is there, or the read failed and the map knows the transaction.
Join(r) ==
  /\ At(r, "look")
  /\ \/ /\ cache' = [cache EXCEPT ![req[r].tx] = req[r].saw]
        /\ UNCHANGED faults
     \/ cache[req[r].tx] # "none" /\ Fault /\ UNCHANGED cache
  /\ req' = [req EXCEPT ![r].pc = "queued", ![r].saw = "none"]
  /\ queue' = Append(queue, r)
  /\ UNCHANGED <<profile, rows, torn>>

-----------------------------------------------------------------------------
(***************************************************************************)
(* The checks under the lock, on what they find: the status of the         *)
(* transaction, the profile, and whether the key or the reference is taken *)
(* (an internal payout does not ask for its reference).                    *)
(***************************************************************************)
Admits(h, status, taken) ==
  /\ h.tx # "none" => status \in ReadIn(h.op)
  /\ ~taken
  /\ h.op = "withdraw" => h.amount <= Spendable(profile)

Taken(h) == Duplicate([h EXCEPT !.ref = IF h.op = "payout" THEN "none" ELSE @])

FirstWrite(op) ==
  CASE op \in Moving -> "profile"
    [] op = "request" /\ RpcDeployed -> "rpc"
    [] OTHER -> "row"

Proceed(r) ==
  /\ LET op == req[r].op
     IN req' = [req EXCEPT ![r].pc = FirstWrite(op),
                           ![r].read = IF op \in Moving THEN profile ELSE Unread]
  /\ UNCHANGED queue

StatusOf(t, from) == IF t = "none" THEN "none" ELSE from[t]
Stored == [t \in Txs |-> rows[t].status]

\* A read that fails is an error (the balance), or falls back to transactionsMap
\* (the transaction), or finds nothing (the key and the references).
EnterUnlocked(r) ==
  /\ At(r, "queued")
  /\ LET h == req[r]
         seen == IF h.tx = "none" THEN cache ELSE [cache EXCEPT ![h.tx] = rows[h.tx].status]
     IN \/ /\ IF Admits(h, StatusOf(h.tx, seen), Taken(h)) THEN Proceed(r) ELSE Leave(r)
           /\ cache' = seen
           /\ UNCHANGED <<faults, torn>>
        \/ /\ Admits(h, StatusOf(h.tx, seen), FALSE) /\ Proceed(r)
           /\ cache' = seen
           /\ Fault
           /\ UNCHANGED torn
        \/ /\ \/ Leave(r) /\ UNCHANGED torn
              \/ /\ Admits(h, StatusOf(h.tx, cache), Taken(h)) /\ Proceed(r)
                 /\ torn' = (torn \/ StatusOf(h.tx, cache) # StatusOf(h.tx, Stored))
           /\ UNCHANGED cache
           /\ Fault
  /\ UNCHANGED <<profile, rows>>

Enter(r) == queue # <<>> /\ Head(queue) = r /\ EnterUnlocked(r)

-----------------------------------------------------------------------------
\* request_vault_deposit_atomic inserts a pending row, and its answer names the
\* transaction transactionId.  depositFunds looks for tx_id, finds nothing, and
\* goes on as if the function were missing, which it also does when it fails.
RequestByRpc(r) ==
  /\ At(r, "rpc")
  /\ LET h == req[r]
     IN \/ /\ ~Duplicate(h)
           /\ \E t \in Unused : rows' = [rows EXCEPT ![t] = NewRow(h)]
           /\ req' = [req EXCEPT ![r].pc = "row", ![r].inserted = 1]
           /\ UNCHANGED faults
        \/ /\ Goto(r, "row")
           /\ UNCHANGED rows
           /\ IF Duplicate(h) THEN UNCHANGED faults ELSE Fault
  /\ UNCHANGED <<profile, cache, queue, torn>>

(***************************************************************************)
(* persistUserBalancesToDb: both columns, computed from what was read.     *)
(***************************************************************************)
WriteProfile(r) ==
  /\ At(r, "profile")
  /\ LET h == req[r]
     IN \/ /\ profile' = Moved(h.op, h.amount, h.read)
           /\ torn' = (torn \/ profile # h.read)
           /\ Goto(r, "row")
           /\ UNCHANGED <<queue, faults>>
        \/ Leave(r) /\ Fault /\ UNCHANGED <<profile, torn>>
        \/ /\ profile' = Moved(h.op, h.amount, h.read)     \* the answer is lost
           /\ torn' = TRUE
           /\ Leave(r)
           /\ Fault
  /\ UNCHANGED <<rows, cache>>

\* persistVaultTransactionInsert, or persistVaultTransactionUpdate, which selects
\* the row by its id alone.
Applied(h, t) ==
  rows' = [rows EXCEPT ![t] =
    IF h.tx = "none" THEN NewRow(h)
    ELSE [rows[t] EXCEPT !.status = Writes(h.op),
                         !.ref = IF h.ref = "none" THEN rows[t].ref ELSE h.ref]]

WriteFails(r) ==
  IF req[r].op \in Moving THEN Goto(r, "rollback") /\ UNCHANGED queue ELSE Leave(r)

WriteRow(r) ==
  /\ At(r, "row")
  /\ LET h == req[r]
         targets == IF h.tx = "none" THEN Unused ELSE {h.tx}
     IN \/ /\ ~Duplicate(h)
           /\ \E t \in targets :
                /\ Applied(h, t)
                /\ req' = [req EXCEPT ![r].pc = "done", ![r].tx = t,
                             ![r].inserted = IF h.tx = "none" THEN @ + 1 ELSE @]
           /\ UNCHANGED <<queue, faults, torn>>
        \/ /\ WriteFails(r)
           /\ UNCHANGED <<rows, torn>>
           /\ IF Duplicate(h) THEN UNCHANGED faults ELSE Fault
        \/ /\ ~Duplicate(h)                                 \* the answer is lost
           /\ \E t \in targets : Applied(h, t)
           /\ torn' = TRUE
           /\ WriteFails(r)
           /\ Fault
  /\ UNCHANGED <<profile, cache>>

RollbackForgotten(r) ==
  /\ At(r, "rollback")
  /\ Leave(r)
  /\ UNCHANGED <<profile, rows, cache, faults, torn>>

\* The profile as it was read; whether that succeeds nobody asks.
Rollback(r) ==
  /\ At(r, "rollback")
  /\ LET h == req[r]
     IN \/ /\ profile' = h.read
           /\ torn' = (torn \/ profile # Moved(h.op, h.amount, h.read))
           /\ UNCHANGED faults
        \/ torn' = TRUE /\ Fault /\ UNCHANGED profile
  /\ Leave(r)
  /\ UNCHANGED <<rows, cache>>

\* rejectDeposit by its SQL function reads the row again for transactionsMap.
Done(r) ==
  /\ At(r, "done")
  /\ \/ /\ cache' = [cache EXCEPT ![req[r].tx] = Writes(req[r].op)]
        /\ UNCHANGED faults
     \/ req[r].op = "reject" /\ RpcDeployed /\ Fault /\ UNCHANGED cache
  /\ Leave(r)
  /\ UNCHANGED <<profile, rows, torn>>

-----------------------------------------------------------------------------
(***************************************************************************)
(* The vault rail of processPayment: no lock, the column balance alone,    *)
(* and failures of either write are logged and forgotten.                  *)
(***************************************************************************)
Checkout(r, n) ==
  /\ n <= Spendable(profile)
  /\ Begin(r, [Idle EXCEPT !.pc = "debit", !.op = "checkout", !.amount = n, !.read = profile])
  /\ UNCHANGED <<profile, rows, cache, queue, faults, torn>>

\* The constraint balance >= reserved_balance refuses the debit of money that
\* was reserved meanwhile.
Debit(r) ==
  /\ At(r, "debit")
  /\ LET h == req[r]
         balance == Moved("checkout", h.amount, h.read).balance
     IN \/ /\ balance >= profile.reserved
           /\ profile' = [profile EXCEPT !.balance = balance]
           /\ torn' = (torn \/ profile.balance # h.read.balance)
           /\ UNCHANGED faults
        \/ /\ torn' = TRUE
           /\ UNCHANGED profile
           /\ IF balance >= profile.reserved THEN Fault ELSE UNCHANGED faults
  /\ Goto(r, "record")
  /\ UNCHANGED <<rows, cache, queue>>

Record(r) ==
  /\ At(r, "record")
  /\ \/ /\ \E t \in Unused : rows' = [rows EXCEPT ![t] = NewRow(req[r])]
        /\ UNCHANGED <<faults, torn>>
     \/ torn' = TRUE /\ Fault /\ UNCHANGED rows
  /\ req' = [req EXCEPT ![r] = Idle]
  /\ UNCHANGED <<profile, cache, queue>>

-----------------------------------------------------------------------------
\* Between the two writes of a handler.
MidWrite(r) ==
  \/ req[r].pc \in {"row", "rollback"} /\ req[r].op \in Moving
  \/ At(r, "record")

\* The process stops and starts again; transactionsMap is filled from the table
\* unless that read fails.
Restart ==
  /\ Fault
  /\ req' = [r \in Requests |-> Idle]
  /\ queue' = <<>>
  /\ torn' = (torn \/ \E r \in Requests : MidWrite(r))
  /\ cache' \in {Stored, [t \in Txs |-> "none"]}
  /\ UNCHANGED <<profile, rows>>

Handle(r) ==
  \/ Join(r) \/ Enter(r) \/ RequestByRpc(r) \/ WriteProfile(r) \/ WriteRow(r)
  \/ Rollback(r) \/ Done(r) \/ Debit(r) \/ Record(r)

Ask(r) ==
  \/ \E op \in Requested, n \in Amounts, key \in Keys \cup {"none"}, ref \in Refs \cup {"none"} :
       Create(r, op, n, key, ref)
  \/ \E op \in Requested, t \in Txs, ref \in Refs \cup {"none"} : Review(r, op, t, ref)
  \/ "checkout" \in Requested /\ \E n \in Withdrawals : Checkout(r, n)

Next ==
  \/ \E r \in Requests : Ask(r) \/ Handle(r)
  \/ Restart

Spec == Init /\ [][Next]_vars
-----------------------------------------------------------------------------
(***************************************************************************)
(* Properties                                                              *)
(***************************************************************************)
SumOf(type, statuses) ==
  LET Counted(row) == row.type = type /\ row.status \in statuses
  IN Total([t \in Txs |-> IF Counted(rows[t]) THEN rows[t].amount ELSE 0])

Credits == SumOf("deposit", {"completed"})
Debits == SumOf("withdraw", {"completed"})
Pending == SumOf("withdraw", {"pending_review", "settlement_processing"})

Quiet == \A r \in Requests : ~MidWrite(r)

\* Between writes the balance is what the settled transactions give and the
\* reservation what the pending withdrawals hold, whatever handlers, retries,
\* duplicate keys and references and failing writes there were -- unless a pair
\* of writes was cut or overwrote another change, or a handler was misled.
Balanced ==
  Quiet /\ ~torn => /\ profile.balance + Debits = Credits
                    /\ profile.reserved = Pending

\* A transaction that was settled, rejected or cancelled stays so.  The update
\* of the row does not check it; the lock and the second look do.
RowsFinal ==
  [][~torn' => \A t \in Txs : rows[t].status \in Final => rows'[t] = rows[t]]_vars

\* No handler moves money for, or is about to write, a transaction that another
\* has settled, rejected or cancelled, however many race for it: it is credited,
\* paid out or given back once.
HandledOnce ==
  ~torn => \A r \in Requests :
             req[r].pc \in {"profile", "row"} /\ req[r].tx # "none" =>
               rows[req[r].tx].status \notin Final

\* The chain of promises passes the lock on, whatever fails or is restarted: the
\* queue is those who hold the lock or wait for it, each once, and whoever is past
\* his wait is its head.  So nobody waits behind a handler that is gone.
Working == {"rpc", "profile", "row", "rollback", "done"}
LockServed ==
  /\ \A r \in Requests :
       req[r].pc \in Working \cup {"queued"} <=> \E i \in 1..Len(queue) : queue[i] = r
  /\ \A i, j \in 1..Len(queue) : queue[i] = queue[j] => i = j
  /\ \A r \in Requests : req[r].pc \in Working => Head(queue) = r
=============================================================================
