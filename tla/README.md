# SmartAssets: TLA+ models of the money, the codes and the sessions

SmartAssets sells authenticated collectibles, whole or in shares.  The code has
three deployable parts: an Express backend over a Supabase database
(`Backend/`), two Solidity contracts (`Blockchain/contracts/`), and a React
Native application (`Public/App/`).  This directory models what moves money or
decides who may:

* the escrow of a whole-item sale, on-chain in `SmartAssetEscrow.sol` when the
  buyer pays from a wallet, off-chain when he pays by bank transfer;
* the vault, a balance and a reservation in the row of each user's profile;
* the shares of a fractional collectible, from the checkout to the buyout;
* the account: the e-mail code before every withdrawal, sign-out, password
  recovery, wallet sign-in, verification documents and the bank account;
* the session the mobile application keeps on the device;
* the slots that bound the generation of 3D models;
* the certificate of an asset: its token on the chain, its signature and
  revocation, and what the application shows of them.

The rest of the system is inventoried below and in `PROJECT.json`.

## Inventory

| part | state it keeps | operations | interacts with | what is hard | what makes it correct |
|---|---|---|---|---|---|
| `SmartAssetEscrow` contract | `orders`, `owner`, its balance | deposit, depositOnBehalf, recordShipment, confirmInspection, confirmDelivery, acceptAsset, openDispute, releaseToSeller, refundToBuyer | relayer and parties call it; it transfers ETH to the payee, who may run code | re-entrancy, failing transfers, one balance for all orders, three callers racing | each order is paid once and whole; deposits stay covered; no release after a dispute; terms never change |
| escrow service (`escrowService.js`) | table `escrow_orders`, cache `ordersMap`, owner columns of `assets` | createEscrowOrder, verifyEscrowPayment, progressEscrowStep, addSellerEscrowUpdate, disputeEscrow, releaseEscrow, refundEscrow, hydration | HTTP handlers of both parties and of administrators; relayer | several awaits between read and write, stale cache, crashes between claim, payment and final update, lost receipts | payout only after acceptance; rows agree with the chain; claims exclude each other and are resolved |
| relayer (`web3Service.js`) | none (the mempool) | lock, ship, inspect, deliver, accept, dispute, release, refund, verify a payment, mint | contracts | a transaction mined after its waiter gave up | an answer is believed only when it is the receipt's |
| checkout (`paymentController.js`) | `activeCheckoutLocks`, `assets.status`, `assets.shares_sold`, idempotency keys | processPayment | escrow service, vault, share ledger, Stripe | a lock given away by the request it turned away, payment before order, a snapshot written back | one buyer per item; no item off the market without an order |
| share ledger (`investmentPositionService.js`) | positions, redemption requests, both cached, per-asset locks | purchase, buyout, delisting, redemption, cancellation, settlement | vault, checkout, escrow release | database function and fallback, three writers of `shares_sold`, payouts one by one | cap and supply hold; shares are conserved; each holder is paid |
| vault ledger (`vaultTransactionService.js`) | `profiles.balance/reserved`, `vault_transactions`, per-user locks | deposit, confirm, reject, withdraw, process, settle, cancel | checkout, share ledger, challenges | balance and row are two writes | balance equals the settled rows, reservations the pending ones |
| withdrawal codes (`withdrawalVerificationService.js`) | challenge rows and cache, rate limits, per-user locks | request, cancel, verify and submit | vault, compliance, e-mail | state read before the lock, swallowed errors, replay, restarts | one code, one attempt, one withdrawal, to the account that was approved |
| compliance (`complianceService.js`) | documents, status, bank account, suspension, each in memory and (but the last) in a row | upload, review, dossier submission and review, bank submission and review, suspension | withdrawal codes, checkout | memory first and errors ignored, reviews by id of what changed meanwhile, a status set without a look at the documents | a review decides about what was looked at; between operations both copies say what the documents say, or pending after a submitted dossier |
| sessions (`authController`, `authMiddleware`, `tokenRevocationService`, `walletAuthService`) | revoked tokens, used recovery authorizations, nonces | sign-out, recovery, admission, wallet sign-in | all handlers | single-use checks that are not atomic, memory lost at a restart | a used or revoked credential stays so |
| session on the device (`AuthContext.js`, `api.js`) | user and token in memory, `SESSION` and `LAST_ACTIVE_AT` in storage, three clocks | start, sign-in, sign-out, timer, background and return, answers of the server | sessions | answers after the session they belong to, half-done sign-outs, a killed process | what was signed out never comes back; nobody is shown an account after five minutes of absence |
| 3D models (`modelProviderService`, `modelController`, `modelCatalogService`) | `listing_models`, poll promises, the tasks at the provider | generate, status, claim, release, catalog assignment | external generators | releases nobody waits for, polls of a job that goes on | tasks are bounded by the slots |
| certificates (`assetController`, `certificateService`, `SmartAssetCertificate.sol`, `certificateUtils`) | registration, token, signature, status and revocation in the row of `assets`; tokens on the chain | listing, retry of the mint, issue, revoke, dossier, screen | relayer | a mint that outlives its listing, retries that overlap, updates by id alone, one status derived three times | one token per asset; what is revoked or unverifiable is not shown as certified |
| editing of listings, presence, snapshots, AI services, notifications, Stripe, HTTP layer, screens of the application | see `PROJECT.json` | | | mostly single-row CRUD, I/O, formatting or cryptography | not modelled |

How they interact: handlers of the backend run on one event loop and interleave
at every `await`; they share rows of the database, maps in the memory of the
process (lost at a restart), and locks that are chains of promises in that
memory.  The application and the backend exchange requests whose answers may
come in any order; the backend and the chain, transactions that may be mined
after their sender gave up.

The hazards of each part, at the lines where they bite, are listed in
`PROJECT.json` with the properties that cover them; one has none (order numbers
are six random digits: how likely two collide is not a question for a small
instance).

## Modules

| module | what it is |
|---|---|
| `EscrowCustody` | abstract specification: who holds an order's money and what its parties agreed |
| `EscrowContract` | the contract, one action per external function; shown to implement `EscrowCustody` |
| `EscrowContractProofs` | its inductive invariant, its safety invariants, what a completed transaction keeps, and the refinement, checked by TLAPS |
| `Totals`, `TotalsProofs` | sums, and the lemmas about them that the proofs of the contract, the vault and the shares use |
| `EscrowService` | the handlers of `escrowService.js`, the relayer's transactions and the chain; instantiates `EscrowContract` |
| `EscrowServiceProofs` | its inductive invariant on top of the contract's, and three safety invariants, checked by TLAPS |
| `VaultLedger` | the handlers of `vaultTransactionService.js` for one user, and the vault rail of the checkout |
| `VaultLedgerProofs` | mutual exclusion, finality of its transactions and the balance of its books, checked by TLAPS |
| `ShareLedger` | positions and redemptions of one fractional asset, and the steps of `investmentPositionService.js` on them |
| `Checkout` | extends `ShareLedger` with `processPayment` and the asset row; the specification of the shares |
| `CheckoutProofs` | the inductive invariant of the checkout and the ledger, and the properties of the run `Shares`, checked by TLAPS |
| `OneTimeCode` | abstract specification: what a mailed code promises |
| `WithdrawalChallenge` | the codes of one user; shown to implement `OneTimeCode` |
| `Sessions`, `Compliance` | revocation, recovery and nonces; documents, status, bank account and suspension of one user |
| `Account` | composes `WithdrawalChallenge`, `Sessions` and `Compliance`: a withdrawal request passes all three |
| `AccountProofs` | first the inductive invariant of `WithdrawalChallenge`, its safety properties and the refinement; then those of the composition; checked by TLAPS |
| `ClientSession` | the session of the mobile application on one device |
| `ClientSessionProofs` | its inductive invariant and its two properties, checked by TLAPS |
| `ModelSlots` | generation of 3D models and its slots |
| `CertificateRegistry` | registration, certificate and what is shown of them, for one asset |
| `CertificateRegistryProofs` | its inductive invariant and its safety invariants, checked by TLAPS |
| `MC...` | the instances TLC checks: `MCEscrowContract`, `MCEscrowService`, `MCVaultLedger`, `MCShares`, `MCAccount`, `MCClientSession`, `MCModelSlots`, `MCCertificateRegistry` |

### EscrowContract

The variables are the contract's storage (`orders`, `owner`), its balance
(`held`), a history of the transfers it made (`paid`), the re-entrancy guard and
`committed`, the storage after the last completed transaction.  Every external
function is an action with its `require`s as guards and `sender` for
`msg.sender`.  Timestamps are abstracted to the set of those that are set
(`stamps`); hashes, the token id and block time are left out.

`releaseToSeller` and `refundToBuyer` are two steps each, because the EVM hands
control to the payee between the status change and the end of the function.
Between the steps only contracts may call (`Callers`), and only if the payee is
one; calls of `nonReentrant` functions are refused.  `PayeeRejects` restores
`committed`: `require(success)` reverts the nested calls too.  A simplification:
during the transfer any contract of the model may call, not only the payee, as
the payee can call through others.

### EscrowService

A row of `escrow_orders` is `rows[o]`: its status, the payment method, whether
the buyer accepted and whether funding was verified (two history fields that no
guard reads), and the owner the table `assets` gives the item.  `cache` is
`ordersMap`.  A slot of `req` is one handler in flight; its `pc` names the await
at which it is suspended:

    Start (database read answered) -> Load (checks) -> [Broadcast -> Mine] -> Write -> Done   custody steps
    Start -> Load -> Write -> Done                                            verify, note, dispatch, dispute
    Start -> Load -> Write (claim) -> [Broadcast -> Mine] -> Transfer -> Settle -> Done       release, refund
                                              \-> Restore (chain call failed)

The tables `MayRequest`, `ReadIn`, `Writes`, `Matches` and `Methods` hold, per
operation, the role check, the statuses the handler accepts, what it writes, the
condition of its UPDATE and the payment methods.  `Matches` is where the
handlers differ most: claims are compare-and-set, seller updates select three
statuses, and the update of `progressEscrowStep` selects by `order_id` alone.

Faults, at most `MaxFaults`: a database read that fails (the handler falls back
to the cache), an update that is lost or whose answer is lost, a `tx.wait` that
throws while the transaction stays in the mempool (`Abandon`, later
`MineOrphan`), an ownership transfer that fails, and a restart of the process.

Abstractions: the relayer's calls for delivery, acceptance and disputes always
revert (the contract reserves them to the parties) and the handlers ignore it,
so they are left out; an administrator's payout reference is taken as given;
order numbers are fresh and map one-to-one to contract numbers; timelines,
notifications and audit rows are left out; a settlement's asset transfer is the
whole-item branch, one write of `item`; `lockEscrowDeposit` is not called by any
route that is enabled.  That the row, the deposit and the on-chain order are
unrelated at creation is deliberate: `processPayment` verifies the deposit
before it draws the order number.

### VaultLedger

`profile` is the user's row of `profiles` (`balance`, `reserved`), `rows` the
table `vault_transactions`, `cache` the statuses in `transactionsMap`, and
`queue` the chain of promises of `withUserVaultLock`.  Handlers of different
users share nothing but the unique references, so there is one user; the tables
`ReadIn`, `Writes` and `Moved` hold what each operation accepts, writes and does
to the profile.  A handler's `pc`:

    look (the row was read, the answer is on its way) -> queued      reviews
    queued (waits for the lock) -> profile -> row -> done            operations that move money
                                              \-> rollback (the row could not be written)
    queued -> row -> done                                            reject, process
    queued -> [rpc] -> row -> done                                   manual deposit request
    debit -> record                                                  the checkout, without the lock

`Enter` is everything a handler does between getting the lock and its first
write: the second look at the transaction, the profile, the key and the
reference.  It is one step because what it reads is written under the lock only,
the profile excepted, which it reads last.  `WriteProfile` and `WriteRow` are
the two writes; each may fail, or be done with its answer lost, and both look
the same to the handler.

`torn` is a history variable.  It becomes true when a pair of writes is cut (a
crash, a lost answer, a rollback that fails), when a write of the profile
overwrites a change made since it was read (the checkout), and when a handler
goes on with a status from the map that the row no longer has.  The invariants
that the code can only keep without such an event are stated under `~torn`; what
happens with one is shown by the runs that are violated.

Abstractions.  `failed` is not told from `rejected`.  The lookup of the
idempotency key before the lock is repeated under it and left out, and so are
the memories of used keys and references, which could only refuse more.  The
listings write to the map as `look` does and are left out.  The SQL functions
for confirmation, settlement, withdrawal and cancellation are called with
parameter names they do not have (`p_audit_reason` for `p_reason`, `p_is_admin`)
or not called, so the database does not find them and the service does the work;
`request_vault_deposit_atomic` is found, and `reject_vault_deposit_atomic` makes
the same single write as its fallback.  The constraint `balance >=
reserved_balance` is checked where it can refuse, in the checkout.  Fallbacks
for a schema without the migration, and `recordTransaction`, which moves no
balance, are not modelled.  `Room` bounds the rows: a handler starts only if
there are unused identifiers for what it and the others may insert.

### ShareLedger and Checkout

One asset.  `asset` is its row (status, whether it takes investors,
`shares_sold`); `position` the rows of `investor_positions`, each with `copy`,
what `cachedPositions` says of it; `request` the redemption requests with the
status in the row and in the cache; `queue` the chain of promises of
`withAssetLock`; `checkout` whether `activeCheckoutLocks` holds the asset.  A
handler's `pc` names the await it is suspended at:

    new -> read -> [claim] -> pay -> order -> end                                    a whole-item purchase
    new -> read -> pay -> order -> allocate -> purchase -> holding -> leave -> end   an investment
                                                   \-> fallback -> allot -^
    new -> reserve | cancel | settle -> end                                          redemptions
    new -> delist -> end                                                             delisting
    new -> transfer -> distribute -> paying -> end                                   release of an order

The atomic functions of the database (`Purchase`, `Reserve`, `Delist`) are
one step, as the database runs them; the services' own fallbacks, which run when
the function answers with any error, are separate steps that use what was read
earlier (`Fallback`, `Allot`, `ReserveAnyway`, `AbandonBuyout` and the like).
The allocation's fallback ignores the errors of its own two writes: `shares_sold`
may stay behind (`unmarked`), and the position may be in memory only
(`AllotUnwritten`, `unwritten`), where `getPositionsForAsset` does not look while the
table has a position of the asset.  Left out: such a failure while the table has
none, redeeming a position that is in memory only, and an insert whose answer is
lost (the row exists, and the copy has another id).  `slips` is a history of the unusual things that have happened (a lost
answer, an exception, a restart, a request turned away by the checkout lock that
then released it, a purchase merged into an existing row, a request settled
after something else had ended it, a reservation computed from a copy that did not
know all that the row had reserved, a write of the fallback that failed).  A property that needs such a thing not to
have happened names it, so that each exception is explicit and as narrow as the
code allows: TLC finds a counterexample for each name that is left out.

What the code does and the model shows: a request that meets the checkout lock
answers 409 inside the `try` block, and the `finally` block deletes the lock of
the other request (`paymentController.js:140`); an allocation that fails after
the payment is swallowed and the investor told that shares were added (709-711);
a fractional order paid by bank never gets its shares; a settlement that finds
no cached position after a restart overwrites the held shares with zero; a
delisting whose function was rejected runs its fallback all the same; the
cached copy of a position does not learn of a reservation the database's function
made (`investmentPositionService.js:1400-1436`), so that a cancellation writes back
a reservation without it and later requests and settlements can take more shares
than are held; the proceeds of a redemption stay `pending_review` although the notification says
credited.  `createEscrowOrder` refuses settled orders that are not from a wallet
outside tests (`escrowService.js:163-165`), and money the vault rail has taken by
then is not returned (`paymentController.js:460`).

Abstractions: prices are left out (a payout is the number of shares it pays
for); the card rail, which confirms a payment before the order as the wallet
rail does, is not told from it; keys of one user do not meet another's.  What
requests a behaviour serves is an element of `Scripts`, so that TLC spends its
states on the interleavings of requests that can disturb one another.

### WithdrawalChallenge, Sessions, Compliance and Account

One user.  In `WithdrawalChallenge`, `row` and `copy` are
`withdrawal_verification_challenges` and `challengesCache`, `rate` the counters
(memory and row), `queue` the user's lock, `job` the requests:

    new -> wait -> limit -> supersede -> insert -> deliver -> done       request
    new -> wait -> check -> done                                         cancel
    new -> wait -> limit -> check -> withdraw -> record | undo -> done   verify and submit

Each call of the database succeeds, fails, or succeeds with its answer lost
(`Outcome`); a read that fails falls back to the copy.  `Lapse` is the passing of
the code's 120 seconds, `NewWindow` of the limit's window.  Left out: `attempt_count` (1
exactly in rows a verification has closed), the limits by IP address, the wording
of e-mails, and the SQL functions for withdrawals, which nothing calls.

`Sessions` has `revoked` (`localCache` and `revoked_tokens`; the row is written by
an upsert nobody waits for, `writes`), `usedJtis`, and `nonce` with its two
copies.  Sign-out and the timeout do not wait for the revocation; a password
reset revokes the recovery authorization only, not the user's other sessions.
`Compliance` has documents, status, bank account (each `mem` and `db`) and the
suspension, which is in memory only.  `approveKyc` sets the status without
looking at the documents that are missing; reviews of a bank account name it by
id, whatever it holds by then.  `submitKyc` (`SubmitDossier` to `DossierSubmitted`)
uploads the documents that came with it in parallel, leaves out those that fail
or are no `data:` URLs, submits the bank account, and then sets both copies of
the status to `pending` whatever the documents say (735-752): a verified user
who submits a dossier without uploads is pending, with every document approved,
until the next operation that looks at the documents.  `declared` remembers
that.  Not modelled: two first uploads of one document type that overlap and
make two rows.

`Account` composes the three: `Admission` is `requireAuth`, `Proceed` the
middleware that asks for a verified user and an approved bank account and then
the read of the payee, before the lock; `ProceedUnread` is the same on what
memory says when the database fails.  A restart takes the memory of all three in
one step.  `slips` plays the part it plays in the shares.

### ClientSession

`user` and `token` are the state of `AuthContext` (`user` as the set of accounts
whose data the record holds, since `updateUser` merges an answer into the record
of now), `ending` is `isLoggingOutRef`, `disk` the `SESSION` record, `seen`
`LAST_ACTIVE_AT`.  `Open` and `RestoreAnswer` are `restoreSession`, `EndSession`
is `handleInactivityLogout`, which the timer, a return from the background and a
401 call; `Logout` is `logout`; `FetchOk`, `FetchRefused` and `FetchDone` the end
of a screen's request, which holds the token of the render it began in and may
end at any time later.  `chores` are the storage calls that a sign-in or sign-out
has not yet made, `Kill` the end of the process, `Tick` time, counted in ticks of
which `Limit` are five minutes.

Assumptions: storage calls succeed (`storage.js:72-83` swallows their failures);
the one-second check runs within a tick of the limit, and a touch in the second
before it is not told from one at it; opening, returning and signing in count as
activity, as in the code.  What the code does and the model shows: an answer that
comes when another session has begun is written by `updateUser` to `SESSION` with
the token it started with (`AuthContext.js:525`), the exception `late` of both
properties, although `docs/FRONTEND_ARCHITECTURE.md:222` says that tokens are
wiped; a 401 for an old token ends whatever session there is
(`AuthContext.js:133`); and a start that finds the account suspended leaves
`LAST_ACTIVE_AT` behind (213-219).

### ModelSlots

`row` is `listing_models`, `task` what runs at the provider, `polling` the entries
of `pollPromises`, `cooling` `listingLastPoll`, `loose` the releases nobody waits
for.  What the code does and the model shows: the claim answers `attempt_count`
where the service reads `attemptCount` (`modelProviderService.js:309`), so that
`Record` sets the attempts back to 1 and their limit is never reached; the
timeout looks at `created_at`, the claim at `updated_at` (`modelController.js:398`);
`forceRetry` on a ready row makes it `processing` without a task; two requests
can both pass the check of `pollPromises` (433).

### CertificateRegistry

One asset.  `row` is its row in `assets`: `registration` (`registration_status`),
`token` and `tx` (`token_id`, `tx_hash`, the latter named by the request whose
transaction it is), `lifecycle` and `revoked` (`certificate_lifecycle_status`,
`certificate_revoked`), `signed` the text of `issued_at` under the signature and
`issuedAt` what the column answers.  `minted` lists the tokens of the contract by
the request each is due to, `mint` what became of each call of `mintAssetNFT`:
`called`, `sent`, then `mined` or `failed`.  `at` is where a request is:

    idle -> checking -> minting -> done       a listing with a wallet
    idle -> retrying -> reminting -> done     a retry of the mint
    idle -> issuing -> done                   an issuance
    idle -> done                              a listing without a wallet, a revocation

`Timeout` is the ten seconds after which a listing stops waiting: `mint` goes on
without it.  A retry has no such limit.  A retry marks the row pending before it
mints (`MarkPending`), and goes on if that update is lost (`LoseMark`).
`LoseReceipt` is `tx.wait(1)` throwing for
a transaction that is on its way, `LoseWrite` an update whose error is ignored,
`Restart` the end of the process, which transactions survive.  `overlapped` is a
history: a retry read the row while another attempt was at work, or an attempt
was given up or lost.

`Dossier` is the status `getCertificateDossier` answers, `Card` the one
`buildCertificateData` derives from a record, `ScreenOfDossier` and `ScreenOfAsset`
what the certificate screen shows after either of the two calls it makes.  Whether
a signature verifies is modelled by what can differ between signing and verifying:
every other signed field is stored and read as the same text or number, but the
time of issue goes into a `TIMESTAMPTZ`.  As the code stands `Verifies` never holds
for a saved certificate, and the two cases of `Dossier` for one that verifies are
what the code would answer if it did.

Abstractions: the marking of a retry is one step with the call of `mintAssetNFT`
that follows it, whether it was lost or not; a request mints once; hashes are taken to be well-formed, and an
administrator's evidence to be complete.

## Runs

| run | instance | result |
|---|---|---|
| `EscrowContract` | 2 orders, relayer, `ann`, contract `bob`, `msg.value` in {0, 2, 3} | passes: 411 556 distinct states |
| `EscrowService` | 1 order, 2 handlers, all operations, wallet and bank, payee contract, 1 fault | passes: 894 240 states |
| `EscrowServiceLive` | 1 wallet order, 2 handlers, settlement operations, no fault | passes: about 216 000 states, liveness |
| `EscrowServiceDispute` | 2 handlers, no fault | violates `DisputeStays` |
| `VaultLedger` | 3 transactions, 2 handlers, all operations, SQL functions installed, 1 fault | passes: 359 922 states |
| `Shares` | 5 investors, 2 buyers, 8 shares (cap 2), 9 scripts of 3 or 4 requests, 4 openings, 2 faults | passes: 451 389 states |
| `SharesBuyout` | the same, no fault, weak fairness | violates `EveryShareholderPaid` |
| `Account` | 2 challenges, 2 bank accounts, 1 token, recovery and nonce, 2 document types, limits of 1, 13 scripts, 1 fault | passes: 841 097 states |
| `ClientSession` | 2 accounts, 2 tokens, 2 requests in flight, a limit of 2 ticks | passes: 242 443 states |
| `ModelSlots` | 2 listings, 1 slot, 2 requests, 2 tasks, 2 attempts | violates `SlotsBounded` |
| `Registry` | 1 asset, 4 requests of any kind, 2 faults, weak fairness | passes: 747 188 states, safety and liveness |
| `RegistryVerify` | 3 requests, no fault | violates `IssuedVerifies` |

What they ask:

* `PaidExactlyOnce`, `Solvent`, `DisputeFreezesRelease`, `TermsAreFinal`: the
  four promises of the contract, also in the middle of a settlement.
* `ImplementsCustody`: every completed transaction is a step of `EscrowCustody`.
* `SellerPaidOnlyWithConsent`: in every interleaving, stale read and fault, a
  release is claimed, broadcast and paid only for an order its buyer accepted
  and whose funding was verified.
* `SettledRowsArePaid`: neither the row's final status nor the owner of the item
  runs ahead of the chain.
* `ClaimHasHandler`: without a fault a claimed row has a handler that will
  resolve it.  The property is conditional because the code has no recovery: a
  crash or a lost answer leaves the row in `release_processing` or
  `refund_processing`, a status no operation accepts.  `ClaimResolves` is its
  liveness counterpart.
* `Balanced`: between writes the balance is the settled deposits less the settled
  withdrawals and purchases, and the reservation the sum of the pending
  withdrawals, whatever raced, repeated or failed, unless the ledger is `torn`.
* `HandledOnce`, `RowsFinal`: of any number of reviews of one transaction one
  moves its money, and the row it settled is never written again.  The update of
  the row has no condition; only the lock and the second look stand for this.
* `LockServed`: the vault's lock is passed on whatever fails: its queue holds
  whoever works under it or waits for it, each once and nobody else, and whoever
  works is the first.
* `CapHolds`, `SupplyHolds`, `SoldCoversLedger`: nobody holds more than a quarter
  of the shares, no more are held than there are, and `shares_sold` covers them,
  through three checks and three writers (unless the fallback could not write it).
* `AllocatedOnce`: a retry with the same key is allocated once.
* `OneOpenOrder`, `EscrowHasOrder`, `SoldStays`: a collectible is in one open
  order at most; off the market only on its way to one; and sold for good.
* `SharesConserved`, `RetiredMeansPaid`: shares bought are in positions or were
  settled, as long as copies and rows agree; a position a buyout ended was paid for.
* `QueueServed`: the lock of an asset loses nobody and waits for nobody who left.
* `NoSecondGuess`, `LatestOnly`, `ImplementsOneTimeCode`: a code admits one
  withdrawal, none after a wrong guess, and only the code mailed last admits any.
  The invariant `OncePerChallenge` (at most one withdrawal per challenge) follows
  from the refinement and is a theorem.
* `CancelledMeansUnpaid`, `ConsumedIsPaid`: what the person is told agrees with
  what the vault did, in both directions.
* `LimitHolds`: the limits hold across restarts.
* `PaidToSeenAccount`: a withdrawal goes to bank details an administrator saw.
* `SignedOutStaysOut`, `RecoveryOnce`, `NonceOnce`: a used or revoked credential
  stays so, with the restarts and overlaps that break each named.
* `StatusAgrees`: between operations the status in memory is the one the documents
  give, also when operations crossed, or `pending` after a submitted dossier until
  the next operation on the documents; the profile is too once the updates nobody
  waits for are over.  Exceptions: an operation that ran into the review of a
  dossier, the approval of an incomplete one and a restart; and for the profile
  operations that crossed and writes that failed, since nothing orders its updates.
* `SessionWhole`: memory and device hold one account with its own live token, and
  what was signed out never comes back.
* `IdleLimit`: nobody is shown an account after five minutes of absence, on any
  of three clocks.
* `RevokedShown`: from the answer to a revocation on, dossier and screens say
  revoked, although an issuance that overlapped it writes its own status.
* `AnchoredIsMined`: a row called verified, or a screen that says anchored, has a
  token that was minted by the transaction stored with it.
* `DuplicateNeedsOverlap`: what the check of `retryMint` does achieve: a second
  token needs attempts that overlap, or one that was given up or lost.
* `PendingEnds`: every way out of listing and retry ends a pending registration,
  unless a fault gets in its way.

The type invariants (`TypeOK`, `AccountTypeOK`) hold on the same instances, and
for the contract, the service, the vault, the shares, the account and the
certificates they are theorems, but no run lists one: what it says is part of what the other
properties need.

Four runs are violated: there the code disagrees with what it says.

1. `DisputeStays`.  The update of `progressEscrowStep` (`escrowService.js:802`)
   selects by `order_id` alone, after the status was checked several awaits
   before.  A step that read the row before a dispute overwrites `disputed`,
   although the handler promises "Must resolve dispute before progressing
   custody."  For the same reason a delayed second acceptance sets a row in
   `release_processing` back to `accepted`, and a second release can claim it.
   The contract still pays a wallet order once; a bank order has no such
   backstop.
2. `EveryShareholderPaid`.  A buyout pays every investor under one settlement
   reference (`investmentPositionService.js:496`), and the unique index refuses
   the second; the release logs the error and completes, against "Pay each
   shareholder according to their recorded share ownership".
3. `SlotsBounded`.  The `finally` block of every poll releases the slot as
   `ready`, although the task still runs (`modelController.js:586`), so that more
   tasks run than "Atomic Cross-Instance Concurrency limits" allow.
4. `IssuedVerifies`.  The text that was signed ends in `Z`, the column answers
   `+00:00`, and the canonical form keeps the text (`certificateCryptoService.js:230`):
   a certificate that nobody touched is "unverifiable: Signature check failed or
   canonical metadata was modified."

The models contain six more consequences of the code that no run is spent on.

* Of the vault.  Profile and row are two calls, and a cut between them leaves a
  pending withdrawal that nothing is reserved for, or a deposit that can be credited twice.  The look
  before the lock writes its answer to `transactionsMap` when it arrives: if
  another handler has cancelled the withdrawal meanwhile, the map is set back to
  pending, and if then the look under the lock fails, the handler falls back to
  the map and gives the reservation back again, against "do NOT restore balance a
  second time!".  Both set `torn`, which ends what the run asks of the ledger.
  `request_vault_deposit_atomic` answers `transactionId` where the
  service looks for `tx_id` (`vaultTransactionService.js:828`), so that one deposit
  request makes two rows, both of which can be confirmed.
* Of the certificates.  `retryMint` decides on a row read several awaits before the
  mint (`assetController.js:1542`), and a listing gives up after ten seconds a mint
  that goes on (875): either way two tokens can be minted, against "prevents
  duplicate minting" (1507); `DuplicateNeedsOverlap` says that the
  check prevents every other second token.  `issueCertificate` updates by id alone
  (`certificateService.js:197`), so that an issuance that read the row before a revocation signs the revoked
  certificate again (105 refuses only what was read as revoked); the flag stays,
  and `RevokedShown` with it.  `buildCertificateData` replaces the status of the
  dossier by `anchored` or `issued` whenever there is a hash or a signature
  (`certificateUtils.js:147-152`), so the screen hides item 4.

### Bounds, and why they are enough

* Two contract orders: the properties relate one order to another only through
  the balance and through re-entrant calls, both of which two orders exercise.
  The proofs cover any number.  The values 2 and 3 tell the orders' amounts
  apart; 0 meets the `require`.
* One service order: handlers of different orders share no row and no cache
  entry.  Two handlers give every pairwise race.
* One fault: enough for each stranding and divergence by a single failure.
* `BankOrdersOffChain`: a bank order's number is not used on-chain as well; the
  chain would only add steps no bank handler looks at, apart from shipment and
  inspection, whose failure is ignored.
* The VIEW `Relevant` identifies states that differ only in the cache when no
  fault is left (the cache is read only after a failed read) and in the
  contract's timestamps (no guard and no service property reads them).
* Two handlers of the vault give every pairwise race for the lock and against
  the checkout; three transactions let one be created while two others are
  reviewed, and hold the two rows of the SQL function.  One deposit of 2 and
  withdrawals of 1 tell the kinds apart and let the spendable balance run out;
  one key and two references repeat and differ.  The fault is any one crash,
  failed read, failed write or lost answer.
* `CONSTRAINT Whole` ends a run of `VaultLedger` where the ledger is torn: torn
  stays, and every property of that run speaks of whole ledgers.  Its view drops
  the map, and the status on its way into it, when no fault is left, and of a
  handler that is done all but what it writes to the map.
* Eight shares are the fewest with a cap above one share and room for several
  holders at the cap; with five investors the last shares are contested.  The
  scripts put every pair of operations that touch the same rows side by side;
  the openings are a listing without investors, with one, and with several
  before and after a restart.  Two faults let a lost answer or a rejected call
  meet a restart.
* Two challenges let one replace the other; a limit of one lets a second request
  meet it; `calm` scripts (requests one after the other, no failed call in the
  code protocol) reach the second withdrawal that four requests need.  Two document
  types let one be approved while the other is not there, and two operations on
  them, of which one may be a dossier's submission, cross in every way.
* Two accounts, tokens and requests in flight let an answer meet the session of
  somebody else; two ticks are the fewest in which a clock can lag behind
  another without having run out.  The proofs cover any number.
* Four requests on one asset: a listing, two attempts that overlap, and a
  certificate operation, or any other four; with two faults a lost receipt meets
  a lost write or a restart.  Different assets share no row, and the numbering
  of their tokens by one contract matters to no property.
* Symmetry permutes the contract's orders, the handlers of the service's safety
  runs, the transactions, handlers and references of the run `VaultLedger`, and
  the accounts, tokens and requests of `ClientSession`; the runs with a liveness
  property use neither symmetry nor a view.
* Deadlock checking is off for the contract (an instance in which every order is
  settled and ownership was renounced has no call left that succeeds) and for
  the shares, the account and the certificates, whose requests end.

### Fairness

`EscrowService.LiveSpec` assumes that a handler whose await is answered runs (the
event loop, weak fairness of `Handle`), that the network mines a relayer's
transaction that stays in the mempool (strong fairness of `Mine`: while another
settlement is executing inside its own transaction it cannot be mined, but it is
offered again after each), and that a payee's code ends (weak fairness of
`PayeeAnswers`: gas is finite).  The shares need only weak fairness of each
handler: a handler that waits for a lock is enabled when it is the first
of the queue and stays so.  The certificates need it of what a handler does next,
which the event loop runs, and of the chain, which includes or reverts what was
sent; the timeout is not forced.  No fairness is assumed of administrators, users,
parties or faults.

## Proofs

`EscrowContractProofs` proves, for any set of orders, accounts, contracts and
amounts satisfying `ConstantsAssumption` (contracts and the first owner are
accounts, `address(0)` is not, amounts are naturals, the orders are finitely
many):

* `TypeCorrect`, `SinglePayment`, `DisputeFreeze`: the invariants `TypeOK`,
  `PaidExactlyOnce`, `DisputeFreezesRelease`;
* `AlwaysSolvent`: the invariant `Solvent`, that the contract holds the sum of the
  deposits that are not settled;
* `FinalTerms`: the action property `TermsAreFinal`;
* `Refinement`: `Spec => ImplementsCustody`.

None of these is inductive alone.  `PayeeRejects` restores the snapshot, so the
snapshot must be as sound as the storage; and what a transaction in progress may
have changed since its snapshot must be known.  `IInv` therefore adds to `TypeOK`:
`SoundNow` and `SoundBefore` (every order, now and in the snapshot, has been paid
what its status says and carries the stamps its status implies), and
`InTransaction` (outside a transaction storage and snapshot agree; inside one,
the order being settled has just been settled and every other order has only
moved along the lifecycle).  The proof has one lemma per kind of step: a plain
call, a deposit, the beginning of a settlement, the payee's answer, a change of
owner.  The refinement reads the same lemmas at the end of a transaction: orders
that evolved map to `ConsentsOrStays`, the settled one to `PaysSeller` or
`PaysBuyer`, a new one to `Locks`.

`AlwaysSolvent` needs the same of the snapshot (`SolventBefore`), to which a
transfer that fails goes back.  A step changes what one order is owed and the
balance by the same amount.  A sum over a set of any size would be a fold, and
the provers cannot do the induction that reasoning about folds needs; `Totals`
therefore defines a sum as the number of its units, a cardinality, and
`TotalsProofs` proves from the library's theorems about finite sets what happens
to it when one summand changes (`TotalPut`).

`EscrowServiceProofs` proves, under `ServiceAssumption` (the three wallets are
different and not `address(0)`, only parties have code), for any orders, handlers,
rails, requested operations and number of faults:

* `ConsentBeforePayment`: the property `SellerPaidOnlyWithConsent`;
* `SettledMeansPaid`: `SettledRowsArePaid`;
* `ClaimsAreHandled`: `ClaimHasHandler`;
* `ChainRefines`: every run of the service, seen through the contract's variables,
  is a run of `EscrowContract`.

`ChainRefines` is proved step by step (`ChainNext`), and brings the contract's
`IInv` into the service as `P!IInv`.  The service's own `Inv` is about what cannot
become false: that the buyer accepted and that the funding was verified are never
taken back (`Grow`), and any status a row ever had tells of them (`Known`).  So a
status may be stale, come from the cache after a failed read, or belong to a row
that another handler has moved on since: what `Fits` says of a handler that acts on
it still holds, and a transaction nobody waits for any more still is for an accepted
order (`PaymentsFit`).  That a settled row was paid needs the transaction in
progress: `RunningFits` says that at most one handler's transaction is executing,
that it is the order in the contract's guard, and how the order was settled, so that
when the payee accepts, `P!IInv` gives the amount and the handler carries it to its
last update (`SettlingFits`).  One lemma per part of `Inv` says what a step must do
to keep it, `OffChain` and `OnChain` combine them for the steps of the two sides,
and one lemma per action supplies what they ask for.

`VaultLedgerProofs` proves, under `VaultAssumption` (amounts are positive, no
identifier is the value that stands for none, requests ask for operations there
are, and handlers and transactions are finitely many), for any number of handlers, transactions and faults, with or without the
SQL functions:

* `TypeCorrect`: balance and reservation stay naturals, rows and handlers well
  formed;
* `LockExcludes`: `withUserVaultLock` is mutual exclusion, whichever await a
  handler fails at;
* `LockPassedOn`: the property `LockServed`, which says more: no way out of a
  handler leaves it in the queue or drops another from it;
* `AlwaysBalanced`: the property `Balanced`; and `ReservationCovered`, that the
  balance covers the reservation, also between two writes;
* `HandledOnceOnly`, `RowsStayFinal`: the properties `HandledOnce` and
  `RowsFinal`.

That a settled row stays settled is not inductive, as the update does not look at
the status.  `IInv` has `LockInv` (types; what a handler is at each phase,
`Shapes`; whoever is at work is the first of the queue, `LockHeld`; the queue
holds each waiting or working handler once and nobody else, `QueueFits`), `KindsFit` (a handler
refers to a transaction of its kind, and deposits are never cancelled, which is
why `reject` may accept every status but two), and, while the ledger is whole,
`DecisionsHold`: until the row is written its status is one the handler accepts,
because only the holder of the lock writes rows that are there.  One lemma per
action gives `LockInv`, another the rest; a last one per kind of change
(`StayStep`, `InsertStep`) serves the actions that decide nothing.

`Balanced` speaks of the moments between writes.  `BookInv` says what holds at
every moment: the balance and what handlers have debited but not yet recorded, or
recorded but not yet credited, make up the rows (`BalanceFits`), and likewise the
reservation (`ReserveFits`); amounts are those of the rows (`AmountsFit`); and what
a handler read of the profile still covers what it is going to subtract
(`ReadFits`), so that the code's truncated differences are differences.  The sums
are those of `Totals`.

The first part of `AccountProofs` is about `WithdrawalChallenge` alone.  It
proves, under `ChallengeAssumption` (identifiers are
positive numbers, limits are positive), for any number of
requests, challenges, bank accounts, keys, limits and faults:

* `ChallengeTypes`: rows and copies keep the statuses the table allows, requests
  their shapes;
* `OneWithdrawalPerCode`: the property `OncePerChallenge`;
* `NoWithdrawalAfterWrongCode`, `OnlyLatestCodeAdmits`, `CancelledIsUnpaid`,
  `VerifiedIsPaid`: the properties `NoSecondGuess`, `LatestOnly`,
  `CancelledMeansUnpaid` and `ConsumedIsPaid`;
* `RateLimitHolds`: the property `LimitHolds`;
* `ServiceImplementsOneTimeCode`: the refinement `ImplementsOneTimeCode`.

`IInv` adds to the types `LockInv` (who is past the wait is the head of the
queue), `JobInv` (what a request carries at each `pc`, and what it may rely on:
the challenge it withdraws under was closed first and is not used yet), `CopyInv`
(only a row that was inserted has a copy) and `UsedInv` (a used code is closed).  What is
closed stays closed, because whatever a read returns is the row or the copy and
neither says "pending".  The refinement reads them through `StageOf`.
`MoneyInv` relates withdrawals to their challenges.  Each of its parts holds until
the fault its property names: what a wrong code closed is not taken (`GuessInv`); before a
challenge is issued the earlier ones are closed, so a challenge that is taken is
the last (`LatestInv`); a handler that undoes has paid nothing (`CancelInv`); a
verified row is closed, and paid or in the hands of a handler (`PaidInv`).  `DeskInv`
is what they share: the row of a challenge that is being paid stays verified under
its key, because only the holder of the lock writes rows.  `RateInv` says that the row of a
limit has the true count, and memory at most that, and exactly that until a restart.

The second part proves, under `AccountAssumption` as well (there are document types,
the account on file is one of the user's, he starts out verified or not), for any
number of visits, tokens, recovery authorizations, nonces, document types and
reviews, and any scripts:

* `AccountTypes`: the types of all three parts;
* `PayeeWasLookedAt`, `NoTokenAfterSignOut`, `OneResetPerRecovery`,
  `OneLoginPerNonce`, `StatusFollowsDocuments`: the properties
  `PaidToSeenAccount`, `SignedOutStaysOut`, `RecoveryOnce`, `NonceOnce` and
  `StatusAgrees`;
* `AccountMoney`: the five properties of the code protocol and `OncePerChallenge`,
  now in the account;
* `AccountImplementsOneTimeCode`: the refinement `ImplementsOneTimeCode`, which is
  the property the run `Account` checks.

`AInv` has a part for each of these.  A token that was signed out is in memory, in
the database, or lost at a restart (`OutInv`).  Two resets with one authorization
are told apart by the memory, which knows it before the first await
(`RecoveryInv`).  A nonce that was accepted is gone from memory and not unused in
its row, and while one verification is past its read there is no other
(`NonceInv`).  Memory holds the status the documents give, or `pending` after a
submitted dossier, unless an operation that will still recompute it is under way;
a review of a whole dossier is alone, and what it has passed has its verdict
(`MemoryInv`).  Until operations on the documents cross, at most one is under way,
its update of the profile starts when no other is on its way, and updates carry
what the documents give; when all are over the profile has it, or `pending`
(`ProfileInv`).  Whatever bank account is approved, about
to be reviewed, carried by a request or paid was looked at (`BankInv`,
`PayeeInv`).  A step of the account does one of two things to the code protocol: a
step of its own (`OwnStep`), or one that touches neither its store nor a request
that holds its lock (`SideStep`), so that the lemmas of
the first part carry over, and with them the refinement
(`CodesKept`).

Two attempts that failed corrected the model.  `NonceInv` was not inductive: a nonce
could be created again under the same name after a restart, which
`crypto.randomUUID` rules out and `nonce[n].issued` now says.  And without document
types `Derived` is "verified" while the user starts "unverified"; `VALID_DOC_TYPES`
is not empty, and `AccountAssumption` says so.

`ClientSessionProofs` proves, under `DeviceAssumption` (the limit is positive,
`None` is neither an age nor an account nor a token), for any number of accounts,
tokens and requests in flight and any limit: `SessionStaysWhole` (the property
`SessionWhole`) and `NoUnattendedSession` (`IdleLimit`).  Neither is inductive.
A start of the application writes to memory what the device held when it asked the
server, so it must be alone with the device until the answer (`RestoreFits`); a
sign-in must not meet an old answer that would fill the memory it is about to
write (`LoginFits`); a token that is reused by the server would make an ended
session live again, so that tokens in use and ended ones are known to be issued
(`Owned`).  For the limit, each of the clocks must run at least as far as the
absence it measures (`Ages`), a sign-out in progress has already emptied memory
(`EndingFits`), and whoever is signed in after a long absence is about to be
signed out (`StaleFits`).  Steps that change only clocks share one lemma
(`ClockStep`), the four ways a session ends another (`EndStep`).

`CertificateRegistryProofs` proves, under `NoneAssumption` (`None` is not a request),
for any number of requests and faults: `RevocationShown` (the property
`RevokedShown`), `AnchoringProved` (`AnchoredIsMined`) and `DuplicatesOverlap`
(`DuplicateNeedsOverlap`).  `IInv` has two halves.  Always: the token and the
transaction of the row belong together (`Recorded`), what was mined has its token
(`HasToken`), and a revocation that was reported is in the row's flag (`Reported`),
which no update of an issuance touches.  Unless attempts overlapped (`Alone`): one
request is at work on the registration, every call on its way has somebody
waiting for it, and a token the row does not know belongs to the request at
work, so that a retry that finds the row without a transaction finds the chain
without a token.

`CheckoutProofs` proves, for any number of investors, buyers, shares, keys and
faults, any scripts and any opening of the ledger:

* `LedgerTypes`: the types, and that no row reserves more than it holds;
* `LockServesAll`: the property `QueueServed`;
* `HoldingsCapped`, `NeverOversold`, `SoldIsEnough`, `KeysAllocateOnce`: the
  properties `CapHolds`, `SupplyHolds`, `SoldCoversLedger` and `AllocatedOnce`;
* `OneOrderAtATime`, `NoStrandedListing`, `SaleIsFinal`: `OneOpenOrder`,
  `EscrowHasOrder` and the action property `SoldStays`;
* `NoShareLost`, `BuyoutPaysFirst`: `SharesConserved` and `RetiredMeansPaid`.

It assumes `LedgerAssumption` (there are shares; nobody is an investor and a buyer
of the whole), `ScriptsAssumption` (requests are requests, and investors invest) and
`OpeningsAssumption` (a behaviour starts with a listing whose positions are within
the caps and covered by `shares_sold`, with copies that agree with their rows, or
none after a restart).

`LedgerInv` has two halves.  `OrdersInv` is about who may do what: the queue is
those who are past the wait, each once, and whoever relies on what he read holds
the lock (`QueueInv`); until the checkout's lock is given away one request is in the
checkout (`CheckoutInv`), so that a buyer who claimed the collectible is alone with
it (`TakenInv`); who is about to allocate under a key found it unused under the lock,
and whoever allocates leaves it in memory or in the table (`OnceInv`).  `SharesInv`
counts.  `CapInv` and `SupplyInv` say that what an investor holds, and what all do,
leaves room for the purchase that was checked and is not written yet; they count
the rows that ended as well, since these are active no more only when the asset takes no more
investors.  `SoldInv` says that the snapshot a checkout holds is still what
`shares_sold` says, and what the fallback and the last write make of it.
It ends when the fallback could not write `shares_sold`.
`ConservedInv` holds until one of the things `SharesConserved` names: each copy
holds what its row holds and reserves no more, and the requests that nothing has
ended ask for no more than the row reserves, so that a settlement subtracts what
there is.  `PaidInv` says who was paid of those a buyout is still due to.  Each part
has a lemma on what a step must do to keep it and one for each kind of step; the sums are
those of `Totals`, through `Count` (`CountPut`, `CountAppend`, `CountPlus`).

Here too attempts that failed corrected the properties.  `SharesConserved` did not
exempt the reservations a copy forgets: redeem one share, redeem one, cancel the
first, redeem two, settle the second and the third, and three shares of two
are settled.  The step that forgets is now recorded in `slips`.  And `SoldStays`
allowed for nothing but a late delisting: with the checkout's lock given away, an
investor's last write can call a sold collectible funded, and the fallback can put a
claimed one back on sale (`BackOnSale`).  TLC shows both, on instances larger than
the run's.  `OneOpenOrder` became narrower: it needs the fallback too.

Model-checked only: liveness (`ClaimResolves`, `PendingEnds`), which is out of the
provers' reach, and the four properties that are violated.  Every other property of
the runs is a theorem.

## Not modelled

Most of the repository is the user interface of the application: screens of
several thousand lines whose state is that of their forms and lists, the 3D viewer
and the live room preview.  The parts of the screens that matter to a property are
in the modules: the wallet transactions of the checkout are `PartyCalls` of
`EscrowService`, what a screen does with a refusal is in `ClientSession`.  Of the
backend the following are not modelled: the AI, market and detection services
(calls to external services and arithmetic on their answers), the cryptography and
formatting of certificates, milestones and transfers of the certificate contract, presence
and snapshots (values overwritten by the last writer), notifications, support,
audit rows and avatars (single-row inserts), Stripe's library, and the HTTP layer.
Of the modelled components `PROJECT.json` says which operations are left out.

## Plan

Done: the modules above.  What would add most:

1. An abstract register of shares (who holds how many, within cap and supply) that
   `Checkout` implements while nothing in `slips` has happened.
2. The vault rail of the checkout composed with both ledgers; the card rail with
   its confirmations.
