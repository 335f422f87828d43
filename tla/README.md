# TLA+ verification of the MicroLeague presale listener

The program (`src/`) is a NestJS service that follows one presale contract on an
EVM chain, keeps a ledger of buyers, purchases, claims and vesting schedules in
PostgreSQL through Prisma, mails SAFT certificates, and offers an administrative
HTTP API over the same database. This directory holds TLA+ models of its core,
the TLC configurations that check them and the TLAPS proofs about them.

## The system

| Component | State | Operations | Talks to |
|---|---|---|---|
| `ContractManagerService` (`listener/services/contract-manager.service.ts`) | per contract: `lastProcessedBlock`, `isProcessingHistorical`; `isListening`; the checkpoint row of `listener_states` | `registerContract`, `startListening`, `processHistoricalEvents`, the 3-second poll and `pollContractEvents`, `saveLastProcessedBlock`, `reprocessEvents` | RPC node (block number, log queries), handlers, database |
| Event handlers (`listener/handlers/*`) | `presale_users`, `presale_txs`, `vesting_schedules`, `recent_activities`, the markers in `listener_states` | `handle` of Bought, Claimed and VestingScheduleCreated | database, RPC node (block time, stage), PDF and mail |
| `ListenerController`, `ListenerService` | none | start the background reprocessing, `resetEventState` | ContractManager, database |
| `ProviderService` (`provider-pool.service.ts`) | health flags and failure counters, round-robin index | `getProvider`, `executeWithFallback`, health checks, `setProviderHealth` | RPC nodes |
| `EventQueueService` (`event-queue.service.ts`) | BullMQ queues in Redis, `failed_events` | `enqueueEvent`, worker, permanent failure, `retryFailedEvents` | provider pool, handlers |
| `AuthService` | `auth_nonces` | `generateNonce`, `verifySignature` | database, UserService |
| `BankTransfersService`, `PrivateSaleSubmissionsService` | their tables | numbered creation, review, removal | database, mail |
| `UserService`, `TransactionsService` | `presale_users`, `presale_txs` | edits, renaming and removal of a buyer, deletion of a transaction, queries | database |
| `AdminGuard`, `AdminService` | `admins` | the check in front of the routes that have it (several documented as the administrators' have none), creation and removal of administrators | database |
| `PdfService`, `EmailService`, `SaftController` | files of certificates, their uploaded copies | write, upload, mail and record a certificate; the test route | disk, Cloudinary, Mailgun |
| `ListenerMonitoringController`, `MetricsService`, `health.controller.ts` | counters | the health report, metrics | ContractManager, provider pool, queue |
| Reorg and gap detectors, `EmailQueueService`, templates | none | stubs, mails sent without waiting | mail |

How they interact: the historical scan, the polling loop and every reprocessing
request are asynchronous functions on one Node event loop, interleaved at each
`await`. They share the in-memory cursor `lastProcessedBlock`, the checkpoint row
that the next boot reads, and, through the handlers, the ledger tables. There is
no lock except the flag `isProcessingHistorical`, and no database transaction.

What is hard in it: a crash between two writes; a query that fails for one event
type out of three; a cursor moved by a request while a poll is in progress; two
scans handing the same event to its handler; handlers whose marker comes before
(claims) or after (the others) the writes it stands for; nodes at different
heights; ranges that end one block short. `PROJECT.json` lists these hazards at
their lines, with the properties that cover each.

What makes each part correct:

* the cursor: never past a block that was not scanned for every event type, except
  those the scan gives up by design; back to the head after every fault;
* requests: cover the range they name; leave the loop able to go on;
* the ledger: what is marked is recorded, each event is counted once up to the
  failures and resets that explain more, balances agree with each other,
  schedules are not claimed beyond their total;
* the provider pool: a provider is avoided only after repeated failures, and
  failover tries all the others; the queue: a job ends as handled or dead-lettered,
  and is given up only after every usable node failed in every round of every attempt;
* login nonces: one that has logged in is refused from then on, and there are no more
  logins than nonces stored, however requests overlap;
* reference numbers: without gaps until a row is removed; a decision lands on the row
  its client saw as long as that row is there;
* the API's edits of the ledger: what is recorded stays backed by the buyer's row,
  and no row suffers but the one that was edited;
* certificates: a mail carries the certificate of its own purchase, its reference
  finds that certificate for good, and the activity feed tells the truth about it;
* administrators: who is not in the table does nothing through a guarded route, and
  the table is not emptied by administrators who only remove others;
* the health report: "healthy" only when the position it read is near the head, and a
  rotation that wears no node more than another.

## Modules

### `ContractManager.tla`: the block cursor

One contract, as in `listener.config.ts`. A cell `<<t, b>>` is all the events of
type `t` in block `b`; `delivered` and `skipped` are history variables over cells.
`hist` and `poll` hold the locals of
`processHistoricalEvents` and `pollContractEvents`, with a `pc` for the awaits at
which another function may run or the process may die.

| Actions | Code |
|---|---|
| `Boot` | `registerContract`, `startListening` |
| `HistHead`, `HistHeadFails` | `getBlockNumber` of the scan |
| `HistQuery`, `HistQueryHalf`, `HistPruned`, `HistPrunedJump`, `HistSaveJump`, `HistAbandonType` | one pass of the scan's while loop, by outcome of the query |
| `HistNextType`, `HistFinish`, `HistSave` | end of the while loop, of the event types, the final save and the `finally` clause |
| `PollTick`, `PollQuery`, `PollQueryFails`, `PollNextType`, `PollFinish`, `PollSave` | a tick that polls, its batches, the commit up to `safeBlock` |
| `NewBlock`, `Crash` | the environment |

A query with the handlers it feeds and the move of the local `currentBlock` are one
step, since nobody else reads those locals, and what a handler throws is caught in
`processEvents`, so that the scan does not notice (`PresaleHandlers` does); every
assignment to shared state is a step of its own. The constants are the batch sizes, the
buffer of the pruned jump, how far a node may lag, and bounds on blocks and faults.

### `EventFeed.tla`: what the cursor promises

The abstract specification `ContractManager` implements: a feed has a position it never
moves past a block it still owes, and saves only positions it has reached, so that it
can stop at any moment. `ContractManager`'s `Feed` maps `position` to the cursor,
`saved` to the checkpoint and `accounted` to the cells delivered or skipped;
`ImplementsFeed` is `Feed!Spec`.

### `Reprocess.tla`: requests on top of it

EXTENDS `ContractManager` and adds `rep`, the locals of each background call of
`reprocessEvents`. `StartRequest` takes any range from block 0 on and any set of event
types (none, when the names match no event), with or without reset; a reset from
block 0 puts -1 into the cursor and into the checkpoint.
`RepQuery` and `RepSave` are a batch and its save.
`Listener` is every step of `ContractManager` except the crash, which also takes
the requests.

### `PresaleHandlers.tla`: the ledger

The three registered handlers at the grain of one database write per step (`BuyUser`,
`BuyTx`, `RecordActivity`, `BuyCertificate`, `Mark`, `ClaimUser`, `ClaimTx`,
`ClaimRead`, `ClaimSchedule`, `VestingUser`, `VestingUpsert`), run by workers: the loop
and the reprocessing requests. `Take` is the test of the marker; `Throw` a write that
fails, and `Refuse` one the database must refuse (a claim whose transaction hash has a
row, a write for a buyer whose row is gone), after which `processEvents` goes on with
the next event. Scans hand over their range one event type after the other, in the order
of the configuration. `ResetEventState`, `Login` (the row created by
`UserService.createOrUpdate`) and `Crash` come from outside. Amounts are integers,
multiples of the 10^-6 token the handlers round to. The cursor is the part of
`ContractManager` the ledger can tell apart: a scan that ends moves it to its end, a
scan that dies leaves it.

### `BuyerRecords.tla`: the API's writes to the ledger

EXTENDS `PresaleHandlers`. `EditBuyer`, `RenameBuyer` and `RemoveBuyer` are the
routes under `/user` (`update`, `updateByWalletAddress`, `remove`),
`DeleteTransaction` that of `TransactionsService`, each a single write that may fall
between any two writes of a handler. The foreign keys are those of `schema.prisma`:
a buyer that a transaction or a schedule refers to is not removed, and a changed
address is carried over to what refers to it. Three history variables say of which
addresses less is promised: `edited`, `pulled` (the row went away between two writes
of a handler and is there again) and `carried` (the row came from another address).

### `ProviderPool.tla` and `EventQueue.tla`: failover and the job queue

`ProviderPool` keeps the health flag and the failure counter of each node and the
locals of `executeWithFallback` for each caller; what the operation does is left to
the module that composes with it. `StartCall` fixes the list of nodes to try,
`CallSucceeds` and `CallFails` are one iteration of its loops, `HealthCheck*` one
node of `performHealthChecks`, `SetProviderHealth` the administrator. Counters stop
at the limit the code compares them with.

`EventQueue` EXTENDS it. A job is one event: `EnqueueEvent`, `ProcessEventJob`,
`AttemptFails` (the error leaves `processEventJob`, BullMQ counts the attempt and the
`failed` listener asks whether it was the last), `BackoffEnds`, `RemoveOnComplete`.
Inside an attempt, the invocation the pool waits for checks the marker, writes and marks
(`Handler*`); `HandlerTimesOut` leaves it running among `abandoned` and starts the next
one. `MoveToDeadLetters` and `CreateFailedEvent` are the two awaits of
`handlePermanentFailure`, `RetryFailedEvents` the API call of that name. `Crash` takes
all that is in memory. `untried` is a history variable: of each attempt, the rounds
and nodes it has not failed in yet. BullMQ itself is
external and modelled by what its users rely on: a job id is unique, a failed attempt is
delayed and repeated up to `attempts`, jobs of a dead worker are handed out again. Its
limit on how often a job may stall is not modelled. The handler of a job is taken to be
registered and at least one node to be configured.

### `WalletLogin.tla`: nonces

`generateNonce` (`LookUpRow`, `StoreNonce`) and `verifySignature` (`CheckNonce`,
`DeleteExpired`, `ConsumeNonce`, `IssueToken`), one step per database call, by any
number of overlapping requests. `stored`, `logins` and `uses` count nonces stored, and
logins by wallet and by nonce. Nonces are numbered, time is `NonceExpires` and
`TokenExpires`. Only messages signed by the wallet itself get as far as the
database, so the model has no others.

### `ReferenceNumbers.tla`: bank transfers and private sale submissions

Both services number their rows by counting (`CountRows`, then `CreateRow` against the
unique key) and find a row before they write it by id (`OpenRow`: what the client saw;
`FindRow`; `WriteRow` for `verify` and `update`; `RemoveRow`). A client may name a row
by number or by id, as the code allows. `misread` collects the rows a client saw whose
write hit another one. No guard stands before the routes of bank transfers, and `verify`
notes a constant there instead of a name (`NotedFor`). One year is modelled: the count
and the numbers are of one year each.

### `Certificates.tla`: SAFT certificates

`sendSAFTCertificate` of the buy handler and the test route, by several senders at
once: `Send` takes the millisecond the certificate is named after, `Lookup` the
buyer's address, `Open` and `Finish` write the file (`PdfFails`), `Upload`, `Mail`
and `Record` follow, each of which may fail without ending the next. `Hang` is a
mail server that does not answer. Files and copies are told apart by whose pages
they hold and whether they are whole.

### `Administration.tla`: administrators

`GuardWritesUser` and `GuardReadsTable` are `AdminGuard`, which writes the wallet's row
in `presale_users` before it looks for the wallet in `admins` and refuses it; a request
past it goes on in a later step, as `CreateAdmin`, as `FindAdmin` and `DeleteAdmin` (the
two queries of `AdminService.remove`), or as `OtherWrite`, which stands for the other
guarded routes that write. Routes without a guard are not part of the module, whatever
the documentation says of them.

### `Monitoring.tla`: the health report

EXTENDS `ProviderPool` with `getProvider` and its rotation. `ReadStatus` and
`Report` are the two moments `getHealth` reads at; in between the chain grows, the
health flags change, and the cursor is set anywhere: it advances, and a jump or a
reprocessing request may also set it back, down to -1, or ahead of the chain.

### Proof modules and instances

`ContractManagerProofs`, `ReprocessProofs`, `PresaleHandlersProofs`,
`BuyerRecordsProofs`, `EventQueueProofs`, `AdministrationProofs` and
`BackOfficeProofs` hold the theorems described below, each about the module it is
named after; `BackOfficeProofs` is about the four other parts of `MCBackOffice` and
about their composition. `Sums` holds what the proofs about the ledger need to know
of sums over finite sets.

`MCContractManager`, `MCReprocess`, `MCPresaleHandlers`, `MCBuyerRecords`,
`MCEventQueue` and `MCBackOffice` are the modules TLC runs. `MCPresaleHandlers` and
`MCBuyerRecords` define the logs of events. `MCBackOffice` takes `WalletLogin`,
`ReferenceNumbers`, `Certificates`, `Administration` and `Monitoring` together; they
share no state, and a property of one depends on its own variables only, so its
`part`, chosen in the initial state, lets one of them move and loses nothing.

## Runs

| Run | Instance | Shows |
|---|---|---|
| `listener` | 2 event types, 5 blocks, 3 faults, node lag 1 | types; `NothingForgotten` and the invariant `CursorInv` behind it; `PollCommitsDelivered`; `CursorRetreatsOnlyByJump`; `CheckpointStaysAboveResume`; the refinement `ImplementsFeed`; under fairness `CatchesUp` |
| `handover` (violated) | no faults needed | `HandOverIsComplete` |
| `reprocess` | 1 request of any range from block 0 on and any types, blocks 0 to 2, 1 fault | `PollCommitsItsRange`, `ReprocessRestoresRange`; under fairness `LoopSurvivesReprocess` |
| `missed` (violated) | 1 request, no faults | `ReprocessMissesNothing` |
| `ledger` | purchase, schedule and claim; loop and one request, one at a time; 1 fault, 1 reset | `RepeatsAreAccounted`, `ClaimsLostOnlyByFaults`, `LedgerMatchesMarkers`, `LoopPassesOverFailuresOnly`, `MarkedPurchaseIsRecorded`, `UnclaimedBalances`; under fairness `EveryEventSettles` |
| `buyers` | purchase, schedule and claim; loop and request at the same time; 1 write of the API, a second address to rename to | `TransactionsBackedByBalances`, `UneditedBalancesAgree`, `OwnSchedulesNotOverclaimed` |
| `vesting` (violated) | loop alone, no faults | `ClaimsReachSchedules` |
| `twice` (violated) | loop and request at the same time, no faults | `HandledOncePerMarker` |
| `event_queue` | 1 event, 2 nodes, limit 2, 2 rounds, 2 attempts; 1 timeout, 1 crash, 1 failed check or verdict | `HealthMatchesFailures`, `WritesRepeatOnlyAfterInterruption`, `CompletedJobsAreHandled`, `GivenUpOnlyAfterAllTries`, `FailuresAreKept`; under fairness `EveryJobEnds` |
| `back_office` | 1 wallet, 3 login requests, 3 nonces; 2 tables, 2 requests, 2 rows, a removal in each table; 2 senders, 3 sendings in 2 milliseconds, 1 failure; 3 addresses, 2 requests, 3 rows of administrators; 2 nodes, a chain of 3 blocks, 2 verdicts | `LoginsUseUpNonces`, `UsedNoncesAreRefused`; `NumbersHaveNoGaps`, `DecisionsHitTheRowSeen`; `CertificatesAreTheirOwn`, `RecordsAreTrue`; `RemovedAdminsFinishRequestsOnly`, `LockoutNeedsSelfRemovalOrRace`; `RotationIsFair`, `HealthyReportsAreSound` |
| `numbers` (violated) | 1 request at a time, 3 rows, 1 removal | `GeneratedNumbersAreFree` |
| `nonces` (violated) | 2 requests, 2 nonces | `NoncesAreUsedOnce` |

**Bounds.** Two event types are enough for everything that relates the first, the
current and a later type. Batches of one or two blocks make scans of several batches,
with a last partial one, out of three to five blocks; three faults allow a failed query
in each of two types and a crash, or two pruned batches and the jump. `HeadLag = 1` lets
a node report a head below the cursor. One request meets the loop at every await; the
ledger's log of one purchase, its schedule and a claim visits every handler. Two
purchases in one transaction are left to the theorem `MarkedPurchasesAreRecorded`, which
holds for every log. An edit of a buyer enters 0 (`EditedAmounts`), which differs from
every balance the log makes; one write of the API falls between any two of the
handlers'. A log with two schedules was tried and is too large for TLC: how shares round
over several schedules is the subject of the theorems `SchedulesAreNotOverclaimed` and
`OwnSchedulesAreNotOverclaimed` alone. One event is enough for the queue, since jobs
meet only in the health of the nodes, which the health checks and the administrator
change at any time as well; two nodes and two rounds have a next node, a next round and
an end. Three requests make two verifications of a nonce race with a new nonce; two rows
and a removal make a collision, a number given out again, and a review that lands on the
successor of a removed row. Three sendings are two that collide and one that comes
after, with a restart between them or not. Three addresses and three rows let
administrators remove each other, and one come back after its row was removed. A lag of
two blocks and a node one block behind tell "near" from "far". `MaxFaults`, `MaxResets`,
`Requests`, `RequestKinds`, `MaxBlock`, `Log`, `MayOverlap`, `EditedAmounts`,
`MaxEdits`, `MaxVerdicts`, `MaxTimeouts`, `MaxCrashes`, `MaxNonces`, `MaxRows`,
`MaxRemovals`, `MaxTime`, `MaxSends`, `MaxFailures`, `MaxAdminIds`, `NodeLag`, `MaxHead`
and `MaxHandOuts` only bound the environment. Deadlock is not checked: when the chain
stops growing, faults are used up and the cursor is at the head, the model has nothing
left to do, while the program's timer ticks on without effect.

**Fairness.** `WF(Boot)`: the hosting platform (`.do/`) restarts a dead process.
`WF` of the scan, of the polling loop and of each background call: timers and
promises of a live event loop run on, and awaited calls return or throw. In
`EventQueue`, `WF` of a job's steps: the worker takes what waits, a delay ends, an
invocation returns, throws or is timed out (`PROVIDER_TIMEOUT`), and of its failure
listener; nothing is assumed of abandoned invocations, health checks or the
administrator. Nothing is
assumed of the chain, and nothing of faults but that `MaxFaults` makes them finite.

## Where code and documentation part

* `handover`: `while (currentBlock < latestBlock)` (line 192) skips block `latest`
  when a batch ends just before it; the cursor is set to `latest` all the same.
* `missed`: every batch of a request assigns the loop's cursor (line 766), also
  ahead of it and for a single event type.
* `vesting`: claims are handled before the schedules of the same range exist.
* `twice`: the marker is tested and written several awaits apart, and nothing keeps
  a request and the loop from handling the same event.
* `numbers`: the count plus one is a number in use after the removal of an earlier
  row, so that no transfer or submission can be created.
* `nonces`: the delete at `auth.service.ts:77` names the wallet, not the nonce. Two
  verifications of one nonce that both read its row both log in when a new nonce is
  stored between their deletes, although line 76 calls a nonce one-time.
* Seen while modelling, without a run:
  - The listener: the comment at `contract-manager.service.ts:509` promises that blocks
    with errors are retried; only failed queries are, as exceptions of handlers are
    swallowed at line 354 and the cursor moves on.
  - Reference numbers: once the last row is removed its number, answered to its client
    and mailed for a submission, is given to the next row, although
    `bank-transfers.service.ts:14` speaks of a unique ID.
  - Routes: README:214-215 and the decorators of bank transfers, of the removal of a
    transaction and of the two reprocessing requests call them the administrators';
    none of them uses `AdminGuard`, and most routes of `user.controller.ts` do not
    either.
  - Settings: `CONFIRMATION_BLOCKS`, `POLLING_INTERVAL` and `EVENT_MAX_RETRIES`
    of the README do not influence the loop; provider failover does not reach it
    either, since it keeps the node it was given at boot (the comment at
    `contract-manager.service.ts:34` says otherwise). `handleReorg` resets nothing.
  - Failed events: `retry-failed` of the listener marks rows but retries nothing, and
    its filter compares a lower-cased contract address with rows stored in the case
    of the configuration; the route `support/retry-failed` of the administration
    resets `retryCount` and answers "Queued", and README:229 speaks of queueing.
  - Buyers: `POST /user` and `PATCH` accept `referrals` and `referredById`, which the
    table lacks; `GET /user/:id` asks for `_id`. A wallet renamed through the API is
    stored as typed, while the handlers look for lower case. An edit enters absolute
    amounts over balances the handlers increment. The comment at
    `presale-buy.handler.ts:71`, "now that user exists", is not guaranteed once a
    buyer can be removed in between. A schedule carried over to another address by a
    rename may be claimed beyond its total, when the contract announces a schedule
    of its own for that address, whose upsert overwrites the total.
    `getTransactionStats`, `findAll` and `getStats`
    put several queries together without a transaction.
  - The database: the migration of 2026-03-26 (line 133) makes `presale_txs.address`
    refer to `users`, which no later one undoes, and the one of 2026-04-01 skips the
    key of `vesting_schedules` because `presale_users` is created only on
    2026-04-10; a database made by `prisma migrate deploy` (README:90) differs from
    `schema.prisma`, which the model follows.
  - Certificates: the route `certificate/:txHash` looks for a hash in file names that
    hold none. A mail whose answer is lost may have been sent although `emailSent` is
    false. The test route names its files after `MLC-TEST`, so it meets no purchase.
  - Administration: the table of the contract configuration exists in no schema and no
    migration; its `GET` falls back to the environment and its `PATCH` reports success.
  - Monitoring: the health status ignores the queue, which README:263 lists among its
    criteria; without any node it is "critical", without any contract "healthy".
    The route `provider/:name/health` takes `name` from the query string.

## Proofs

Every theorem holds for all values of the constants that satisfy the module's named
assumption: any number of event types, batch sizes, lags, events, schedules,
requests, addresses and faults.

| Theorem | Property |
|---|---|
| *`ContractManagerProofs`* | |
| `TypeCorrectness` | `TypeOK` |
| `CursorInvariant` | `CursorInv` |
| `NoBlockIsForgotten` | `NothingForgotten` |
| `ScansExcludeEachOther` | `PollExcludesHistorical` (part of `CursorInv`) |
| `PollCommits` | `PollCommitsDelivered` |
| `CheckpointAboveResume` | `CheckpointStaysAboveResume` |
| `CursorRetreats` | `CursorRetreatsOnlyByJump` |
| `ImplementsTheFeed` | `ImplementsFeed` |
| *`ReprocessProofs`* | |
| `RequestTypesAreRight` | types of `Reprocess` |
| `PollsCommitTheirRange` | `PollCommitsItsRange` |
| `RequestsRestoreTheirRange` | `ReprocessRestoresRange` |
| *`PresaleHandlersProofs`* | |
| `TypeCorrectness` | `TypeOK` |
| `BalancesAlwaysAgree` | `UnclaimedBalances` |
| `MarkedPurchasesAreRecorded` | `MarkedPurchaseIsRecorded` |
| `SchedulesAreNotOverclaimed` | `ScheduleNotOverclaimed` |
| `RepeatsAccounted` | `RepeatsAreAccounted` |
| `FaultsLoseOneClaimEach` | `ClaimsLostOnlyByFaults` |
| `CrashesSkipNothing` | `LoopPassesOverFailuresOnly` |
| `LedgerHoldsWhatIsMarked` | `LedgerMatchesMarkers` |
| *`BuyerRecordsProofs`* | |
| `UneditedRowsAgree` | `UneditedBalancesAgree` |
| `OwnSchedulesAreNotOverclaimed` | `OwnSchedulesNotOverclaimed` |
| `RecordsAreBacked` | `TransactionsBackedByBalances` |
| *`EventQueueProofs`* | |
| `TypeCorrectness` | `TypeOK` |
| `HealthAgrees` | `HealthMatchesFailures` |
| `WritesAreNotRepeated` | `WritesRepeatOnlyAfterInterruption` |
| `CompletionsAreBacked` | `CompletedJobsAreHandled` |
| `FailuresAreExhaustive` | `GivenUpOnlyAfterAllTries` |
| `FailuresStayOnRecord` | `FailuresAreKept` |
| *`AdministrationProofs`* | |
| `AdminTypesAreRight` | types of `Administration` |
| `RemovedAdminsOnlyFinish` | `RemovedAdminsFinishRequestsOnly` |
| `LockoutsAreExplained` | `LockoutNeedsSelfRemovalOrRace` |
| *`BackOfficeProofs`* | |
| `LoginTypesAreRight`, `DeskTypesAreRight`, `MonitorTypesAreRight`, `CertTypesAreRight` | types of the parts |
| `LoginsAreBounded` | `LoginsUseUpNonces` |
| `UsedNoncesStayRefused` | `UsedNoncesAreRefused` |
| `NumbersRunOn` | `NumbersHaveNoGaps` |
| `DecisionsAreNotMisplaced` | `DecisionsHitTheRowSeen` |
| `HealthIsNotOverstated` | `HealthyReportsAreSound` |
| `EveryNodeGetsItsTurn` | `RotationIsFair` |
| `CertificatesAreNotMixedUp` | `CertificatesAreTheirOwn` |
| `FeedTellsTheTruth` | `RecordsAreTrue` |
| `PartsBehaveAsAlone` | every part's specification |
| `TypesAreRight` | `TypeOK` of `MCBackOffice` |

`NothingForgotten` is not inductive: whether a scan may set the cursor to its end
depends on what it did before. `CursorInv` adds what the program counters exclude
(`ControlInv`: no poll during a scan, nothing without a process), what the position
of the scan says of the cells behind it (`HistInv`: every earlier type is scanned
to `latest`, the current one to `cur - 1`) and the same for the poll (`PollInv`:
each type done is delivered below the first failure, and `start` is one past the
cursor). The proof has one lemma per action, over facts on how `ProcessEvents` and
`GiveUp` extend the accounted cells. The action properties follow from the
invariant in the state before the step.

`PollProgress`, the part of it about a poll's own range, holds without the rest: a
poll relies on its locals only. That is what is left when requests move the cursor,
and `ReprocessProofs` builds on it: `PollsCommitTheirRange` needs nothing else but
the types. `RequestsRestoreTheirRange` says the same of a request's position
(`RepProgress`: the types behind it, the current one below `cur`, the batch between
query and save), and that `delivered` and `skipped` stay apart. Both rest on one
fact about every step: it hands cells over, gives up cells that were not handed
over, or leaves the history alone (`HistoryMoves`).

Requests may put -1 into the cursor, the listener alone never does. The types the
proofs of both modules share are therefore loose about positions (`LooseTypeOK`: a block
or -1), and `BlocksInv` adds for the listener that they are blocks.

`ImplementsTheFeed` needs more than `CursorInv`: `BlocksInv`, and that no scan or poll
looks beyond the chain (`HeadsInv`). Each action then is one step of the feed (`Account`,
`Save`, `Start`, `Stop`, `Grow`) or leaves it alone.

About `PresaleHandlers` each theorem has its own invariant on top of the types
(`TypeInv`, which adds that a worker in a handler has an event and names schedules
that exist):

* `RowsInv`: a row that does not exist holds zeros, or a claim that creates one could
  carry an old balance over;
* `PurchaseInv`: what a worker in the middle of a purchase has written so far;
* `ScheduleInv`: the totals in a claim's snapshot are still current when the claim
  writes, although its claimed amounts need not be. It rests on
  `SchedulesAnnouncedOnce`, that the contract announces a schedule once;
* `RepeatInv`, while scans do not overlap: one worker at a time is in a handler, the
  event it handles is unmarked until the handler marks it, and the count of an event
  is paid for by its marker, by the handler in progress, by a reset or by a failure.
  `FaultsLoseOneClaimEach` adds that a step loses one claim at most, with a fault;
* `LoopInv`: everything up to the end of the loop's scan is settled, still to do, or
  in hand.
* `MatchInv`, while nothing failed and nothing was reset: the activity row and the
  schedule of each event are there when its handler is past them, and the totals of
  each buyer are the sums over the events applied (`BalancesInv`). At rest these are
  the events marked (`CountedAtRest`), which gives `LedgerHoldsWhatIsMarked`. A claim
  whose hash has a row already is on the balances and never in the feed (`dropped`),
  so that the activity rows are promised for the other events only.

`BuyerRecordsProofs` takes the handlers' steps from these lemmas and adds the API's.
`BuyerRows` is the agreement of each row with itself but for those edited.
`BuyerSchedules` anchors schedules to rows: a schedule with a total has its buyer's
row. A rename therefore never meets a schedule at the address it moves to, and what
it brings there is counted as `carried`. `BuyerTransactions` compares sums:
what is on record for a wallet, plus what handlers between their two writes have
still to record, is at most the amount of its row.

The library defines sums over finite sets recursively, by a chosen function, and
proves nothing of them. `Sums` shows that the function exists, by the least size of a
set for which it would not, and that its values are natural numbers. Equality and
comparison of sums follow by `SubsetInduction`, which takes the set of subsets that
have a property in the place of the property, and is proved with the least size of a
subset missing from it.

About the queue, `JobsInv` ties the job, the call and the handler together (a job is
active exactly while the pool has a call for it), `HealthInv` the flags and counters
of the nodes. On top of these:

* `WritesInv`: the writes made, and those abandoned invocations may still make, were
  paid for by an interruption, but for one;
* `TriesInv`: every attempt a job has made failed on each of its nodes in each round,
  and what the current one has not failed in is ahead of its two loops (`Ahead`), whatever
  nodes drop out of the pool in the meantime;
* `RecordsInv`: how far the recording of a failed job is, and what is there by then.

About the parts of the back office:

* `NoncesAddUp`: each nonce stored is in the row, was taken by a request, or is lost;
  a cardinality of requests changes by one at a time (`OneInOrOut`);
* `NonceInv`: nonces given are no newer than the last one made, those about to be
  stored were never given, and a nonce that has logged in is no longer in the row of
  its wallet, nor will it be again;
* `DeskInv`: until a removal, a number about to be given is the next one or taken by
  now. That numbers have no gap is part of it, as the count of the rows is the highest
  number only then. A request that found another row than its client saw did so because
  that one is gone, and as ids are not reused it stays gone;
* `RotationInv`: the healthy nodes sit on a circle, and the index went round it a
  number of times and then from one place to another (`Rounds`). A node's place is the
  number of healthy nodes before it; that places and indexes correspond is proved by
  counting. `ReportsInv` relates a report to the cursor it read and to the head there
  was when the request came in, not to where the cursor is now;
* `OwnInv`: of a millisecond with one sending there is one sender, its file is empty
  before it writes and its own after. `NotesAreTrue` says that what a sender is about
  to record happened.

`PartsBehaveAsAlone` shows that each behaviour of the five parts together is one of
each part, by the steps of the others, which leave its variables alone; every theorem
about a part thus holds of `MCBackOffice`. The types of the whole are derived so.

`AdminInv` counts: what an address outside the table has done, plus the requests it
still has past the guard (not those in it, which will be refused), is at most what it
had past the guard at its removals.

Only model-checked: the liveness properties (`CatchesUp`, `LoopSurvivesReprocess`,
`EveryEventSettles`, `EveryJobEnds`), which are out of TLAPS's reach with the provers
used. Every invariant and every action property of the passing runs is a theorem.
The theorems about `PresaleHandlers` are about its own specification, without the
API's writes; with these, `RepeatsAreAccounted`, `ClaimsLostOnlyByFaults`,
`LoopPassesOverFailuresOnly`, `MarkedPurchaseIsRecorded` and `LedgerMatchesMarkers`
are neither claimed nor checked: an edit or a removal breaks the last two, and the
others speak of markers the API does not touch.

The assumptions on constants are those of the modules, which TLC evaluates in the
runs: there is an event type, an attempt, a node; batch sizes are not zero;
amounts are natural numbers and events are of the kinds the listener handles; a
contract announces a schedule once (`SchedulesAnnouncedOnce`); sets of wallets,
hashes and requests are finite; no hash of a purchase is one of the test route's
identifiers, which begin with `0xTEST` (`CertificatesAssumption`); `"none"` is no
address.

## Plan

1. Done: the listener with its proofs and its refinement of `EventFeed`, `Reprocess`;
   the handlers with their proofs, the API's writes to the ledger; the pool and the
   queue; logins, reference numbers, certificates, administrators with their proofs,
   the health report.
2. Done: the theorems about the queue and the pool, the back office, the ledger's
   match with its markers, the buyers' records under the API's writes, and requests.
3. Next: `RepeatsAreAccounted`, `ClaimsLostOnlyByFaults` and
   `LoopPassesOverFailuresOnly` for `BuyerRecords`; an abstract specification of what
   a job promises, implemented by `EventQueue`.

## Not modelled

* The contract ABIs (`listener/abis/`), half of the lines of the implementation: data
  handed to the RPC library, of which the listener uses three event signatures.
* DTOs, decorators, interfaces, templates, module and application set-up
  (`main.ts`, `app.module.ts`), interceptors and the schema beyond the keys and
  defaults the models use: declarations without state of their own. With the ABIs
  they are more than two thirds of the code, which is why the share of lines mapped
  to definitions stays far below that of the services that change state.
* The pages of certificates, the text of mails, `EmailQueueService`.
* Queries and reports: they change nothing, and no other part depends on them. Those
  that put several queries together give sums of different moments.
* `MetricsService`, the statistics of the provider pool and its lazy initialisation.
* What the contract configuration and the support routes of the administration write
  (`OtherWrite` says only that they do), and the routes without a guard as a matter of
  who may call them.
* Uploads of payment proofs.
* Gap and reorganisation detection: stubs that return nothing; and reorganisations
  themselves, which no code handles. The chain of the models only grows.
* `scripts/migrate-deposit-dates.ts`, a one-off script for a MongoDB this service does
  not use, `prisma/seed.ts` beyond the first administrator, and `example-usage.ts`.
