# Verification of feishu-mentions-inbox

The service collects the messages of Feishu groups that mention an enabled and
authorized employee, keeps an inbox item per employee and message in its own
database (SQLite in one process, or PostgreSQL in several), and projects the
items, the settings, the users and the group coverage onto a Bitable document
that people read and edit. This directory holds TLA+ models of it, their TLC
configurations and TLAPS proofs. Source paths below are relative to `src/app`.

    tlc -config MCOutboxOneWorker.cfg MCOutbox.tla     check one run
    tlapm OutboxProofs.tla                             check the proofs of a module

`PROJECT.json` lists the runs, what each definition models (file and lines), the
mistakes each property is tried against, the hazards of the code and the theorems.

## The system

| Component | State | Operations | Talks to |
|---|---|---|---|
| Event queue (`*_repository.py`, `workers._event_loop`) | `incoming_events` | enqueue once per `event_key`, claim up to 20 (takeover after 5 minutes), finish, retry with backoff, recover on start, purge | webhook and long connection write it, the event worker reads it |
| Mention intake (`service.MentionProcessor`) | `source_messages`, `inbox_items`, `chats` | receive, recall, bot added / deleted / disbanded | Feishu (resolve a chat, list members), outbox |
| Outbox (`workers._flush_outbox`) | `outbox_jobs`, `bitable_mappings` | enqueue with the change, claim up to 100, coalesce, project, batch create / update, finish, retry, reconcile | every writer of projected data, Bitable |
| Status synchronisation (`api.bitable_status`, `workers._pull_bitable_changes`) | version, status, note and `updated_at` of an item | automation callback, periodic pull, purge, recall | Bitable and its automation, outbox |
| Group coverage (`workers.run_coverage_check`) | `chats`, `user_chats` | hourly scan, bot events, activation, expiry of an authorization, administrative marks | Feishu with the user's token, outbox |
| Enrolment (`api`, `bitable`) | `users`, tokens, OAuth states, Bitable role | enable, disable, start and callback of OAuth, grant, revoke | Feishu, Bitable, coverage |
| SQLite transactions (`sqlite_repository._transaction`) | one connection, one lock | begin immediate, commit, roll back | all writers of the process |
| Long connection (`long_connection`) | a child process | store an event, acknowledge or ask again, restart | event queue |

All of these run as tasks of one asyncio loop: every `await` of a request or a
transaction is a point where the others run, and on PostgreSQL several processes
share the tables. What is hard, and what makes each component correct:

* *Queue and outbox*: crashes between a side effect and its record, takeover of
  work that is still running, partly failed batches. Nothing accepted may be
  forgotten, and repeating it must be harmless.
* *Intake*: repeated and reordered events against users, recalls and retention that
  change the same rows. What was cleared stays cleared, what is done stays done, and
  nothing is stored from a chat that was quarantined and not classified since.
* *Status synchronisation*: two copies of one value, both of which are edited, with
  callbacks in any order. They must come to agree, on the later edit.
* *Coverage*: four writers with outdated answers of Feishu. No row may claim more
  than its chat allows, and the scan has to repair everything else.
* *Enrolment*: visits, administration and scans that overlap. Access must end with the
  enabling, one person at most may enrol through the bootstrap, and a consent that was
  withdrawn must be noticed.
* *SQLite transactions and long connection*: a task that is cancelled in the middle of a
  transaction. What is acknowledged to Feishu must be stored, and what is not stored must
  get another chance.

## Modules

| Module | What it is |
|---|---|
| `Projection` | abstract: a row moves forward to the item's version, what is recorded never exceeds it, both catch up |
| `Outbox` | the outbox and its workers for inbox items; implements `Projection` with one worker |
| `EventQueue` | the event queue and the loop that claims from it, for any kind of event |
| `Mailbox` | abstract: a message is stored once, items are opened once, only users and recalls change them, cleared texts stay cleared, expired ones are cleared |
| `Intake` | EXTENDS `EventQueue` with the handlers and the other writers of their tables; implements `Mailbox` |
| `StatusSync` | one item and its row, with callbacks, pull and projections |
| `Coverage` | chats and coverage rows, with scan, bot events, callbacks and administrator |
| `Enrollment` | accounts, tokens and access to the Bitable, with visits, administrator and scans |
| `Delivery` | the long connection and the SQLite transactions under it |
| `OutboxProofs` | theorems about the outbox with any number of workers |
| `OutboxAloneProofs` | theorems about the outbox with a single worker |
| `IntakeProofs` | theorems about queue and intake |
| `IntakeAloneProofs` | theorems about queue and intake with a single worker |
| `StatusSyncProofs`, `CoverageProofs`, `EnrollmentProofs`, `DeliveryProofs` | theorems about the module of that name |
| `MCOutbox`, `MCIntake`, `MCStatusSync`, `MCCoverage`, `MCEnrollment`, `MCDelivery` | instances for TLC |

Operators marked "Faulty:" are variants with a mistake the code could contain. No
specification uses them; `PROJECT.json` ("mutants") says which property finds each.

### Outbox

A job exists per item and version (`job[i][v]`), because the idempotency key names
both; it carries no data. A worker goes through `_flush_outbox`: `Claim` (with
`_coalesce_outbox_jobs`, which keeps one job per item), `FinishSuperseded`,
`ReadItem` and `ReadMapping` for each job in turn, then `CreateRows` and
`UpdateRows`, one request for all items, then `FinishJob` one by one. The failures
are at the places where the code catches something: `ProjectFails` (one job is
retried), `CreateFails` / `UpdateFails` (the request had its effect or not),
`FinishFails` (the whole group is retried, finished jobs included), `Abort` (the
loop logs and goes on, the batch stays in processing) and `Restart` (open() makes
every processing job failed, other processes' jobs too). `Change` stands for all four
writers of an item, which all increment its version and enqueue in one transaction.
A row is the version it shows. Claims take any claimable subset, so neither backoff
nor the limit matters, and a job in processing may be taken over at any moment.

Which of the claimed jobs of an item is kept is open (`Retained`): `created_at` has the
resolution of a second in SQLite and is the start of the transaction in PostgreSQL, so
it need not order the jobs by version.

### EventQueue and Intake

`EventQueue` keeps the order of arrival, the state of each event, whether its payload
is still there, and the batch each worker holds; the head of the batch is the event in
progress. `ClaimEvents` takes the oldest events (`Oldest`: ORDER BY created_at, LIMIT)
among the pending ones and any of those failed or processing, since whether their time
has come is left open. `Intake` gives the handler: `step[w]` is where it is between two awaits
(`start`, `resolve`, `direct`, `all`, `save`, and `confirm` for the bot-added event),
so that everything else may happen in between. `HandlerFails` may strike at any step,
finishing included. The row of the chat (`chat`, and `marked` for the administrator's
column) is written not only by the handlers: the scan's and the callbacks' listings of
chats (`ListUserChats`, `ListBotChats`) and the administrator (`MarkChat`) do so at any
time in the same process. It is `none` or `unresolved` as long as `needs_resolution` would be
true, then what Feishu said last, or `quarantined` between the bot's arrival and the next
answer. A request to Feishu is one step with the transaction that stores its answer,
because the answer may be any at any time. Retention is `Age`, the time limit reaching
the next event in order of arrival, and `Purge`, the transaction; message and event age
together. Constants choose who is mentioned, who listens to "everyone", whose
authorization comes and goes (`Fickle`) and what Feishu answers.

### StatusSync

Status and note are one value. Instead of versions and clocks, a state of the row says
whether its version is the item's (`current`) and whether it was written after the item
last changed (`fresh`): exactly what `update_inbox_item` compares. Every change of the
item makes all earlier states of the row neither. This is exact as long as the
service's and the table's clocks agree and no two timestamps are equal. Choices are
numbered, so that "the later edit" can be said; the code never reads the numbers. The
table's automation fires when the value changes, whoever wrote it, as
`docs/bitable-setup.md` tells the operator to set it up.

### Coverage

The rows `chats` and `user_chats` with the real case distinction of
`Chat.coverage_status`; requests of the scan and of the callback keep what Feishu
answered (`seen`, `seenOut`, `login[u].chats`, `login[u].out`) until a later transaction
uses it, as the handler of a bot-added event keeps the answer of `ResolveChat` (`adding`).
A chat may turn external or internal at any time (`outside`, `ChatTurns`), which no event
announces. `ReplaceChats` takes `external` from the listing of one user and writes the rows
of that user only, as the code does. Bot events are an
unordered set, since retries reorder them. `SetBotChats` enqueues nothing, as the code
does; `shown` is the table. A projection is one step here, its own steps being the
business of `Outbox`.

### Enrollment

`known`, `enabled` and `tokens` are the table `users` (`tokens[u] = 0` says that `u` is
not authorized: the code changes both in the same statements), `role` and `doc` the two
member lists of the Bitable, `consent` what Feishu knows of each token. `call[x]` is a
request between two awaits of its handler. A callback goes `Callback`, `CheckAllowlist`
or `BootstrapRead` and `BootstrapEnable` (under `bootstrap_lock`, which is modelled by
the step "first" that one call at most may be at), `GrantDoc`, `GrantRole`, `Activate`;
if the user is not enabled any more at `Activate`, it goes on to `RevokeRole` and
`RevokeDoc`, as `_disable_allowlist_user` does after `Disable`. `Enable` is the
administrator's, `CheckSolo` and `EnableSolo` the pilot's under `single_user_lock`.
A scan is followed through one user: `ListActive`, `RefreshToken`, `StoreTokens`,
`ListChats`, `MarkExpired`. `mode` is how the process was started: with its workers
("full"), for the first user without the role ("bootstrap") or with it ("granting"), as a
pilot with or without workers ("pilot", "offline"). With the role ("full", "granting") the
document is granted as well, to everyone but the first user: from "bootstrapped" a callback
goes straight to `Activate`. `CallFails`, `ScanFails` and
`Restart` may strike between any two steps. The history variable `owed` names the users
for whom a failure was reported since they were last disabled: of them the code promises
nothing until the administrator tries again.

### Delivery

`lock` is the `asyncio.Lock` of the repository, `pc[c]` what a task waits for in
`_transaction` (`Acquire`, `Begin`, `Write`, `Commit`, `RollBack`), `txn`, `written` and
`stored` the connection and the database. aiosqlite hands statements to a thread; a task
that is cancelled does not wait any longer, but its statement is executed (`left`,
`Straggler`). `TimeOut` is `asyncio.timeout(2)` around `persist_event`, the only thing
that cancels a transaction while the process goes on: while the lock is awaited nothing
happens, in the body the transaction is rolled back, in BEGIN and COMMIT the statement is
left behind. `BeginBusy` and `WriteFails` are failures with and without a rollback, as in
the code, where BEGIN is outside the `try`. `child`, `event` and `acked` are the child
process, the event it has handed over and the answers it passed on to Feishu.

## What the runs check

| Run | Instance | Result |
|---|---|---|
| `outbox_one_worker` | 2 items, 2 versions, 1 worker, 2 failures, any job order | no projection lost, table fresh when no job is left, a second row per item only after a failure, implements `Projection` with its liveness |
| `outbox_two_workers` | 1 item, 3 versions, 2 workers, 1 failure, any job order | no change is dropped before something fails, one row per worker and failure at most |
| `outbox_stale_overwrite` | 1 item, 2 versions, 2 workers, no failure | **violated**: the table can stay behind for good |
| `intake_one_worker` | message, recall, bot added; the chat's row written by others; batches of 2; 1 failure | nothing stored between the bot's arrival and the next classification of the chat, every event ends and stays ended, a recall handled in its turn clears its message, implements `Mailbox` with its liveness |
| `intake_two_workers` | 2 users (one comes and goes), mention of all, 1 failure | mentions are not lost, implements the safety part of `Mailbox` |
| `intake_recall_first` | one failed attempt, ordered delivery | **violated**: recalled text is stored |
| `sync_settles` | 2 choices of a value, 1 failure or change of the version only | a row behind is due to be written, at rest only the newest edit can wait, item and row agree once it is calm, a lone edit arrives |
| `sync_loop` | 2 edits | **violated**: item and row chase each other for ever |
| `coverage_scan` | 1 user, 1 chat, 3 changes, 1 failure | covered rows are of chats with the bot in them, not disbanded, not marked; the scan repairs the rows and the table |
| `coverage_expired` | 2 users, 1 change, 1 failure | **violated**: expired rows become covered without authorization |
| `enrolment` | 1 user of a full or 2 of a local installation, 2 requests, 2 scans, 2 tokens, 1 failure | access ends with the enabling, a bootstrap and a pilot enrol one user, disabling takes effect, a used token is replaced by its renewal, withdrawn consents are noticed |
| `delivery` | 2 events, 2 other tasks, 2 timeouts, 2 failures | what is acknowledged is stored; a transaction is stuck only through a BEGIN given up, until a restart; without one, what is repeated is stored |

Two more configurations show disagreements 4 and 7 below and are checked by hand:
`tlc -config MCStatusSyncLostEdit.cfg MCStatusSync.tla` and
`tlc -config MCDeliveryStuck.cfg MCDelivery.tla`.

The bounds. A projection goes wrong through the interplay of an older and a newer
version and one failure between them: two versions and two failures per item cover
every such pair, and three versions with two workers let a middle one be superseded.
Two items are needed where requests carry several rows (`outbox_one_worker`). In the
intake, one message with its recall and the bot-added event reach every pair of handlers
on the same rows; batches of two leave an event behind when a batch is abandoned; one
failure repeats the message, the recall or the bot event (with two, `intake_one_worker`
passes as well, in more than five minutes). For the status
the smallest conflict has two choices, and loops already appear with them. Coverage of
different chats is independent apart from the answers that list several, and
`CoverageSound` proves the safety part for any number of users and chats; three changes
make the bot join, leave and join with late events, or the chat turn external in between.
Two users are more than TLC can do in five minutes, so that a scan which fails for one user
and leaves out the next is not exercised. In enrolment the conflicts are
between two requests, or a request and a scan, of one user (access) or of two (pilot,
bootstrap); a consent and its renewal make a token old, a third would only make it older.
Two scans overlap because the administrator may start one. `EnrollmentProofs` covers any
number of all of these.

Fairness. `WF` of a worker's loop: `_event_loop`, `_outbox_loop`, `_coverage_loop`,
`_reconciliation_loop` and `_retention_loop` run for ever, catch every exception and
sleep a bounded time. In `Enrollment` a handler and a scan that have begun go on (`WF`),
and every user who is active again and again is visited again and again (`SF` of
`ListActive`), as each scan lists all of them. In `Delivery` the lock is given in the
order of requests (`SF`), the thread works, and Feishu repeats what is not acknowledged.
Nothing is assumed of users, of Feishu's deliveries, of bot events
being handled in the coverage model, or of callbacks. Failures are bounded, so "retried
until it works" is what the liveness properties say; a handler that always fails is
retried for ever by the code. Liveness is checked with one worker only: with several,
a stalled worker may keep a job that others may but need not take over.

## Where code and documents disagree

1. *Stale overwrite* (`outbox_stale_overwrite`, `workers.py:156`). Two processes on
   PostgreSQL: W1 reads version 1 of an item, the item changes, W2 projects and
   records version 2, W1 writes its row. `synced_version` stays 2, the row shows 1, and
   `reconcile_outbox` compares only `synced_version`. `docs/architecture.md:111` offers
   several processes.
2. *Recall before the retried message* (`intake_recall_first`). `recall_message`
   ignores a message that is not stored, and the retry then stores the recalled text
   with an open item (`docs/architecture.md:107`).
3. *Synchronisation loop* (`sync_loop`). An outdated projection written after the item
   changed is taken for an edit, and its projection can do the same to the next
   (`docs/bitable-setup.md:83`, `docs/acceptance-checklist.md:10`).
4. *Lost edit* (`MCStatusSyncLostEdit.cfg`, `sqlite_repository.py:576`). Of two edits
   whose calls arrive in the wrong order, the later one is a no-op that leaves the version
   alone, and the earlier one then matches; the document says that repeated and reordered
   callbacks do not overwrite a later status (`docs/design.md:355`).
5. *Expired coverage* (`coverage_expired`). Bot events and the scan rewrite coverage
   rows from the chat alone, users without authorization included
   (`docs/architecture.md:105`).

Two more of another kind:

6. *Tokens of a disabled user*. `docs/acceptance-checklist.md:39` asks that disabling
   clears the tokens. `update_user_tokens` (`sqlite_repository.py:766`,
   `postgres.py:678`) does not look at `enabled`: a scan that has renewed a token when the
   user is disabled stores it again and sets `authorized`, and enabling the user later
   makes it active on the earlier consent. `Enrollment.StoreTokens` does the same, and
   `enrolment` shows what holds all the same.
7. *A transaction nobody ends* (`MCDeliveryStuck.cfg`). `_transaction` runs BEGIN outside
   its `try` (`sqlite_repository.py:139`). When the receiver gives up during BEGIN, the
   transaction is opened and never ended; every later BEGIN fails, nothing is stored until
   the process is restarted, and the redelivery that `long_connection.py:114` awaits is in
   vain. One timeout is enough (`RedeliveryStores`). The run `delivery` shows how far it
   goes: nothing but an abandoned BEGIN leads there (`StuckByBegin`), nothing but a restart
   out of it (`StuckForGood`), and an event that is repeated is stored in all other cases
   (`StoredUnlessStuck`).

And what the code does not promise, so that the properties stop short of it:

8. *Discarded renewals*. Two overlapping scans list the same tokens, one renews them, the
   other is refused and `mark_user_auth_expired` forgets the renewed ones (`workers.py:249`),
   without any failure: the user has to authorize again. `UsedTokensReplaced` says that the
   renewal is stored, not that it lasts.
9. *A chat that turns external*. `replace_user_chats` (`sqlite_repository.py:885`) sets
   `chats.external` from one user's listing and leaves the rows of the other members covered
   until `set_bot_chats` or their own scan; `CoveredMeansPresent` leaves `external` out. The intake
   looks at the chat once (`service.py:48`): when a listing or the administrator closes it
   before `save_message_targets`, the message is stored all the same, and a listing asked
   for before the bot joined lifts the quarantine. `NoStoreWhileQuarantined` speaks of the
   time from the bot's arrival to the next classification, right or outdated.
10. *A lost projection with several workers*. A worker takes over the job of an older version
   that another one is still projecting, and retains it while it supersedes the job of the
   newest, as `created_at` need not order the two; the other worker finishes the retained job;
   if the first then fails, no job is left, and `reconcile_outbox` cannot add one, as its
   idempotency key is taken. `LostOnlyByFailure` says that it takes the failure;
   `NoLostProjection` holds with one worker.

## What is proved

For every number of items, workers, users, chats, versions and failures:

* `OutboxProofs`: `TypeCorrect`, `LossNeedsFailure` (`LostOnlyByFailure`, with the jobs of
  an item in any order) and `DuplicatesNeedWorkers` (`DuplicatesBounded`).
  `LostOnlyByFailure` is not inductive: that some job is left says nothing of what it will
  do. The invariant `Inv` says that until something fails the job of the *current* version
  is unfinished while the table is behind, or a worker holds a job of the item and has not
  read an older version (`NewestCarried`), because what a worker supersedes it carries on
  itself (`HeldJobsKnown`), what is sent has been read (`PreparedRead`), no job is ahead of
  its item (`NoFutureJob`), and a group that is being finished has recorded what it no longer
  has left (`GroupRecorded`). TLC has checked `Inv` on the instance of `outbox_two_workers`.
  Rows are counted against the workers that may still create one (`MayCreate`): creating a
  row takes the worker out of this set, and only a failure brings it back, since a worker
  leaves its finishing loop with every row of its group recorded (`RecordsKept`). A row
  more than workers and failures would need a place nobody has (`RowsInv`).
* `OutboxAloneProofs`, for a single worker (`Alone`) and any order of `created_at`.
  Alone, a worker knows the table between its reading of an item and the end of the job.
  `RowInv`: the row shows something between what is recorded and what was read, what is
  prepared is addressed to the row on record, what is about to be recorded was written.
  From it `ProjectionSafe` (every step is a step of `Projection` or a stutter).
  `JobInv`: while an item is behind, a job lives that nobody has read an older version
  for, and jobs are superseded only while the one retained is unfinished. From it
  `NothingLostAlone` (`NoLostProjection`) and, with `RowInv`,
  `FreshWhenQuiet` (`QuiescentFresh`). `RowsCounted`: without a record an item has no
  more rows than there were failures, unless one is about to be recorded. From it
  `DuplicatesCostFaults` (`DuplicatesNeedFaults`). With several workers
  all but the recorded version may go wrong: the row goes back (`outbox_stale_overwrite`),
  and two workers may each create one.
* `IntakeProofs`: `TypeCorrect`; `MailboxSafe` (`RefinesMailboxSafely`, with any number
  of workers): every step of handlers, users and retention is a step of `Mailbox` or a
  stutter. `MentionsKept` (`NoMentionLost`, when the chat is internal whenever Feishu says
  what it is and the administrator does not mark it):
  a worker may hold an event whose payload was purged or that another worker has
  finished, so the invariant `MentionInv` says of every place where a payload or an event
  ends, in the table and in every worker's hands, that the message is excused (expired,
  the bot added again, or every user it mentions has an item), and what a handler has
  found by the step it is at. `QuarantineHolds` (`NoStoreWhileQuarantined`, with one
  worker): from a handler's look at the chat to its storing the chat is classified, as
  internal or, by then, as external; open it need not be any more.
* `IntakeAloneProofs`, for a single worker (`Alone`). `OverIsOver` (`EndedStaysEnded`):
  the worker holds each event once and only such as are in processing
  (`HeldInProcessing`), so `retry_event` never touches one that is over; with two workers
  it does. `RecallsInOrder` (`RecallInOrder`), the positive side of disagreement 2: as
  long as nothing fails, the worker holds all that is in processing, in the order of
  arrival, and the rest of the queue waits in that order (`QueueInOrder`), so a message
  is over or past retention when its recall starts; from then to the end of the recall
  the step it is at says that the text is gone (`RecallRan`, `RecallDone`). One failure
  makes it false (`intake_recall_first`).
* `EnrollmentProofs`: `TypeCorrect`, `AccessTakenBack` (`NoAccessLeft`), `BootstrapOnce`
  (`OneFirstUser`), `PilotAlone` (`OneIdentity`) and `StaleTokensReplaced`
  (`UsedTokensReplaced`). A refresh token works once, so a renewal must be stored, whatever
  happens to it afterwards:
  `TokenInv` says whose each token is (`Owned`), that a visit or a scan alone holds a
  token nobody has stored yet (`VisitsAlone`, `ScansAlone`), and that a used one which is
  still stored has a scan underway to replace it (`Underway`). `AccessInv` says which of the two
  lists a handler at work will still revoke, the role before the document, and `LockInv`
  that what the holder of a lock has read is still so when it writes.
* `DeliveryProofs`: `AcknowledgedIsStored` (`AckedIsStored`), `StuckStays`
  (`StuckForGood`) and `OnlyBeginSticks` (`StuckByBegin`). Who is in a transaction
  holds the lock, and no statement is left behind then (`HolderInv`), so that a commit
  which returns to the receiver has stored its insertion.
* `StatusSyncProofs`: `TypeCorrect`, `NeverSilentlyBehind` (`BehindIsDue`), by the
  additional fact that a worker holding an outdated item implies a waiting job
  (`OutdatedReadIsDue`), and `AtRestOnlyEditsWait` (`OnlyLastEditWaits`): a row of the
  item's version differs from the item by the newest choice only (`CurrentDiffersByEdit`).
  That needs to know what the worker has read (`CurrentReadIsItem`) and that a choice has
  one value wherever copies of it travel, in callbacks, the pull's list, the worker's
  hands (`OneValuePerNumber` over `Copies`).
* `CoverageProofs`: `TypeCorrect` and `CoverageSound` (`CoveredMeansPresent`).
  `replace_user_chats` rewrites a chat and the rows of a single member, so the invariant
  adds that present members have rows (`ActiveHasRow`), which every writer that takes a chat
  away then reaches. What `replace_user_chats` changes of a chat is `external` alone, and the
  property does not speak of it.

The assumptions are the named `ASSUME`s of the constants (bounds are numbers, the workers
of an outbox are finitely many) and, where the theorem says so,
one worker, or `Answers = {"internal"}` without administrative marks. Only model-checked: all liveness (fairness
and ENABLED are beyond the prover), and with it the liveness parts of both refinements
(`RefinesProjection`, `RefinesMailbox`), `EventsEnd`, `StoredUnlessStuck`,
`CalmConverges`, `LoneEditArrives`, `ScanRepairs`, `DisableTakesEffect` and
`WithdrawalNoticed`. That two workers keep `NoLostProjection` is not claimed: it does not
hold.

## What is not modelled

Cryptography, formatting, paging, setup and provisioning, because they are sequential
or pure; the in-memory repository, a test double without queue and transactions. The
settings flag of a user and the binding of the users table's rows to users
(`_pull_bitable_settings`, `bitable_settings`): one value per row with a poll and a
callback, a smaller copy of `StatusSync`. The signed states of an OAuth visit: consumed
by one statement. The PostgreSQL pool and its isolation levels: each transaction is
atomic here.

In what is modelled: clock skew and equal timestamps, requests that take effect after the
service has given up on them, rows deleted in the table,
permanently failing events and jobs, more than one user in a scan of
`Enrollment`, configuring the role between two starts.

## Plan

In the order of importance. Done: 1 to 6 and 8.

1. `Projection`, `Outbox` and its proofs: every other part relies on the outbox.
2. `EventQueue`, `Mailbox`, `Intake`: what is stored, and what is never stored again.
3. `StatusSync` and its proofs: two writers of one value.
4. `Coverage` and its proofs: four writers of one table.
5. `Enrollment` and its proofs: access, consent, bootstrap and pilot.
6. `Delivery` and its proofs: acknowledged implies stored, and the open transaction.
7. Settings and users tables: checkbox against projection. Pure helpers against reference
   definitions: coalescing with equal times, backoff.
8. Proofs about `Intake`, and about `Outbox` and `Intake` with one worker.
9. Rows deleted in the table: one such row and the batches it is in. A coverage run with two
   users on a smaller world, for the users after a failed one.
