# Aster Bridge in TLA+

Aster Bridge runs on the user's computer and lets ordinary mail apps use an
Aster account.  It speaks IMAP, SMTP, POP3, JMAP and CardDAV on the loopback
interface, keeps a SQLite cache of the account, encrypts and decrypts mail, and
talks to the Aster API over HTTPS.  The core is the Rust crate
`src/src-tauri/crates/aster_bridge_core`; a command line client and a Tauri
desktop shell start and stop it.

This directory holds TLA+ modules for the parts of the bridge in which
concurrency, failure and ordering decide whether it is correct, the TLC
configurations that check them, and TLAPS proofs.  Paths below are relative to
`src/src-tauri/crates/aster_bridge_core/src/`.

## The system

### Inventory

| Component | State | Operations | Interacts with | Hard behaviour | What makes it correct |
|---|---|---|---|---|---|
| Outbox (`outbox.rs`, table `outbox` in `db/mod.rs`) | one row per queued mail: status, attempts, last attempt | queue, claim, mark sent, bump, mark failed, reset stale, retry by the user, notice | SMTP session, API, Sent folder of the cache, runtime | lost answers, crashes between claim and mark, a row meeting the copy of another submission, failing writes | no mail goes out twice, none that was accepted is lost, every row ends |
| SMTP session (`smtp/server.rs`) | greeting, authentication, envelope, data | EHLO, STARTTLS, AUTH, MAIL, RCPT, DATA, RSET | outbox, API | limits, oversize DATA, reset of the envelope | an envelope never mixes two mails |
| IMAP session (`imap/server.rs`) | selected mailbox, the list of UIDs the client knows, flags it has seen | SELECT, FETCH, STORE, COPY, MOVE, EXPUNGE, APPEND, IDLE | cache, API, other sessions through the cache | stale views, sequence numbers, dropped connections | numbers mean the same to both sides; a change is never lost |
| Flag pushes (table `pending_flag_push`, `imap/server.rs`) | one row per message and flag | record, push, clear, count, give up | IMAP, sync pass, API | unordered calls, late calls, pass in between | cache and Aster become equal; only what was asked is pushed |
| Append and import (`imap/append.rs`) | import jobs, closer slot, recent sends | APPEND, import job steps | API, cache | retry after an ambiguous answer | one message per APPEND |
| IMAP heartbeat (`imap/heartbeat.rs`) | shared writer | pump, keep-alive line | IMAP session | a write cut off in the middle | replies are never interleaved |
| UID map (`db/mod.rs`) | UID per message and folder, next UID, validity | assign, copy, move, forget | IMAP, sync | concurrent assignment | UIDs ascend and are never used again |
| Sync pass and loop (`sync/poller.rs`) | page cursor, pins, back-off, triggers | list, reconcile, prune, push | cache, API, JMAP broadcast | stale listings, triggers while running | the cache converges to the server |
| History (`sync/poller/history.rs`, `db/history.rs`) | sweep position, members of each listing, prune queue, retries | sweep page, retry, prune departed | cache, API, sync pass | failing pages, crashes in the middle of a sweep, moves between listings | no message is lost sight of; old mail arrives, deleted mail leaves |
| JMAP change log (`db/mod.rs`, `jmap/methods/*`) | state per type, log rows | record, changes, query, set | sync, IMAP, push streams | paging, trimming, batches | a client that follows the log has every change |
| JMAP transport (`jmap/server.rs`, `sse.rs`, `ws.rs`) | subscriptions | session, request, upload, push | change log | lagging receivers | a change is always followed by a push |
| JMAP submission (`jmap/methods/submission.rs`) | none | send | API | ambiguous time-outs | nothing is sent twice |
| POP3 (`pop3/server.rs`) | maildrop lock, marks | PASS, RETR, DELE, RSET, QUIT | cache, API | messages moved meanwhile, partial deletion | only marked messages go, and +OK means they went |
| CardDAV (`dav/*`) | listing kept for seconds, write lock | GET, PROPFIND, PUT, DELETE, REPORT | API, other clients of the account | listings overtaken by writes, lost answers, stale preconditions | a name means one contact; a precondition is about what the account holds |
| Token refresh (`auth/session.rs`, `runtime.rs`) | access and refresh token, failure counts | refresh, early request, sign in again | every API call | concurrent refreshes, revoked device | the newest tokens are never overwritten; the session recovers unless the device is revoked |
| Runtime and shutdown (`runtime.rs`, `shutdown.rs`) | task handles, closed flag, work lock | start, stop, stop_and_wait, is_drained | everything | requests and blocking jobs that outlive a stop | nothing touches the data after a stop was waited for |
| Connection limits (`conn_limit.rs`) | permits, sign-in clock | acquire, guard, bound | every listener | deadline against sign-in | |
| Database file (`db/mod.rs`) | `bridge.db`, its encrypted and plaintext copies, write-ahead logs | open, encrypt, restore, quarantine | runtime | a crash between two renames or inside an overwriting, failing renames and deletions | no row is lost, nothing stays in the clear |
| Sign-in and sign-out (shell `main.rs`, CLI `login.rs`, `logout.rs`) | owner of the cache, clear marker, device secrets | sign in, sign out, clear, forget | cache, secrets | crashes and failures between the steps, stored secrets that are refused | nobody sees another account's mail |
| Secrets and identity (`secrets.rs`, `auth/*`) | sealed files, app passwords | seal, reseal, verify | runtime | crash between two writes | |
| Cryptography (`crypto/*`) | keys, ratchets, recipient pins | encrypt, decrypt, pin | API | pin read and written by two sends | |
| Folders and tags (`folder_ops.rs`, `tag_ops.rs`) | cached tree | create, rename, delete | API, IMAP, JMAP | checks against a stale cache | |
| Command line client (`aster_bridge_cli`) | instance lock, control endpoint | serve, outbox, login, logout | runtime | two instances, timed-out requests | |
| Desktop shell (`src/src-tauri/src`), settings window (`src/src`) | window state | start, stop, settings | runtime | | |

`PROJECT.json` lists the same components with their sources and says of each
how much of it is modelled; its list of hazards names the lines where each hard
behaviour bites and the properties that would catch it going wrong.

### Interactions

Mail apps reach the bridge through the protocol servers, which read and write
the cache and call the API.  A failed send goes from the SMTP session through
the table `outbox` and a channel of triggers to the outbox worker.  A changed
flag goes from IMAP through the table `pending_flag_push` to tasks that push
it and, later, to the sync pass.  The sync pass writes what the API lists into
the cache, records the change in the JMAP log and wakes the IMAP and JMAP
streams.  Every task holds a guard of the runtime's work lock, on which a stop
waits.  Tasks share no memory but the session, a few process-wide statics and
SQLite, each of whose statements or transactions is atomic; the interesting
interleavings are those between two of them.

## The modules

| Module | What it is |
|---|---|
| `Outbox` | outgoing mail from the end of DATA to the API, with stops and crashes |
| `MailPromise` | what the outbox promises, without worker, network and database |
| `FlagSync` | read marks and stars of a message, between mail apps, cache and API |
| `MailboxView` | UIDs, sequence numbers and the mailbox an IMAP client believes it sees |
| `SyncPass` | one pass over all folders, and what it may take for deleted |
| `HistoryIndex` | the indexing of mail older than the newest of each folder |
| `ImportJob` | APPEND and COPY to the server, and the job they share |
| `JmapLog` | the JMAP change log and a client that follows it |
| `JmapPush` | how JMAP clients hear that there is a change |
| `Drain` | stopping the runtime so that nothing touches the data afterwards |
| `TokenRefresh` | the session's tokens, their refresh and the refused device |
| `StoreOpen` | opening the database and encrypting an older one |
| `CacheOwner` | whose mail the cache holds, over signing in and out |
| `ContactStore` | CardDAV: contacts apps, the listing, the write lock and the account |
| `Maildrop` | POP3: a session, its marks and QUIT |
| `OutboxProofs` | theorems about `Outbox`, and that it implements `MailPromise` |
| `FlagSyncProofs`, `ContactStoreProofs` | theorems about `FlagSync`, about `ContactStore` |
| `JmapProofs` | theorems about `JmapLog` and `JmapPush` |
| `ServicesProofs` | theorems about `Drain`, `TokenRefresh` and `ImportJob` |
| `StorageProofs` | theorems about `StoreOpen` and `CacheOwner` |
| `SyncProofs` | theorems about `SyncPass` and `HistoryIndex` |
| `MailboxProofs` | theorems about `Maildrop` and `MailboxView`, and the lemmas on lists they share |
| `MC...` | the instances TLC checks, one `.cfg` per run |

Six `MC` modules check several components *side by side* (`MCServices`,
`MCStorage`, `MCMailboxSides`, `MCSyncSides`, `MCFlagSides`, `MCWriteSides`): a
variable `active`, chosen in the initial state, says which one a behaviour
moves, and the others stay in an initial state in which nothing fair is
enabled.  These components share no state with each other in the models, so
this is the sum of their state spaces and not the product, and one instance
answers for all of them.

`PROJECT.json` maps every definition to the lines it models.

### Outbox

*State.*  `rows` is the table `outbox`; `cooling` says of which rows
`last_attempt_at` is too recent; `synced` and `appended` are the Message-IDs in
the local Sent folder, by where the copy came from.  `smtp` is the point each
mail app's DATA has reached, `call` the API call each caller waits for,
`workerRow`, `todo`, `triggers` and `noticing` the worker's place in
`run_outbox_loop` and `process_one`, `recent` the in-memory `RECENT_SENDS`.
`server`, `strays` and `copies` are the API: what it knows of a
`client_send_id`, requests given up on that may still arrive, and mails sent.

*Actions.*  `Submit`, `DirectSent`, `DirectQueued`, `DirectQueueFails`,
`DirectRejected` and `Reply` are the end of DATA in `handle_session_inner`;
`Tick`, `TakeTrigger` and `VisitRow` the worker's loop (each claims and checks
the Sent folder through `ProcessOne`); `RowSent`, `RowPutBack`, `RowFailed` and
`ReportFailedSend` what it does with the answer; `RequestRetry` the user's
retry; `Stop` and `Start` end the tasks wherever they are and run
`outbox_reset_stale_sending(0)`.  A call may fail before it is sent, arrive,
be answered, time out and still arrive later; a write to the table may fail,
which the code only logs.

*Abstractions.*  A submission makes at most one row and names it.  The digest
that is the idempotency key is the submission itself (`Key`), the same for all
submissions of a message that carries a Message-ID.  Rows of one tick are
visited in any order.  Back-off is a Boolean (`cooling`) that time clears.

*Properties.*  `AtMostOnce`, `AcceptedNotLost`, `SentMeansDelivered`,
`NoStrandedRow`, `FailedStaysPut`, `RowsSettle`, and the refinement
`PromiseKept`.

`outbox_safe` has one mail with Message-ID, 2 submissions, 1 stop, 1 retry, 1
failing write and 2 attempts; `services` one without Message-ID, 1 submission,
2 stops, 1 retry and 1 failing write, with fairness; `outbox_false_sent` takes
the log line "already delivered" at its word (see Divergences).  Two submissions
are what it takes for one mail to be handed over again while the first is under
way; one stop separates any two steps; two attempts make the difference between
a failure that is retried and the last one.  Several mails meet only in the
worker, which has one row at a time; two submissions of one mail queue for it as
two mails do, and the proofs cover any number.

*Fairness* (`services`): a handler or the worker goes on when it can
(tokio polls its tasks), a call is answered or times out (`reqwest` has a
time-out), the interval ticks, time passes, and somebody starts the bridge
again after a stop.  Nothing is assumed of the mail app, of the user or of the
API ever accepting anything.

### FlagSync

*State.*  `local` is `message_cache.flags` of one message, `pending` its rows of
`pending_flag_push`, `remote` the flags at Aster.  `conn`, `jmap`, `task` and
`pass` are the places of IMAP sessions, `Email/set` requests, push tasks and the
sync pass, with what each has read so far; `late` holds calls given up on that
may still arrive.  `wish`, `asked` and `web` are history for the properties.

*Actions.*  STORE is read, write, record (`StoreReads`, `StoreWrites`,
`StoreRecords`): the code awaits the network between any two, and `ConnDrops`
ends the handler there.  `Email/set` is `JmapReads`, `JmapCalls`, `JmapWrites`.
A push is `PushChecks` (the row is dropped as superseded when the cache no longer
has its value), `PushCalls`, `PushSucceeds`, `PushFails` with rate-limit retries;
the sync pass first pushes what is pending (`PassStarts`, `PassPushes`), then
lists and reconciles: the optimistic write `PassWritesIfUnchanged` and, when it
fails, `PassReadsAgain` to `PassWrites`.  `WebSets` is the user in another client.

*Properties.*  What reaches Aster is what some mail app asked for
(`PushesWhatWasAsked`, run `storage`); no row is pending for ever
(`PendingSettles`), and cache and Aster become and stay equal (`FlagsConverge`,
both in `flags_history`).  `flags_kept` checks the sentence of the changelog on
flags and finds it violated; see Divergences.  One message is enough because
neither the table nor any step relates two; `storage` has two flags, one set and
one clear at first, because there a command that names one must not touch the
other.  One push slot beside the poller is two concurrent pushers.  Changes, drops and stops are bounded by
the constants `MaxStores`, `MaxWeb`, `MaxDrops` and `MaxFlagStops`, large enough
in each run for a change during every phase of another.  (In `storage` no connection
is lost: with a single STORE that is a handler that takes no further step.)

*Limits.*  The indexing of older mail (`index_page` in `sync/poller/history.rs`)
also writes the flags of its listings into the cache, with
`set_message_flags_if_unchanged` but without the look at pending rows that the
sync pass takes first; the model has the sync pass only.

*Fairness*: handlers, push tasks and sync passes go on and their calls end; time
passes; and a listing that is asked for again and again is answered again and
again (strong fairness of `PassLists`), without which nothing could converge.

### MailboxView

*State.*  `folder`, `body`, `deleted` are the rows of `message_cache`; `uid`,
`uidnext`, `validity` the table `uid_map` and the keys `uidnext:<folder>` and
`uid_validity` of `sync_state`.  `srv` is the account at Aster.  `conn` is
`ImapConnection` (selected folder, `uids`, `read_only`, `copied_out`) with the
UIDVALIDITY the client was given; `cmd` is the point a command has reached and
the targets it has read; `names` is what the client makes of the lines it was
sent: the message it believes to be at each number.  `sync` and `dirty` are the
pass, `bell` the change that waits in the receiver of an IDLE session.

*Actions.*  Every call of `Database` is one step, every call of Aster another,
and between them other sessions, other clients and the pass take theirs.  SELECT,
NOOP, STORE, EXPUNGE, CLOSE, MOVE, APPEND, COPY and IDLE are split there:
`Store`/`StoreWrite`; `Expunge`, `ExpungeServer` per target, `ExpungeCommit`;
`Move`, `MoveServer`, `MoveCommit`; `AppendServer`, `AppendUpsert`,
`AppendAssign`, `AppendFinish`; `Idle`, `IdleSubscribe`, `IdleWake`, `IdleDone`.
The pass inserts or moves a row in one step and assigns its UID in the next
(`SyncFolder`, `SyncUpsert`, then `SyncAssign`), gives a message whose headers or
attachments were completed a new UID (`SyncRenumber`), prunes, and rings if it
has recorded something.  `Repair` is `repair_cache`.

*Properties.*  `SeqNamesMessage`: the number a client counts and the UID the
session keeps for it never come apart.  `NumberingSound`: a UID is not shared and
not given twice.  `TouchesOnlyTargets`: a command that waited for Aster changes no
message but those it read before.  `ViewsSettle`: a client that asks comes to see
what Aster has.

`mailbox_view` starts in two ways: one session with a stored and another message
and 2 events, or two sessions with two stored messages and no events, which
write to the mailbox and do not idle (what IDLE reports is what NOOP reports,
and the lone session has it).  `mailbox_sync` has one session, 1 event and
fairness; `mailbox_moved` and `mailbox_repair` one session and 1 event, and are
violated (see Divergences).

An event (`MaxOps`) is an arrival, a move or deletion elsewhere, a MOVE, APPEND or
COPY, a renumbering, a refetch or a repair.  Two make a message leave and another
come while a command waits, which is what giving a UID again needs; two stored
messages with two sessions make one report several EXPUNGE lines for what the
other did.  Between events the sessions issue commands without bound.

*Limits.*  UID 0 stands for a row that was listed before its UID was assigned;
what a client does with a number it was given for such a row is outside
`SeqNamesMessage`.  SELECT reads UIDVALIDITY and the listing in two calls of the
database, which the model takes in one step.  Left out: listings of Aster that are stale while the pass
reads them, the deadline of APPEND after which the import goes on by itself, the
removal of the first copies when a later message of a COPY fails, the pin that
keeps a new APPEND from being pruned, FLAGS reports in IDLE, and connections that
end in the middle of a command (a new one starts as every session does).  That two
UIDVALIDITY values differ is assumed (they are seconds of the clock).

*Fairness* (`FairSpec`): passes repeat and reach every message, a command that has
begun goes on, and a client with an open mailbox asks now and then (strong
fairness of `Noop`; the client may do anything in between).

### Drain

*State.*  `task` and `guards`: where each worker, listener, request and blocking
job stands and who holds a `WorkGuard`; `queued`, the writers waiting for the
lock; `closed`, the watch flag; `handles`, `stopping`, `aborted`, the lists of
`Inner`; `caller` and `mine`, the steps of those who stop or look.

*Actions.*  `Hold` is the read guard and then the look at the flag, in this
order; `Ends` a task that ends, is dropped by `until_closed` or aborted.
`SendsReason`, `ClosesConnections`, `TakesHandles`, `AbortsHandles` are
`Inner::stop` statement by statement; `TakesStopping`, `AwaitsTasks` and `GetsWrite`
the rest of `stop_and_wait`; `SeesStopped` is `is_drained`.

*Properties* (run `services`).  Nothing runs after a stop was waited for or
`is_drained` said yes (`QuietOnceDrained`), whatever else stops at the same
time, and every `stop_and_wait` returns (`StopCompletes`).  A request, a job, a
worker and a listener with two waiting stoppers, one that does not wait and one
that looks cover each pair of roles; the proof covers any number.

*Fairness*: work ends when it is closed or aborted, blocking jobs end by
themselves, and a caller that has begun goes on.

### SyncPass

*State.*  `at` is the folder of each message in the account, `have` its row in
`message_cache`, `pin` and `pinnedIn` the `AppendPin` and what it is newer than;
`pass`, `page`, `seen` and `cut` are the pass (`seen_ids`, `capped_listings`),
`here` an APPEND, MOVE or EXPUNGE in the bridge that is between two of its steps,
`deepDue` the poll loop's flag.  `slipped` is observation.

*Actions.*  A pass asks for a page (`Asks`), is answered later (`Answers`), takes
its messages one by one (`TakesItem`; an update waits for a body), commits
(`Commits`) and goes on (`PageEnds`, `ListingFails`).  The end of a deep pass is
`Prunes`, or `PrunesCapped`, `Confirms` and `RemovesConfirmed` when a listing was
cut off.  Standard folders are paged by a cursor, custom ones by an offset, so a
deletion can shift a message across a page there (`SlipsOut`).  APPEND is stored,
placed and pinned in three steps, MOVE and EXPUNGE call Aster and then write the
cache.

*Properties* (`mailbox_sync`; violated: `sync_pruned`).  `PrunesOnlySlipped`,
`CacheFollows`.  Four messages, pages of one and a cap of two make listings that
are cut off and ones that are not; two changes take a message out of one listing
and another into it.  Flags, UIDs and bodies are other modules' matter.

*Fairness*: passes go on and commands in the bridge end; a deep pass falls due
again and again (`DEEP_RECONCILE` in `run_poll_loop_tuned`).  Failing listings are
bounded.

### HistoryIndex

*State.*  `account` and `row` as above; `member` and `current` are
`listing_member` with its rounds, `departed` the prune queue, `retry` and `sealed`
mail that does not open, `index` the state of each listing (sweeping, cursor,
offset, total, drift, incomplete), `age` how long ago its sweep ended, `work` the
step that is running.  `strayed` is observation.

*Actions.*  `SweepBegins`, `IndexesPage`, `FinishesSweep` and `SavesPage` are a
page of a sweep; between them a call may fail (`PageFails`), the answer stall
(`Stalls`) or the process die (`StepDies`).  `RetriesOne` tries a sealed message
again, `PrunesDeparted` asks for a queued one.  `PassStamps` is the part of a
sync pass that stamps the newest of each folder.  Mail arrives, moves and is
deleted at any time; `HourPasses` and `MonthPasses` age a finished sweep.

*Properties* (`flags_history`).  `KnownUnlessStrayed`, `OldMailArrives`,
`DeletedLeaves`.  Three messages in a cursor listing and an offset listing with
pages of one, two changes and one fault: enough for a sweep that is overtaken at
each of its steps.

*Fairness*: the pacer gives the indexer its turn after a pass that worked, and
months pass; failing calls are bounded.  Steps are seconds apart and sweeps hours
or a month, so a step is not interrupted by ageing.  Left out: the guard against a
sweep that never ends, attachments on demand, the recent-only mode.

### ImportJob

*State.*  `slot` is `IMPORT_JOB`, `job` the server's jobs, `closer` and `closing`
the closer task, `quiet` the idle time; `at`, `with`, `retried` and `ended` an
import, `copy` the message on the server, `command` and `told` the mail app.
`early` and `abandoned` are observation: imports told of a duplicate while another
one was completing the copy, and whether an import lost sight of a copy it had not
completed.

*Actions.*  `ClientAppends`, `Deadline` (the client is told to try again while the
import runs on) and `ClientAnswered`; `GetsJob`, `NoJobToBeHad`, `SpawnsCloser`,
`StoresOnServer`, `Refused`, `Uploads` and `KeepsLocally` are the steps of
`import_message`; `CloserTakes`, `CloserCompletes` and `CloserEnds` the closer.

*Properties* (`services`; violated: `append_whole`).  `StoredIsWhole`: an import
that says "stored" has stored all of the message; one that says "duplicate" found
all of it, but in the two cases the observation names.  The second one is an
import's own repeated call after a lost answer, and `OkMeansWhole`, what the
changelog says, fails there (see Divergences).  `JobIsClosed`.  Two imports of one
message, two jobs and two faults: the retry meets the import it repeats at every
step; the violation takes one import, one job and one fault.  *Fairness*: imports and the closer go on, the idle time passes.

### JmapLog

*State.*  `counter` is `jmap_state`, `rows` `jmap_change_log`, `seq` its last row
number, `cached` the versions of the message cache, `todo` what each writer has
changed and not yet recorded, `client` a client with the call it is in.  `gaps`
names the ways in which it may have missed something.

*Actions.*  A writer changes the cache (`Change`) and later records a batch
(`Record`, which trims the log to a total over all types; `RecordMailbox` is the
other type), or never does (`DropRecord`); `RepairCache` resets.  The client
reads the state and then the rows (`GetRead`, `GetAnswer`; `ChangesRead`,
`ChangesAnswer`), is refused (`ChangesRefused`) or fetches what it was told of.

*Properties* (`storage`).  `MissesOnlyByNamedGaps`: a client that has caught up
knows the cache as it is, or met one of seven named gaps.  Two messages, two
writers, two rows kept, pages of one, three changes.

### JmapPush

*State.*  `states` are the counters, `writer` and `carried` what a writer is about
to announce, `phase`, `queue`, `lagged` and `heard` a connection; `missed` is
observation.

*Actions.*  `Records` or `RecordsSilently`, then `ReadsState`, `BumpsMailbox` and
`Sends` one after another; `SseConnects` with `SseSubscribes` later, `WsConnects`,
`Lag`, `Takes`, `Disconnects`.  *Property* (`storage`): `ClientsHear`.  Two writers
and one connection with room for two announcements, four changes.

### TokenRefresh

*State.*  `access` and `refresh` are the session's tokens, told apart only by
whether the backend has issued newer ones; `gate` is `REFRESH_GATE`; `pc` and
`answer` are the refresh loop and the key reload of the sync pass; `failing`,
`definitive`, `rejected`, `requested`, `justTried` the counters and process-wide
flags; `valid`, `accepts`, `reached` the backend.

*Actions.*  `TimerDue` and `RequestTaken` begin a refresh, `HealBegins` a key
reload; `TakesGate` looks again whether another has replaced the token; then
`AsksRefresh`, `AsksLogin`, `Stores`, `LeavesGate` and, for the loop, `Settles`.

*Properties* (`services`).  `NewestHeld`, `SessionRecovers`.  *Fairness*: timers
fire, calls end, and the loop gets the gate when it is free again and again
(tokio's mutex is first come, first served).

### StoreOpen

*State.*  `file` is the form of `bridge.db`, `bridge.db.enc` and `bridge.db.plain`
and the rows in them; `wal` the rows in the plaintext logs beside the first and the
last; `aside` rows in files under another name; `expected` the row counts taken
before the switch; `step` the place in `open_keyed`.  A file is missing, plaintext,
encrypted, or *torn*: a half-written export, or a copy whose head has been
overwritten.  `parted`, `mistaken` and `shredCut` are observation.

*Actions.*  One per file operation, each of which may fail, with `Crash` between any
two.  `Restore`, `RestoreFile`, `RestoreLog` are `restore_plaintext_backup`: the
stray log is removed, then the file moves and its log after it, as in every
`move_db_files`.  `Probe` decides what `bridge.db` is; `KeyLost` and
`QuarantineTorn` put away what cannot be read.  `Fold`, `Tidy`, `Export`, `Verify`,
`MakeWay`, `SetAside`, `MoveLog`, `Swap`, and `Back`, `BackLog` and `Drop` where one
of them fails, are `migrate_plaintext_with_rename`; `ShredFile` and `ShredLog` are
`shred_db_files`, and `ShredBreaksOff` the death of the process inside
`best_effort_overwrite`; `Discard` is the comparison at the end of every start.
`Write` and `QuarantineIncompatible` are the open database.

*Properties* (`storage`).  `NoRowLost` and `NothingInTheClear`, with two old and
two new rows, two crashes and two failing operations.  A log that cannot be folded
in, then a crash or a failing rename between a file and its log, is what it takes
for rows to part from their file; the second crash or failure is for the start
after that.  The code leaves three gaps, which the properties name:

* rows of a log that could not be folded in and that was left beside the other name
  than its file: the next start switches the file without them and removes the log
  (`parted`, row by row);
* rows of a copy beside a database that took the place of one the key did not open,
  when as many rows are in both (`mistaken`, row by row);
* a copy whose overwriting was cut short is never read nor removed again, though
  all but its head is in the clear (`shredCut`).

*Limits.*  The log of the encrypted database is SQLite's and not modelled; the
process may die, but what it wrote is on the disk; removing what is left of a log in
a quarantine is taken to work.  Copies under another name stay until the user signs
out (`remove_old_copies`).

### CacheOwner

*State.*  `cacheRows` are the accounts with rows in the cache, `marker`
`user_data_clear_pending`, `owner` and `account` the command line client's state
file, `secrets` the stored device, `session` and `doing` the running program.
`left` and `kept` are observation: whose rows a failed clear left, and which accounts
the desktop shell gave up or replaced without clearing the cache.

*Actions.*  Desktop: `DesktopStart` with `FinishPendingClear`, `AutoLogin` (the
sign-in at the start, which works, fails, or is refused, whereupon the secrets go and
the cache stays), `DesktopSignIn`, `DesktopSignOut`, `DesktopClear`, `DesktopForget`,
`ResetBridgeData`.  Command line: `CliServe`, `CliLogin`, `CliFinish`, `CliRecord`,
`CliLogout`, `ForgetDevice`, `KeepCache`, `DestroyCache`.  Clearing and writing a
file may fail.

*Properties* (`storage`): `OnlyOwnMail`, `OwnerKnown`; two accounts, three faults.
The shell keeps no record of whose rows the cache holds and clears it only at a
sign-out or a reset.  So after a sign-in at the start was refused, or when another
account signs in without a sign-out, the rows of the earlier account are served to
the next one; `OnlyOwnMail` names this gap (`kept`) and the failed clear (`left`),
and says that no crash and no other order of steps adds to them.  The command line
client compares the owner it recorded and has no such gap.

### ContactStore

*State.*  `contact` is the version of each contact of one name in the account
(Aster tells contacts apart by an id of its own and takes any number), `listing`
and `listed` the cached listing, `writeLock` the lock around writes; `davAt`,
`asked`, `found` and `known` are the requests of contacts apps; `late` writes given
up on.  `slipped` and `lapses` are observation.

*Actions.*  `AppAsks`, `Locks`, `ListsCached` or `Lists` and `KeepsListing` (two
steps, without the write lock when a GET does it), `Checks` and `Notes` (the second
look when there is a precondition), `Refused`, `Writes`, `WriteFails`, then
`Confirms` and `Remembers` or `Forgets`.  `Breaks` drops a handler anywhere.
`ListingAges` is `CACHE_TTL`; other clients change contacts and late writes arrive.

*Properties* (`outbox_safe`).  `OneContactPerName`: a second contact of one name
comes only from a listing that was read before a write and kept after it, or from a
creation whose answer the bridge never got.  `RespectsETags`: a PUT or DELETE with
If-Match meets the version its app named.  Two apps, two contacts, two versions, one
fault: a third app adds nothing to two that alternate, and the proofs cover any
number.

### Maildrop

*State.*  `place` is the account, `inbox` the cache, `listedInbox` what a pass has
listed and not yet written; `popActive` is `POP3_SESSION_ACTIVE`; `maildrop`,
`marked` and `anyFailed` the session's `messages`, `deleted` and `any_failed`.
`wanted`, `owed`, `removed` and `popTold` are observation.

*Actions.*  `Pass`, `Dele`, `Rset`, `Quit`, and for each mark `QuitTrashes` and
`QuitForgets`, or `QuitFails` (the call may have worked all the same); `QuitEnds`;
`PopBreaks` drops the session anywhere.  `InboxListed` and `InboxWritten` are the
pass, `MovesElsewhere` other clients.  *Property* (`outbox_safe`): `QuitDoesAsTold`,
with two clients, two messages and one fault.

## The runs

Twelve runs; those that pass end within five minutes with two workers.

| Run | Instance | What it shows |
|---|---|---|
| `outbox_safe` (`MCWriteSides`) | Outbox, ContactStore and Maildrop with the bounds above | what apps have the bridge write to the account: no mail twice or lost, one contact per name, ETags respected, QUIT does as told; the outbox implements `MailPromise` |
| `services` (`MCServices`) | Outbox under fairness, Drain, TokenRefresh, ImportJob | rows settle, a stop ends and leaves nothing running, the newest tokens are kept and the session recovers, an import is whole and its job closed |
| `storage` (`MCStorage`) | JmapLog, JmapPush, StoreOpen, CacheOwner; FlagSync with two flags, one STORE, one web change and a stop | clients miss changes only by named gaps and hear of the others; but for the gaps named, no row is lost, nothing stays in the clear and nobody sees foreign mail; only what was asked is pushed |
| `flags_history` (`MCFlagSides`) | FlagSync with two stores; HistoryIndex | flags converge; old mail arrives, deleted mail leaves, nothing is lost sight of |
| `mailbox_view` (`MCMailboxSides`) | MailboxView, one and two sessions | numbers keep their message, a UID is given once, only targets are touched |
| `mailbox_sync` (`MCSyncSides`) | MailboxView under fairness; SyncPass | views settle; only slipped mail is pruned; the cache follows the account |
| `outbox_false_sent`, `append_whole`, `flags_kept`, `mailbox_moved`, `mailbox_repair`, `sync_pruned` | see Divergences | violated |

Deadlock is checked except in `services`, `append_whole` and `sync_pruned`, where the system does
stop (the bridge is down, or the bounds of all changes are used up).

## Divergences

Each of these is a run that TLC ends with a counterexample, quoted in
`PROJECT.json`.

* `SentMeansSent`: a queued row can be marked sent though nothing was sent.  The
  mail app's own APPEND to Sent, stored after `RECENT_SENDS` was forgotten
  (restart), is what `sent_copy_exists` finds.  `SentMeansDelivered` and the
  theorem `SentOnEvidence` say exactly how far the code can be trusted.
* `ChangeKept`: a sync pass between STORE's cache write and its pending record
  undoes the change, and the push then takes it for superseded.  (A connection
  lost in the same gap leaves the change unqueued, and the next pass undoes it.)
* `OkMeansWhole`: when the answer to the call that stores a message is lost, the
  import, or the one of the mail app's next try, asks again, is told of a duplicate
  and ends there.  The client gets OK for a copy without its attachments and without
  its placement.
* `MovesReachIdle`: when the pass finds a message in another folder, it counts as
  neither new nor updated; nothing is recorded and nobody is rung.
* `NoRenumber`: `repair_cache` counts UIDs from 1 again under sessions that still
  hold those of before; UIDVALIDITY changes, but they are not told.
* `PrunedIsGone`: a deep pass removes, as "gone on server", a message that moved
  during the pass from a folder not yet listed to one listed before.

Met while modelling, without a run of their own; the properties name them as
exceptions or stop short of them:

* CardDAV: a GET whose listing was read before a PUT and kept after it makes the
  next PUT of that name, `If-None-Match: *` included, create a second contact,
  for as long as the listing is used (`lapses`, "overtaken"); a creation whose
  answer was lost and that is repeated within `CACHE_TTL` does so too ("untold").
  A PUT may answer with the ETag of a version another client wrote between the
  update and its read-back.
* The switch to the encrypted database: rows of a log left apart from its file are
  lost (`parted` in `StoreOpen`); the plaintext copy is removed when the row counts
  agree, which after a loss of the key can be chance (`mistaken`); a copy whose
  overwriting was cut short stays for good (`shredCut`).
* The desktop shell keeps the cache when the server refuses the stored secrets, and
  when another account signs in without a sign-out, and serves it to the next account
  (`kept` in `CacheOwner`).
* JMAP: the log is trimmed to a total over all types, so rows of one type can go
  without its clients being told that their state is too old; a batch that spans
  a page, and a crash between the commit of a history page and
  `record_changes`, lose rows for a client.
* The marker of a sign-out that failed to clear the cache stays; a later start
  then clears the cache of an account that has signed in since.
* The sync trigger answers from `last_triggered_result`, which starts as Ok, so
  a trigger taken while a pass was skipped reports success.
* History: a custom listing that is due but cannot be listed is skipped for that
  turn; a listing whose page keeps failing holds back the others and the prune
  queue; an offset can skip a message until the next monthly sweep; a message that
  is adrift of all listings and then deleted is never pruned.
* POP3: QUIT trashes a message that another client has archived since PASS.

## Proofs

Every theorem holds for all values of the constants that satisfy the named
assumptions of its module.  The assumptions say only that names of different
kinds differ, that bounds are natural numbers (and sizes of pages positive ones),
that there is at least one worker (the outbox loop always runs) and one standard
folder, and that the account holds finitely many messages, numbered where the
order in which they arrived matters.  Every invariant and every action property
that a passing run checks has a theorem.

*Outbox.*  The inductive invariant `IInv` has these parts: `CallersWait` (a call
is under way only while its handler waits for it; the worker's row is claimed;
nothing runs while stopped), `RowsFresh` (no row before its submission has been
answered), `ServerRecord` (a copy goes out exactly when a key is recorded as
done, and a message with a Message-ID has one key), `EvidenceHolds` (an answer
"ok" and a synced Sent copy each mean that the mail went out) and `RepliesBacked`
(a 250 has a row or a sent mail behind it).  It is needed because the properties
speak of rows and copies only, while what keeps them true is what calls in
flight, stray requests and the claimed row stand for.  From it follow
`TypeCorrect`, `NeverTwice`, `NothingLost`, `SentOnEvidence`, `AttemptsLeft` and
`FailedWaitsForUser`; `OutboxKeepsPromise` shows that every step is a step of
`MailPromise` or leaves it unchanged.

*Drain.*  The inductive invariant `DrainInv` joins the types and the claim: workers
hold their guards from the start, so the lock can be without guards only once the
flag is set, and with the flag set no task passes from asking to running.
`TypeCorrect` and `QuietAfterDrain` follow.

*FlagSync.*  `FlagIInv` adds to the types that every value on its way to Aster, in
a pending row, a push task, a pass, a late call or a command, was asked for
(`OnTheWay`); `OnlyAskedIsPushed` follows.

*JmapLog.*  `IInv` says that a difference between client and cache is still to be
recorded, in a row after the client's state, or in its hands (`NothingForgotten`),
and that its state is never ahead of the counter; `ClientsAreUpToDate` follows.

*JmapPush.*  `PushInv` says that a connection that has neither lagged nor missed an
announcement has heard the current state of each type, has it in its channel, or a
writer is about to announce it (`HeardOrHears`), and that only a subscribed
connection has a channel.  `ClientsHearOfChanges` follows: once the channel is
read, what was heard is current unless a writer is still to announce it.

*ImportJob.*  What an import may say of the copy rests on what another one does to
it.  `OneCompletes` says that the import that put the bare copy there, and still
knows of it, is the only one that completes it, and that nobody takes a whole copy
away; `StoredIsWhole` itself says that a bare copy has such an import or has been
lost sight of.  Together they are inductive (`StoredMessagesAreWhole`).

*StoreOpen.*  `StoreIInv` has four parts beside the types: `Files`, which files and
logs can be beside each other; `Stage`, what each step of `open_keyed` may rely on,
above all that outside the moves a log apart from its file has been counted
(`Apart`), and that a copy is only overwritten when the rows it has are in the
encrypted file or counted; `Clear`, what holds as long as no operation failed; and
`NoRowLost`.  The last cannot stand alone: that a copy may go follows from what was
exported several steps before.  `RowsSurvive` and `OpenIsEncrypted` follow.

*CacheOwner.*  `OwnerIInv` says for the shell that it serves the account whose
secrets are stored or one it gave up (`DesktopCache`), and that without a session the
rows are that account's, left or kept; for the command line client that the recorded
owner is settled before the account is (`CliCache`).  `OwnMailOnly` and
`OwnerIsKnown` follow.

*TokenRefresh.*  `RefreshIInv`: one caller is past the gate, and an answer in hand
is the newest, for nobody else could ask; `NewestIsHeld` follows.

*ContactStore.*  `ContactIInv`: a write holds the lock from its first look at the
listing to its end (`Locked`); unless something has lapsed, it works with the one
contact there is (`Sighted`), and a listing that does not show that contact is
about to be told of it by the writer that made it (`Shown`); what was read a second
time stands until another client changes it (`Current`).  `NameMeansOneContact` and
`ETagsAreRespected` follow.  The lock alone would not do: requests that only read
replace the listing without it.

*Maildrop.*  `MaildropInv`: every mark is a position of the maildrop whose message
the client wanted gone (`MarksAreWishes`); what is owed is still in the inbox and,
unless a call failed, at a mark QUIT has yet to come to (`OwedIsMarked`).  So when
the last mark is done without a failed call nothing is owed, and the "+OK" is true
(`QuitTrashesTheMarked`).

*SyncPass.*  `PrunesOnlySlipped` looks at the moment a pass prunes; what makes it
true is what the pass did since it began.  `NothingLeftOut`, for a pass all of whose
listings are complete so far: a message that did not slip past it (by moving to a
folder already listed, or over the edge of a page) and that the account has was
seen, or is pinned, or is ahead of the pass, in a folder still to come or beyond
the cursor or offset of the one in hand, or is not in the cache.  A page read
by offset counts the messages before the offset, so the lemmas on cardinalities
before it say how that count moves when a message arrives or leaves.  `PassInHand`
covers the other way to prune: what a pass that confirmed one by one removes was
found gone.  `PassesSpareLiveMail` follows.

*HistoryIndex.*  The same question for sweeps that go on for rounds, with stops
between: `NoneSkipped` says that a member of a listing that has not been come by in
this round is ahead of the position saved, and of the one about to be saved;
`MembersAreHeld` that a member which did not stray is in that folder or deleted, so
that a full round tells what has departed; `HeldIsIndexed` that what waits to be
cached or checked is a member.  `StayingMailIsKnown` follows.

*MailboxView.*  `MailInv` has seven parts, proved together, since each rests on the
others.  A report sends EXPUNGE lines with shifted numbers: the k-th one is the place
of a message among what remains after the first k - 1.  The lemmas say that
removing such places one after the other keeps exactly the entries that are still
there, in their order, and that the session's UIDs and the client's names go through
the same removals.  So after a step each place of a session's list was a place before,
or is that of a message with its UID (`PlacesGoOn`); and a UID given anew is at or
above `uidnext`, which only goes up, so nobody holds it and no session knows it
(`UidsGoOn`).  That keeps `NumberingSound` and `SeqNamesMessage`, and it keeps
`TargetsStand`: of a command that waits for Aster, the UIDs it has read are held by
the messages it read them from or by none.  `NumbersGoUp`, `WorkInHand` and
`ClosedIsEmpty` say that next UIDs are never 0 and UIDVALIDITY does not fall, what a
command or a pass has in hand, and that a session without a mailbox has announced
nothing.  From these follow `MailboxTypesHold`, `UidsAreSound`, `NumbersNameMessages`
and, with what an assignment of UIDs leaves alone, the action property
`CommandsTouchTheirs`.

*Only model-checked.*  The liveness properties: `RowsSettle`, `StopCompletes`,
`SessionRecovers`, `JobIsClosed`, `PendingSettles`, `FlagsConverge`, `OldMailArrives`,
`DeletedLeaves`, `ViewsSettle` and `CacheFollows`.  Temporal reasoning under
fairness, and `ENABLED`, are out of the prover's reach.  There is no `RECURSIVE`
operator; the three recursions on lists in `MailboxView` (UIDs assigned, EXPUNGE
lines heard and UIDs expunged one after the other) are recursive functions over the
length of the list, and the proofs use them one step at a time.

## Plan

Done, in the order in which it was planned: outgoing mail and its abstract
specification, shutdown, flags, mailbox views; the change log and push; tokens,
the sync pass, imports, history; the database file and the owner of the cache;
contacts and POP3.  Composition is side by side where components share no state;
`FlagSync`, `MailboxView` and `SyncPass` each contain the part of the pass and of
the account that they meet.

What is left, in the order of what it would add: a single cache under `SyncPass`,
`HistoryIndex` and `MailboxView` together (each is near the limit of what TLC
finishes in minutes); an abstract mailbox (a list of messages that only changes
by reports) that `MailboxView` implements; the SMTP command state machine; the
heartbeat's writer; recipient pins; folder and tag operations; the control socket
and instance lock.

## What is not modelled

Cryptography, MIME and vCard translation, message rendering, TLS and certificate
handling, port selection, configuration files, service installation, the desktop
and settings windows and the vendored `glib` patch: data conversion, I/O or third
party code, without the control that model checking could say something about.
The JMAP submission methods send directly and keep no state between requests; the
connection limits are semaphores that no other part reads; recipient pins rest on
conditional writes of the service, which are not in this repository.  The Aster API
is external and modelled from the bridge's use of it.  Some hazards have no
property; `PROJECT.json` says of each why.
