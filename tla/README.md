# Vibe Connect: a formal model

Vibe Connect is an end-to-end encrypted messenger for accounting firms and their clients: an
Express server over Postgres (`src/apps/server`), web, portal, intake and desktop clients, and a
shared crypto package. The server cannot read chat content; what it must get right is the *state
around* that content: who has answered which request, which message was announced, when it is
destroyed, who holds a wrap of which key, which upload is whole, who has been told. That state is
kept by many small handlers and timers which interleave at every `await`, run most statements
outside transactions, and are killed and restarted. This directory models it in TLA+.

Source paths below are relative to `src/apps/server/src/` unless they begin with `src/`.

## The system

| Component | State | Hard behaviour | What makes it correct | Module |
|---|---|---|---|---|
| Client requests (`services/requestsService.ts`, `repositories/requests.ts`), with the portal's posts and uploads (`routes/portal*.ts`) | `request_lists`, `request_items`, `messages`, `attachments` | transactions that read first and update later; hooks fired after the answer; scans between insert and verdict | items only move along their state machine, with closer and note in step; calls never wait for each other | `Requests` |
| Messages (`routes/conversations.ts`, `services/scheduledMessages.ts`, `destructMessages.ts`) | `messages`, `idempotency_keys` | retries, overlapping ticks, a claim before a broadcast | one message per key, announced once; a read timer is never postponed; an elapsed message goes, with one audit row | `MessageLifecycle` |
| Edits, attachments, retention (`repositories/messages.ts`, `services/retention.ts`) | `messages`, `message_edits`, `attachments`, blobs | checks before writes, blobs outside transactions | what can be downloaded has its blob, nothing leaks without a failure, expired content is shredded for good | `Retention` |
| Conversations and keys (`services/conversationService.ts`, `routes/conversations.ts`, `src/apps/web/src/state/rewrap.ts`), with portal sessions (`routes/portal.ts`) | members, wrapped keys, versions, devices, invites, sessions | every open tab sweeps and merges wraps while keys rotate, devices get new key pairs and recipients come and go | a wrap is never lost; whoever may read gets one of the latest key in the end, unless a rotation overtook a sweep or a new key pair an old wrap | `ConversationKeys` |
| Vaults (`services/vaultService.ts`, `vaultRetention.ts`, `src/apps/web/src/pages/ClientFiles.tsx`) | zone keys, folders, files | two initializers, moves against deletes and uploads, a sweep cut short | one key per zone, a file stays in its zone, retention is applied in the end | `Vault` |
| Resumable uploads (`services/tusServer.ts`, `tusProtocol.ts`, `intakeTusServer.ts`, the client's loop in `src/apps/web/src/lib/vaultClient.ts`) | rows of uploads, `.part` files | broken connections in either direction, overlapping PATCHes, a reaper whose TTL nothing relates to the lifetime of an upload | an upload that was neither torn nor swept too early is stored whole, once; the client's loop ends; parts are reclaimed | `Tus` |
| Intake (`routes/intakePublic.ts`, `services/intakeUploadService.ts`, `intakePdfTicker.ts`, `intakeAutoPurgeTicker.ts`) | links, `intake_sessions`, files, PDFs, blobs, the retention policy | uploads beside a finalize, a conversion that fails, a purge whose deletes fail | files are there until purged, rows go after their blobs, every conversion settles, overdue sessions go | `IntakeSessions` |
| Intake notifications (`services/intakeClientNotifyTicker.ts`, `intakeStaffNotifyTicker.ts`) | `intake_notifications_outbox` | two tickers over one table, a crash between send and record, a send that throws after it was taken | nobody hears more often than a ticker had reason to doubt, records are true, alerts settle | `IntakeOutbox` |
| Intake key rotation (`services/intakeKeyRotation.ts`, `routes/intakeAdmin.ts`) | jobs, a slot in memory, the maintenance flag, every encrypted cell | a worker killed anywhere, writers that passed the gate or have none | no progress recorded that was not made; completed means all moved | `IntakeKeyRotation`, `KeyMigration` |
| Realtime and presence (`realtime/*.ts`, shutdown of `index.ts`, `src/apps/web/src/state/realtime.tsx`) | two Postgres clients per server, sockets, `user_presence`, the tab's cache | connections that drop one by one, crashes, sockets that outlive their tab | nobody online is mailed; a server gets its connections back; a tab that returns catches up, unless the fetch its return starts fails for good | `Realtime` |
| Reaching clients (`services/clientMessageNudgeTicker.ts`, `offlineNotify.ts`, `routes/emailBridge.ts`, `smsBridge.ts`) | nudge stamps, receipts, preferences, inbound messages and files | a claim and a dispatch far apart, webhooks that are repeated | one nudge, for the unread only; what a client sends is taken, if it has a text | `ClientReach` |
| Staff authentication, administration | users, devices, settings | enrolment and revocation against sweeps | in the modules above, as far as keys are concerned | `ConversationKeys` |
| First boot, TLS, backups, crypto primitives, user interfaces | files, none | external tools, pure functions, rendering | | not modelled |

Components meet in the tables. A client's post inserts a message and fires the request hook, a
rejected upload fires the walk-back; a request nudge is a scheduled system message that the
scheduled-message ticker announces or skips; the retention sweep empties messages and collects
idempotency keys; a finished tus upload becomes a vault or intake file; intake writers, the
PDF ticker and the rotation worker share cells and the maintenance flag; portal sessions are what
`ConversationKeys` and `Vault` wrap keys to; presence decides in `Realtime` who is mailed.

## Modules

**`Requests`** models one conversation. `lists`, `items`, `msgs` and `atts` are the committed rows;
`ops` are the calls in progress. A service function is a Postgres transaction at READ COMMITTED:
a `Start…` action does its reads and early returns, and `UpdateItemRow`, `CountItems`,
`UpdateListRow`, `Commit` are the statements that follow, in the order `StepAfter` gives. An UPDATE
waits while another call holds the row, evaluates its `WHERE` (`FromStates`, `ListMatches`) on the
committed row, and shows what it wrote (`ItemUpdate`, `ListUpdate`) at `Commit`. `Abandon` is a
rollback or a dead process.

**`MessageLifecycle`** has no transactions, because the handlers have none: every awaited statement
is an action, and a handler or tick in progress is an element of `Procs`. A tick claims a batch
(`ClaimDue`, `ClaimElapsed`), deals with it row by row, then un-stamps what failed. Clocks are
abstracted: `ComesDue`, `TimerElapses` and `Collect` may happen whenever a clock could have moved.

**`Retention`** gives a message versions, snapshots, attachments with rows and blobs. `StartEdit` is
the check in the route, `ReadPrior` and `Overwrite` are the statements of `messagesRepo.edit`; a sweep
selects a batch, lists its files, shreds in one transaction and then deletes blobs one at a time.

**`ConversationKeys`** is one conversation. A wrap is the recipient, the key pair it was sealed to
and the version of the key sealed. The server's rows (`wraps`, `device`, `client`, `sess`) change
by the handlers; a tab's sweep (`sweep`) reads the recipients, reads what the row has, seals, and sends a
PATCH the server merges from the row it read, all steps of their own. `draft` is a conversation,
or the next key of one, being made in a browser: a rotation is `NextKey`, where the browser reads the
recipients and seals, and `Rotated`, where the server takes the row; `raced` remembers that a sweep held the older
key at that moment. Invites and devices number their key pairs (`client.invite`, `pair`), because a re-invite and a second
enrolment (`Enrol`) replace one and leave what was sealed to the other. One draft at a time is a bound.

**`Vault`** is the vault of one client: a row of wraps per zone (`keys`), the page of a member
of staff whose `Initialize` button writes it, folders, files and `runVaultRetentionSweep`.

**`Tus`** has for every upload the row (`got` is `bytes_received`), the part file, the client and the
handlers at work on it. Bytes are units numbered by their place, so that a unit appended
twice is seen. A connection may fail for the server (`Break`) or only for the client (`Lose`). Rows and parts have
ages which a `Tick` moves on: a vault row is reaped at `RowLife`, an intake upload is refused from `TokenLife` on, and a
part goes `Ttl` ticks after the last write, whatever the age of its row; `lost` are the uploads that were still accepted when it went.

**`IntakeSessions`** goes from the link to the purge: token and cap checks, the upload's scan, blob
and row, the finalize that reads before its transaction, the PDF ticker, the policy and its backfill,
and the sweep with deletes that fail. **`IntakeOutbox`** is the outbox a finalize fills, under both
tickers. A send that throws (`Throws`) was refused because the provider is `down`, or was accepted and its answer lost, which
`doubts` counts. Quiet hours are `Defer`, which any hour may bring, and `Mature`.

**`IntakeKeyRotation`** keeps, for every encrypted cell, the key it is under and whether a
row points to it. The worker is the body of `runKeyRotation` with a step between any two awaits
at which something else can matter; `Exit` loses process, slot and flag. **`KeyMigration`**
is the abstract specification of a rotation: a set of pending items that only shrinks once
the migration has started, and an end that is reported only when it is empty.
`IntakeKeyRotation!ImplementsMigration` is that specification under the mapping `pending` = cells with a row
that are not under the new key and were not written by somebody else since the start, `phase` =
from the job rows. "Withdrawn" names a real case: the audit of the completion fails and the catch
block turns `completed` into `failed`.

**`Realtime`** has servers with the two Postgres clients of `PostgresFanout` (`fan`), their sockets,
`user_presence` (`count`), tabs and messages. A socket is counted, then announced, and only then
has handlers; `Closed` runs the disconnect handler of those that have one. An unhandled rejection
starts the shutdown (`Drain`), as in `index.ts`. A tab knows whether the query of the messages is stale; a fetch
is a request that is read by a server, arrives, or fails because the server it met is not up, and is retried once
(`FetchReads`, `FetchArrives`, `FetchFails`). An invalidation restarts a fetch in flight, or joins it if it is the first load.

**`ClientReach`** has the nudge ticker (`Claim`, `ReadFlag`, then per message `LoadRecipients`,
`DropReaders`, `Mail`, `Text`) and the webhook calls from the lookup to the announcement. The provider is
the environment: it calls until it hears a 200, and may stop waiting while a call runs (`TimeOut`). A delivery without a
text gets a 400 every time (`TurnDown`).

`…MC` modules give the instances for TLC, `…_proofs` modules hold the theorems (`Intake_proofs` those about `IntakeOutbox` and
`IntakeSessions`, `Files_proofs` those about `Tus` and `Vault`, `Reach_proofs` those about `Realtime` and `ClientReach`; the definitions of one of the two carry a prefix, as in `VaultSpec`). Some modules
hold faulty variants of a definition, named `<definition>_<fault>`. No specification uses them;
putting one in the place of its definition breaks a property, which is how each property
is known to depend on the code it is about.

## Runs

| Run | Instance | Shows |
|---|---|---|
| `requests` | 2 calls, 1 list, 2 items, 1 message, 1 attachment, failures | `completed_by` in step with the status, legal moves only, no deadlock |
| `messages` | 1 message, 1 key, 2 handlers or ticks, 2 failures, every kind of send | one tick, one audit row, timer never postponed; visible messages are announced, elapsed ones deleted, keys come free |
| `retention` | 1 message of 3 versions, 2 attachments, 2 processes, 1 failure | rows against blobs; expired content ends up shredded for good |
| `rotation` | 2 sessions, 1 file, 2 PDFs, 1 link, 1 job, 1 writer, 1 admin, 1 failure | the cursor is sound and the job implements `KeyMigration` |
| `intake` | 1 session, 2 uploads under a cap of one, 1 finalize, 2 policy changes, 1 failure | files until purged, rows after blobs, conversions settle, overdue sessions go |
| `outbox` | an SMS and an alert, 2 attempts, 2 failures beside a provider that comes and goes, 1 change | nobody hears more often than was doubted, nor more than `MAX_ATTEMPTS` times outside digests; records are true, alerts settle |
| `tus` | 1 upload of 3 units in 2 chunks, 2 handlers, rows of 2 ticks, tokens and parts of 1, 2 failures | an upload neither torn nor swept too early is stored whole and once; only uploads that may outlive the TTL, or are past their end, are swept early; the client's loop ends; parts go |
| `tus_resume` | as above | **violated**: the bytes of a PATCH that was cut off stay in the part, and the retry is appended behind them |
| `vault` | 2 staff, 1 session, 1 file, 1 folder, 2 incidents | one key per zone, files stay in their zone, retention is applied |
| `keys` | 2 users with a device each (one enrolled), 2 key pairs per device, 2 portal sessions, 2 invites, 2 versions, 1 incident | no wrap is lost; new devices and sessions get a wrap of the latest key that they can open, with the exceptions the property names |
| `realtime` | 2 servers, one of them faulty, 1 user with a tab, 2 sockets, 1 message, 2 faults | nobody online is mailed; connections come back; a tab that returns catches up or its fetch was given up |
| `reach` | 1 client, 1 message, 1 item (mail with a file, STOP, START, or one without a text), 2 processes, 1 mishap | one nudge, of the unread; the unread are nudged; what is sent with a text is taken, stored once, with its file |

**Bounds.** The races of this code are between two parties (two calls, a call and a tick, two tabs, a worker
and a writer), so two processes show them; more add only queueing, which the proofs cover. Two items are the least
for "the last of several", two sessions with a batch of one for a batch boundary with work on both sides, a chunk
that does not divide the size for a last PATCH that differs from the first, two sockets for a tab that is back while
its old socket is still counted, two key versions for a rotation under a sweep. Failures, crashes and disturbances of the
environment are budgets (`MaxFailures`, `MaxIncidents`, `MaxFaults`, `MaxMishaps`, `MaxChanges`, `MaxPatches`): one is enough to cut
any operation short, and two where a failure of the clean-up after a failure matters or a retry has to fail as well. `Faulty` says which
servers stop or lose connections (one of two: the other is where everybody goes) and `Drops` which connections of a fan-out end at once;
`MaxPairs`, `MaxInvites` and `MaxVersion` are two, one replacement each; `MaxAge` is the longest of the three
times of `Tus`, beyond which ages make no difference, and these are chosen so that an upload to the vault outlives the TTL and one of an intake
session does not. Rows are inserted at most once
each, which makes the state spaces finite. Deadlock is checked in `requests` and `rotation`; the other models really
stop when their rows have been used and the budget is spent.

**Fairness.** Steps of handlers and ticks that have begun are weakly fair (a Node process runs its
continuations); a failure or crash may pre-empt them while the budget lasts. What a timer starts is fair:
weakly where nothing can disable it, strongly in `MessageLifecycle` and `Retention`, where it needs a free element of
`Procs` that requests may take again and again. In `Tus` a client page goes on with its upload (strongly: the
server may be busy), time goes by (`Tick`) and the reaper ticks (`ReapRows`, `SweepParts`); in `ConversationKeys` only the tabs in `Awake` sweep, each by one weak condition over
its steps; in `Realtime` there is one weak condition for each thread of control (process and fan-out of a server, socket, tab, message), which is
less than scheduling gives: the container is started again, socket.io reconnects for good, a fetch is answered or fails; in
`IntakeOutbox` nothing is asked of the provider; in `ClientReach` a provider repeats a call
until it hears a 200. No request of a person, no read and no disturbance is fair. `Requests` and
`IntakeKeyRotation` state safety only: no route of the code promises that a job is ever finished.

## Promises the code does not keep

`tus_resume` is kept as a run: with the counterexample, an upload that was resumed as the plan of the
feature describes is stored with bytes twice. The other promises below are stated in the modules, each with the comment
it comes from, and listed by no configuration; adding the name to the given configuration gives the counterexample.

| Definition | Add to | What goes wrong |
|---|---|---|
| `Requests!MarkDoneCompletes`, `RevisionLeavesListActive`, `StampMatchesStatus` | `requests.cfg` | two overlapping staff calls decide from a list or a count the other is changing (calls that do not overlap keep all five promises about requests: proved) |
| `Requests!InfectedBlocksPromotion`, `AttachmentCap` | `requests.cfg`, with two attachments | a verdict or an insert between check and transaction |
| `Retention!ShreddedIsUnreadable` | `retention.cfg` | snapshots of edits outlive the shredding |
| `IntakeKeyRotation!NeverPartialBlob`, `GateEliminatesRace`, `MessagesAreRotated` | `rotation.cfg` | a torn overwrite; a request let in before the gate closed; a column the rotation does not know |
| `IntakeKeyRotation!OneWorker` | `rotation.cfg`, with two jobs and two admins | the audit of a resume fails after the dispatch, and the catch gives back the slot of the worker that runs |
| `IntakeSessions!OffMeansOff` | `intake.cfg` | a finalize that read the policy before it was switched off |
| `IntakeOutbox!QuietSmsIsSent`, `DigestGivesUp` | `outbox.cfg` | a deferred SMS is claimed by nobody; a digest that fails is parked again without a look at `MAX_ATTEMPTS` (`services/intakeStaffNotifyTicker.ts:518-538`) |
| `Tus!OnlyOrphansAreSwept` | `tus.cfg` | the TTL of the sweep has no lower bound (`env.ts:281-289`), so it may take the part of an upload between two PATCHes |
| `ConversationKeys!FirmIsBackfilled` | `keys.cfg`, with `FirmReadFails = TRUE` | the PATCH schema refuses the firm's wrap |
| `ConversationKeys!EveryDeviceReads` | `keys.cfg` | a sweep that a rotation overtook merges a wrap of the old key into the new row; a second enrolment keeps the old wrap; in either case nothing looks missing afterwards |
| `Realtime!MessagesFlowAgain`, `FanoutSettles`, `OfflineIsMailed` | `realtime.cfg` (one server for the first) | a tab does not join its room again; the close of a healthy connection sets the timer; a crash leaves the count too high |
| `Realtime!EveryTabCatchesUp` | `realtime.cfg` | the fetch a reconnect starts is retried once and then given up (`src/apps/web/src/App.tsx:33-45`), or joins a first load that was read before |
| `ClientReach!AllSentIsTaken`, `StopIsHonoured`, `KeywordsActOnce`, `StoredIsAnnounced`, `ClientsHaveTime` | `reach.cfg` | a mail that is only a file gets a 400 for good (`routes/emailBridge.ts:118-121`); the fan-out does not read opt-outs; keywords are not looked up; a repeated call is deduplicated before the announcement; a scheduled message is as old as its row |

## Proofs

All theorems hold for every value of the constants, under the named assumptions of the modules (null values are no
rows, counts are naturals, `Procs`, `Messages` or `Sockets` finite where a cardinality is taken).

- **`Requests_proofs`**. `IInv` adds to the types and stamps, for each call in progress (`OpOK`): a call that
  holds an item holds `ItemUpdate` of the committed row, which still satisfies the `WHERE` of its UPDATE; a call that
  holds a list is about to commit and its `WHERE` still matches; and `OneWriterPerRow`. Without the row lock, that a commit
  keeps `completed_by` in step is not inductive. `ItemsMoveLegally` and `ListsCompleteOnce` are action properties that
  follow from `IInv` before the commit; `NoDeadlock` because only holders of an item ever wait, and for a list.
  The last part is about the five promises of the table above that overlapping calls break: `OneAtATime` says no two calls
  are in progress, and under it `SerialInv` (what a call has read is still what the tables hold, at each of
  its steps) is inductive. So each of the five holds of `Spec /\ []OneAtATime` (`AloneMarkDoneCompletes`,
  `AloneRevisionReopens`, `AloneStampsMatch`, `AloneInfectedNeverSubmits`, `AloneAttachmentsCapped`): it takes two calls to
  break one of them. Links that staff set and messages without an item may still come between the steps of the call,
  and it may fail anywhere.
- **`MessageLifecycle_proofs`**. `MInv` says who holds a message: a tick that announces or audits it is the only one
  and has not done so yet (`TickInv`, `BurnInv`), and the messages made with a key and the handlers still
  to insert one are together no more than the claims on it (`KeyInv`). `BurnsAreAuditedOnce`, `MessagesTickOnce`,
  `KeyMakesOneMessage` and `TimerIsNeverPostponed` follow.
- **`Retention_proofs`**. `RInv` gives every upload its own row until the scan and every sweep rows that never come back, and
  puts the blob of a deleted row on the list of some sweep or charges it to a failure. `CleanFilesHaveBlobs`,
  `NothingLeaksByItself`.
- **`Intake_proofs`**, about the notifications. `OInv` says for each row where it is in the memory of the tickers and how often
  it was delivered by then: no more often than it was doubted while it is still to be sent, and once more after that. Outside digests
  a doubt uses up an attempt, and a row that waits has attempts left, which is what bounds the deliveries by `MAX_ATTEMPTS`
  (`NobodyHearsTwice`, for any number of lost answers). `RecordsAreTrue`.
  About the sessions, `SInv` says of an upload that is stored that its blob is there until its session is audited
  (`UploadInv`), of a conversion that its row goes with the session although the ticker may still hold it (`PdfInv`), and of a
  purge that all it is about to delete is through, so that nobody stores it again (`Condemned`). That last part is what makes
  `RowsGoLast` inductive: uploads and conversions that are under way during a purge add blobs, but none the purge has
  deleted already. `FilesStayUntilPurged`.
- **`IntakeKeyRotation_proofs`**, in two stages. `SlotInv`: the slot in memory is held by one admin request between claim and
  dispatch or by one worker, whence `SlotKeepsWorkersApart`, under the hypothesis `ResumesAreAudited` that no audit of a
  resume throws: the code does not keep workers apart when one does (`OneWorker` among the promises above). `RotationInv`, under
  `OneWorker`: what a batch has passed is done (`BatchInv`), a session under way has done what its step says (`SessionInv`), what is
  above the position of the worker is not counted (`ProgressInv`), and a write under the old key is `late`
  or of a row the job has not reached (`WriteInv`). It gives `CheckpointsAreSound` and, action by action, the refinement
  of `KeyMigration` (`RotationIsAMigration`): every step maps to a step of the migration or to a stutter. With one job there is one worker and both
  hold of `Spec` alone (`CheckpointsOfOneJob`, `RotationOfOneJobIsAMigration`); for any number of jobs they hold while
  resumes are audited (`AuditedRotations`). The model gives all jobs the same pair of keys, as the operator who repeats
  a request does.
- **`ConversationKeys_proofs`**. `KInv`: nothing is stored for a version that does not exist, no set of wraps a client carries
  has two for one recipient, whatever key pairs they are sealed to, and a sweep merges into a row that exists. Then a merge keeps every wrap (`MergedFacts`),
  and `WrapsAreNeverLost`.
- **`Reach_proofs`**, about presence. `RInv`: the count of a user covers the sockets that are still to be taken off it, a
  cardinality argument over every way a socket ends. `OnlineNeverMailed`. About clients, `RchInv`: the provider listens to one call
  about an item at a time, and while it has not given up on one there is no other, and none past the lookup once a row
  is there (`ItemInv`); no two calls work on one file, and a file that is being inserted has no row yet
  (`CallInv`, `CallsApart`); nothing is in the store for a row that is still to come (`BlobsHaveRows`, without which storing
  a message is not inductive for `FilesMatchRows`); and a message that is claimed belongs to one tick, or to one dispatch whose list
  holds nobody who had a mail about it (`NudgeInv`). `StoredOneTime`, `ListedFilesAreStored`, `NudgesAreDue`.
  `TakenOnceUntilMishap` says how far `KeywordsActOnce` holds: until the first mishap.
- **`Files_proofs`**, about uploads: `UInv` says of an upload that is not torn: it has one handler at most; while that one writes, the part is
  what has been sent so far, or is gone together with the row or the token that let the client in; between two PATCHes the
  part is what the row counts; once something is stored no PATCH is accepted. `UntornStoredWhole`,
  for any lifetimes and any TTL, of the uploads whose part was not swept while a PATCH would still be taken. Which those can be is
  `SweptPartsAreLate`, from `Aged`: a part is no older than its row unless the row has reached its lifetime, so
  that an upload which lives no longer than the TTL keeps its part for as long. About vaults: `VInv`, the wraps of a row seal one key, and a
  file's folder was made in its zone. `ZoneHasOneKey`, `FilesNeverLeaveTheirZone`.
Every module named here also has the theorem that its type invariant holds; where no run lists it, it is only proved.

Only model-checked: all liveness, which the prover has no rules for under fairness (`RetentionIsApplied` and every other
`~>` property).

## Not modelled

Exceptions the properties make, where the code has a case that breaks the wider statement: `LeaksNeedAFailure` does not count a clean
row that is inserted for a message already shredded, which keeps row and blob; the cursor and the refinement of `IntakeKeyRotation`
exempt the cells writers filled late; a statement that fails after the claim ends a nudge in the same way as a crash.

In `Requests`: the nudge rate limit, templates, the requests switch (taken as on), content key versions,
authorization. In `MessageLifecycle`: read receipts as rows, the urgent flag. In `Retention`: pruning of audit rows
(single DELETEs). In `IntakeKeyRotation`: the dry run, the key swap, different keys on resume; several jobs at once
are covered by the proofs, not by the checked instance. In `IntakeSessions`: rate limits, archives and notes. In `Vault`: key rotation past the first
version, which no client asks for, downloads, labels. In `ConversationKeys`: client groups, archiving, attempts,
lockout and expiry of access codes. In `Realtime`: typing, the rooms of users and devices, do-not-disturb windows, reconnects
of one fan-out that overlap, and half-open connections that nobody notices. In
`ClientReach`: outbound bridges that nothing calls, delivery reports. Row locks are exact, isolation is READ
COMMITTED; Postgres, the blob store, the scanner and the providers are external and modelled by what the
handlers see of them. Not modelled at all: the login flow (library code over sessions), settings, reports and exports
(reads and single-row updates), first boot, TLS, backups, the crypto primitives, and the user interfaces
beyond the loops named above, which are the larger part of the lines of this repository.

## Plan

1. Access codes: attempts, lockout and throttling (`services/accessCodes.ts`, `routes/portal.ts`), with the bounded
   pool they are checked in.
2. Different keys on resume of a rotation.
3. The composition of `Requests` with the nudges of `MessageLifecycle`, and of `Tus` with `Vault` and `IntakeSessions`.
