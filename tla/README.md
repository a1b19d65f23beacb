# Huskwoot in TLA+

Huskwoot (`src/`, Go) watches chats and mailboxes, lets a language model find the promises its
owner makes, keeps them as tasks, and synchronises those tasks with paired devices over a REST
API, a server-sent event stream and push notifications. One daemon (`cmd/huskwoot`) owns one
SQLite database; an optional relay (`cmd/huskwoot-push-relay`) holds the push credentials.

This directory models the parts of that program in which several actors change shared state, checks
small instances with TLC, and proves the central results for every instance with TLAPS.
Paths below are relative to `src/internal/` unless they say otherwise; `PROJECT.json` gives, for
every definition, the lines it is translated from.

## 1. Inventory

The database pool has a single connection (`storage/db.go:22`), so a transaction is atomic and
isolated, and a statement outside a transaction is a transaction of its own. Everything hard in
this program happens *between* transactions: while a model answers, between a commit and its
announcement, between two reads of one handler, or across a crash.

| Component | State | Operations | Interacts with | Hard behaviour | What makes it correct |
|---|---|---|---|---|---|
| Event log (`events/store.go`) and retention (`events/retention.go`) | table `events`, AUTOINCREMENT `seq` | Insert, SinceSeq, MinSeq, MaxSeq, DeleteOlderThan; hourly tick | every use case appends; stream, sync and push read | deletion at any moment; 0 means both "nothing yet" and "emptied" | numbers are never reused; a reader notices what was deleted under it |
| Automatic intake (`usecase/auto_tasks.go`, `storage/auto_tasks.go`) | tables `auto_task_inputs`, `auto_task_candidates`; one mutex | Submit, Decide, MarkQuestionSent, ReassignProjectTx | pipeline calls it; tasks, projects, events in its transaction | a slow comparison outside the transaction; redelivery; crash; two answers | no promise is dropped wrongly, none is taken in twice, decisions are final |
| Tasks (`usecase/tasks.go`, `storage/task_store.go`) | table `tasks`, numbers per project | create, update, complete, reopen, move, purge | records an event, queues a push, notifies the broker | list-then-delete purge; text-ordered times; commit before notify | an open task is never purged; a number is given once, and a reference names one task |
| Projects (`usecase/projects.go`, `storage/cached_task_store.go`, `meta_store.go`) | tables `projects`, aliases, channel bindings; a list cache | create, update, delete, aliases, channel binding | moves tasks and candidates to Inbox | checks against a cached list before the transaction; invalidation after the commit | names and slugs are unique; nothing refers to a project that is gone; the cache is not stale for good |
| Broker (`events/broker.go`), stream (`api/events.go`), cold sync (`api/sync.go`) | subscriptions and channels; per handler cursor, target, page | Subscribe, Notify, remove; stream, drainThrough; snapshot | reads the log; woken by every use case | overflow, lost connections, lingering handlers, retention between two reads | no gap under a device's cursor, no lost wakeup |
| Push queue and dispatcher (`push/`) | table `push_queue`; one batch in memory | Enqueue, NextBatch, MarkDelivered, MarkFailed, Drop | event log, devices, relay over HTTP | lost answers, failed statements, crashes, rows deleted while they are worked on | a job ends; delivered means a provider took it; a repetition has a reason |
| Devices (`devices/`, `api/devices.go`) | table `devices` | PATCH of push tokens, revocation, hourly sweep | each change is followed by a call to the relay | the row changes, then the relay is told: two handlers may cross | the relay heals into what the row says |
| Push relay (`relay/`, `cmd/huskwoot-push-relay`) | tables `registrations`, `instances`; secrets in memory | PUT, DELETE, POST /v1/push; start-up, SIGHUP | APNs, FCM; the instances it serves | deletion by device after a refused token; a reload that fails half-way | who may speak has a row; secrets and rows agree outside a reload |
| Pairing (`usecase/pairing.go`, `pairing/`, `api/pairing.go`) | table `pairing_requests`; one waiter channel per request | request, long poll, page, confirm, expiry | creates a device, registers it at the relay | confirm commits before it publishes; the poll times out meanwhile | one device per request; the poll that holds the subscription gets the token, and nobody else |
| Idempotency cache (`api/idempotency.go`) | LRU of pending and finished responses | reserve, wait, fulfil, expire, evict | wraps every mutating handler | eviction or expiry of a running request; failure of another's | a second execution has a reason; nobody waits for ever |
| Voice (`transcribe/`, `storage/voice_queue.go`, `usecase/client_voice_consumer.go`, `api/chat_voice.go`) | table `voice_queue`, upload files, an acknowledgement timer | upload, claim, consume, retry, fail, complete; sweep of files | chat service, history, broker | reply, timer, deadline and error race; crash after the transcript | one outcome per run of a recording; its file outlives its row |
| Pipeline and forwards (`pipeline/`, `storage/forward_buffer.go`) | table `forward_buffer`, a bounded channel | append, signal, sweep, finalize | Telegram feeds it; intake's `Finalize` deletes its rows | arrivals during extraction, dropped signals | every forward is buffered or submitted, and leaves the buffer in the end |
| IMAP (`channel/imap.go`) | cursor per folder | poll: select, search, fetch, save | pipeline | responses in any order, a failing message, a new mailbox generation | the cursor never passes a message that failed |
| Telegram (`channel/telegram*.go`) | update cursor; `guard_pending` and its copy in memory; messages with buttons | poll loop, group guard, task questions, callbacks | pipeline, intake | acknowledgement by offset; restarts between confirmation and deadline; an answer before the question is recorded | what is acknowledged is stored; who is confirmed stays; a message shows what is stored |
| Chat and history, reminders, agent, AI clients, date parsing, configuration | history table; schedules | see `PROJECT.json` | use cases | mostly data | |

`PROJECT.json` lists every component with its sources and status, and under `hazards` every place
where this code can go wrong in a way a test would hardly reach, with the properties that watch
it. One of them, an alias that collides with a name taken between the check and the insert
(`usecase/projects.go:169`), has none: nothing in the repository promises that it cannot happen,
and resolution prefers names over aliases when it does.

## 2. Plan

The order was that of what matters to the owner: a promise must not be lost, then a device must
not miss what happened to it, then the notifications and the services around them.

| Step | Modules | State |
|---|---|---|
| 1 | EventLog, AutoTasks, PromiseLedger (abstract) | checked, proved with the refinement |
| 2 | EventStream | checked, safety proved |
| 3 | PushRelay, DeviceTokens, PushDispatch | checked with liveness, safety proved |
| 4 | Pairing | checked, proved |
| 5 | VoiceJobs | checked with liveness, proved |
| 6 | TelegramIntake, GuardedChat, TaskQuestions, ImapPoll | checked, proved |
| 7 | ProjectNames, IdempotencyCache, RelayInstances | checked, proved |
| 8 | MCServices, the ten components of steps 3 to 7 side by side | checked, proved to behave as each of them |

What is left, in order:

- an abstract feed ("a device's state is a prefix of the history, and it grows") that EventStream
  implements, and an abstract queue that PushDispatch and VoiceJobs implement;
- the chat service with its history, as far as it is more than one transaction, and the Telegram
  consumer of voice messages;
- pure operators (daily slot, retry back-off, reminder slots) against reference definitions.

Every invariant and action property of a passing run is a theorem; liveness is left to TLC.

## 3. Modules

### EventLog
The `events` table as two numbers: the stored rows are `firstSeq..lastSeq`. `Insert`, `MaxSeq`,
`MinSeq` and `DeleteOlderThan` are the store's operations; both bounds are 0 on an empty table, as
`COALESCE`/`NullInt64` make them.

*Assumption:* retention removes a prefix. Stamps are taken inside the transaction that holds the
only connection (chat events: just before it), so they grow with `seq` unless the clock is set
back or two chat writers cross; `src/README.md:135` and `src/api/openapi.yaml:709-713` exclude what
such an inversion leaves behind from the stream's guarantee.

### AutoTasks
| State | Code |
|---|---|
| `project`, `task` | rows of `projects` and `tasks`, reduced to existence, status, owner project and "inserted by createAutoTaskTx" |
| `cand` | rows of `auto_task_candidates`: status, project, match, created task |
| `receipts` | `auto_task_inputs` |
| `sub` | the Submit holding the mutex: step, inputs, project, revision, references read, decisions so far. `mark` is auxiliary (it remembers `lastSeq` at the revision) and guards no step of Submit |
| `purge` | the list PurgeClosedOlderThan holds between its read and its transaction |

`Submit` is split at every point where other goroutines can run: `SubmitBegin`, `ReadRevision`,
then `Replay` | `SnapshotFallback` | `Snapshot` (the transaction of readSubmission), one `Assess`
per extracted task, then `CommitRetry` | `Commit` (the transaction of commitSubmission).
`SubmitFail` is any error, cancellation or rolled-back commit. `Decide` is `Approve` or `Reject`
(one transaction under the same mutex; a second answer changes nothing and so is no step). The
other writers are single transactions, except the purge, which the code splits: `PurgeList`,
`PurgeDelete`. `Crash` forgets the memory and keeps the tables.

Abstracted: texts, scores (their position against the two thresholds is kept: `band`), times
(which closed tasks are recent is a nondeterministic subset), identifiers (the uuid generator picks
any unused one), question messages, `Finalize`, push rows.

*Assumption (Retention):* an event lives for days (168 h by default) and a Submit for minutes, so
while a Submit holds a revision, retention does not delete events appended after that revision was
read. Without it a table emptied twice could show the same MAX(seq), 0, for different contents.

### PromiseLedger
What intake promises, with none of its mechanism: inputs consumed at most once, a verdict per
obligation, one task per acceptance. AutoTasks implements it under the mapping at the end of the
module (`receipts`, candidate status, candidate task).

### EventStream
A device, the handlers that may serve it, and the writers.

| State | Code |
|---|---|
| `client` | the device of `src/api/openapi.yaml:684-713`: no state, in a cold sync, synchronised, or streaming; its Last-Event-ID; the events whose effect it has seen (`have`) |
| `stream[s]` | one handler: its step, its subscription in the broker, how many announcements its channel holds, marked slow by a fan-out, cursor, target, page, MinSeq |
| `unsent` | events committed whose goroutine has not called Notify yet |

`stream`/`drainThrough` are split at every database read, channel receive and frame:
`Connect` (subscribe), `InitialMark`, `ReadPage`, `ReadMin`, then MaxSeq with its decision
(`SendReset` | `AbandonPage` | `AcceptPage`), `WriteFrame`, `EndPage`, `Wake` | `EndOfChannel` |
`Heartbeat`, `WakeMark`. The broker's `Notify` marks full channels, `RemoveSlow` is its second
loop. `IsActive` looks at all streams, because the broker indexes by device. Cold sync is its three
reads. `ClientDrop` loses the connection without the handler knowing, `HandlerCancelled` is the
handler noticing, `Restart` a new process.

Abstracted: payloads (the handler ignores those of announcements), other devices, SQL errors (they
end the stream like `HandlerCancelled`/`AbandonPage`).

*Assumption (`KeptInUse`):* retention never deletes the last row while the log is in use (a device
holds cursor 0, or a handler is between a page and its bounds). The run `stream_emptied` drops it
and shows what happens then.

### PushRelay, DeviceTokens, PushDispatch
Three layers over the same devices, each extending the one before.

| State | Code |
|---|---|
| `reg` | the relay's table `registrations`, for one instance; a row always holds a token, so "no tokens" is no row |
| `ask[a]` | a handler of POST /v1/push at the relay: loaded, at the provider, refused, answered; whether the instance still waits |
| `device` | rows of `devices`: status and the two tokens |
| `patch[p]`, `revoker[r]` | handlers of PATCH /v1/devices/me and of a revocation, between their statements |
| `job`, `due` | rows of `push_queue`; the pending ones whose `next_attempt_at` has passed, in that order |
| `disp` | the dispatcher's batch and its step with the first job of it |
| `settled`, `accepted`, `unrecorded` | auxiliary: the last PATCH or revocation of the device ran alone, and nothing failed or crossed since it began; in how many attempts a provider took a job; how often the outcome of an attempt was lost, before the relay, before the instance or on its way to the row |

A PATCH is its four steps: `PatchGet`, `PatchWrite`, `PatchReread`, `PatchRelay`; a revocation is
`Revoke`, `RevokeRelay`. A handler's call to the relay may time out and arrive later, so its last
step may come at any time, or never (`PatchFail`, `RevokeFail`). The dispatcher is `NextBatch`,
`LoadEvent`, `LoadDeviceDrops` | `LoadDevicePushes`, then `Receive` or `NoAnswer`, `ClearTokens`
for a refused token, and `Settle`; `StatementFails` is a failed read (the job stays due) or write
(logged only), `Crash` a restart of the instance while the relay's handlers go on. At the relay
`RelayLoad` picks the provider, then `ProviderAccepts`, `ProviderRefuses` followed by
`ForgetRegistration` (by device, whatever the row holds by then), or `ProviderFails`;
`RelayAbandons` is the cancelled handler nobody waits for. Two failures leave the two sides with
different stories. `ProviderAnswerLost`: APNs or FCM has taken the notification, but the client of
the relay sees an error (`relay/apns.go:97`) and answers `upstream_error`, so the instance tries
again. `ForgetFails`: the relay cannot delete the registration, ignores that (`relay/pusher.go:87`)
and answers `invalid_token` all the same, so the row is cleared and the registration stays. Both
may happen in every attempt; `RelayStep` counts the first in `unrecorded`
(`ProviderTakesUnheard`) and takes the second out of `settled` (`RefusalKept`).

Abstracted: the notification's text (worth a push, or not), the length of back-offs, several
instances (registrations are keyed by instance; RelayInstances has them). The decision to enqueue
is part of VoiceJobs (`IsActive`).

*Tolerated by the code and kept in the model:* an `invalid_token` answer clears both tokens of the
row, also ones PATCHed while the push was under way; they come back with the next PATCH.

The queue loses jobs from its middle (`Without`, `DeleteDevice`) by `SelectIn` of the module
Selection, as the list of the idempotency cache does: the part of a sequence whose members are in
a set, defined by the rank of its places instead of by recursion, so that it can be reasoned about.
An assumption of `MCDelivery` compares it with `SelectSeq`.

### RelayInstances
`row` is the table `instances`, `secrets` the loader's map, `daemon` what the relay does with a
configuration file, `call` a signed request. `LoadRelayConfig` (start-up or SIGHUP),
`SyncInstances` (the transaction), `SyncFails`, `LoadSecrets` (NewInstanceLoader or Swap) and
`RelayStops` interleave with `CallArrives`, `LookUpSecret`, `VerifySignature`, `PutRegistration`.
The HMAC is whether the secret read first is the one that signed.

### Pairing
`pairing` are the rows of `pairing_requests`, `paired` the devices by the confirmation that made
them, `subs` the broadcaster's map, `poll` and `confirm` the handlers, `opened` the pages the
owner's browser has loaded; `told` (auxiliary) says which poll answered with which token. The
confirmation is `ConfirmGet`, `ConfirmCommit` (device and mark in one transaction), `Notify`; the
long poll is `PollGet`, `Subscribe`, `Reread`, then `PollReceives`, `RereadConfirmed` or
`PollEnds`. `PairingRestart` loses handlers and subscriptions, which is where the bearer token
exists. The CSRF token is whether a form comes from the newest page.

### IdempotencyCache
`cached` and `lru` are the map and the list, `entry` the entries, which waiters hold on to after
they left the map; entries are named by the request that made them. `horizon` stands for the
clock: entries made before it have expired. `ReserveExisting`/`ReserveNew` are `reserve` with
expiry and eviction, `HandlerSucceeds`/`HandlerFails` are `fulfill`, the second removing whatever
entry the key has by then, `Replay` the waiter that is released. The list never holds an entry
twice and never more than `MaxEntries`, at least one: the code makes 1024 of anything less
(`api/idempotency.go:145`).

### ProjectNames
`project` (name, slug, task counter), `alias`, `binding` and `task` are tables; `cache` and
`filler` the cached list and the lock under which it is filled; `work[u]` the operation a user is
in. An operation that checks a list first is split: `ListHit` or `ListRead`/`ListStore`, then its
transaction, then `Invalidate`. The others are their transaction and `Invalidate`. `DeleteProject`
moves the tasks (`Moved`) to the Inbox in the order of their numbers (`Place`, `InboxNumber`) and
removes aliases and bindings. `given` counts how often a number was given, per project and not
per slug: `DisplayID` is what people write, the slug and the number, and it is resolved when it is
read (`storage/task_store.go:392`). A project that is deleted or takes another slug leaves its slug
to the next one, so a reference is one task at any moment, and the same task only as long as its
project keeps the slug. Descriptions, colours and the resolution of texts are left out.

### ImapPoll
One folder. `mail`, `uidNext`, `validity` are the server (external: `Arrive`, `Expunge`,
`Recreate` as a new generation), `mailCursor` the stored cursor, `mailPoll` the poll: `SkipExisting`
or `SelectFolder`, `Search`, then one step per FETCH response (`FetchHandled`, `FetchFiltered`,
`FetchNothing`, `HandlerError`), `FetchEnds`, or `PollFails` anywhere.

### TelegramIntake
The loop `watch` (`GetUpdates`, one step per update, `SaveUpdateCursor`), the stored
`updateCursor`, the server's own memory `kept` (it forgets below the offset asked for), the tables
`forwards` and `receipts`, the dispatcher's channel `signals`, its snapshot `dispatch`, the
in-memory queue `chats`. A receipt stands for the whole transaction of AutoTasks; the forwards of
the snapshot are deleted in the same step (`SubmitForwards`). A direct message that is only in
memory is lost by a restart, which the code accepts; no property says otherwise.

### GuardedChat
One group. `pending` and `guardRow` are the guard's entry in memory and in `guard_pending`, `loop`
the poll loop with what it has acknowledged, `chatUpdates` what happens in the chat. `SendWelcome`
then `UpsertPending`; `ConfirmChat` then `DeletePending`; `ExpirePending`, `LeaveChat`,
`DeleteLate`; `GuardRestart` then `RecoverPending`. Each call may fail (`callFailed` remembers).
`fate` is auxiliary.

### VoiceJobs
`voice` (rows of the queue), `audio` (files), `upload`, `worker`, `agent`, `armed` (the timer),
`stream` (whether the device has one open), `served` (this process has the HTTP interface, and so a
downloader and a consumer for jobs of clients). Upload: `StoreAudio`, `EnqueueVoice`. Worker:
`ClaimVoice`, `TranscribeFails` | `TranscriptUseless` | `Consume`, the race (`TakeReply`,
`TakeError`, `AckTimer`, `HardDeadline`), `RescheduleVoice` | `DropVoice`, `FailVoice`,
`CompleteVoice`. The agent's goroutine is not stopped by the deadline and goes on to touch tasks.
`VoiceCrash` cancels everything: the claimed job stays queued. The next process may be configured
without the HTTP interface; its worker completes a job of a client at once and tells nobody
(`DropUnserved`, `transcribe/worker.go:110`), which `EndIsSignalled` names as the one exception.
What ends a voice message for the client is `chat_message_created` of the agent or `voice_failed`;
the `chat_reply` event that the chat service publishes besides with every reply of the agent, also
with one after the synthetic answer (`usecase/chat.go:64-128`), is left out, except that failing to
write it makes the agent fail. Texts and recognisers are left out;
how often the client heard the transcript and the end is in `said`.

### TaskQuestions
`candidate` (status and recorded message), `messages` (what the owner's chat shows), `asker` (the
candidates of its list it has not dealt with; identifiers stand for the order of creation, so the
next, `subject`, is the least), `presses` (callbacks Telegram still delivers), `answering`. `ListQuestions`, `SendQuestion`,
`MarkQuestionSent` against `PressButton`, `TakeCallback`, `Decide`, `EditMessage`, `Redeliver` and
`QuestionsCrash`. `Decide` here is the transaction of AutoTasks seen from the chat.

### MC modules
`MCAutoTasks` and `MCEventStream` add model values and the symmetry sets. `MCServices` puts the ten
components that share no state side by side: `part` names the one that runs in a behaviour, so a run
costs the sum of their states, not the product, and one configuration gives all their constants.
Its `TypeOK` is the type invariant of the part that runs. `MCDelivery` does the same for the three
queues with liveness properties, under the fairness of all three: a part that does not run has
nothing enabled that fairness could demand. `MCDevices` runs PushDispatch or
VoiceJobs where the questions need more changes of one device, or more failures of two jobs, than
fit beside the others; the handlers of PATCH are symmetric there, since nothing tells them apart.
The remaining runs use a component's module directly.

## 4. What the runs check

| Run | Instance | Checks | States |
|---|---|---|---|
| `intake` | 2 projects, 2 automatic ids, 1 other task, 2 candidates, 2 inputs, batches of ≤ 2, 2 events by others | `TypeOK`, `AutoTaskOwned`, `CandidateProjectLive`, `SubmitInv`, `DuplicateJustified`, `ImplementsLedger` | 613 k |
| `intake_live` | 1 automatic id, 1 candidate, 1 input, 3 events by others | `SubmitTerminates` | 39 k |
| `purge` | as `intake`, 3 events | `PurgedWasClosed` is **violated** | |
| `stream` | 1 handler, pages of 2, channel of 1, 4 events, 2 drops | `TypeOK`, `GapFree`, `SettledIsCurrent`, `EventReached` | 520 k |
| `stream_pair` | 2 handlers, pages of 1, 2 events, 1 drop | `GapFree`, `SettledIsCurrent` | 422 k |
| `stream_emptied` | as `stream`, 2 events, without `KeptInUse` | `GapFree` is **violated** | |
| `services` | ten components, below | 20 properties, below | 2.27 M |
| `devices` | tokens and recordings, below | `RelayInStep`, `EndIsSignalled`, `SaidOncePerRun`, `AudioKept` | 3.84 M |
| `delivery` | voice, telegram and push, below | `JobEnds`, `VoiceEnds`, `ForwardsEnd` | 61 k |
| `voice_mutes_push` | 2 voices, 1 fault | `PushedWithoutStream` is **violated** | |
| `imap_replay` | 3 messages, 2 generations | `ExistingSkipped` is **violated** | |
| `owner_readd` | 4 updates, 2 welcomes, 2 faults | `OwnerAddedStays` is **violated** | |

The parts of `services`:

| Part | Instance | Properties | States |
|---|---|---|---|
| pairing | 2 requests, 2 polls, 2 forms, 2 pages | `OneDevicePerPairing`, `WaitingPollWillHear`, `TokenTakenOnce` | 465 k |
| idempotency | 2 keys, 3 requests, room for 1 entry | `SecondRunExplained`, `WaitersReleased` | 15 k |
| instances | 2 instances, 2 secrets, 1 call, files of ≤ 2 entries | `InstancesHaveRows` | 85 k |
| projects | Inbox and 1 project, 2 names, 1 alias per project, 1 channel, 2 tasks, 2 users, numbers ≤ 2 | `CacheStaleOnlyBriefly`, `ReferencesLive`, `OneTaskPerReference` | 939 k |
| imap | 3 messages, 2 generations, both modes | `MailNotSkipped` | 302 k |
| guard | 3 updates, 2 welcomes, 2 faults | `LeftOnlyUnconfirmed`, `RestartsAdmitNobody` | 104 k |
| voice | 1 job, 2 attempts, 1 fault | its types; the rest is in `devices` and `delivery` | 2 k |
| telegram | 3 updates of any kind, channel of 1, 2 faults, both modes | `GroupProcessed`, `ForwardKept` | 141 k |
| questions | 2 candidates, 3 messages, 2 presses, 2 faults | `OutcomeShown`, `AskedOnce` | 31 k |
| push | 1 device, 1 token, 1 job, 2 requests at the relay, 2 attempts, 1 fault, 1 PATCH or revocation | `DeliveredWasAccepted`, `RepeatExplained`, `SettledOnce` | 187 k |

`delivery` has no PATCH and no revocation, one request at the relay, one fault in push and one in
Telegram, and one voice job with two faults, so that Reschedule and Complete may both fail.
`devices` has two voice jobs, two attempts and two faults; or one device with one token, one push at
the relay with one attempt and one fault, two handlers of PATCH and one of a revocation, which
between them change the device at most three times.

*What they show.*
`DuplicateJustified` is the heart of intake: the decision to drop a promise is made minutes after
the references were read, and the run lets every other writer act in between; the recheck of the
revision catches all of them. `AutoTaskOwned` and `ImplementsLedger` cover crashes, failed
commits, redelivered inputs and repeated answers. `CandidateProjectLive` covers project deletion.
`GapFree` relates the device's cursor to what it has really received across resets, pages,
retention between two reads and frames written into dead connections. `SettledIsCurrent` is the
absence of lost wakeups as a safety property; `EventReached` is the same hazard as liveness,
including overflow.

In `services` and `devices`, each property relates two actors or two moments. `WaitingPollWillHear` is the lost
wakeup between a commit and its publication; `TokenTakenOnce` says that a token in a channel
cannot be taken twice. `SecondRunExplained` allows a repeated execution only for an entry that
expired, was evicted or fell with another's failure. `CacheStaleOnlyBriefly` is about a list read
before a commit and stored after it. `MailNotSkipped`, `GroupProcessed` and `ForwardKept` are the
same question of three inputs: does an acknowledgement ever pass something that is not stored.
`LeftOnlyUnconfirmed` and `RestartsAdmitNobody` pull in opposite directions, so neither a guard
that forgets nor one that remembers too much satisfies both. `SaidOncePerRun` counts what the
client was told against runs that were cut off. `AskedOnce` and `RepeatExplained` do the same for
questions and pushes. `RelayInStep` says that the row and the registration, which nothing keeps
together, meet again whatever went wrong before: two PATCHes may cross, or a PATCH and a
revocation, or a call to the relay may be lost, and the next PATCH or revocation that runs alone and
whole puts both sides in step. `OneTaskPerReference` is about what moves and the deletion of a
project do to the numbers and slugs by which people name tasks. `SettledOnce` is about late answers and
back-offs of a job that is already decided.

*Deadlock checking* is on in the intake and stream runs: writers may fall silent at a bound, but
some step (a new submission, a reconnect, a restart, the ticker) is always possible. It is off in
the others: their inputs (requests, forms, updates, messages, voices, jobs) are bounded and used up,
after which a component rightly has nothing to do.

*Bounds and why they are enough.* `MaxEvents` in AutoTasks silences only the other writers; intake
itself always may commit. Two candidates make same-batch matches possible, two inputs make partial
replays possible, one deletable project beside Inbox gives every reassignment, and one task by
others that starts open or closed in either project gives closing, moving, reopening and purging
during a comparison. In EventStream four events with pages of two give a full page, a partial one,
rows above the target and retention of any prefix; a channel of one makes overflow easy; two drops
allow a lost stream and a restart. The pair run needs only two events to overlap a lingering
handler with its successor.

In `services` each component has two of what can race and one of what is raced for. Two polls, two
forms and two pages give every crossing of publication, subscription and page
replacement, and a second request somebody else to whom a token could go. Three requests over two keys and one place in the cache
give eviction of a running entry, its successor and a waiter for the old one. One project beside
the Inbox with two names and two users is enough for a check and a change to cross; with two tasks and a number bound
of two a task is moved away and another takes its place, or the Inbox takes in both. Three UIDs are one below, at and above
the cursor; two generations one change of UIDVALIDITY. Two welcomes give a stale confirmation and a
stale deadline; two faults a crash inside the recovery of a crash. Three updates put one before and one
after the one that fails. Three question messages for two candidates leave one repetition. Two
requests at the relay are the one in flight and one abandoned earlier, which is how an old refusal
meets a new registration. In `devices` two of the three changes cross and the third heals; two recordings
wait behind each other, and two faults are two failed statements, or one and a crash.

*Fairness.* `intake_live` assumes weak fairness of Submit's own steps: the goroutine runs, and the
model call has a timeout (`ai/task_duplicate_checker.go:81`); nothing is assumed of other writers,
whose number of events is bounded. (With writers that never pause, the compare-and-retry loop can
go on for ever; the code has no limit on it.) `stream` assumes, for `EventReached`, that a goroutine that has
committed goes on to Notify, that handlers and the broker's removal run, that a dead connection is
eventually noticed, and that a device without a stream reconnects or syncs; nothing is assumed of
the ticker, of writers or of retention.
`delivery` assumes, for voice, that transcription stays configured, the worker's loop goes on, the hard deadline of
`usecase/client_voice_consumer.go` fires and back-offs elapse (nothing is assumed of the agent: it
may never answer); for Telegram, that the dispatcher takes its next signal and ends its submission
and that the sweeper's ticker comes round; for push, that the dispatcher ticks, back-offs are
finite and a handler of the relay has a deadline. Nothing is assumed of users, inputs or rival
handlers, and faults are finitely many.

*Disagreements found.* All are in `PROJECT.json` with the lines they quote.
- `purge`: `PurgeClosedOlderThan` (`usecase/tasks.go:414`) reads its list before its transaction
  and deletes by id; a task reopened in between is deleted while open.
- `stream_emptied`: `drainThrough` (`api/events.go:157`) takes the bounds of an emptied table for
  those of a log that never had events and writes a page over a gap.
- `voice_mutes_push`: while the agent answers a voice message, the consumer is subscribed to the
  broker under the device's id (`usecase/client_voice_consumer.go:209`), and `IsActive` counts it
  as a stream: an event recorded meanwhile is queued for no push although no stream is open.
- `imap_replay`: the search for `n:*` (`channel/imap.go:255`) returns the last message of the
  folder also below `n`. When what was new has been expunged, that is a message monitor mode had
  skipped at the first connection, and it is handled.
- `owner_readd`: when the owner adds the bot to a chat it had been welcomed to before
  (`channel/telegram.go:1012`), the pending approval stays, and the bot leaves at its deadline.

Every property of a passing run has a mutant in `PROJECT.json`: a plausible bug in a translated
definition that makes TLC report exactly that property.

## 5. What is proved

Seven modules of theorems and one of lemmas, each for every value of the constants that satisfies
the assumption its model states. A component's proofs begin with its inductive invariant and end
with its properties; `PROJECT.json` says for every theorem what it establishes.

| Module | Component | Invariant | Properties |
|---|---|---|---|
| `AutoTasksProofs` | AutoTasks | `SubmitInvariant`, `RowsInvariant` | `TypeCorrect`, `DuplicatesAreJustified`, `AutoTasksOwned`, `CandidateProjectsLive`, `IntakeImplementsLedger` |
| `EventStreamProofs` | EventStream, under `KeptInUse` | `FeedInvariant` | `StreamTypeCorrect`, `FeedIsGapFree`, `SettledStreamsAreCurrent` |
| `ChannelProofs` | TelegramIntake | `TelegramInvariant` | `TelegramTyped`, `GroupMessagesProcessed`, `ForwardsKept` |
| | GuardedChat | `GuardInvariant` | `GuardTyped`, `ConfirmedNeverLeft`, `NobodyAdmittedByRestarts` |
| | TaskQuestions | `QuestionsInvariant` | `QuestionsTyped`, `OutcomesShown`, `AskedAgainIfUnrecorded` |
| | ImapPoll | `ImapInvariant` | `ImapTyped`, `MailIsNotSkipped` |
| `HttpProofs` | RelayInstances | `InstancesInv` | `InstancesTyped`, `InstancesKeepRows` |
| | IdempotencyCache | `IdempotencyInv` | `IdempotencyTyped`, `RunsExplained`, `WaitersAreReleased` |
| | Pairing | `PairingInvariant` | `PairingTyped`, `OneDevicePerRequest`, `ConfirmationsAreHeard`, `TokensAreTakenOnce` |
| `UsecaseProofs` | VoiceJobs | `VoiceInvariant` | `VoiceTyped`, `EndsAreSignalled`, `RunsAreToldOnce`, `AudioIsKept` |
| | ProjectNames | `ProjectsInvariant` | `ProjectsTyped`, `CacheFollowsTables`, `NoDanglingReferences`, `ReferencesAreUnique` |
| `PushDispatchProofs` | PushDispatch with PushRelay and DeviceTokens | `PushInvariant`, `QueueInvariant` | `PushTyped`, `RelayHealsIntoStep`, `DeliveriesWereAccepted`, `RepeatsExplained`, `DecidedForGood` |
| `ServicesProofs` | MCServices | | `ServicesBehave`, `ServicesTyped` |
| `SelectionProofs` | lemmas about Selection, `Append` and `Tail` | | |

*Intake.* `DuplicateJustified` is about one step, `Commit`, but its truth depends on what was
read several steps before. `SubmitInv` carries it across: `MarkHolds` says that while Submit holds a
revision, retention has not passed the mark, so a revision that still matches means that no event
was appended (`RevisionMeansMark`, also when the table was empty at either read); `SnapshotHolds`
says that as long as none was appended the references are still those of the snapshot, because
every writer that could change them appends in the same transaction; `BatchHolds` says that a
duplicate's match is one of these references or an earlier member of the batch (`OutcomeShape`).
`CommitJustified` puts the three together. The rows need their own strengthening: `RowsHold` adds
that a candidate has a task exactly when it was created, and that the task exists, so a fresh task
cannot already be owned. Refinement then maps each step: a commit is one `Intake`
(`CommitIntake`), an answer is `Accept` or `Refuse` (`OwnerLedger`), everything else stutters
(`OtherLedger`).

*Stream.* `GapFree` alone is not inductive, since a step from a page to a frame only keeps it if
the page has no hole. `PageInv` says that a page lacks nothing above the cursor but what retention
had deleted by then, and nothing once its bounds are accepted; `SnapshotInv` that a cold sync
lists at least what it marked; `PeerInv` with `OnePeer` that the one handler a device listens to
has the device's cursor. `SettledIsCurrent` adds where a wakeup is: in the channel, in an announcement not yet
sent, or in a handler about to read.

*Telegram and guard.* `TelegramInv` widens "acknowledged" to what is about to be: updates below the
loop's position are stored, as are those below the cursor about to be saved, and the snapshot of the
dispatcher is inside the buffer. The guard's invariant says where the loop stands
among the updates (`BatchInv`, `PlaceInv`), that what is pending, in the table or about to be decided
is neither confirmed nor left for yet (`FateInv`), and that, when no call has failed, the last
welcome was confirmed or has a row the step at hand will not forget (`Watched`), unless an addition
is still ahead of the loop (`AdmitInv`).

*Questions.* `AskerInv` keeps the asker to candidates that wait or have been decided meanwhile,
`AnswerInv` what a callback is about to show to what is stored. `AskedOnce` counts messages, and
becomes inductive as an account per candidate (`AskedInv`): as many messages are about it as were
not recorded, plus one unless it is still to be asked. A step costs the account nothing, sends and
records, sends without recording, or fails to record what was sent before (`AccountMoves`).

*Relay instances.* The secrets are those of active rows except between the transaction and the
loading (`SecretsActive`, `ListActive`); rows are never deleted, so who was once let in has one
(`SecretsHaveRows`, `CallsHaveRows`).

*Idempotency.* The type invariant carries the cache's structure: the list and the map hold the same
entries. `RunsCounted` accounts for the runs of a key: those that have answered and those that
still run are one, the entry of the map, plus the lost ones, so that a loss is paid before the run
it permits has ended. `EntriesMade` and `WaitersWait` tie a waiter's entry to the request that made
it, in the cache or out of it.

*Pairing.* `ConfirmInv` and `DeviceInv` relate a confirmation's step to the row and its device,
`SubsInv` a subscription to the poll that holds it, `TokenInv` a token to the one place it is in:
the confirmation, one channel, or one answer. `WaitingPollWillHear` is about the poll that holds the
subscription: one that a second poll displaced (`pairing/broadcaster.go:27`) waits for its time-out.

*IMAP.* `PollInv`: below the last message the poll has passed, each message that matches is
handled, skipped on purpose or still awaited; so saving the cursor is right in whatever order
responses came.

*Voice.* `UploadInv` keeps the file before the row, `WorkerInv` the worker's job in the queue and that a
job about to be completed is over (`Over`: signalled, lost to a failed write, or dropped by a process
without the interface), and `SaidInv` compares what was heard and ended with the step the worker is
in, plus `cut`.

*Push.* `AskInv` says who waits for a request and what its state says about the provider and the
registration; `IdleInv` that an idle handler belongs to no device; `StepInv` what the one
undisturbed change of a device knows of its row at each step (`LonePatch`, `LoneRevoker`,
`LoneAsk`), from which `RelayInStep` follows when it ends; a refusal whose deletion failed has left
`settled` (`RefusalKept`), so `LoneAsk` speaks of those whose deletion ran; `SentInv` that a verdict "delivered"
has its acceptance.

The queue has an invariant of its own, `QueueInv`: what is due is pending and due once (`DueInv`),
the batch holds distinct jobs that are pending or whose rows are gone (`BatchInv`), a row counts an
attempt only when another may follow (`RowInv`). `SettledOnce` follows from these, and
`RepeatExplained` from the account of a job: the providers' acceptances and the requests that may
still become one (`Loose`) are at most the lost outcomes plus one, the one only once an answer is
on its way to the row or the job is decided (`Accounted`). A step leaves the account alone, moves
the request in hand or a loose one on, loses an outcome, at once or on its way, or takes a push
whose answer is lost and pays for it in the same step (`TakenAndLost`).

*Projects.* `CacheStaleOnlyBriefly` needs the lock: who fills the cache holds what is in the tables,
or somebody who changed them has yet to invalidate (`CacheInv`), and an invalidation waits for the
lock. `RowsInv` has the uniqueness of names and slugs; that some suffix is free is a pigeonhole
argument over the projects (`Slugs` offers as many suffixes as there are projects). `BelongInv`
says that aliases, bindings and tasks name live projects, which the checks inside the transactions
re-establish for operations that looked a project up earlier. `NumbersInv` says that numbers given
are counted, that tasks of a project differ in theirs, and that a number is given once; with the
uniqueness of slugs this makes references unique (`OneTaskPerReference`). The
deletion of a project gives its tasks places of their own, which is the injectivity of ranks.

*Together.* `ServicesBehave`: a behaviour of MCServices is one of each component's specification,
so all of the above holds of the composition that TLC runs; `ServicesTyped` is its `TypeOK`.

Records inside functions are updated by nested EXCEPTs in the modules with proofs, a form the
provers expand reliably.

*Only model-checked:* liveness (`SubmitTerminates`, `EventReached`, `JobEnds`, `VoiceEnds`,
`ForwardsEnd`), which is outside what these proofs cover. The five disagreements are
counterexamples, and no theorem is about the properties they violate.

## 6. Not modelled

- *Chat and history*: one transaction writes a message and its event; the rest is a call of the
  agent. What races with it is in VoiceJobs.
- *Agent*, *AI classification and extraction*: external models, prompts and their tools, which call
  the use cases; their answers are nondeterministic where they matter.
- *Date parsing*: pattern matching on text, data without state.
- *Reminders*: a timer over a configured schedule whose summaries are formatting.
- *Configuration, localisation, start-up*: parsing, text and wiring.

Left out of components that are modelled: MIME decoding, several accounts of one kind (they share
nothing), media and markup, rate limits, the protocols of APNs, FCM and the recognisers, the HMAC,
the Telegram consumer of voice messages, summaries, priorities, deadlines and list filters of
tasks, descriptions and colours of projects. Real time is abstracted everywhere: a timeout is a
step that may happen.

## 7. Running

```
tlc -workers 2 -config MCAutoTasks.cfg MCAutoTasks          # also MCAutoTasksLive, MCAutoTasksPurge
tlc -workers 2 -config MCEventStream.cfg MCEventStream      # also ...Pair, ...Emptied
tlc -workers 2 -config MCServices.cfg MCServices
tlc -workers 2 -config MCDevices.cfg MCDevices
tlc -workers 2 -config MCDelivery.cfg MCDelivery
tlc -workers 2 -config VoiceMutesPush.cfg VoiceJobs
tlc -workers 2 -config ImapReplay.cfg ImapPoll
tlc -workers 2 -config OwnerReadd.cfg GuardedChat
for m in AutoTasks EventStream Channel Http Usecase PushDispatch Services Selection
do tlapm ${m}Proofs.tla; done
```
