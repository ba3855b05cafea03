# TLA+ models of SoundCloud-Backend

Specifications of the parts of this backend whose correctness depends on
interleavings, leases, redelivery, lost messages and crashes.  They are
model-checked with TLC on small instances; the most important properties are
also proved with TLAPS for every value of the constants.  `PROJECT.json` maps
every definition to the lines it models, and lists the hazards the properties
are aimed at, the mutants each property rejects and the theorems.

## 1. The system and its parts

Services: `api` (axum; also rooms, remote control and voice links), `jobs`
(background work), `streaming`, `storage`, `gateway`, and `worker` (Python,
machine learning).  They share PostgreSQL (one core database and replicas at the
API nodes), Redis, Qdrant and NATS JetStream.

| Part | State | Interacts with | Module |
|---|---|---|---|
| Job queue (`jobs/src/queue`) | `background_jobs`, receipts, failures | handlers, scheduler, ingress | `JobQueue`, abstractly `JobMailbox` |
| Ingress (`jobs/src/bus`) | stream, consumer, delivery tasks | API publisher, job queue | `JobIngress` |
| Lookup lane and governor (`queue/lookup_lane.rs`) | counters under a mutex | job queue, lyrics handlers | `LookupLane` |
| Connection refresh (`sync_queue/connection.rs`, `auth_rpc.rs`) | tokens, lease, evidence of a row | SoundCloud OAuth, login | `TokenRefresh` |
| Voice links: tokens (`remote/links.rs`) | current and previous token of a grant | the assistant's client | `GrantTokens` |
| Sync queue (`handlers/sync_queue`, `api/.../sync_queue`) | pending mutations, mirror rows | SoundCloud API | `SyncQueue` |
| Write pauses (`write_pause.rs`) | paused actions, in memory and saved | sync queue | `WritePauses` |
| GPU lane (`worker/bus`, `jobs/src/bus/advisory.rs`, `worker_consumers.rs`) | deliveries, leases, owners, outbox, reaps | JetStream, result receivers | `WorkerLane` |
| Engine processes (`runtime/supervisor.py`) | engines, leases of clients, waiting callers | batcher, lanes | `EnginePool` |
| Batcher (`runtime/batcher.py`) | rows queued, collected, called | engine processes | `Batcher` |
| Audio index (`jobs/.../indexing`) | track row, work item, applier's lease, vectors | GPU lane, Qdrant | `AudioIndex` |
| Storage (`storage/src`) | locks, batches, writer queue, event spool | streaming, jobs | `StorageUpload` |
| Quota on tmp (`storage/src/tmp*`) | byte counter and the files it stands for | uploads | `TmpQuota` |
| Stored copies (`streaming/src/stream`) | row, upload slots, breakers | storage, jobs | `TrackCopies` |
| Replication (`api/migrations/0174*`, `ops/replication`) | rows, tombstones, version clocks of each node | logical replication | `Replication` |
| Coalesced loads (`api/src/cache/single_flight.rs`) | flights, gates | every cached read | `Coalesce` |
| Per-client windows (`api/src/common/windows.rs`) | windows, queue of openings | admission | `ClientWindows` |
| Rooms (`api/src/modules/rooms`) | room documents, seen times, directory, chat index in Redis | polls, reaper | `Rooms` |
| Remote hub (`remote/hub.rs`) | stream, claims, replies and presence in JetStream | devices, assistant | `RemoteHub` |
| Voice links: pairing (`remote/linking.rs`) | code, lock, counters, tickets | devices (question), assistant (polls) | `LinkPairing` |

How they meet: a command published by the API enters through `JobIngress`, whose
`AcceptedOnce` is what lets `JobQueue!Enqueue` take it once; a targeted lookup of
`LookupLane` and an executor of `SyncQueue` are executions of `JobQueue`;
`SyncQueue` asks `WritePauses` before its first request and gets its token from
`TokenRefresh`; `AudioIndex` publishes to a lane of `WorkerLane`, whose
processor calls `Batcher`, which leases clients of `EnginePool`; `TrackCopies`
uploads through `StorageUpload`, whose event reopens `AudioIndex`.  Each module
keeps the other side as free choices of what it may answer, in particular late,
twice or never.

What is hard here and hard to test: a lease that ends under a living holder; a
decision from a value read before an await, a lock or a statement; a message
redelivered after its effect; secrets that are spent by use; futures dropped at
any await; events of two services in any order; clocks that differ; and things
that must eventually happen.  The list at its lines is `PROJECT.json`, "hazards".

## 2. Modules

A component has one module.  `MC*` modules give constants their values.  Modules
whose parts fit one question are checked in one run: `MCJobs`, `MCSyncWrites`,
`MCWorker`, `MCMedia`, `MCDevices`, `MCTokenRefresh` and `MCCoalesce` declare the
variables of several components and a constant variable `part`; **a behaviour
works on one part, and the parts share no state**, so the union is neither weaker
nor stronger than a run for each.  A property like `StorageSafe` names the
properties of its part (`part = "storage" => Storage!AnnouncedIsStored ...`),
which are stated and explained in the component's module.  Where a proof is about
such a part, its proof module extends the MC module and its theorem is about the
MC module's specification with its constants left open; TLC's bounds are in a
specification of their own (`BoundedNext` of `MCSyncWrites`, `MCMedia` and
`MCDevices`).

Definitions whose comment starts with "Mutant:" are used by no specification:
each is a plausible bug, and with it in the place of the definition that follows
a property fails.

**JobQueue.**  One step per SQL statement; its WHERE clause is evaluated in that
step, and anything may happen between two.  `run` is the worker's `LeasedJob`, a
copy that grows stale.  Claim order (lane, priority, age) is a free choice; times
are the flags `due` and `expired`; the lease id is the slot.

**JobIngress.**  JetStream stores, delivers, redelivers and forgets.  A delivery
task decodes, writes row and receipt, acknowledges.  Faults: answers lost before
or after their effect, lost acknowledgements, `ack_wait` passing, crash.  Time is
a counter because the property is about ages.  `AgesOK` assumes
`MaxAge + Hold <= ReceiptAge`: true of the defaults (3 days, minutes, 7 days),
not enforced for `JOBS_NATS_MAX_AGE_SECONDS`.

**LookupLane.**  The counters are variables apart from the slots that exist.  The
cap is read in a step before the lock.  Database pressure is a free choice;
`SLOT_RECHECK` bounds a wait for `freed`, so notification is left out.

**TokenRefresh.**  A pair of tokens is a number, a refresh token is good for one
exchange.  Answers may be lost, refusals repeat, refreshers die, leases run out
under a stalled one (`mishaps`, so that `TokenKept` can be about behaviours
without).  Refusals come 10 minutes apart, evidence must be 15 and 30 minutes
old: after `Patience` refusals it is complete.

**GrantTokens.**  One grant and calls that present the code, the client's token or
any token answered before; the 300 s grace may end at any time.  A code that comes
again revokes the grant, and so does the previous token after the grace, as
`router_voice_tests.rs` requires; a token two generations old is refused without
revocation.  The history `replayed` says that a code came again after an answer to
it or the previous token after its grace: `HealthyKept` (only the user ends the
grant) is about behaviours without; `SameAnswer`, `KeepsUp` and `RefusedIsOver`
(what could still be answered is refused only when the grant is gone) about all.

**SyncQueue.**  Filing (with annulment of the opposite wish), adoption, claim,
execution with every answer SoundCloud may give, recording, parking, revival and
purge.  TLC looks at the two mutations of a like and at the two that must not be
sent twice in behaviours of their own; the theorems are about all four together.
`LaterIntentWaits` and `SyncedIsTrue` are about behaviours in which no mutation
can have been parked yet (`errors < MaxRetries`; section 5), `WantedUntilServed`
about all of them.  `mishaps` counts what the queue does not guard against: an
execution that outlives its lease, a request SoundCloud carries out after its
answer was given up on (`Lands`), and a listing that misleads the look at an
unclear create (`ListingMisleads`; `create_check.rs` reads four pages of 50 and
compares trimmed titles and times).  After one, the look may find nothing and the
create is sent again, or take another playlist for it: `SendsSafe` and
`SyncedIsTrue` are about behaviours without a mishap.

**WritePauses.**  Pauses of an action for an application or an account, admission,
probes within a hold, refusals and escalation, saving and restoring.

**WorkerLane.**  `Silence` (ack_wait minus heartbeat) comes before `Expire`
(ack_wait): that is the margin `heartbeat_s` leaves.  Results are a set since the
stream drops a repeated message id.  An acknowledgement of a task the consumer
does not hold pending may or may not remove it.  No stream `max_age`, no limit of
64 reaps, only lanes with a receiver.

**EnginePool.**  One slot hosted by all engines; leases, waiting callers,
preemption, pings, idle unloading, recycling with and without overlap, breaker,
stop.  The housekeeper pings an engine's own client, when that client is idle and
the engine is not being recycled.  Left out: `_give_up`, thread shares, the unloading of another slot after an
oom, `Supervisor.kill`; the window of deaths is a free choice.

**Batcher.**  Submissions of one or more rows; collecting, waiting, acquiring
(cancelled by priority rows), every outcome of a call, closing.  Pace is the flag
`slow`; a result of another shape is a crash.

**AudioIndex.**  One track, its uploads in order, each statement a step; the
worker's answers late, repeated or lost.  A track may be held (`pipeline_held`)
until somebody opens it, which nobody has to: the backfill passes over it, and
`EveryUploadSettles` is about the others.  Left out: fingerprints, canonical links,
the repair of unannounced uploads, delayed upserts; the backfill's conditions on
age, verification and cooldown are delays, which fairness abstracts from.

**StorageUpload.**  Requests with the file lock, batches, ffmpeg runs, the two
duration gates, writers with retries, events spooled across restarts.  An upload
stands for its recording.  The spool (`list`) is a set of numbered events of which
the lowest number is published first.  `AnnouncedIsStored` is about the S3 and
Drive backends; the local one is a constant (`Local`).  Left out: range reads, the Drive protocol, bitrates,
channel bounds.

**TmpQuota.**  The counter with its width (a `fetch_sub` below zero wraps), the
reservation's `Drop`, the rescan that corrects the counter while requests go on.
Sums over uploads are counted as sets of chunks (`Total`), which is what makes
them provable.

**TrackCopies.**  Lookup, verification, upload rule, slots and breakers, background
upload with timeouts, upgrade, storage events and their repair, for one track.  A
row that no event has spoken for becomes due after the repair's grace (fair: time
passes) and too old after its lookback of two days (at any time, never fair); a
track may be found too long, and stays so here.

**Replication.**  The row and tombstones of one key at core and API nodes;
`scd_hlc` versions with the node's number in the low bits, merge triggers,
transactions in order per link, resends and their drain (row lock first), a lost
slot followed by `scd_resend_all`.  A change of a row that is there is one step,
under the row's lock.  An insert is two: zz_merge reads row and tombstones without
a lock and writes later (`InsertReads`, `InsertWrites`, with its attempts), a local
insert takes its version and commits later, and the apply workers of other links
and local writers come in between.  `races` remembers an insert that was written
after something newer had come in: "covered" when a tombstone had, "overwritten"
when a row had.  `RowAboveTombs` and `VersionsDiffer` are about behaviours without
either, `LatestWins` about those without the second.  Not modelled: classes C, M and K, commands and
hold, other unique keys, tombstone retention, verify.

**Coalesce.**  Flights behind weak references, arrival, gate, publication, failure,
cancellation at any await, and the two steps of leaving.  **ClientWindows.**  The
map, the queue of openings, eviction and compaction under one mutex with times
read up to `Skew` before it.

**Rooms.**  Requests as sequences of Redis steps; every write is a
compare-and-swap of a document read earlier.  Merged reads: load with
`seen_since` in admit, load with `moved_to`, `show`'s two, hand-off's three.  Not
modelled: mutes, settings, backdrops, previews, TTL, long polls, moves between
Redis servers.  A hand-off's forget, release and `host_seen` are steps of their
own.  The ban list keeps the newest `MaxBanned`: `BansHold` promises an
acknowledged ban until that many others were banned after it (a ban repeated keeps
its first place).  A leave gives up with 409 when its swaps or rounds are used up:
`LeavesTakeEffect` says that this takes that many changes by others.

**RemoteHub.**  Dispatch with deadline and late read; waits with presence, scans,
claims, wakes and replacement; answers.  A client starts with a cursor or without
one.  An asker whose late read fails is told "silent" like one that found nothing;
the model keeps the two apart, and `RecordedIsHeard` is about the read that
succeeds.  Not modelled: the presence cache, device limits, stream resets, reopening of
the store.

**LinkPairing.**  One code; attempts (lookup, lock, counters, question, ticket) and
polls (answer, consumption, release, link, put back), each call a step that may
fail.  The lock of 70 s outlasts a question.  Not modelled: the review code, page
admission, two codes of one user.

## 3. Runs

Distinct states in brackets.

| Run | Instance | Shows |
|---|---|---|
| `jobs` (310,943) | one key, two executions, two commands, two pages or postponements; two commands (one refused), two tasks, two faults, four ticks; caps of two and three slots, raised and lowered, two sweeps of up to two | the fences (`HolderRunsNewest`, `FreeRowClaimable`, `StaleRunHarmless`), that the queue implements `JobMailbox`; `AcceptedOnce`, `NothingLost`; the lane's accounting (`LaneInv`) and `GrantsKeepShares`; `JobsSettle`: jobs settle, commands are answered, neither side of the lane starves |
| `token_refresh` (863,424) | two refreshers, a login, five pairs, a mishap; a grant with two overlapping calls that present any token answered before | no login without cause, no token lost or overwritten by a stale one, expired connections settle; `GrantSafe` |
| `sync_writes` (466,078) | like/unlike with three taps, an error and a mishap; create and comment with two errors and a mishap other than an overrun; two keys and two writers of pauses | `SendsSafe` (sent once, none forgotten), `WishesSafe` (the last wish is served, in order), `PausesSafe`, `WritesSettle`, `PausesLifted` |
| `worker_safety` (1,039,583) | two tasks of a key and two workers; three callers; three submissions | outcomes kept, deliveries and reaps speak for their own, one owner per key; `PoolSafe` and `BatchSafe` |
| `worker_liveness` (211,178) | one worker, a drain, a replaced consumer; two callers; two submissions | `WorkSettles` |
| `media` (663,632) | two uploads of a file; three reservations; two plays on one node with lost events, aging rows and tracks found too long, two on two nodes with a lost object | `StorageSafe`, `CopiesSafe`, `MediaSettles` |
| `audio_index` (948,099) | a track held or not; two uploads and a fault, or one upload with overlap, expiry and loss | `IndexSafe`, `EveryUploadSettles` |
| `replication` (719,365) | core and two nodes, three writes, clocks 0 and 2, one lost slot between core and a node, both kinds of table | `RowAboveTombs`, `VersionsDiffer`, `Converges` |
| `coalesce` (255,589) | three callers of one key; three clients with room for two windows | `SharedLoads`, `WindowsSafe`, `EveryCallerReturns` |
| `devices` (1,836,488) | three attempts and two polls; two devices and one command, one device and two; four room scenarios | `PairsOnce`, `QuestionsBounded`, `HubSafe`, `RoomsSafe` |

Why the bounds are enough.  The hazards are meetings of two actors on one piece of
state, and every instance has two of the actors, one contended piece of state and
at least one fault of each kind, so that each of the steps of one falls between
any two of the other; a third actor meets the state as one of the two left it.
Counters reach the boundaries the code tests: attempts used up, caps where the
sweep's share is all or a part, the age at which a receipt goes, refusals up to
`Patience`, the last delivery, the limit of questions, full rooms and full maps.
Rooms have at most two swaps, two rounds and two remembered bans (eight, four and
200 in the code), so that three requests use them up.  The hub's instance of the
`devices` run is cut down by `BoundedInit` and
`BoundedNext`: with two devices one command is dispatched, with two commands one
device polls; a room sees three requests, or two and a user who drops out of sight.
In `media` two plays on a node meet two faults, one when the row grows too old for
the repair, none when the track is found too long.  The proofs remove the bounds where they reach.

`CHECK_DEADLOCK FALSE` in every run: each holds a part that rests once its bounded
inputs are used up, and that nothing stops too early is what the liveness
properties say.  Symmetry is used only in
the runs without a liveness property (`worker_safety`, `devices`), over actors no
action or property names.

### Fairness

Every liveness property assumes only what the code's loops do by themselves: a
live task or handler takes its next step, time passes (leases expire, timers
fire), and periodic loops come round.  Faults, crashes, user actions, cancellations
and the governor are never fair.  In particular:

* `JobQueue`: a claim per key is weakly fair (claims go by priority and every 32nd
  by age, `next_claim_order`), recovery ticks, a handler ends (execution limit).
* `JobIngress`: delivery is strongly fair, since the consumer pulls again after
  each task.  The clock is not fair, so the result is not obtained by expiry.
* `LookupLane`: strong fairness of the sweep's lookups, which end only while
  `process_batch` awaits them.
* `WorkerLane`: the sweep is strongly fair: it comes every minute, while a task is
  an orphan only between deliveries.
* `WritePauses`: admission is strongly fair: writes keep being asked for while
  pauses come and go.
* `Coalesce`: the gate is strongly fair (tokio's mutex is a queue).
* `Replication`: links apply what they carry, local inserts commit, drains and
  resends run.
* Storage, copies, batcher and pool: their loops and tasks run.

## 4. Proofs

Every proof is checked by `tlapm` to its last leaf.  A theorem holds for every
value of the constants that satisfies the module's named `ASSUME` (null values are
no records, bounds are naturals, limits positive; for the ingress the ages above),
which TLC evaluates in the runs.  None of the properties is inductive by itself;
the argument of each proof module is its strengthening.

| Module | Theorems | Inductive invariant and why it is needed |
|---|---|---|
| `JobProofs` (queue) | `Typing`, `Fencing`, `FreeRows`, `Harmless`, `Archiving`, `Refinement` | rows: attempts within the limit, used up only under a lease, zero while a lease is of an older generation; runs: a matching lease and generation imply that payload and limit are those that were read, and the stored count is the one read or a reset one. `Refinement` maps every step to a step of `JobMailbox` or a stutter |
| `JobProofs` (ingress) | `IngressInvariant`, `IngressOnce`, `IngressKeeps` | a delivery is handed out before `MaxAge` and held at most `Hold`; a receipt is not older than its publication and is dropped after `ReceiptAge`: who finds no receipt is the first |
| `JobProofs` (lane) | `LaneBooks`, `LaneShares` | counters are the slots that exist, which needs where the worker's vector and the batch are empty; the cap is between 1 and the base |
| `TokenRefreshProofs` | `RefreshInvariant`, `RefreshCause`, `RefreshKeepsToken`, `RefreshReplaces` | lease and generation determine the pair a refresher exchanges; pairs not yet stored are in one hand; counted refusals were of the stored pair; without a mishap whoever exchanges the stored pair has the live lease |
| `TokenRefreshProofs` (grants) | `GrantsSafe` | tokens are drawn in order and a call draws its own when it is sent, so the row's tokens only grow: the current one was never answered for, no call presents more than its client holds, and who still holds the token before cannot be rotated past; a call that is overtaken presents the token before; and unless something was replayed the code was answered to nobody else and the token before is presented within its grace. The client is free to present whatever it was ever given |
| `CoalesceProofs` (loads) | `CoalesceShared` | the map entry of a key is the flight of everybody inside; who loads holds its gate; what is published after an arrival is no load from before it |
| `CoalesceProofs` (windows) | `WindowsAreSafe` | a client's last admissions are those of its window and the first of them opened it; of those before, all but the last `Limit - 1` are a window's length older than the opening and all but the last `Limit` more than that. So a span that holds a new admission reaches back into one earlier window, and never to both openings. Eviction rests on the queue holding every window's opening, and sorting keeps them: the number of openings before one is its place |
| `LinkPairingProofs` | `PairInvariant`, `PairQuestions`, `PairOnce` | who is on the way to ask, or has an open question, holds the code's lock; questions are counted before they are posted; at most one attempt is the one the code was consumed for, wherever its approval is (ticket, poll or link) |
| `LinkPairingProofs` (hub) | `HubIsSafe` | `RemoteHub!IndInv`. What a poll carries or a client was given is claimed for its device, and a claim is never changed, so a command goes to one device. A client's current poll began at its cursor and no running poll began after it; up to the cursor of the only device a command was given, expired, answered, claimed by another, or no running poll of the device can reach it: so a claim is never written behind the cursor. That a poll of the only device skips nothing rests on the devices entries: who is present, or was when a scan began, has polled. Polls change in four ways (all stay, one moves, starts, answers), questions in three; each conjunct is proved per way |
| `ReplicationProofs` | `ReplInvariant`, `ReplRowAbove`, `ReplVersions` | what an insert has read was so once: a row it read was above the tombstones, a tombstone it read is still there, a draft is above every tombstone of its node. Unless an insert was overtaken, a delete travels only behind its tombstone in the same transaction, so what a node has written stays below its row or one of its tombstones: the floor of `scd_hlc` makes its next version new, the node's number keeps it apart from the others' |
| `WorkerProofs` (lane) | `WorkInvariant`, `WorkOutcome`, `WorkDeliveries`, `WorkOwners` | a silent delivery has a stale lease or none (so `Expire` never takes a task from a lease that thinks it is fresh); first deliveries went in stream order and what the reaper is told of or busy with has none left; an owner of a key is a task of that key at work; what is acknowledged is answered, what is applied is lost. `WorkDeliveries` is about a consumer that is not replaced; the other three include replacements |
| `WorkerProofs` (engines) | `PoolIsSafe` | an engine boots only when its client is dead; a recycling begins with the live client and is over when one of its two clients is gone; the lease of a client is a caller's or a load nobody waits for any more. That no wake-up is missed is a fact about steps: each one frees no client, or wakes all who sleep, or frees the inspected client, whose wake is still to come |
| `MediaProofs` (copies) | `CopiesAreSafe` | a slot is held by the upload that took it; what a row or an event says is stored was stored before it was said, unless the storage lost it |
| `MediaProofs` (storage) | `StorageIsSafe` | one job at a time works on a file whose handler did not leave; an event is made once, numbered per file in the order in which the objects were stored, and published lowest number first; an event published again is the lowest that waits and was the last told: so what is stored is what was told last or what the job about to announce has stored |
| `MediaProofs` (quota) | `CopiesAreSafe` | the counter is the chunks charged minus those that rescans recovered, modulo its width; a chunk is granted only below the limit. The sum is the number of elements of a set of chunks, so that one step adds or removes one element |
| `SyncWritesProofs` (queue) | `SendsAreSafe`, `WishesAreSafe` | copies: what an executor read agrees with its row while it has the lease; steps: while there was no mishap, attempt mark, live lease and copy agree at every step of an execution, and so does what is known of the send; retries count errors, so nothing is parked before `MaxRetries` of them; of two opposite mutations one at most is at work and the other is annulled or was filed later; who works has the lease, and what was carried out is still so |
| `SyncWritesProofs` (pauses) | `PausesAreSafe` | nobody writes before the restore; a hold that is over has no probe of its own left, and any other has one at most. The backoff `2^n` is positive since it counts subsets |

What stays with TLC, and why.  Every liveness property: fairness and `ENABLED` are
out of the prover's reach.  `Converges`: which write is the latest is a maximum
over the history of all nodes.  `BatchSafe`: `Batcher` takes its rows from
sequences with folds and selections, which needs induction over data.
`IndexSafe` and `RoomsSafe`: not attempted; their properties are about one track
or a room as Redis keeps it, and nothing but the size of their invariants stands
in the way.

## 5. Where code and other texts of the repository differ, or a limit shows

Met while modelling; the models follow the code.

* Job queue: a page commit on the last attempt resets the stored count, and
  `dead_letter.sql` then violates `background_job_failures_attempts_valid`
  (`src/api/migrations/0057_background_jobs.sql:98`): the job runs again after its
  lease; delay, no loss.
* Sync queue: a parked like that is tapped again keeps its `created_at`
  (`enqueue.sql` renews it only for a cancelled row, `adopt.sql` clears `dead`),
  while `claim.sql` orders by it and skips dead rows: it may be claimed beside a
  later unlike that is already in flight.  The proof of `LaterIntentWaits` failed
  exactly there.
* Sync queue: the look at an unclear create is bounded and may miss it, and a
  request may be carried out after the look: the create is then sent a second time
  (`sync_queue/mod.rs:456`).
* Replication: `ops/replication/README.md` has a row live only above every
  tombstone of its key.  An insert, local or applied, that a tombstone overtakes
  between its reading and its commit stands below the tombstone until the next
  resend; it is then sent back, and all nodes agree again.  Two apply workers on
  core, or one and a local writer, may also merge into a row read earlier: a newer
  row is overwritten by the older one, nothing sends it again, and the nodes
  differ until its next write or until verify (`triggers.sql:1889`, 1893).
* Worker lane: with the consumer replaced between a reap's confirmation and its
  end, a delivery of the new consumer is removed under a working worker; a late
  result outranks `worker_lost`.
* Batcher: `_execute` fails all rows of a batch when a call expires at once; a
  priority row that is queued again does not interrupt a bulk acquisition (the
  worker's `README.md:79` says priority rows do).
* Audio index: a late ok of a replaced upload indexes the old vectors
  (`result_tests.rs:519` has it ignored); a postponed claim takes a live lease, so
  two appliers write (`:757`); a superseded applier is not demoted (`:645`).
* Coalesce: two callers who leave together keep the map entry (a test wants none
  kept); it is replaced at the next call.
* Windows: an admission that reaches the mutex late counts in the window open
  there, so that within one window's length a client may pass up to
  `3 * Limit - 2` (the end of one window, all of the next, late ones of a third);
  the bound of twice the limit holds for a window's length less the lateness.
* Storage: the ffmpeg fallback runs beside `max_transcodes`; a client that leaves
  while waiting for the lock leaves its source on disk; a dropped handler releases
  the lock while its job runs; the local backend keeps a recording within epsilon.
* Quota: a rescan during a request subtracts the same bytes twice, and the counter
  may wrap; a handler that ends between body and submission leaves its file.
* Copies: a worse copy may replace a better one; a missing object may be named as
  kept; a repair may announce an upload that was heard.  An upload whose event was
  lost and whose row no sweep found within two days stays pending
  (`upload_repair_live_tests.rs` wants it so).
* Rooms: a leave between the load and the move of a room answers ok while the
  person stays; an end deletes somebody who joined meanwhile; the chat index may
  not follow a moved room.
* Remote hub: with two devices a command may be passed over by both, and a command
  whose response was lost is not sent again.
* Pairing: a ticket that was put back may be taken by a concurrent poll; a failed
  delete on denial leaves the code usable.

## 6. Not modelled

Handlers that only transform data or build an answer (search, catalogue, lyrics,
recommendations, history), the gateway (a proxy), contracts (types), string
matching, the generator of the replication triggers (text in, text out; what the
triggers do is in `Replication`), chat fan-out, metrics and logs, request
admission apart from the per-client windows, sessions.  The claim order of the
queue (lanes, priorities, `realign`) and the scheduler's ticks are free choices.

## 7. What is left

1. Proofs for `BatchSafe`, `RoomsSafe` and `IndexSafe`.
   Each goes into the proof module of the run it shares, as the windows and the quota
   did: the run's module is extended and the component is reached through its
   instance there.  Sums and counts should become cardinalities of sets first.
2. Lanes, priorities and `realign` as a refinement of the free choice in
   `JobQueue!Claim`.
