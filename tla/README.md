# s3db.js: the coordination core in TLA+

s3db.js keeps documents, metadata and plugin state in an object store. The store offers
GET, HEAD, PUT (with `If-Match` or `If-None-Match: *`) and an unconditional DELETE;
everything that several processes have to agree on is built from these: locks, counters,
the shared `s3db.json`, leader election, queues, counters that are consolidated later,
partition references. A test runs one interleaving of that; this project checks all of
them on small instances with TLC and proves the results that matter most, for every
instance, with TLAPS.

All paths below are relative to the repository (`src/` is its implementation).

## The system and what is modelled

| Component | State | Operations | Module |
|---|---|---|---|
| DistributedLock (`src/concerns/distributed-lock.ts`) | one lock object per name: token, `_expiresAt` | `acquire`, `release`, `withLock`, `isLocked`, `getLockInfo` | `DistributedLock`, abstractly `LeasedMutex` |
| Sequences (`src/concerns/incremental-sequence.ts`, `distributed-sequence.ts`, `PluginStorage.nextSequence`) | a counter object and a batch of ids per process | `next` (standard and fast), `reset`, `releaseBatch` | `IncrementalSequence` |
| S3Mutex (`src/plugins/concerns/s3-mutex.class.ts`) | one lock object per key: lockId, `expiresAt` | `tryLock`, `unlock`, `extend`, `isLocked`, `getLockInfo` | `S3Mutex` |
| Schema registry and metadata upload (`src/schema.class.ts`, `src/database/*`) | `s3db.json`; per process: definition, registry, map, savedMetadata | `connect`, `createResource`, `uploadMetadataFile` | `MetadataUpload` |
| GlobalCoordinatorService (`src/plugins/concerns/global-coordinator-service.class.ts`) | a leader record, worker registrations; per service: leader, epoch, state cache | `start`, `stop`, `subscribePlugin`, the heartbeat, elections | `GlobalCoordinator` |
| PluginStorage (`src/concerns/plugin-storage.ts`) | plugin objects with a ttl | conditional writes, reads that purge, `deleteIfVersion` | inside the modules above |
| Object stores (`src/clients/`) | objects with an ETag, the MD5 of the body | GET, HEAD, PUT, DELETE, LIST | one atomic step each, inside the modules above |
| S3Queue (`src/plugins/s3-queue.plugin.ts`) | queue entries, per-message locks, processed markers, dispatch tickets | enqueue, claim, complete, fail, retry, bury, renew, recover | `S3Queue`, but for the tickets; abstractly `QueuedMessage` |
| EventualConsistency (`src/plugins/eventual-consistency/`) | pending transactions, tickets, the consolidated field | add/sub/set, consolidation, tickets, recalculation, garbage collection | `EventualConsistency` |
| TasksPool (`src/tasks/tasks-pool.class.ts`) | queue, active tasks, concurrency limit | enqueue, retry, pause, resume, stop, drain, a changing limit | `TasksPool` |
| Resource persistence (`src/core/resource-persistence.class.ts`, `resource-partitions.class.ts`) | objects, partition references | insert, upsert, update, patch, `updateConditional`, replace, delete | `ResourcePartitions`; the condition and merge of `updateConditional` also in `S3Queue` |

What is left out is listed under "Not modelled", with the reasons.

### Who depends on whom

The lock serves the sequences, the scheduler, the state machine, eventual
consistency and S3Queue; all of them reach it through PluginStorage (whose `get`
deletes expired records) or SequenceStorage (whose `get` does not), the
difference the constant `ReadsExpire` makes. S3Mutex, over PluginStorage's
conditional operations, serves the metadata upload. The coordinator serves every
plugin that wants one leader. `IncrementalSequence` therefore EXTENDS
`DistributedLock`, and `MetadataUpload` EXTENDS `S3Mutex`: a step of the composed
system is a step of the lock with what the caller does at that step, and the
callers' own steps lie between them. `S3Queue` EXTENDS `LeasedMutex`, the promise
that `DistributedLock` is proved to keep: of the lock it needs no more than
entering, leaving and the lapse; and so does `EventualConsistency`, whose
consolidation takes the same lock. `S3Queue` in turn is proved to keep a promise of its
own, `QueuedMessage`: what a user of the queue may rely on. `GlobalCoordinator`, `TasksPool` and
`ResourcePartitions` stand alone.

### What makes them correct, and what is hard

- **DistributedLock.** Nobody but the holder removes a live record; callbacks do not
  overlap before a lease lapses; a lock whose holder is gone becomes free; `acquire`
  returns. Hard: the cleanup of expired records is a read followed by a DELETE
  without a condition, a failing read is answered with a DELETE, and nobody tells a
  holder that its lease is over.
- **Sequences.** Ids are unique over processes, modes, crashes and lost responses.
  Hard: two fast calls that both find the batch empty, a process that dies between
  the counter's PUT and its batch, `reset()` in one process with batches in others.
- **S3Mutex.** Live holders exclude each other, and a live record leaves the store
  only by its own `unlock`. Hard: takeover compares with a time read earlier, and
  `deleteIfVersion` is a HEAD followed by a DELETE.
- **Metadata.** An upload loses nothing that was saved, and data stored under one
  attribute is never read as another. Hard: indices are in use before they are
  saved, two processes can assign the same one, merging keeps the union, a failing
  read counts as "no metadata".
- **Coordinator.** The services settle on one leader, and a lease is renewed only
  when it is over. Hard: elections decide from listings taken at different times, a
  lost conditional write counts as won, `stop()` leaves a heartbeat running, and a
  heartbeat that outlives its mutex runs beside the next one.
- **S3Queue.** A message has one worker at a time, is not claimed more often than
  allowed, stays completed, failed or dead, and is not dead without its copy. Hard:
  the entry's ETag does not tell its versions apart, every conditional update merges
  into a second read, and recovery and renewals look neither at the lock nor at the
  marker.
- **EventualConsistency.** A transaction reaches the field, and reaches it once. Hard:
  three ways of applying transactions that know nothing of each other; the record's
  update and the marks are separate calls, so that a crash between them applies a
  batch twice; a ticket is validated once, before the work; a listing that fails
  counts as empty; timestamps are taken before the insert.
- **TasksPool.** The limit holds while tasks sleep between attempts and while the limit
  changes; no wakeup is lost; what waits returns. Hard: three loops with two ways of
  counting, a task's end spread over several microtasks, pause and stop in between.
- **Resource persistence.** The references of a record are those of its field. Hard: no
  call writes both; by default the work on the references goes on after the caller's
  promise has resolved, beside its next call; deleting a stale reference is a listing
  followed by a DELETE, and the listing's prefix also matches every partition whose
  name begins with this one's.

PROJECT.json lists the hazards one by one, with their lines and the properties that
would catch them.

## The modules

Common conventions. A client is one asynchronous caller. `pc[c]` names the storage
call that client is about to make; each storage call is one atomic step, and what
the code does between two awaits belongs to the step before. Tokens and lock ids
are never repeated by the code (`idGenerator()`, timestamp and random); an id that
neither the store nor any client remembers cannot be told from a new one, so the
models reuse those (`FreshTokens`, `FreshIds`) and need no bound on the number of
calls. A process that dies and a call that throws are the same step to the others:
`Abandon`. Variables commented "history" do not exist in the code; they only say
under which circumstances a property is claimed. Operators whose comment calls
them a mutant are plausible bugs in the operator below them, used to show that a
property would notice.

- `LeasedMutex` is the promise of a lock with a TTL: `Enter` only when nobody is in,
  until the first `Lapse`; `EnterLate` is a record that expired on its way to the store.
- `DistributedLock` has the lock record (`lock`), each caller's position, token and
  own idea of its expiry. Time is counted down, so that no bound on the clock is
  needed. `PutWins`/`PutLoses` are the conditional PUT, `GetLock` the read of a
  loser, `ClearLock` its unconditional cleanup, `WakeUp` the backoff, `CheckToken` and
  `DeleteLock` the two halves of `release`, `Probe` the cleanup of `isLocked`,
  `ReadFails` any throwing read. `lapsed` is set by the tick on which a record
  outlives its TTL, and by a failing read.
- `IncrementalSequence` adds the counter, the batches and the callback: `ReadCounter`,
  `WriteCounter`, `EndCallback` (with or without a result), `Return`. A process in
  standard mode is a batch of one that is never kept.
- `S3Mutex` keeps a clock, because takeover compares with the time at which `tryLock`
  was called. A version is the hash of the body, so the record stands for it.
  `overtaken` is set when a DELETE hits another record than the one that was read.
- `MetadataUpload` adds, for one resource, `s3db.json` and each process' view. The
  operators `Positional`, `Initial`, `FromRegistry`, `Merge`, `Local` and `Final` are
  the pure functions of `schema.class.ts` and `database-metadata.class.ts`; `Connect`,
  `ConnectBlind` (the "healing" of a metadata file that could not be read),
  `Define`, `ReadFresh` and `PutMetadata` are the calls. `used` collects the pairs of
  index and attribute under which data may be stored.
- `GlobalCoordinator` has the leader record, the registrations with their remaining
  time, and the stages of each service's heartbeats, of which several may overlap
  once one has outlived its mutex: register, read (through the
  cache), look for plugin workers, elect, up to eight attempts of read and
  conditional write, a last look. `current[p]` says that the version `p` has read is
  still the record's.
- `S3Queue` follows one message. A worker's job goes `AcquireLock`,
  `IsRecentlyProcessed`, `MarkMessageProcessed`, `ReleaseLock`, `GetEntry`,
  `ClaimEntry`, then `Settle` (the handler acknowledges or fails), `MoveToDeadLetter`
  if it comes to that, `VerifyToken`, `Reread`, `PutUpdate` and `ClearMarker`. A
  worker between two messages may `RecoverMessage`; beside a handler runs
  `RenewLock`, `RereadForRenewal`, `PutRenewal`. With `CallsFail` any call may fail and
  any response be lost. A store's ETag is the MD5 of the body, and a queue entry that
  fits into its metadata has an empty body, so `Replace` succeeds whatever the entry
  is; `current` (history) holds the calls whose condition would have held with real
  versions, and `clobbered` (history) says that some PUT replaced another version
  than its call had read. Two kinds of promises follow: what the protocol gives as
  long as versions are told apart (`~clobbered`), and `MarkersSuffice`, by what a
  message is protected when they are not. The dead letter queue is there unless the
  mode is `retry`; without one the code writes no copy. Polling and tickets only
  differ in how a worker learns of the message, and are not told apart; the ordering
  lock of FIFO queues, and entries too large for their metadata, are left out.
- `QueuedMessage` is the queue as its users see it, as long as versions are told apart:
  a message waits, is claimed, or is settled for good (`Claim`, `Settle`, `TakeBack`,
  `WriteOff`, `Renew`, `LetGo`). Time, locks, markers, tokens and ETags are gone: what is
  left are the status, the number of claims, whom the claim is with (`holder`) and who is
  within its visibility timeout (`owners`). It is taken back only from nobody; but the
  last claim is written off even under a worker that has renewed it since the recovery
  looked at it, which the code allows (`_recoverSingleMessage`) and a promise without
  `WriteOff`'s freedom would deny. `Message` in `S3Queue` is the refinement mapping.
- `EventualConsistency` follows one field of one record. Its value is the bag of the
  transactions that are in it (counted up to two), so that one counted twice or
  dropped by a set() shows. A job goes one of three ways: `StartConsolidation` under
  the lock, `ClaimTicket` and `CheckTicket`, or `Recalculate`; then `Scan` (what is
  pending), `ReadRecord`, `WriteRecord` and one `MarkApplied` per transaction.
  `Counting` and `Base` are the arithmetic of the ways, which differ: which additions
  a set() drops, and what it starts from. The coordinator's listings (`ListAvailable`,
  `ListProcessing`), `CreateTicket` and `ReclaimTicket` are steps of their own. `doubtful`,
  `lossy`, `blurred` and `reordered` (history) say what has gone wrong so far.
- `TasksPool` has a task's way from the queue over its attempts to its settled promise
  and the microtasks after it, in which the pool takes the next one. The profile
  decides which loop that is: `balanced` counts a map of active tasks, `light` and
  `bare` a counter that is decremented later. Which task of the queue is next, and
  why an attempt fails, is left open.
- `ResourcePartitions` follows one record in one partition. A call and the work on the
  references it starts are one job, `undisturbed` as long as it overlaps with no other
  and nothing has failed in it; the next call of the same caller is another client,
  which covers the asynchronous mode as well as the synchronous one. The listing of
  `handleReferenceUpdates()` deletes whatever its own call did not write. Each partition
  has such a clean-up, and they run beside one another, one failing without the others;
  of the other partitions the model keeps those whose listing finds this one's
  references too, because this one's name begins with theirs (`prefixes`, any set,
  chosen at the start). These spare their own key and not this one's (`StaleKeys`).
  `lost` and `stale` (history) say what a call has left behind: `lost` is "perhaps"
  after a disturbed call, "no" after an undisturbed update if `prefixes` is empty, and
  "yes" otherwise; then `IndexMatches` says that no reference is left (`RecordIsHidden`).

## The runs

| Run | Question | Bounds |
|---|---|---|
| `lock` | exclusion until a lapse, only owners delete, refinement of `LeasedMutex` | 3 callers, 4 tokens, TTL 1, timeouts 0 and 2, reads purge and may fail |
| `lock_liveness` | `acquire` returns, no record stays | 2 callers that wait (timeout 2), 3 tokens, failures end some day |
| `sequence` | unique ids, sound batches, monotone counter | 2 processes (fast with 2 callers, standard with 1), 4 tokens, timeouts 0 and 1, batch of 2, counter to 3, resets to 1 or 4 |
| `s3_mutex` | live holders exclude each other, live records stay | 3 callers, 4 ids, TTL 1, grace 1, clock to 3 |
| `schema_registry` | nothing saved is lost, serial changes are safe | 2 processes, 3 ids, TTL 1, grace 2, clock to 1, lists `<<a,b>>` and `<<x,b>>`, 3 indices |
| `coordinator` | renewal only when over, one leader in the end | 2 services, plugin on one, whose heartbeats may overlap in pairs, lease 2, worker TTL 2, 3 disturbances |
| `queue` | one worker at a time, bounded attempts, no dead message without its copy, what the markers are worth, refinement of `QueuedMessage` (and with it that a final status stays) | 2 processes with a worker each, 5 tokens, 2 attempts, hybrid mode, all timeouts 1, clock to 2, failing calls |
| `queue_twice` (violation) | exactly-once processing? | the same with markers that outlive the run and no failing call, cut where a lock lapses |
| `eventual` | when a transaction can be counted twice or lost, and when two jobs meet | 2 processes that do everything, 2 tickets, a set() and a later addition, 1 retry, 1 fault |
| `eventual_liveness` | tickets apply every transaction in the end | 1 worker and the coordinator, a set(), an addition, a set(), 1 retry, 1 fault |
| `tasks` | limit, wakeups, pause, single settlement; what waits returns | 3 tasks, 1 retry, limits 1 and 2, all three profiles |
| `partitions` | the references are the record's when all is quiet | 2 overlapping calls of any kind, 3 partition values, with and without another partition whose name begins this one's, 1 fault; symmetric in callers and values |

Why the bounds suffice: the races are between a read, a write by somebody else and an
action on the read value; three callers are enough for a holder, a caller with stale
knowledge and one that profits, and a TTL of one tick already puts the expiry between
any two steps. Tokens are as many as can be remembered at a time. `sequence` is cut
(CONSTRAINT) once a lease has lapsed or the counter was moved down, `schema_registry`
once an upload has lost its lock's protection, `queue` once a PUT has replaced a version
it had not read: nothing is promised beyond. In `queue` two workers are a holder and
whoever recovers, retries or claims beside it, and 5 tokens are all that two workers and
the entry can remember. In `eventual` a set() and an addition in either order of
insertion are the two kinds of transactions, and a single fault is enough for each of
the histories; that faults add up is covered by the theorems. Two values more than one
suffice in `partitions` for the old field, the new one, and one that neither call
writes; one other partition with such a name lists and deletes all that several would,
and the theorem is for any number. The `MaxValue`, `MaxIndex` and `MaxTime` bounds are guards of the modules; the
epoch of the coordinator saturates at `MaxEpoch`. `Budget` bounds the starts, stops,
crashes, subscriptions, failing calls and late heartbeats. Runs that set `CHECK_DEADLOCK
FALSE` may stop because of such a bound.

### Fairness

`lock_liveness` assumes weak fairness of each caller's next storage call (the event
loop) and of time, that callers keep calling `acquire`, that crashes and failing
reads end (the `calm` variable), and strong fairness of losing a PUT before the
timeout is over: a timeout of seconds against milliseconds of latency.
`coordinator` assumes weak fairness of each heartbeat's next step (timers), of the
deletions that were sent, and of time, and that heartbeats come several times within
`workerTimeout` (`Punctual`): a tick that lets a running worker's registration lapse
is a disturbance. `eventual_liveness` assumes weak fairness of the coordinator's
timer, of each worker's claims and next calls, and of the end of leases and the
reclaiming of stale tickets; nothing of inserts, and faults are bounded. `tasks`
assumes weak fairness of running tasks (an attempt ends, if only by its timeout) and
of the microtasks of `pause()` and `drain()`; nobody is obliged to resume a pool.

### Disagreements found

Two are findings of PROJECT.json, which quotes the sentences. Run `queue_twice` ends in
a violation on purpose: a late completion and a recovery of the same queue message
overlap, and it is completed twice. The other is part of what the passing run
`partitions` shows:

- *Partitions whose names begin alike.* The clean-up after an update lists by
  `resource=<r>/partition=<name>` without a slash behind the name
  (`src/core/resource-partitions.class.ts:547`). For `byStatus` it therefore also finds
  the reference of `byStatusAndCountry`, and deletes it, because it is not the key that
  `byStatus` has for the record (558-562). Both are defined side by side in
  `docs/core/partitions.md:71-79`, and line 260 says "Partitions are automatically
  maintained on CRUD operations". After every update that nothing disturbs, the record
  is not found in the partition with the longer name, until `replace()` or a new insert
  puts the reference again. `IndexMatches` says so with `RecordIsHidden`, and claims
  that the record is found only where no name begins this one's. The repository's own
  plugins have such pairs: `byPeriod` and `byPeriodCohort` of the analytics resource
  (the latter queried in `src/plugins/eventual-consistency/analytics.ts:947`), and
  `byOriginalId` and `byOriginalIdAndApplied` of the transactions.

What else the models show, which the properties above therefore except:

- *Lock.* With timeout 0 the deadline is checked before the expiry, so a crashed
  holder's record is never reclaimed by such callers. The cleanup of an expired record
  is an unconditional DELETE and may hit a fresh one; then a third caller enters.
- *Schema.* A resource redefined in the session that created it is renumbered by
  position; its registry is not consulted.
- *Coordinator.* A lost conditional write counts as won: two services may both lead the
  same epoch for a while, and the stored epoch may go down.
- *Queue.* See `clobbered` above.
- *EventualConsistency.* The ticket path adds a set() value to what it has read
  (`src/plugins/eventual-consistency/tickets.ts:695`, and
  `tests/plugins/eventual-consistency-coordinator.test.ts:830` asserts it), where
  `docs/plugins/eventual-consistency/README.md:132` says "Set absolute value". A set()
  whose mark failed is applied again and overwrites later additions. A recalculation
  after garbage collection loses what was collected.
- *TasksPool.* `drain()` of a paused or stopped pool with a queue and nothing active
  waits for promises that are resolved already, and never lets go of the event loop
  (`Spinning`). The bare profile's loop ignores pause and stop in its self-call, the
  light one's `pause()` returns at once, and its retries go on after `stop()`. Tasks
  enqueued after `stop()` never settle; a function that timed out goes on outside the
  pool.
- *Partitions.* `asyncPartitions` is on by default (`src/resource.class.ts:373`);
  `docs/core/partitions.md:186` presents synchronous work as the default. In
  asynchronous mode an insert followed by an update, both of one caller, can leave a
  stale reference or a record that is not found, until the next undisturbed update
  (where no name begins this one's). `replace()` passes no old data, so the old reference stays, and a later `delete()`
  leaves it too. The filter that would keep the hooks of insert and delete from doing
  the work again looks for names they do not have. `delete()` removes the references
  even when the DELETE failed.

## The proofs

For every number of callers, TTL, timeout and batch size (the named assumptions of
each module), TLAPS proves:

- `IncrementalSequence_proofs`, the lock: type correctness, `ExclusiveUntilLapse`,
  `OnlyOwnerDeletes`, and that `Spec` implements `LeasedMutex`. The inductive
  invariant says that until a lapse, whoever holds has its token in the record,
  that the token of a caller is nobody else's, and that no caller is on its way to a
  cleanup while a record is live; exclusion alone is not inductive, because a caller
  that has decided to delete would break it.
- `IncrementalSequence_proofs`, the sequence: type correctness, `UniqueIds`, `BatchesAreReserved`,
  `CounterNeverFallsBack`. The steps of the sequence are steps of the lock or leave
  it alone, so exclusion is reused; to it come that a callback past its read has
  seen the counter's present value, and that a callback past its write owns a range
  of ids between what was issued and the counter.
- `S3Mutex_proofs`: type correctness, `LiveHoldersExclusive`, `LiveRecordStays`, from
  the invariant that, unless a DELETE has overtaken a write, a live holder's id and
  expiry are those of the record.
- `S3Queue_proofs`: type correctness, `OneClaim`, `SettledIsFinal`, `DeadIsBuried`,
  `AttemptsAreBounded`, `MarkersSuffice`, and that `QueueSpec` implements `QueuedMessage`
  (`ImplementsMessage`). As long as nothing is clobbered: a claim
  before its end has its token in the entry and ends no later than the entry says, every
  claim has a token of its own, and a call that is current has read the entry that is
  there (pending for a claim, processing with its own token or over its end for an
  update). So a PUT either finds no other owner or is not current. `DeadIsBuried` needs
  none of that: whoever is about to write "dead" has written the copy.
  `AttemptsAreBounded` adds that a worker that still has the entry has counted its own
  claim, and that whoever is about to make the message pending again has seen an attempt
  left. `MarkersSuffice` adds that one worker at a time is between its marker and its
  claim, that the marker outlives the claim, and that a worker about to replace the
  entry is current. The refinement goes step by step: a step that leaves the entry alone
  keeps every claim or lets go of it, and each of the three PUTs that is current is one
  step of `QueuedMessage`. It rests on both invariants and on one fact more, which
  `AttemptsInv` carries: a recovery that is about to end a message, and still has its
  token or its version, has seen that no attempt is left. A PUT that is not current sets
  `clobbered`, and there the promise ends.
- `MetadataUpload_proofs`: type correctness, `RegistryOnlyGrows` and
  `SerialChangesAreSafe`. First the pure
  functions: `Initial`, `FromRegistry` and `Merge` yield registries whose mapped and
  burned indices are below the next one, and merging only adds. Then the composition: each
  step of the upload is a step of the mutex or leaves it alone, so S3Mutex' invariant
  holds here too; an upload works while it holds the mutex, and what a live holder has
  read is still what is stored, unless an upload was unguarded or a DELETE overtook.
  For the meaning of stored data the invariant is about `used`, the pairs of index and
  attribute under which anything was ever stored: every number that a registry or a map
  gives is among them, a registry numbers every attribute of its resource, and while
  changes are serial an index has one meaning, what is saved is past every index in use
  when nothing is unsaved, and whoever has an unsaved change is the only one and is past
  them too. That a map agrees with `used` is not inductive alone: the next definition
  takes its numbers from the registry's `nextIndex`, which must be above all that others
  have stored under.
- `GlobalCoordinator_proofs`: type correctness and `RenewedOnlyWhenOver`,
  for any number of services and of heartbeats that overlap. A heartbeat that
  still has the version of the record knows that the record names somebody else than
  it has elected, or that its lease is over; a PUT takes the version from all others.
- `EventualConsistency_proofs`: type correctness, `CountedOnce`, `NothingIsLost`,
  `JobsAreAlone`, for any number of faults. A transaction in the field that is not yet
  marked is doubtful, or the job that wrote it is still marking it; what a job has read
  is pending and read by nobody else unless it is doubtful; its base is the record, and
  what is marked is in the field or overwritten, unless jobs overlapped. For the
  tickets: there is one outstanding ticket at a time, and who works with it holds it,
  until something blurs that.
- `TasksPool_proofs`: type correctness, `SettledOnce`, `NoLostWakeup`, `PausedIsQuiet`,
  `StartsWithinLimit`, for any number of tasks, retries and limits. Each is inductive
  with the types and with the fact that a sleeping task has retries left; the work is
  in the lemmas on what the loops take from the queue.

- `ResourcePartitions_proofs`: type correctness and `IndexMatches`, for any number of
  calls that overlap, of faults, and of other partitions, whichever of them have a name
  that this one's begins with. A call that is undisturbed is alone, and the record
  and its references are as its next step expects them (`Expected`): before the
  clean-ups, the record is the one the call wrote; during them (`Swept`), a partition
  that has done its listing has every reference that is left among the keys it will
  delete, but for the call's own in this partition's clean-up. With `prefixes` empty
  the call's own is thus all that stays, and otherwise nothing does. A call that is disturbed sets `lost` and
  `stale` as soon as it may leave a record unfound or a reference behind, so that
  nothing is claimed of its state. `IndexMatches` alone speaks of quiet states only, and
  says nothing of the calls that lead there.

Where a module runs another one's lock, that it does no more with it than the lock's own
module allows is a theorem too: `SequenceKeepsTheLock` (a behaviour of the sequence is
one of `DistributedLock`, and so of `LeasedMutex`), `UploadsKeepTheMutex` (one of the
uploads is one of `S3Mutex`, so that live holders are alone there as well) and
`ConsolidationKeepsTheMutex` (one of the consolidation is one of `LeasedMutex`). `S3Queue`
has none: there a process that dies after a lapse may leave the mutex with several
workers at once, which are several steps of `LeasedMutex`.

Every safety property of a passing run is a theorem. Model-checked only: liveness
(`AcquireReturns`, `LockIsFreed`, `LeadersAgree`, `PendingIsApplied`,
`QueuedTasksSettle`, `DrainReturns`, `PauseReturns`), and the violation of
`ExactlyOnce`. Liveness under fairness, ENABLED and induction over data are out of the
prover's reach; no theorem rests on them. `SettledIsFinal` is a theorem without a run:
TLC checks it as part of `ImplementsMessage`. What a theorem says is as conditional as
the property it names: `~clobbered`, `~lapsed` and the like are part of the statements,
and the runs show that the conditional parts are reached. `S3Mutex` is not shown to
implement `LeasedMutex`: its callers may enter beside a holder whose lease is over
without anything in the state to tell, and `LiveHoldersExclusive` is what it promises
instead. Nothing is assumed but the named ASSUMEs on the constants,
which TLC evaluates in the runs.

## Not modelled

- S3Queue's dispatch tickets (publish, claim, recover), its dispatch loop and the
  ordering lock of FIFO queues: a second queue beside the first, and the next part to
  model.
- `DistributedSequence.delete()`: it removes the lock without holding it, after which
  nothing is promised of ids; and PluginStorage's sequence gate.
- EventualConsistency's buffer of pending transactions, cohorts and the consolidation
  window (they decide when and in which portions transactions are found, which
  `Scan` leaves open), synchronous mode, analytics, and the reading helpers.
- TasksRunner (a queue of its own without limits that change), priorities and ageing,
  tuning, metrics. `TasksPool` has one `stop()` in a behaviour, and its `Spinning` ends
  every step at once, where calls of the same tick could still be made.
- `deleteAll`, `deleteAllData`, historical versions, queries, counts and users' hooks.
  Queries matter in one place: `Scan` of `EventualConsistency` finds a set in one step,
  where the code pages by offset over a filtered listing and does not remove duplicates
  (`src/plugins/eventual-consistency/tickets.ts:111-147`,
  `src/core/resource-query.class.ts:1042-1072`). With more pending transactions than a
  page holds (50 to 100) a transaction may come twice in one list; `CountedOnce` is
  about the steps after the listing.
- Of a resource's other partitions, everything but their failing and whether this one's
  name begins with theirs.
- The coordinator's circuit breaker and what plugins do with leadership; metadata
  versions, plugin attributes, the debounced upload; the memory store's limits.
- Behaviors, encodings, validation, id generation, streams: data transformation
  without shared state.
- Caches, TTL, replicators, audit, backup, metrics, scheduler jobs, state machines, and
  the domain plugins (graph, tree, vector, machine learning, web API, identity,
  crawling, inventories): most of the repository's lines, and mostly queries, input and
  output over resources.
- The command line, the MCP server and the testing helpers.

## Plan

1. The queue's tickets and the ordering lock, over the claims of `S3Queue`.
2. The coordinator's stored epoch, as a property that names when it may go down.
3. `DistributedSequence.delete`, with a property that says what survives it.
4. Cache invalidation beside writes, and the TTL plugin's expiry scans.
