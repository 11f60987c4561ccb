# JaisCloud: TLA+ specifications and proofs

JaisCloud emulates AWS and GCP services in one Go process: an HTTP gateway, a
provider per service, stores in memory (or PostgreSQL), a blob store on disk,
and a persistence layer that writes the in-memory stores to `state.json` and
reads them back.  This directory specifies the parts in which order,
concurrency and failure decide whether data survives, checks them with TLC and
proves what matters most about them with TLAPS.

Paths are relative to the repository root.  `PROJECT.json` maps every
definition to the lines it models and lists components, runs, hazards,
findings and theorems.

## 1. Inventory

| Component | State it keeps | Operations | Talks to | What is hard | What makes it correct |
|---|---|---|---|---|---|
| Persistence barrier, `internal/persistence/snapshot/barrier.go` | one `sync.RWMutex`, goroutines of cancelled calls | ReadBegin, WriteBegin, TryReadBegin, release | every request, save, export, snapshot, reset, import | cancelled waits, writer priority | writers are alone; no lock leaks; everybody gets in again |
| Snapshot loop, `snapshot/loop.go`, `atomic.go` | `saving` flag, ticker goroutine, `state.json`, `.tmp` | Start, periodicSave, SaveNow, Stop, WriteAtomic | barrier, every Snapshotter, file system | reads stores one by one under a shared lock; power loss between write, sync and rename; stop against tick | a file holds whole requests of one epoch; no torn file; the last state is saved |
| Request gate, reset, start and stop, `gateway/middleware/persistence.go`, `admin/admin.go`, `gateway/server.go`, `cmd/jaiscloud-aws/main.go` | the phase of the process | 503 while a writer is about, Reset, restore of `state.json`, Shutdown | barrier, loop, stores | a reset against requests and saves; deadlines | reset and requests are atomic to each other; shut-down ends |
| SQS store, `aws/store/sqs/memory.go` | a slice of messages per queue, dedup map | Send, Receive, Delete, ChangeVisibility, Purge, retention sweep | provider, background worker | visibility, groups, receipt handles | group order; only the current handle counts |
| SQS provider, `aws/provider/queue/queue.go`, `waiters.go` | waiters per queue | SendMessage(Batch), ReceiveMessage, DeleteMessage, ChangeMessageVisibility, PurgeQueue, redrive | SQS store, clock | several store calls per request without a lock; lost wake-ups; captured time | a lease is exclusive; nothing is lost; polls end |
| SQS move tasks, `aws/provider/queue/message_move.go` | task table | start, cancel, background move | SQS store | cancel against move, crash | each message in exactly one queue |
| S3 objects, `aws/provider/object/*.go`, `aws/store/s3/memory.go` | metadata, version list, versioning status | Put, Get, Delete, DeleteObjects, Copy, multipart, lock | blob store | two stores, no common lock | what is listed is readable, and with its own bytes |
| Blob store, `blobfs/blobfs.go` | files and directories | Put, Get, Delete, snapshot, recoverOrphans | S3, GCS, import | directory promotion, crash recovery | a blob is whole or absent |
| Admin import, export, named snapshots, `admin/*.go` | archives and their metadata | import, export, create, revert, delete | barrier, blobs, all stores | partial failure after the first change | all or nothing |
| Lambda event sources and async queue | pollers, bounded channel | poll, invoke, retry, DLQ | SQS, executors | full queue, retries, visibility | an event is handled, retried or dead-lettered |
| Step Functions engine | executions | interpreter with Retry, Catch, Parallel, Map | Lambda and others | retries, timeouts | an execution ends once |
| Secrets Manager | versions with staging labels | PutSecretValue, UpdateSecretVersionStage, rotation | Lambda | several label moves | exactly one AWSCURRENT |
| Pub/Sub store, `gcp/store/pubsub/memory.go` | per subscription: messages with deadline, delivery version, acked and held-ack marks | NextID, Put, List, Pull, Delete, Acknowledge, ModifyAckDeadline, BumpDeliveryVersions | provider, gRPC service | acks out of order, redelivery of a whole key, ids compared as strings | acks apply in key order; a key is handed out from its first unacknowledged message |
| Pub/Sub provider and seek, `gcp/provider/pubsub/pubsub.go`, `gcp/service/pubsub/seek.go` | the snapshot resource | publish, pull with filter and dead-letter topic, ack, modify, snapshot, seek | store, clock | several store calls per request without a lock | no message is lost; a seek supersedes the ack ids of what it lists |
| Pub/Sub streaming pull, `gcp/grpc/pubsub/{service,streamflow,acktrack}.go` | per stream: outstanding messages; per subscription: tombstones | send loop, receive loop, reconcile loops | store, unary calls | acks that come another way; a claimed copy against its ack | what is hidden is held or was sent, unless its stream failed; a full stream gets its budget back |
| Cloud Tasks, Cloud Scheduler | queues, tasks, token buckets | create, dispatch, retry, pause | HTTP targets | dispatch against pause and delete | each task runs at least once, within its rate |
| GCS, Firestore, Datastore | objects with generations, documents, transactions | conditional writes, commit | stores | optimistic concurrency under a frozen clock | a committed transaction saw current data |
| DynamoDB | tables | conditional and transactional writes | - | expression evaluation | a condition holds when its write happens |
| Resource manager, plugin host, throttling | locks, relations, processes, buckets | deletion lock, interception, refill | gateway | order of checks | - |
| PostgreSQL back ends | in the database | the same interfaces | - | the database's | - |
| Codecs, adapters, UI, executors | little | formatting, parsing, I/O | - | - | - |

Interaction: every cloud request passes `middleware.Persistence`, which takes
the barrier's shared lock without waiting (503 if a writer holds it or is
waiting for it); the
provider then calls its stores, each of which has a mutex of its own and
releases it between two calls.  The snapshot loop takes the same shared lock
and therefore runs beside requests.  Reset and import take the exclusive lock.
Background workers (SQS retention, Lambda pollers, dispatch engines) and the
UI server change stores without the barrier.

## 2. Modules

| Module | Models | State against code |
|---|---|---|
| `SharedLock` | what the barrier promises: sharers together, an excluder alone | `inside`: who has the lock |
| `Barrier` | the barrier, with `sync.RWMutex` from its documented behaviour | `caller[p]`: where a caller of the barrier is; `lock[p]`: how far the goroutine made for it has come inside RLock or Lock; `announced`: the writer that owns the inner mutex |
| `BarrierProofs` | theorems about `Barrier` | |
| `SnapshotLoop` (extends `Barrier`) | loop, atomic write, gate, reset, start, stop, power loss | `mem`: the stores; `step`, `snap`, `saving`: saves under way; `file`, `tmp`, `backup`: the disk; `phase`, `looping`, `boots`: the process; `resetLeft`, `wrote`: handlers under way |
| `SnapshotLoopProofs` (extends `BarrierProofs`) | theorems about `SnapshotLoop` | |
| `AdminImport` (extends `SharedLock`) | export, named snapshots, import, revert, reset, power loss | `mem`, `blob`: stores and blob store; `req`: the request under way; `mk`: each export or create; `tar`, `opens`, `mixed`: the tarball of the named snapshot; `im`: each import, revert or reset; `idFile`: the instance id |
| `MCAdminImport`, `AdminImportProofs` | symmetry for the run; theorems | |
| `SqsStore` | the store's methods as operators on the contents of one queue | a queue is a function from arrival numbers to messages |
| `SqsQueue` (extends `SqsStore`) | the provider's handlers on a queue and its dead-letter queue | `box`, `dedup`: the store; `pc`, `asked`, `deadline`, `woken`, `got`: each ReceiveMessage under way; `inbox`: what clients were given; `pending`: a Notify still to come |
| `MCSqsQueue` | symmetry for the run | |
| `SqsMove` (extends `SqsQueue`) | message move tasks beside all of `SqsQueue` | `task`: the registry; `step`, `taken`: the goroutine of each task |
| `MCSqsMove`, `SqsProofs` | instance for the run; theorems about `SqsStore`, `SqsQueue` and `SqsMove` | |
| `S3Objects` | object handlers on one key, over metadata store and blob store | `object`, `versions`, `status`: metadata; `blobs`: blob store; `op`: the handler each client waits for |
| `MCS3Torn`, `S3ObjectsProofs` | a bucket that was never versioned and puts that are not refused, for one run; theorems about `S3Objects` | |
| `PubSubStore` | the Pub/Sub store's methods as operators on the messages of one subscription | a subscription is a function from message ids to messages |
| `PubSubStoreProofs` | lemmas about the store's methods | |
| `PubSub` (extends `PubSubStore`) | publish, pull, ack, modify deadline, snapshot, seek | `sub`, `dead`: the subscription and that of its dead-letter topic; `drawing`, `publishing`, `batch`, `arg`: handlers under way; `issued`: ack ids; `snapshot`: the snapshot resource, half made or made; `seeking`, `listed`, `todo`: the seek |
| `MCPubSub`, `PubSubProofs` | symmetry for the run; theorems | |
| `PubSubStream` (extends `PubSubStore`) | streaming pull and the ack registry | `box`: the subscription; `pc`, `batch`, `unchecked`, `acked`, `returns`, `sendable`: each send loop; `outstanding`: its flow control; `recv`: its receive loop; `tomb`, `seen`: the registry |
| `PubSubStreamProofs` | theorems about `PubSubStream` | |

**How they fit together.**  `Barrier` is shown to implement `SharedLock`
(`ImplementsSharedLock`: `inside` is the set of callers between the return of
their begin call and their call of release), so `AdminImport` can build on the abstract lock; `SnapshotLoop` extends
`Barrier` itself, because there the goroutines of cancelled calls matter.
`SqsMove` composes the move tasks with every operation of `SqsQueue`.  `PubSub`
and `PubSubStream` are two users of `PubSubStore`.

An action is one call of the code that others can interleave with: a store
method (one mutex), a file system call, a channel operation.  Variables marked
*history* record what was promised and are read by no guard.  Operators whose
comment says *Mutant of* are wrong variants of the operator that follows; no
specification uses them.  They show that a property notices the mistake.

### Abstractions

* **Barrier.** All three begin calls; the release functions are `Release` and
  `Drain`.  With both channels of the `select` ready Go takes either, so
  `BeginCancelled` is enabled also when the lock is held.
* **SnapshotLoop.** A store is the set of the requests whose effect it holds;
  a request writes into every store, one after the other, and may fail half
  way.  A file carries as history what it must hold and must not hold.  A
  power loss keeps synced contents and may undo a rename the directory sync
  has not confirmed; unsynced contents do not parse.  A `state.json` of another
  schema version or cloud (`main.go:279-282`) ends the start with an error and
  leaves everything as it is; all files here are of one build and cloud.  One
  that cannot be read counts as one none of whose stores is restored.  Scoped resets, plugins
  and writers outside the barrier are left out.
* **SQS.** A receipt handle, which the code draws at random for each Send and
  Receive, is the pair of arrival number and receive count, unique as well.
  SendMessage reads the clock and calls the store in one step, as does
  ChangeMessageVisibility (the difference is a few instructions against whole
  seconds); ReceiveMessage does not, since it uses its time after other steps.
  `pending` merges the Notify calls still to come: several wake the same
  waiters.  Clients read the source queue only.  Message ids are used once.
  The batch forms of delete and change visibility repeat the single form.
* **SqsMove.** The rate limit (a ticker) only decides when a task goes on.
  `resetMoveTasks` is left out, as is the provider's Reset.
* **AdminImport.** A store, and the blob store, hold one value: the number of
  the request that wrote it.  One snapshot name.  What two simultaneous creates
  write into one file does not parse, or is all of what one of them wrote.
  Instance ids are the process's own or a new one.  metadata.json, the legacy
  JSON body, post-restore hooks and the clock are left out.
* **Pub/Sub.** Payload and encryption are the id under which the data was first
  published; attributes are whether they match the filter.  An ack id is the
  pair of message id and delivery version; an ack request carries one.  A
  long poll is a Pull that is repeated.  Ids are compared as the strings they
  are (`IdBefore`, on strings filled up to nine digits).  A publish request
  reads the clock once, draws its ids one by one and then puts its messages one
  by one, each a step of its own: requests at the same time mix their ids, and
  the smaller id may carry the later time.  CreateSnapshot lists the backlog and
  reads the clock in two steps.  The dead-letter topic has one pull subscription
  (more would get equal copies) or none (`HasDeadSub`): then the copy is dropped,
  as in the code, and the message is done with.  In `PubSubStream` there is
  neither filter nor dead-letter policy, a publish request has one message, and a
  tombstone is not pruned for its age.  dropAcked checks one message after the
  other and lists the acknowledged ones at the first tombstone.  A stream ends
  with its client, with a failed Send or with a message it cannot decrypt, and
  its receive goroutine may outlive it with an ack in hand; a request that
  goroutine has read and not begun to apply does what the unary calls do.  Push
  delivery and schemas are left out.
* **S3.** One key.  A body stands for its bytes, size and ETag.  Status and
  version lookup at the start of DeleteObjects are one step.  Conditional
  puts, object lock, tags, copy and multipart uploads are left out.

## 3. Runs

Every constant that only bounds the search says so in its module.

| Run | Instance | Shows |
|---|---|---|
| `barrier` | one request, two waiting readers, two writers | writers are alone, no leaked lock, no overtaking; every call and drain ends and requests are let in again; `SharedLock` is implemented |
| `snapshot_loop` | one request, one reset, ticker, final save, two stores of which one may fail to restore, two boots | memory and file never mix epochs, no torn `state.json`, the final save is not skipped, nothing durable is lost |
| `shutdown_ends` | the same, one boot, fairness | a signalled process ends though a reset or request may hold the barrier for good |
| `admin_import` | a client with two requests, two makers, one importer, two stores, two boots | an import leaves all of one completed archive or nothing; an archive no request overlapped is the state of one moment |
| `sqs_queue` | two consumers, two messages, one group, redrive after one receive, short and long polls, batches with delay, purge, retention | group order, nothing lost, leases exclusive |
| `sqs_move` | one consumer, one message, two tasks from either queue with all kinds of destination, long polls, fairness | until somebody deletes it there is one of the message, and one more for each redrive or move between its Send and its Delete; every poll is answered |
| `s3_objects` | two clients, two bodies, two version ids | listed versions are readable, kept and read exactly |
| `s3_torn` (`MCS3Torn`) | two clients and one put in a bucket never versioned | **violated**: DeleteObject takes the blob of a concurrent, answered put; GetObject answers 500 |
| `pubsub` | one publisher, two clients, two messages of at most one key, filter, retention, one delivery attempt | acks apply in key order, held acks have a reason, keys are handed out from the front, no message is lost |
| `pubsub_seek` | one publisher, one client, two messages, a snapshot, one seek, exactly-once delivery, no dead-letter subscription | a seek puts back what it is to keep, and leaves each message it listed with a higher version than the listed one |
| `pubsub_stream` | two messages of at most one key, one stream of two messages' budget with room for one message's bytes, unary acks, fairness | no message is hidden unsent unless its stream could not decrypt it, tombstones go away, the budget returns |
| `pubsub_wedge` | one stream, one keyed message | **violated**: acked by the unary call, it fills the stream for good |

**Why the bounds are enough.**  The barrier distinguishes callers only by kind;
two writers exhibit competition for the inner mutex, two waiting readers the
wake-up of several, and its safety is proved for any number.  For the loop two
stores show every partial snapshot and partial write; one request and one
reset show both epochs; two boots show a crash, a restore and the saves after
it.  For SQS two messages of one group show order, two consumers stale handles
and races, three time units a message sent, its lease ended and received
again; `TempVisibility` is larger than `VisTimeout`, as the 30 s are for a queue
with a short timeout.  For S3 two draws of version ids (or of unversioned puts) show
replacement, and two clients every interleaving of a pair of handlers; three
handlers at once are not explored.  For import one importer is enough for
what it does alone under the exclusive lock, and two makers for one file
written twice; the theorems hold for any number.  For moves two tasks show the
pair that shares a source (one CANCELLING), and one message every meeting of
tasks, redrive and consumer.  For Pub/Sub two messages of one key show every
order of acks, nacks and claims that the comparison of two messages can tell
apart; ids stay below 10 (see 4).  In the stream two
claims are either of two messages, so that acks of a key wait for one another
and a batch overruns the budget, or of one message that comes back after its
deadline or a nack while its tombstone is still there.

Larger instances, run once and without error: two importers (3.6 million
states); two move tasks with short and long polls (10.2 million, safety
only); two consumers for `PollEnds` on `SqsQueue` alone; and, for the
invariants only, two streams with two messages (5.2 million), two streams with
deadlines that lapse (171,000) and one stream with three claims (1.4 million).

**Deadlock** is checked in `barrier`, `sqs_queue` and `s3_objects`.
It is off where the process may be down for good (`MaxBoots`) or where the
bounds (of clock, requests, ids, versions) leave no call to make.

**Fairness.**

* `BarrierFairness`: goroutines are scheduled, and handlers return and call
  release.  The inner mutex is `sync.Mutex`, whose starvation mode hands it to
  the longest waiter: strong fairness of `LockAnnounces`.
* `ShutdownFairness`: saves and file system calls return; `srv.Shutdown` gives
  up after five seconds and `SaveNow`'s context after ten, so `Stop` and
  `FinalTimeout` are weakly fair.  The ticker goroutine's `select` may pick a
  tick while `stopCh` is closed too, but Go chooses at random: strong
  fairness of `LoopReturns`.  Requests and resets are not fair: they may hang.
* `SqsFairness`: senders call Notify, ReceiveMessage goes on, the clock runs
  unless frozen.  Nobody has to send, poll, hang up or purge.
  `MoveFairness` adds the goroutines of tasks, whose ticker keeps ticking.
* `StreamSpec`: the send loop leaves every wait after `longPollInterval`, the
  receive loop and the unary handler go on, and the registry's loop has a
  ticker.  No client has to acknowledge, open or close.

**Scheduling assumption.**  `Prompt`, a guard of the clock: a handler takes
less than the 30 seconds of `TempVisibility` from the time it hands to
`store.Receive` to its last ChangeVisibility.  Without it a second consumer
can receive the message before the first has hidden it.  `MovePrompt` asks the
same of a task's Receive, Send and Delete.

## 4. Findings

With a run (`PROJECT.json` quotes the line each contradicts):

1. DeleteObject deletes the metadata of the plain key and then its blob; a
   PutObject that wrote its blob before and its metadata in between is answered,
   and its blob is gone (`s3_torn`).  The comment on that order,
   `crud.go:547-548`, says that no caller ever sees this state.
2. A full stream releases what has left the store; keyed messages stay there
   when acknowledged, so acks by another way never free its budget
   (`pubsub_wedge`).

Seen while modelling, without a run of their own:

* **Persistence.** `--fresh-start` only rotates the UI token; `state.json` is
  loaded all the same (`main.go:275`, against `CONTRIBUTING.md:124`).
  TryReadBegin also refuses while a writer only waits, where `barrier.go:62`
  says "if the write lock is held"; `NoReaderOvertakes` needs the stricter
  behaviour.
* **Archives.** Export and create run beside requests, so an archive may hold a
  store from before a request and blobs from after it, although
  `snapshots.go:101` says "keeping store + blob data consistent";
  `ArchiveExact` is about archives no request overlapped.  An import
  refused with 409 has already written blobs and instance id.  Errors of Close
  are ignored: a torn tarball may be answered 201.
* **S3.** There are more ways to the 500 of `s3_torn` in all of `S3Objects`
  (`NoTornState` under `S3Spec`).  GetObject reads the versioning status before
  the object: when versioning is switched on in between and a versioned put is
  made, it looks for a blob under the plain key that was never written.  A
  PutObject refused for its checksum (`crud.go:96`) has overwritten, and then
  deletes, the blob of the object that was there before.
* **SQS.** The deadline of a long poll is counted on the emulated clock; with
  `Frozen = TRUE` in `SqsMove.cfg` TLC shows a poll that never returns.  A
  poller registers after the Receive that found nothing and misses a
  notification in between (`waiters.go:86`); it then sleeps to its deadline.
  The visibility timeout counts from before the long poll (`queue.go:556`).
  checkDLQ ignores that Send swallowed a duplicate and deletes the original
  (`queue.go:1033`): give `SqsQueue.cfg` a FIFO queue with a deduplication id
  and `NothingLost` fails.  SendMessageBatch accepts a delay on a FIFO queue
  (`queue.go:761`), which lets later messages of the group overtake;
  `GroupHeadOnly` makes the exception explicit.
* **Move tasks.** A task whose destination does not resolve stays RUNNING for
  ever and blocks its source; one without destination moves messages back
  into their own queue in an endless round; group and deduplication id are
  lost; pollers of the destination are not notified.
* **Pub/Sub.** Ids are compared as strings (`memory.go:53` says "message IDs are
  monotonic"): in one publish request "10" comes before "9", and with
  `FirstSeq = 8` `AckedPrefix` fails.  With two publish requests at once the
  message with the smaller id may have the later publish time; the store sorts
  by time, so ids are then not the order of delivery.  A message whose publish
  time is before a snapshot's but which is put after the snapshot has listed the
  backlog (`service.go:1655`, the time is read at 1659) is deleted by a seek to
  it and not put back; `MessageKept` counts it as sought past.  A seek to a
  snapshot restores a message that was acknowledged before the seek from its
  version in the snapshot (`seek.go:127-129` says so), and one that is pulled
  between the seek's List and its Delete from the listed version: in both cases
  the version the seek gives may be that of an ack id a client already has.
  `SeekInvalidates` is about listed messages and ack ids from before the
  listing.  A
  snapshot's backlog contains retained acknowledged messages, which the seek
  restores as unacknowledged.  A held ack is never applied once the message
  that blocks it leaves by filter, retention or dead-lettering
  (`HeldHasBlocker` lists the cases).  With two publish requests at once a
  message may be put after a later one of its key was acknowledged; its own ack
  then applies, but the cascade stops at the acknowledged one
  (`memory.go:231`), and acks held behind that one are never applied.
  A stream that cannot decrypt one message ends with all it has claimed hidden
  until the deadlines (`service.go:951-954`); `stranded` records them and
  `HiddenIsHeld` allows them.  dropAcked's list of acknowledged messages may be
  old when it is used (`service.go:1062-1066`): a keyed message acknowledged
  after it was made is made visible again, and so unacknowledged.
  With two publishers in `PubSub.cfg` TLC shows `AckedPrefix` fail, and
  with three messages `HeldHasBlocker`.

## 5. Proofs

**`BarrierProofs`** (assumption: `BarrierAssumption`, the kinds of callers are
disjoint).  `WriterExclusion` is not inductive: that a writer is alone depends
on which writer is announced and on readers being kept out from the
announcement on.  `BarrierInv` adds `AnnouncedOwnsLock` (a writer with the
lock is the announced one, then no reader has it, and the announced writer is
inside Lock or has it) and `NoLeakedLock` (without which a drain could unlock
what it does not hold).  `UnlockInv`,
`CallerStepInv` and `LockProgressInv` show that every step keeps it; from
`BarrierInvariant` follow, for any number of callers:

* `BarrierExclusion`, `BarrierNoLeak`: the invariants of the run;
* `BarrierNoOvertaking`: the action property `NoReaderOvertakes`;
* `BarrierTypes`, and `BarrierRefinesSharedLock`: every step is a step of
  `SharedLock` or leaves `inside` alone.  It needs `AnnouncedOwnsLock` for
  entering (nobody else is inside when a writer's Lock returns) and
  `NoLeakedLock` for leaving.

**`SnapshotLoopProofs`** (assumption: `SnapshotLoopAssumption`: one shut-down
that waits for the barrier, and `NoFile` and `Torn` are no files' contents).
`MemoryConsistent` and `FileKeepsPromise` compare what handlers promised with
memory and disk; `LoopInv` says what holds at each step in between.  `CoreOK`
is `BarrierInv` with the phases of the process; `MemoryOK`: a live request is
in every store, a wiped one in none, unless a reset is half way; `SnapOK`: what
a save has collected so far is between what it must hold and memory (no
reset can run beside it: the exclusion of the barrier); `DiskOK`: the file, the one a
power loss brings back, and what of the temporary file is complete at each
step of WriteAtomic; `DurableOK`: a save under way holds all that is durable;
`StopOK`: the final save sees what was live at Stop.  There is a lemma for each
conjunct and group of actions.  For any stores, requests, resets and restarts:
`SnapshotLoopTypes`, `ResetsAreAtomic`, `NoTornFile`, `FilesKeepPromise`,
`FinalSaveCaptures`, and the action property `SavesAreDurable`.

**`SqsProofs`** (assumptions: `SqsStoreAssumption`, `SqsQueueAssumption`, for
tasks `SqsMoveAssumption`).

* *Order.*  The store lemmas (`ReceiveKeeps`, `ChangeVisibilityKeeps`,
  `DeleteKeeps`, `SweepKeeps`, `SendKeeps`) say of each method that it returns
  a queue, in group order if it was given one.  The core is `ReceiveKeeps`: a
  message that Receive picks is the first eligible one of its group, and no
  message of the group is in flight, so an earlier one still in the queue must
  be delayed.  `SqsInv` adds the types, needed because group order depends on a
  new message having the largest arrival number.  `SqsInvariant`, `SqsTypes`
  and `SqsGroupOrder` hold for all queues, consumers, timings and delays; no
  step of the argument uses `Prompt`.
* *Leases.*  `LeaseInv` adds to `SqsInv`: `ClaimsOK` (what a handler has in hand
  or a client was given is in the queue, hidden, under that handle, until its
  time is over, or the message's fate is settled), `HandlesOK` (no two claims have one
  handle), `TimesOK` (a handler's time is not old) and `BoxKnown`.  Here
  `Prompt` is needed: without it ChangeVisibility may come after the
  30 seconds.  `SqsClaims` and `LeasesHonoured`.
* *No loss.*  `LossInv` adds that between the two calls of checkDLQ the message
  is in the dead-letter queue.  `LossOnlyByDedup`: nothing is lost as long as no
  deduplication id has come to the dead-letter queue; `NothingIsLost`: nothing
  at all where messages have none.  With them it is false (see 4).
* *Tasks.*  A step of the queue keeps `SqsInv`; a step of a task is one receive,
  send or delete of the store, for which the store lemmas apply.
  `MoveInvariant` and `MoveGroupOrder`: any number of tasks leaves the group
  order as it is, because a copy without a group is in no group.
* *Claims of tasks.*  A task has no lease but a claim like a handler's: the
  original it received is in the queue, hidden, under the handle it will delete
  with (`TasksOK`), a handle no other claim has (`TakenHandlesOK`).  `TaskInv`
  is this with `LeaseInv`; it needs `MovePrompt` as `LeaseInv` needs `Prompt`.
  `MoveClaims`, and `MoveLeasesHonoured`: tasks that take from the consumers'
  own queue break no lease.
* *One of each message.*  A row of a queue is carried if somebody has sent a copy
  of it and is about to delete it.  `OnceInv` says that of each accepted
  message there is exactly one row that is not (`OnlyLoose`).  Of the steps, a
  Send of a redrive or a move swaps the original, which nobody else carries by
  `TaskInv`, for its copy (`OnceSwap`); the Delete removes a carried row, for
  its handle is still current (`OnceDelete`); all others leave rows and carriers
  as they are or settle the fate of what they take out (`OnceRows`).
  `MovedOnce` follows by counting: each carrier has an original of its own
  (`CarrierCount`; `Tasks` and `Consumers` are disjoint, or one name would count
  once for two), and all copies but the one are originals (`OnceCounts`).
  `MovesOnlyOnce` and `MovesLoseNothing` hold as long as no deduplication id has
  come to the dead-letter queue, `MovedOnlyOnce` wherever messages have none,
  as in the run; a task itself copies no deduplication id.

**`S3ObjectsProofs`** (assumption: `S3Assumption`).  No lock spans metadata and
blobs; what protects a version is that its id is drawn fresh.  `S3Inv` says
whom an id belongs to: `OpsOK` (ids in use were drawn before), `PrivateOK`
(until it is published one handler alone knows it), `BlobOK` (its blob is that
of its put from the write until the version is out of the list), `AckOK` (an
answered version is listed or was deleted by name).  For any clients and
bodies: `S3Types`, `ListedVersionsReadable`, `AnsweredVersionsKept`,
`VersionReadsExact`.

**`PubSubStoreProofs`** has what each method does to a subscription: that it
returns one and which parts of messages it leaves alone (`PullBox`, `AckBox`,
`ModAckBox`, `BumpBox`), that `Before` is a strict total order
(`BeforeOrder`), that acks and nacks keep the acknowledged messages of a key at
its beginning (`AckKeyedSorted`, `NackSorted`), and which messages a call may
hide (`PullHides`, `AckHides`, `ModAckHides`).

**`PubSubProofs`** (assumptions: `PubSubStoreAssumption`, `PubSubAssumption`).
`PubSubInv`: the types; `CopiesOK` (copies with one id, in the subscription, a
pull, a snapshot or a seek, are of one message); `TimesOK` (older ids have older
times, if there is one publisher); `ForwardOK` (a pull has what it is about to
forward); `KeptOK` (`MessageKept`, with what a seek has put back so far);
`VersionsOK` (how far a seek has come with the versions).  From
`PubSubInvariant` follow `PubSubTypes`, `MessagesAreKept` and `SeeksInvalidate`
for any publishers, clients and policies; what `SeekInvalidates` leaves out is
in 4.  `PullsInOrder`, the action property, holds for any publishers, clients,
ids and seeks, whatever order clock reads, ids and Puts have among requests: it
speaks of the store's own order.  The order of acks needs more: `OrderOK` says
that before any seek the keys are sorted (`KeysSorted`), a publisher puts last
(`PutsLast`) and held acks have a blocker.  `AcksInOrder` and `HeldAcksWait` have
two hypotheses on the constants, both necessary (see 4): `OnePublisher` and
`SameLength`, which says that the ids of the instance compare as strings as they
do as numbers.

**`PubSubStreamProofs`** (assumption: `PubSubStreamAssumption`).  `StreamInv`
adds to the types and `HiddenIsHeld`: `KnownOK` (what is in hand was
published), `HandsOK` (a send loop claims with empty hands, so that a new
batch overwrites nothing) and `DropOK` (what dropAcked has yet to look at is in
the batch, and what it has listed as acknowledged was sent).  `HiddenStep` reduces a step to two questions: does
it hide only what somebody holds, and does it let go only of what is visible,
acknowledged, sent or stranded by an error.  `StreamTypes` and `HiddenMessagesHeld` hold for any
streams, budgets and deadlines.

**`AdminImportProofs`** (assumption: `AdminImportAssumption`).  `AllOrNothing`
speaks of the moment an importer returns; the inductive `AdminInv` says how it
gets there.  `Occupancy` ties the lock to the handlers at work, `Exclusion` says that an
importer in it is alone, so no request, maker or other importer changes what
it has established; `FileOK`: a tarball that parses was completed by some
maker; `Progress`: what the stores hold at each step of an import, compared
with what it found and with its archive; `CleanOK`, `IdleGot` and
`ArchiveExact` itself: what an undisturbed maker has read is still there.
There is a lemma per group of actions.  `AdminTypes`,
`ArchivesAreExact` and `ImportsAllOrNothing` hold for any stores, makers and
importers.

**Only model-checked.**  Liveness (`EveryBeginEnds`, `EveryDrainEnds`,
`ReadersReadmitted`, `ShutdownEnds`, `PollEnds`, `TombstonesCleared`,
`BudgetReturns`), which the prover does not handle.  All other properties of
the passing runs are stated by a theorem.

## 6. Not modelled, and the plan

Left out for good: the PostgreSQL back ends (their concurrency control is the
database's), codecs, adapters, UI assets, executors (formatting and I/O).  They
and the administrative CRUD calls of some hundred services are by far the
largest part of the source; the modules cover what shares state between
requests.

Next, in this order:

1. `S3Objects`: CopyObject, multipart uploads, If-None-Match and listing; then
   object lock.
2. A writer outside the barrier (background workers) in `SnapshotLoop`, and an
   abstract specification of durable state that the loop implements.
3. `BlobFs`: directory promotion and `recoverOrphans` across a crash.
4. Lambda event source pollers and the asynchronous queue on `SqsQueue`.
5. Secrets Manager labels, Cloud Tasks and Scheduler, deletion lock, throttle,
   Firestore and Datastore transactions.

## 7. Running

    tlc -config SnapshotLoop.cfg SnapshotLoop
    tlapm SqsProofs.tla

The largest run, `pubsub_seek`, has 3.1 million states.
