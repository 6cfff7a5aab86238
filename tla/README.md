# Formal model of the NYC taxi pipeline

TLA+ modules, TLC configurations and TLAPS proofs for the pipeline of this
repository. Source paths are relative to the repository root; lines are those
of the commit the models were written from. `PROJECT.json` maps each definition
to the lines it stands for.

## 1. The system

    Parquet file
      -> producer process: schema check -> domain pipeline -> trips topic (Kafka, keyed by trip_id)
                              \-> invalid rows: DLQ topic and data/rejected/<batch_id>.jsonl.gz
      -> consumer processes (one group): accumulate -> insert into ClickHouse -> commit offsets
      -> taxi.trips (ReplacingMergeTree) -> five materialized views (AggregatingMergeTree)
    data/rejected/*.jsonl.gz -> replay -> trips topic, or dead-lettered again

| Component | State | Operations | Interacts with | What makes it correct |
|---|---|---|---|---|
| Consumer process (`etl/entrypoints/consumer.py`, `etl/infrastructure/kafka/consumer.py`) | accumulator, batch, attempt, shutdown flag, client positions | poll, accumulate, flush, insert, commit, stop | group coordinator, topic, ClickHouse | no offset passes an unstored trip; what was read and not committed is not forgotten; stops when asked |
| Consumer group (Kafka) | members, assignment, committed offsets | assign, revoke, fence, expire, rejoin | consumers | one live owner per partition; offsets do not go back |
| Batch accumulator (`etl/runtime/batching.py`) | rows, time of last flush, batch id | add, should_flush, flush | consumer | no row is dropped or waits for ever |
| Repository, inserter, client (`etl/infrastructure/clickhouse/`) | connection | insert with retries | taxi.trips, views | a returned insert is durable; a raised one may be partial |
| Retry decorator (`etl/runtime/retry.py`) | attempt, delay | call, retry, re-raise | producer, inserter, ping | bounded attempts, last exception raised |
| Producer process and ingestion (`etl/entrypoints/producer.py`, `etl/application/services/ingestion_service.py`) | batch in hand, rows to reject, trips to send, exit code | read, reject, publish, flush, close | reader, domain, Kafka, DLQ | each row is on its way, on disk, or its loss is logged; exit 0 can be believed |
| Event publisher (`etl/infrastructure/kafka/producer.py`) | librdkafka queue, delivery reports | produce, poll, flush | broker | bounded queue does not hang the run |
| Dead-letter publisher (`etl/infrastructure/kafka/dead_letter_publisher.py`) | its own queue, files | send, flush | DLQ topic, disk | one failing write does not stop the other |
| Schema check and domain pipeline (`etl/application/services/validation_service.py`, `etl/domain/trip/`) | none | validate, normalise, build, enrich, validate, deduplicate | producer, replay | a trip has one identity; what is accepted can be inserted, but for a location or an amount nothing bounds |
| Replay (`etl/application/ingestion/replay_dlq.py`, `etl/utils/compression.py`) | open file, record in hand | open, read, recover, reject | files, publisher, DLQ | every record gets an answer, or an error in the log names it; the replay ends |
| Schema manager (`etl/entrypoints/schema_apply.py`, `etl/infrastructure/clickhouse/schema_manager.py`) | tracking table, objects of the server | ensure table, read versions, run statements, record, skip, warn | ClickHouse, other runs | re-runnable after a crash; a recorded version is complete; safe with concurrent runners |
| Topic manager (`etl/infrastructure/kafka/topic_manager.py`) | topics it waits for | list, create, await | Kafka, other producers | after it the topics exist; losing a race is no failure |
| Lag monitor (`etl/runtime/lag_monitor_loop.py`, `etl/infrastructure/monitoring/kafka_lag.py`) | thread, last lags, stop event | wait, poll, close | Kafka, consumer process | a gauge between two truths; a thread that does not die unseen |
| Health server (`etl/entrypoints/health_server.py`, `etl/infrastructure/monitoring/health.py`) | checker, shared client | create, ping, list, answer | ClickHouse, Kafka | an answer about the present, for every request |
| Lifecycle, shutdown (`etl/runtime/lifecycle.py`, `shutdown.py`) | components, flag | startup, shutdown, signal | all | every opened component is closed; a process that is asked to stop ends |
| Zones, enrichment, use cases, observability, settings, SQL, deployment | read-only data, configuration | | | |

What is hard here: crashes between insert and commit; a commit of *positions*
while rows are still accumulated; rebalances, with every join and leave, without
a callback; members the group has fenced without their knowing; retries that start a batch over; two
librdkafka queues that die with their process; a replay that appends to what it
reads; migrations that are not transactional and views that never look back; a
thread, a signal handler and a thread pool that share state without locks.
`PROJECT.json` lists every hazard with its line and the properties that
cover it.

## 2. Modules

| Module | Models | Notes |
|---|---|---|
| `TripDelivery` | the abstract promise of the consumer side: publish, store, acknowledge | refined by `TripConsumer` |
| `TripConsumer` | consumer processes, group, topic, table, views | one action per statement at which another actor or a fault may intervene |
| `TripProducer` | one producer process over one file, its two queues, the disk | a row is its class |
| `TripDomain` | schema check, normaliser, trip builder, validators, deduplicator, column ranges, as operators on raw rows | no state |
| `ReplayDlq` | rejected files and their replay, over `TripDomain` | |
| `SchemaHistory` | the abstract promise of `taxi.schema_migrations` | refined by `SchemaManager` |
| `SchemaManager` | `schema_apply` runs against one server, statement by statement | any number of images with files of their own |
| `TopicManager` | `ensure_topics_exist` of several producers, and the broker | |
| `Deployment` | composes `SchemaManager` and `TopicManager` with the consumer's inserts and the views | `bootstrap.sh` is one step of it |
| `LagMonitor` | the lag thread and its polls, over a topic and a group that move | |
| `ConsumerProcess` | extends `LagMonitor` with `main()` of the consumer: startup, loop, finally block, shutdown | what the loop does with batches is `TripConsumer`'s |
| `HealthServer` | `/health` with concurrent requests | |
| `Operations` | composes `ConsumerProcess` and `HealthServer` over one topic and group | |
| `MCTripConsumer`, `MCTripProducer`, `MCReplayDlq`, `MCDeployment`, `MCOperations` | instances for TLC | |
| `TripConsumer_proofs`, `TripProducer_proofs`, `TripDomain_proofs`, `ReplayDlq_proofs`, `SchemaManager_proofs`, `Deployment_proofs`, `ConsumerProcess_proofs`, `Operations_proofs` | theorems | `Deployment_proofs` rests on the step lemmas of `SchemaManager_proofs`, `Operations_proofs` on those of `ConsumerProcess_proofs` |

### TripConsumer

`pc[c]` is where the process is: `loop` (head of `consume_batches`), `polling`,
`polled` (before `should_flush`), `insert`, `commit`, `closing`, `down`. `acc`
is the accumulator, `batch` the batch main() holds, `position` the client's
positions, `draining` whether the generator is in its `finally` block. The
generator and main() alternate in one thread; a `yield` is the step to `insert`,
and `Resume` is the step back into the generator: to the loop, or, when it was
the final batch, out of it.

- `Deliver` moves the position past every message, decodable or not.
- `Flush` may happen as soon as a row is there (the time threshold), `NoFlush`
  only below the size threshold.
- `InsertError` applies any subset of the batch: an insert over several monthly
  partitions is not atomic, and a connection may break after the server has
  stored the data. `InsertPoison` applies nothing. The decorator sits on
  `ClickHouseClient.execute`: what the driver raises (an amount that does not fit
  its `Decimal(9, 2)` column) is retried, while the Arrow conversion (a location
  id above 65535) runs before it, so both outcomes of an attempt are there.
- `CommitOk` commits the positions of the whole assignment.
  `CommitRejected` covers a fenced caller and an assignment without a new
  offset (`_NO_OFFSET`); both raise, and main() treats them as a failed insert.
- `GiveUp` is the `except` branch of main(): no commit, shutdown requested.
- `viewRows` counts each row each time it is inserted; `stored` does not.

The group is external. Its model promises: one live member per partition;
a new owner starts at the committed offset; a commit of a fenced member is
rejected; a fenced client keeps its assignment until it learns of it.
Rebalances are ordinary steps, not faults. The client's default assignor is
eager: whenever a member joins (`Start`, `Rejoin`) or leaves (`Close`, `Fence`,
`SessionTimeout`), all others have to give up their whole assignment
(`revoking`), each does so in its next poll (`Revoke`), and then `Assign` hands
the partitions out in shares that differ by one at most. The adapter subscribes
without a revocation callback (`etl/infrastructure/kafka/consumer.py:72`), so
`Revoke` leaves the accumulator as it is: its rows are inserted here, and by the
next owner of the partition, who starts at the committed offset. `traded` is a
history of the trips that a rebalance found in an accumulator.

### TripProducer

`read`, `schema`, `publish`, `reject` follow `_process_batch`; `flush` is the
`finally` block of `run`, `close` is `lifecycle.shutdown`. `queue` and
`unserved` share the bound of the librdkafka queue: a message keeps its slot
until its report is served by `poll` or `flush`, and a `produce` that raises
does not reach the `poll` behind it. A retry starts the batch over. The
exception of the last attempt skips the dead letters of the batch. `logged` is
what a log line of this run names as lost (delivery failure, flush timeout,
failed write to disk). A row without a location id makes the schema check itself
raise: `location_id_positive` calls `int(None)`, and a TypeError is no
ValidationError. `CheckRaises` is the run that ends there, with exit 1 and
nothing of the batch dead-lettered; the next run of the file ends at the same
batch. `file` is the file of a behaviour; no step writes it.

### TripDomain and ReplayDlq

A raw row has a vendor code, two times, one location, a passenger count and one
amount; a value is an integer, missing, or no number. `TripId` is the natural
key itself instead of its SHA-256, so two keys never collide. In `ReplayDlq`
the producer ingests a batch of rows in one step and the replay goes record by
record; `unread` grows while a rejected record is appended to the file that is
being read. `origin` is a ghost field: the Parquet row a record or message
stems from. A `Row` is a raw row or what `to_dict()` makes of a trip, whose
vendor is a label instead of a code. `SchemaRaises` is the missing location id
again; a batch with such a row is no batch of `Ingest`. A failed write to disk
is logged and no more (`etl/infrastructure/kafka/dead_letter_publisher.py:120`):
under the fault `disk` an ingested batch keeps a part of its letters and a
replayed record that is still invalid gets no new one (`RejectLost`), which takes
it off the records an answer is asked for (`asked`), as a corrupt line takes
those behind it. `Insertable` is what the columns of `taxi.trips` hold: the
integer widths and the range of `Decimal(9, 2)`.

### SchemaManager, TopicManager, Deployment

`pc[r]` is the statement a run sends next: `ping`, `track` (the tracking table),
`read`, `statement`, `record`, `report`; `file` is the head of the loop of
`apply_all`. `made[o]` says which file's statement created an object: `IF NOT
EXISTS` leaves alone what is there. `ExecuteError` is an attempt that fails before or
after the server has done its work; `RetryOrRaise` is the decorator on
`ClickHouseClient.execute`. `applied` is the answer to the one SELECT at the
start, which grows stale. A checksum is the content itself.

`step[p]` and `pending[p]` follow `ensure_topics_exist`; the broker answers for
each topic by itself, and a request that fails may have created it.

`Insert` adds a row to the table and to the views that exist at that moment.
`BootstrapConsumer` is the order of `scripts/bootstrap.sh`, which looks at the
exit code of the schema run and at nothing else: the consumer may be started for
the first time or again, after a run with or without warnings. Without it nothing
orders the consumer after the schema, and `Insert` may happen as soon as topic
and table are there. `AppliedViews` are the views of the run's files but for those
it has warned of: a run that meets an edited file ends with exit 0 and has not
created what the edit added, so views of that file may be missing and count
nothing. `BootstrapCountsAll` promises the others only, and only the rows that
are inserted from that start on (`before`).

Versions are positions in the sorted list of files, where the code has file
stems: images that append, drop or edit files are instances, an image that
inserts a file between two others is not (it would shift the positions, while
the stems behind it stay what they are).

What the model says beside its properties: on a server without the database
`taxi` the tracking table, which comes first, cannot be created, so 001, which
creates the database, is never reached (docker-compose creates it); a row inserted
between 001 and 002 is in no view for ever; a file that is edited while half
applied, or two images at the same time, leave an object as the other file
defined it while the recorded checksum says otherwise (`NoSilentDrift` excludes
them by `calm`).

### LagMonitor, ConsumerProcess, HealthServer, Operations

`thread` is the request a poll makes next. `heldAtRead` and `heldThen` are the
backlog at the instant the committed offsets were read, for the poll under way
and for the gauge. The monitor has a group of its own, so it changes nothing.

`point` is where `main()` is; `Opens`, `After`, `Closes`, `Then` are the steps of
`startup("consumer")` and `shutdown()` as tables. `closing` holds the resources
whose closing method has been called, whether it raised or not. `JoinError`: a
thread that could not be started cannot be joined, and the RuntimeError leaves the
finally block. `SetFlag` is `Event.set()`: its lock is not reentrant and the
signal handler runs in the main thread, so a signal that comes in the middle of
`request_shutdown()` or of another signal's `set()` waits for itself (`stuck`)
until SIGKILL. The window is a few instructions wide; `TripConsumer` and
`TripProducer` take `set()` as atomic.

In `HealthServer` the checker is named after the request that created its client.
A ClickHouse connection serves one query: a second one raises, and what raises
closes the connection under the first (`Collide`, `cut`). A client that could
not be created is cached with the checker (`NoClient`): ClickHouse is reported
as degraded from then on. The answer has no lag in it: `check()` pings
ClickHouse and lists topics, and never uses the topic and the group it is given
(`etl/infrastructure/monitoring/health.py:77`), although the comment at line 61
says that lag is part of the report; a stalled consumer is answered with 200.
`AnswerTruthful` is about what the report does contain, and about its HTTP status.

`Scenes` in `Operations`, like `Roles` in `Deployment`, bounds who takes part in a
behaviour: the health server shares no variable with the consumer process.

## 3. Runs

| Run | Instance | Shows |
|---|---|---|
| `consumer_safety` | 2 consumers, 2 partitions, 3 trips and junk, one row that cannot be inserted, batch of 2, 2 attempts; joins and rebalances, and 3 faults of any kind or 2 graceful stops | `NoLoss`, `ReadAheadHeld`, `CommittedMonotonic`, the inductive invariants (`ConsumerIInv`), refinement of `TripDelivery`; without faults a trip is counted more often than it was published only if a rebalance found it in an accumulator (`TwiceOnlyIfTraded`) |
| `consumer_liveness` | 2 consumers, 1 partition, 2 trips and junk, 1 fault of any kind but a fence, fairness | every published trip is stored, if rebalances come to an end; every shutdown completes, in a bounded number of the process's own steps (`ShutdownDescends`) |
| `producer_safety` | two files: 5 rows in 2 batches (valid, repeated, schema- and domain-invalid), and one whose second batch has a row without a location id; queue of 2, 2 attempts, 2 faults, fairness | `RowsAccounted`, `CleanExit`, the inductive invariants (`ProducerIInv`), each step of a run lowers its measure (`RunDescends`), runs end, the file is ingested up to the first batch on which the check raises |
| `replay_dlq` | rows of every sort, batches of up to 2, two instants, both directory set-ups, 1 fault, fairness | identity, what a dead letter holds, an answer for every record that no error names, poison is a location or an amount above its column (`PoisonIsUnbounded`), validity is stable, the inductive invariant (`ReplayIInv`), replays into another directory read from a set that shrinks (`ReplayDescends`) and end |
| `deployment` | two processes at a time: runs of one image, of two images (the later one with an edited second file and a third), a run and a producer, two producers; 2 attempts, 2 failures, 1 failed topic request, 1 trip, fairness | what is recorded is complete, exit 0 without a warning is the schema, no silent drift in calm, topics ready, the race is harmless, `SchemaHistory` is implemented, recorded views are fed, the order of `bootstrap.sh` counts all in the views no warning names, migrations complete, the inductive invariants of the parts and of the views (`DeploymentIInv`) |
| `operations` | a consumer process over 2 partitions and 2 messages, one of which may expire, with 1 fault and any number of signals; a health server with 2 requests, 2 attempts, 1 outage; fairness | the gauge brackets the truth and becomes current, all that was opened is closed, the thread outlives the loop, the process ends, answers and their status are true and come, both inductive invariants (`OperationsIInv`) |
| `consumer_views`, `consumer_persist_failure`, `producer_null_location`, `producer_dlq`, `replay_forever`, `replay_duplicate` | | what the documentation or a docstring says and the code does not do (section 5) |

Bounds. One partition and two messages suffice for a batch that mixes an old
and a new row, for two consumers at different positions, and for a commit that
covers more than one batch; the second partition, with the poison row alone on
it, adds assignments that change independently. Three faults are a fence, a failed
insert and a crash in one behaviour; two graceful stops stop each consumer once,
or one of them twice, with the joins and rebalances that follow. `MaxRows` caps
the views' count of a trip above anything `TwiceOnlyIfTraded` compares it with
(`MaxRows > MaxLog`), since rebalances may repeat a row without end.
`HistoryIfGraceful` is the VIEW of both: `viewRows` and `traded` are histories
that no guard reads, and the properties speak of them only when `faults.kinds`
allows nothing but signals, which no step changes; so a behaviour with other faults
has the same future, and the same verdict, whatever they hold. In
`consumer_liveness` a fence is left out for the size of the graph; the crash has
the same outcome for the others, the expiry of a session. The queue of 2 is smaller than the number
of messages of the first batch plus the unserved reports, so a full queue and a
retry over a queued prefix both occur. `MaxRetry` stops `retry_count` at a
ceiling, which makes an endless replay a cycle. In the replay instance the
widths are small (locations and amounts up to 3, counts up to 4) so that both sides of each
boundary are rows. In `deployment` a file has one or two statements of each
sort (a table, a target table with its view); two failures are a failed last
attempt, or two kills between any statements, each with its re-run. The pairs of
`MCRoles` are the pairs of programs that share state. In
`operations` two messages give a backlog that changes between the requests of a
poll on either partition, and one of them may expire (`MaxExpired`); one fault
is one exception anywhere, and signals come on top. Two requests are what a collision takes; with `MaxPings = 2` an attempt
follows a failed one. The consumers run the same program and no property names
one of them; symmetry is used in `consumer_safety` only. All runs but `deployment` check for deadlock: producers that are ready and a
consumer that has inserted everything may stop.

Each property has a mutant in `PROJECT.json`: a plausible bug in a modelled
definition that makes TLC find the property violated.

## 4. Fairness

- Consumer: a process that is up takes its next step, since `poll` returns within a
  second, `send_receive_timeout` bounds an insert, attempts are counted, and the
  synchronous commit returns or raises. `Start` is fair: the code ends a process
  after every failed batch and counts on a restart ("so the process restarts
  cleanly", `etl/entrypoints/consumer.py:127`). The repository's compose file
  runs only the infrastructure, so the restart by a supervisor or an operator
  is an assumption. Session expiry, rejoin and assignment are Kafka's (`Assign`).
  Strong fairness of `Deliver` and `Revoke` says that `poll` does not ignore a
  partition, or a rebalance, for ever; strong fairness of `Flush` says that
  `max_wait_seconds` pass. `EventuallyStored` assumes in addition that rebalances
  come to an end, as its formula says: `commit()` raises in a consumer that a
  rebalance has just left without anything to commit
  (`etl/infrastructure/kafka/consumer.py:142`), main() takes that for a failed
  insert and ends the process, and its leaving and its restart are the next
  rebalances. Nothing in the code bounds that chain; in practice its timing does.
- Producer: the process takes its next step; the broker answers for a message
  or its `message.timeout.ms` does; the job is run again after it ended.
- Replay: the process takes its next step. Nothing makes anyone start one.
- Deployment: a schema run takes its next step, as every statement returns or
  raises, and one that has failed is run again (a Job that retries, CI, an
  operator). Nothing is assumed of producers and consumers.
- Operations: `main()`, the lag thread and a request take their next step. Every
  call they make has a timeout: `join` waits 20 seconds, list_topics 5 or 10, the
  offsets 10, a watermark 5, a query `send_receive_timeout`. Signals, requests and
  messages need not come. `LagReported` asks nothing of a process that stops
  consuming or whose thread has met another exception than KafkaException.

Faults are bounded in number, so liveness says: after the last fault, in the
end. `FileIngested` needs in addition that `publish_batch` stops meeting a full
queue; without it the producer may give up at the same row in every run, since
a run has no checkpoint.

## 5. Findings

Each is a run that TLC ends with a counterexample.

1. `consumer_views`: `docs/architecture.md:130` says `countMerge()` over the
   views reads deduplicated counts. Views are fed by every insert, and starting a
   second consumer, as `docs/scaling_notes.md:30` describes, suffices: the rows
   that the first one has accumulated go with their partitions to the second, and
   both insert them. A crash or a rejected commit after the insert does the same.
   `TwiceOnlyIfTraded` says that without faults nothing else does.
2. `consumer_persist_failure`: `docs/replay_strategy.md:41` lists failed inserts
   as dead-lettered (stage `PERSIST`). The code retries the batch at each
   restart for ever, and the valid trips of the batch wait with it.
3. `producer_dlq`: `KafkaDeadLetterPublisher.flush` is "called during graceful
   shutdown", says its docstring. The producer process never calls it.
4. `replay_forever`: `docs/event_flow.md:154` says that a record which stays
   invalid goes to a file of a new batch id. It goes to the file being read.
5. `replay_duplicate`: `docs/replay_strategy.md:62` says `original_record` is
   the raw row. For a duplicate it is the serialised trip, and its replay
   creates a second identity for the trip.
6. `producer_null_location`: the docstring at
   `etl/application/services/validation_service.py:74` lists null location ids
   among what is dead-lettered immediately. `int(None)` raises a TypeError that
   nobody catches, so the run ends with exit 1 at that batch, and so does every
   further run of the file: the batches behind it are never ingested.

## 6. Proofs

`TripConsumer_proofs`, for any number of consumers, partitions, trips and faults:

- `TypeCorrect`: `Spec => []TypeOK`.
- `Inductive`: `Spec => []IInv`. `NoLoss` alone is not inductive: a commit is
  safe because everything between the committed offset and the position is
  still held (`ReadAheadHeld`), because nothing is left in the accumulator
  while a batch is persisted and the batch that is committed is stored
  (`BatchControl`), because no two live members share a partition
  (`ExclusiveOwner`), and because a live owner is never behind the committed
  offset (`OffsetBounds`). `ReadAheadHeld` is stated for a consumer that *may
  still commit*: after a failed batch the flag is set with an empty
  accumulator, so the loop is left without another commit. That is the argument
  for why `commit()`, which knows no batches, is safe in this program.
- `NoTripIsLost`, `ReadRowsAreHeld`: `NoLoss`, `ReadAheadHeld` from it.
- `OffsetsNeverGoBack`: `CommittedMonotonic`; a fenced member's commit is
  rejected and a live member only commits forward.
- `ConsumersDeliver`: `Spec => Delivery!Spec`, step by step: an insert is
  `Store` (`RowsPublished` gives that its rows were published), a commit is
  `Acknowledge` (`ReadAheadHeld` and `BatchControl`), the rest stutters.
- `GracefulTwiceOnlyIfTraded`: `TwiceOnlyIfTraded`, from `GracefulInvariant`
  (`GracefulIInv`), for consumers that join, rebalance and are stopped
  gracefully. For a trip that was never traded, the views count it no more often
  than it lies below the position of whoever reads its partition, with the rows
  still held counted in (`ReadCovers`), and no more often than it lies below the
  committed offset, except between an insert and its commit (`CommittedCovers`).
  A consumer is in the group for as long as it runs, and holds rows of the
  partitions it reads or traded ones (`HoldsOwnRows`); a rebalance is served in
  `poll`, where no batch is between insert and commit, so what it takes away is
  the accumulator's or already covered by the committed offset. The counts are
  cardinalities of sets of positions, so no induction over sequences is needed.
- `ShutdownIsBounded`: `ShutdownDescends`. `StepsLeft` is a number of at most
  `2 * MaxAttempts + 6`; once the flag is set, each step of the process lowers
  it and nobody else's step raises it, so that many steps suffice: one poll, one
  batch with its retries, the last batch with its retries, the close.
- `ConsumerInvariant`: `ConsumerIInv`, the three invariants together.

`TripProducer_proofs`, for any file, queue size, number of attempts and faults:
`Inductive` (`IInv`: `RowsAccounted` and `CleanExit` with how far the batch in
hand has come at each control point), `RowsAreAccounted`, `ExitZeroIsTrue`.
`RunIsBounded` is `RunDescends`: each step of a run lowers the batches left,
else the stage within the batch, else the attempts, else the rows to be sent or
rejected. A retry starts the rows over, but it costs an attempt, and a full
queue is met by an attempt too, so neither makes a run spin.
`DescentInvariant` gives that these are natural numbers; `ProducerInvariant` is
both invariants.

`TripDomain_proofs`, for any row, clock and limits: `OutcomeMonotone` (a valid
row stays valid as time passes), `ToDictStaysValid` (the serialised trip of a
valid row is a valid row), `ValidFits` (a valid row fits the columns of the table
when its location id and its amounts do; it needs `MaxPassengers <= MaxUInt8` and
`MaxDuration <= MaxUInt32`, which `DomainAssumption` takes from
`validators.py` and `inserter.py`).

`ReplayDlq_proofs`, for any set of rows, batches and faults:

- `ReplayInvariant`: `Spec => []IInv`. `OwnIdentity` is not inductive: a
  rejected record is written again under a new stage, and had it been the
  record of a duplicate, its row would publish the trip under another
  `trip_id` without being excepted. `LettersOk` says that this cannot happen:
  the row of a duplicate's record is valid and stays valid, by
  `ToDictStaysValid` and `OutcomeMonotone`, so it is never rejected; every other
  record holds the row as it was read.
- `IdentityKept`, `EveryRecordAnswered`, `PoisonOnlyUnbounded`: `OwnIdentity`,
  `Answered`, `PoisonIsUnbounded` from it; the last one by `ValidFits`.
- `ValidForever`: `StaysValid`; only `Tick` moves the clock.
- `ReplayTypeOK`, `LettersWellFormed`: `TypeOK` and `LettersOk`.
- `ReplayIsBounded`: `ReplayDescends`. When the dead letters go to another
  directory, the set of files to read, and within a file the set of records, only
  shrinks, and every step of the replay shrinks one of them; `ReplayIsFinite`
  says that both are finite. Into the same directory the second half fails, which is
  finding 4. `ReplayIInvariant` is `IInv` and finiteness together.

`SchemaManager_proofs`, for any number of runners, images, migrations, statements,
attempts and failures:

- `SchemaInvariant`: `SchemaSpec => []SchemaIInv`. `RecordedIsComplete` rests on
  what a run has executed of its file being there (`StatementsHold`), and
  `SuccessMeansSchema` on the stale snapshot still being true
  (`SnapshotHolds`, since nothing is ever dropped) and on every file behind the
  current one being recorded (`PassedHolds`), with its own content or with a warning.
- `RecordedComplete`, `SuccessIsSchema` from it.
- `NoDrift`: `NoSilentDrift`, from `CalmInvariant` (`CalmIInv`): as long as no run
  has failed or met another, one run is at work (`OneRun`), its snapshot is what
  is recorded (`SnapshotIsCurrent`), and the objects of a version that is not
  recorded are absent, foreign, or of that run's file
  (`UnrecordedUntouched`). It needs `VersionsApart`: files of different versions define different
  objects. `clickhouse/migrations/001_initial_schema.sql` and
  `002_materialized_views.sql` have no object in common. Without it a later
  version that says `IF NOT EXISTS` for an object of an earlier one is recorded
  with a definition the server does not have.
- `SchemaHistoryKept`: the refinement of `SchemaHistory`; only `Execute` and
  `ExecuteError` change the server, by one `Create`, one `Record` or nothing.

`Deployment_proofs`: `DeploymentInvariant` carries `SchemaIInv`, `CalmIInv`,
`TopicIInv` and what the views have counted (`FlowOk`) through the composition;
`TopicInvariant`, `TopicsAreReady`, `RaceIsHarmless`, `BootstrapCounts` and
`ViewsAreFed` follow. `BootstrapCounts` rests on `SuccessMeansSchema` after a
run without a warning, and after one with a warning on `RecordedIsComplete` for
the files that are recorded as they are. That is how far the order of
`bootstrap.sh` suffices. `DeploymentRunsSchema` shows that
the composition is a behaviour of the schema runs, so that
`DeploymentRecords`, `DeploymentSucceeds`, `DeploymentNoDrift` and
`DeploymentHistory` are the theorems of the component, cited.

`ConsumerProcess_proofs`: `ProcessInvariant` (`ProcessIInv`: the poll under way
brackets the truth with what it has read and with what it will read,
`PollBrackets`; what is open at each point of startup and shutdown,
`WhileStarting`, `WhileClosing`; when thread, stop event and monitor may be what,
`OnTheWay`), `GaugeBrackets`, `ResourcesClosed`, `ThreadIsJoined`.

`Operations_proofs`, for any number of requests, attempts and outages:

- `HealthInvariant` (`HealthIInv`: the query on a connection is that of the
  request that waits for it, a cut has collided, and what a request has found so
  far is true) and `AnswersTrue`.
- `RequestsAreBounded`: each step of a request lowers `StepsToAnswer`, a number of
  at most `2 * MaxPings + 4`, and no other request raises it, although one may
  cut the connection under another (`RequestDescends`).
- `OperationsRunProcess`, `OperationsRunHealth`: the composition is a behaviour of
  either part; `OperationsInvariant`, `OperationsGauge`, `OperationsClosed`,
  `OperationsThread`, `OperationsAnswers` and `OperationsRequests` carry the
  theorems of both over.

The descent properties (`ShutdownDescends`, `RunDescends`, `ReplayDescends`,
`RequestDescends`) are the safety half of the liveness properties, for every
value of the constants: with them, all that is left to fairness is that the
process takes its next step.

The proofs use the named assumptions on the constants only
(`ConstantsAssumption`, `DomainAssumption`, `ReplayAssumption`,
`SchemaAssumption`, `VersionsApart`, `TopicAssumption`, `DeploymentAssumption`,
`LagAssumption`, `ProcessAssumption`, `HealthAssumption` and `OperationsAssumption`, which TLC
evaluates in every run of their modules). Only model-checked:

- the liveness properties (fairness and ENABLED are beyond the prover):
  `EventuallyStored`, `ShutdownCompletes`, `RunEnds`, `FileIngested`, `ReplayEnds`,
  `MigrationsComplete`, `LagReported`, `ProcessEnds`, `RequestsAnswered`.

Only proved: `RequestDescends`, which no run checks, and the theorems of
`TripDomain_proofs`, which are about operators.

## 7. What is not modelled

- Zone lookup and enrichment decide nothing: an unknown zone is a label.
- Observability and settings: context variables, log formats, counters and
  configuration; no other component reads state of theirs. Dashboards,
  Terraform, and the shell scripts other than `replay_dlq.sh` and the order of
  `bootstrap.sh`: declarations.
- Use cases without an entry point (`process_trip.py`, `process_batch.py`,
  `enrichment_service.py`), and methods no entry point calls.
- Topic retention (but for the lag monitor), broker replication, background merges
  of ClickHouse: external; the table is modelled as its merged content
  (`SELECT ... FINAL`).
- The health report's `degraded` for Kafka (the settings always name servers) and
  `/ready`, which has no state.
- Delays of the retries and the clock of the batch accumulator: nondeterminism.

## 8. Plan

In order:

1. `TripConsumer`, `TripDelivery` and their proofs: done.
2. `TripProducer` and its proofs: done.
3. `TripDomain`, `ReplayDlq` and their proofs: done.
4. `SchemaHistory`, `SchemaManager`, `TopicManager`, `Deployment` and their
   proofs: done.
5. `LagMonitor`, `ConsumerProcess` (the planned `Lifecycle`), `HealthServer`,
   `Operations` and their proofs: done.

Left:

6. `Pipeline`: composition of `TripProducer` and `TripConsumer` through the topic, with
   the abstract statement "a row of the file is stored, dead-lettered or logged".
   Today the two meet at the assumption that what is in the topic is published.
7. `BatchAccumulator`: thresholds with a clock; how long a row may wait.
8. The flush of the dead-letter producer at the end of a replay.
9. Theorems still worth proving: a bound on the steps of a schema run and of the
   shutdown of the consumer process (`ProcessEnds`, `MigrationsComplete` have
   no descent property yet), and the lag thread's poll.
