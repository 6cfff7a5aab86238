----------------------------- MODULE TripProducer -----------------------------
(***************************************************************************)
(* The producer side of the pipeline: the process of                       *)
(* etl/entrypoints/producer.py runs IngestionService over the batches of   *)
(* one Parquet file.  Of each batch it dead-letters the rows the schema    *)
(* rejects, runs the domain pipeline on the others, publishes the valid    *)
(* trips and dead-letters the rest.                                        *)
(*                                                                         *)
(* External: the two librdkafka producers (of trips and of dead letters),  *)
(* whose messages wait in a queue of this process until the broker         *)
(* acknowledges them, and are gone when the process ends.  A message of    *)
(* the trips producer holds its slot of the queue until the report of its  *)
(* delivery has been served by poll() or flush().                          *)
(*                                                                         *)
(* A row is only its class: what the domain pipeline makes of its values   *)
(* is the subject of TripDomain.  The queue is unordered here, because     *)
(* messages of different partitions overtake each other.                   *)
(***************************************************************************)
EXTENDS Naturals, FiniteSets, SequencesExt

CONSTANTS
  Rows,        \* the rows of the file
  Trips,       \* trip_ids
  Files,       \* files: the batches of rows that ParquetReader.iter_batches yields
  Kind,        \* the class of each row: what the checks of the pipeline make of it
  TripOf,      \* the trip_id of each row
  QueueMax,    \* queue.buffering.max.messages
  MaxAttempts, \* RetryConfig.KAFKA_PUBLISH max_attempts
  Faults,      \* the kinds of fault that may occur
  MaxFaults    \* bound of the model: faults in one behaviour

FaultKinds == {"sigterm", "crash", "read", "publish", "delivery", "timeout", "dlq", "disk"}

\* The classes of a row: "null" has no location id, on which the schema check
\* raises; "schema" and "domain" are rejected by the one or the other.
Kinds == {"null", "schema", "domain", "valid"}

ASSUME ConstantsAssumption ==
  /\ Files \subseteq Seq(Seq(Rows))
  /\ Kind \in [Rows -> Kinds]
  /\ TripOf \in [Rows -> Trips]
  /\ QueueMax \in Nat \ {0}
  /\ MaxAttempts \in Nat \ {0}
  /\ Faults \subseteq FaultKinds
  /\ MaxFaults \in Nat

VARIABLES
  file,      \* the file that is ingested; no step writes it
  topic,     \* the trips in the trips topic
  queue,     \* the trips the producer's queue holds, not yet acknowledged
  unserved,  \* delivery reports that no poll() or flush() has served
  dlqTopic,  \* the rows in the DLQ topic
  dlqQueue,  \* the rows in the queue of the dead-letter producer
  disk,      \* the rows in data/rejected/
  logged,    \* trips and rows whose loss the run has logged
  pc,        \* the control point of main() and IngestionService
  next,      \* the batch that is processed, or to be read next
  toReject,  \* the rows of this step still to be dead-lettered
  toSend,    \* the trips this attempt of publish_batch has still to produce
  attempt,   \* the attempt number of publish_batch
  shutdown,  \* ShutdownHandler.is_shutdown_requested
  exit,      \* how the last run ended: "none", "ok", "error" or "killed"
  faults     \* faults so far

trips    == <<topic, queue, unserved>>
letters  == <<dlqTopic, dlqQueue, disk>>
progress == <<next, toReject, toSend, attempt>>
vars == <<file, trips, letters, logged, pc, progress, shutdown, exit, faults>>

\* The control points of the process.
\*   read     before the next batch of the file
\*   schema   dead-lettering the rows the schema rejected
\*   publish  in publish_batch, inside the retry decorator
\*   reject   dead-lettering the rows the domain pipeline rejected
\*   flush    in the finally block of IngestionService.run
\*   close    in lifecycle.shutdown
\*   down     no process runs
ControlPoints == {"read", "schema", "publish", "reject", "flush", "close", "down"}

Running == pc # "down"

Fault(kind) ==
  /\ kind \in Faults
  /\ faults < MaxFaults
  /\ faults' = faults + 1

-----------------------------------------------------------------------------
(* What becomes of the rows of a batch. *)

\* location_id_positive raises TypeError for None, which is no ValidationError
\* and leaves validate_batch.
Raises(b) == \E i \in DOMAIN b : Kind[b[i]] = "null"

SchemaInvalid(b) == {b[i] : i \in {j \in DOMAIN b : Kind[b[j]] = "schema"}}

Parsed(b) == {i \in DOMAIN b : Kind[b[i]] = "valid"}

ValidTrips(b) == {TripOf[b[i]] : i \in Parsed(b)}

\* A valid row whose trip an earlier row of the batch already has.
Duplicate(b, i) == \E j \in Parsed(b) : j < i /\ TripOf[b[j]] = TripOf[b[i]]

DomainInvalid(b) ==
  {b[i] : i \in {j \in DOMAIN b :
                   \/ Kind[b[j]] = "domain"
                   \/ Kind[b[j]] = "valid" /\ Duplicate(b, j)}}

Rejected(b) == SchemaInvalid(b) \cup DomainInvalid(b)

Batch == file[next]

-----------------------------------------------------------------------------

Init ==
  /\ file \in Files
  /\ topic = {} /\ queue = <<>> /\ unserved = 0
  /\ dlqTopic = {} /\ dlqQueue = {} /\ disk = {}
  /\ logged = {}
  /\ pc = "down" /\ exit = "none" /\ shutdown = FALSE
  /\ next = 1 /\ toReject = {} /\ toSend = {} /\ attempt = 0
  /\ faults = 0

\* A run starts at the first row of the file: there is no checkpoint.
Start ==
  /\ pc = "down"
  /\ pc' = "read"
  /\ next' = 1
  /\ exit' = "none"
  /\ logged' = {}
  /\ UNCHANGED <<file, trips, letters, toReject, toSend, attempt, shutdown, faults>>

RequestShutdown ==
  /\ Fault("sigterm")
  /\ Running /\ ~shutdown
  /\ shutdown' = TRUE
  /\ UNCHANGED <<file, trips, letters, logged, pc, progress, exit>>

\* What the end of the process takes with it: its memory and both queues.
ForgetProcess ==
  /\ pc' = "down"
  /\ queue' = <<>> /\ unserved' = 0 /\ dlqQueue' = {}
  /\ toReject' = {} /\ toSend' = {} /\ attempt' = 0
  /\ shutdown' = FALSE

Crash ==
  /\ Fault("crash")
  /\ Running
  /\ ForgetProcess
  /\ exit' = "killed"
  /\ UNCHANGED <<file, topic, dlqTopic, disk, logged, next>>

-----------------------------------------------------------------------------
(* The brokers. *)

Leave(i) ==
  /\ queue' = RemoveAt(queue, i)
  /\ unserved' = unserved + 1

Ack(i) ==
  /\ Leave(i)
  /\ topic' = topic \cup {queue[i]}
  /\ UNCHANGED <<letters, logged, pc, progress, shutdown, exit, faults>>

\* message.timeout.ms passed, or a permanent error: _delivery_callback logs it.
DeliveryFails(i) ==
  /\ Fault("delivery")
  /\ Leave(i)
  /\ logged' = logged \cup {queue[i]}
  /\ UNCHANGED <<topic, letters, pc, progress, shutdown, exit>>

AckLetter(r) ==
  /\ r \in dlqQueue
  /\ dlqQueue' = dlqQueue \ {r}
  /\ dlqTopic' = dlqTopic \cup {r}
  /\ UNCHANGED <<trips, disk, logged, pc, progress, shutdown, exit, faults>>

-----------------------------------------------------------------------------
(* IngestionService.run and _process_batch. *)

\* Mutant: the batch that was read when the flag is seen counts as done.
MutantNextBatch ==
  /\ pc = "read"
  /\ \/ /\ ~shutdown /\ next <= Len(file) /\ ~Raises(Batch)
        /\ toReject' = SchemaInvalid(Batch)
        /\ pc' = "schema"
        /\ UNCHANGED <<next, exit>>
     \/ /\ shutdown \/ next > Len(file)
        /\ pc' = "flush"
        /\ exit' = "ok"
        /\ next' = IF next <= Len(file) THEN next + 1 ELSE next
        /\ UNCHANGED toReject
  /\ UNCHANGED <<trips, letters, logged, toSend, attempt, shutdown, faults>>

NextBatch ==
  /\ pc = "read"
  /\ \/ /\ ~shutdown /\ next <= Len(file) /\ ~Raises(Batch)
        /\ toReject' = SchemaInvalid(Batch)
        /\ pc' = "schema"
        /\ UNCHANGED exit
     \/ /\ shutdown \/ next > Len(file)
        /\ pc' = "flush"
        /\ exit' = "ok"
        /\ UNCHANGED toReject
  /\ UNCHANGED <<trips, letters, logged, next, toSend, attempt, shutdown, faults>>

\* The schema check of the batch raises: the exception leaves run() as well,
\* and no row of the batch has been dead-lettered. The next run reads the same.
CheckRaises ==
  /\ pc = "read" /\ ~shutdown
  /\ next <= Len(file) /\ Raises(Batch)
  /\ pc' = "flush"
  /\ exit' = "error"
  /\ UNCHANGED <<trips, letters, logged, progress, shutdown, faults>>

\* The reader raises: the exception leaves run() through its finally block.
ReadError ==
  /\ Fault("read")
  /\ pc = "read"
  /\ pc' = "flush"
  /\ exit' = "error"
  /\ UNCHANGED <<trips, letters, logged, progress, shutdown>>

\* KafkaDeadLetterPublisher.send: to the DLQ topic, then to the disk. Each
\* write is tried whatever the other did, and neither failure is raised.
SendLetter(r) ==
  /\ pc \in {"schema", "reject"} /\ r \in toReject
  /\ toReject' = toReject \ {r}
  /\ \/ /\ dlqQueue' = dlqQueue \cup {r}
        /\ disk' = disk \cup {r}
        /\ UNCHANGED <<logged, faults>>
     \/ /\ Fault("dlq")
        /\ disk' = disk \cup {r}
        /\ UNCHANGED <<dlqQueue, logged>>
     \/ /\ Fault("disk")
        /\ \/ dlqQueue' = dlqQueue \cup {r}
           \/ "dlq" \in Faults /\ UNCHANGED dlqQueue
        /\ logged' = logged \cup {r}
        /\ UNCHANGED disk
  /\ UNCHANGED <<trips, dlqTopic, pc, next, toSend, attempt, shutdown, exit>>

ProcessBatch ==
  /\ pc = "schema" /\ toReject = {}
  /\ pc' = "publish"
  /\ toSend' = ValidTrips(Batch)
  /\ attempt' = 1
  /\ UNCHANGED <<trips, letters, logged, next, toReject, shutdown, exit, faults>>

Full == Len(queue) + unserved >= QueueMax

\* produce() puts the message in the queue; poll(0) serves the reports.
Produce(t) ==
  /\ pc = "publish" /\ t \in toSend
  /\ ~Full
  /\ queue' = Append(queue, t)
  /\ unserved' = 0
  /\ toSend' = toSend \ {t}
  /\ UNCHANGED <<topic, letters, logged, pc, next, toReject, attempt, shutdown, exit, faults>>

\* Mutant: a retry goes on behind the message that raised.
MutantRetryPublish ==
  \/ /\ attempt < MaxAttempts
     /\ attempt' = attempt + 1
     /\ \E t \in toSend : toSend' = toSend \ {t}
     /\ UNCHANGED <<pc, exit>>
  \/ /\ attempt >= MaxAttempts
     /\ pc' = "flush"
     /\ exit' = "error"
     /\ UNCHANGED <<attempt, toSend>>

\* Mutant: the attempts are not counted.
MutantRetryForever ==
  /\ toSend' = ValidTrips(Batch)
  /\ UNCHANGED <<attempt, pc, exit>>

\* The retry decorator: publish_batch starts over, or its exception leaves
\* run(), past the dead-lettering of the batch.
RetryPublish ==
  \/ /\ attempt < MaxAttempts
     /\ attempt' = attempt + 1
     /\ toSend' = ValidTrips(Batch)
     /\ UNCHANGED <<pc, exit>>
  \/ /\ attempt >= MaxAttempts
     /\ pc' = "flush"
     /\ exit' = "error"
     /\ UNCHANGED <<attempt, toSend>>

\* produce() raises KafkaException, or BufferError because the queue is full.
ProduceError ==
  /\ pc = "publish" /\ toSend # {}
  /\ \/ Full /\ UNCHANGED faults
     \/ Fault("publish")
  /\ RetryPublish
  /\ UNCHANGED <<trips, letters, logged, next, toReject, shutdown>>

\* Mutant: a batch without valid trips is skipped before its dead letters.
MutantPublished ==
  /\ pc = "publish" /\ toSend = {}
  /\ pc' = "reject"
  /\ toReject' = IF ValidTrips(Batch) = {} THEN {} ELSE DomainInvalid(Batch)
  /\ unserved' = IF ValidTrips(Batch) = {} THEN unserved ELSE 0
  /\ UNCHANGED <<topic, queue, letters, logged, next, toSend, attempt, shutdown, exit, faults>>

Published ==
  /\ pc = "publish" /\ toSend = {}
  /\ pc' = "reject"
  /\ toReject' = DomainInvalid(Batch)
  /\ unserved' = IF ValidTrips(Batch) = {} THEN unserved ELSE 0
  /\ UNCHANGED <<topic, queue, letters, logged, next, toSend, attempt, shutdown, exit, faults>>

BatchDone ==
  /\ pc = "reject" /\ toReject = {}
  /\ pc' = "read"
  /\ next' = next + 1
  /\ UNCHANGED <<trips, letters, logged, toReject, toSend, attempt, shutdown, exit, faults>>

\* KafkaEventPublisher.flush: every message has left the queue, or 30 seconds
\* have passed, which is a warning and nothing else.
FlushQueue ==
  /\ \/ queue = <<>> /\ UNCHANGED <<logged, faults>>
     \/ /\ queue # <<>>
        /\ Fault("timeout")
        /\ logged' = logged \cup ToSet(queue)

Flush ==
  /\ pc = "flush"
  /\ FlushQueue
  /\ pc' = "close"
  /\ unserved' = 0
  /\ UNCHANGED <<topic, queue, letters, progress, shutdown, exit>>

\* Mutant: the process ends without a last flush of the producer.
MutantClose ==
  /\ pc \in {"flush", "close"}
  /\ ForgetProcess
  /\ UNCHANGED <<topic, dlqTopic, disk, logged, next, exit, faults>>

\* lifecycle.shutdown flushes the producer again. The dead-letter producer
\* is not among its components.
Close ==
  /\ pc = "close"
  /\ FlushQueue
  /\ ForgetProcess
  /\ UNCHANGED <<topic, dlqTopic, disk, next, exit>>

-----------------------------------------------------------------------------

Answer ==
  /\ UNCHANGED file
  /\ \E i \in DOMAIN queue : Ack(i) \/ DeliveryFails(i)

AnswerLetter ==
  /\ UNCHANGED file
  /\ \E r \in Rows : AckLetter(r)

Broker == Answer \/ AnswerLetter

Ingest ==
  /\ UNCHANGED file
  /\ \/ NextBatch \/ CheckRaises \/ ReadError
     \/ ProcessBatch \/ ProduceError \/ Published \/ BatchDone
     \/ \E r \in Rows : SendLetter(r)
     \/ \E t \in Trips : Produce(t)
     \/ Flush \/ Close

Next == Start \/ RequestShutdown \/ Crash \/ Broker \/ Ingest

Spec == Init /\ [][Next]_vars

\* The process takes its next step; the broker answers for every message
\* that stays in the queue (message.timeout.ms at the latest); the job is run
\* again when it has ended.
Fairness ==
  /\ WF_vars(Ingest)
  /\ WF_vars(Answer)
  /\ WF_vars(Start)

FairSpec == Spec /\ Fairness

-----------------------------------------------------------------------------
(* Properties. *)

TypeOK ==
  /\ file \in Files
  /\ topic \subseteq Trips
  /\ queue \in Seq(Trips)
  /\ unserved \in Nat
  /\ dlqTopic \subseteq Rows /\ dlqQueue \subseteq Rows /\ disk \subseteq Rows
  /\ logged \subseteq Trips \cup Rows
  /\ pc \in ControlPoints
  /\ next \in Nat \ {0}
  /\ toReject \subseteq Rows
  /\ toSend \subseteq Trips
  /\ attempt \in Nat
  /\ shutdown \in BOOLEAN
  /\ exit \in {"none", "ok", "error", "killed"}
  /\ faults \in Nat

Done == 1 .. (next - 1)

\* Where a trip that was produced, and a row that was dead-lettered, may be.
Sent     == topic \cup ToSet(queue) \cup logged
Lettered == disk \cup logged

\* No row of a finished batch disappears without a line in the log: its trip
\* is in the topic or in the queue, a rejected row is on disk, and a batch with
\* a row on which the check raises is never finished. Failed attempts of
\* publish_batch, full queues and failing dead-letter writes included.
RowsAccounted ==
  Running =>
    \A b \in Done :
      /\ ~Raises(file[b])
      /\ ValidTrips(file[b]) \subseteq Sent
      /\ Rejected(file[b]) \subseteq Lettered

\* Exit code 0 can be believed: every trip of the batches before the point
\* where the run stopped is in the topic, not in a queue that is gone, and
\* every row rejected from them is on disk, or the log says what is missing;
\* no other row was in them.
CleanExit ==
  pc = "down" /\ exit = "ok" =>
    \A b \in Done :
      /\ ~Raises(file[b])
      /\ ValidTrips(file[b]) \subseteq topic \cup logged
      /\ Rejected(file[b]) \subseteq Lettered

\* The invariant that is inductive: the two above, and how far the current
\* batch has come at each control point.
InBatch == pc \in {"schema", "publish", "reject"}

BatchProgress ==
  InBatch =>
    /\ next \in DOMAIN file /\ ~Raises(Batch)
    /\ SchemaInvalid(Batch) \ (IF pc = "schema" THEN toReject ELSE {}) \subseteq Lettered
    /\ pc = "publish" => ValidTrips(Batch) \ toSend \subseteq Sent
    /\ pc = "reject" => /\ ValidTrips(Batch) \subseteq Sent
                        /\ DomainInvalid(Batch) \ toReject \subseteq Lettered

ExitControl ==
  /\ next <= Len(file) + 1
  /\ exit = "ok" => pc \in {"flush", "close", "down"}
  /\ pc \notin {"schema", "reject"} => toReject = {}

IInv ==
  /\ TypeOK
  /\ RowsAccounted
  /\ CleanExit
  /\ BatchProgress
  /\ ExitControl

\* A run of the producer ends, whatever the brokers do: publish_batch gives
\* up after its attempts and no flush waits for ever.
RunEnds == Running ~> pc = "down"

\* Why it does: the batches that are left, then the point that is reached in
\* the batch, then the attempts and then the rows that are left. Each step of
\* the run lessens the first of these it changes, and the brokers and signals
\* change none.
BatchesLeft  == Len(file) + 1 - next
AttemptsLeft == MaxAttempts - attempt
RowsLeft     == Cardinality(toReject) + Cardinality(toSend)

Stage ==
  CASE pc = "read"    -> 6
    [] pc = "schema"  -> 5
    [] pc = "publish" -> 4
    [] pc = "reject"  -> 3
    [] pc = "flush"   -> 2
    [] pc = "close"   -> 1
    [] pc = "down"    -> 0

Descends ==
  \/ BatchesLeft' < BatchesLeft
  \/ /\ BatchesLeft' = BatchesLeft
     /\ \/ Stage' < Stage
        \/ Stage' = Stage /\ AttemptsLeft' < AttemptsLeft
        \/ Stage' = Stage /\ AttemptsLeft' = AttemptsLeft /\ RowsLeft' < RowsLeft

RunDescends == [][Running => UNCHANGED <<pc, progress>> \/ Descends]_vars

\* None of them can become less for ever.
DescentIInv ==
  /\ BatchesLeft \in Nat /\ Stage \in Nat
  /\ attempt \in 0 .. MaxAttempts
  /\ IsFiniteSet(toReject) /\ IsFiniteSet(toSend)

\* The two invariants together.
ProducerIInv == IInv /\ DescentIInv

\* The batches that a run reaches: all before the first on which the check
\* raises.
Readable(f) == {b \in DOMAIN f : \A k \in 1 .. b : ~Raises(f[k])}

\* A file is ingested in the end, after finitely many faults, up to the first
\* batch on which the schema check raises, as long as publishing stops meeting
\* a full queue: a run that does starts the file over and may meet it again at
\* the same row.
FileIngested ==
  <>[](pc = "publish" /\ toSend # {} => ~Full) =>
    \A f \in Files : file = f =>
      \A b \in Readable(f) :
        /\ <>(ValidTrips(f[b]) \subseteq topic)
        /\ <>(Rejected(f[b]) \subseteq disk)

\* validation_service.py: rows that the schema check rejects, "missing required
\* timestamps, wrong types, null location IDs", are "dead-lettered immediately".
NullsDeadLettered ==
  \A f \in Files : file = f =>
    \A b \in DOMAIN f : \A i \in DOMAIN f[b] :
      Kind[f[b][i]] = "null" => <>(f[b][i] \in disk)

\* dead_letter_publisher.py: flush() is "called during graceful shutdown so
\* buffered DLQ messages are not lost when the process exits".
LettersFlushed ==
  pc = "down" /\ exit = "ok" /\ faults = 0 =>
    \A b \in Done : Rejected(file[b]) \subseteq dlqTopic
=============================================================================
