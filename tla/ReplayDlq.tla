------------------------------- MODULE ReplayDlq -------------------------------
(***************************************************************************)
(* The dead letters on disk and their replay: the producer writes what it  *)
(* rejects of a batch to data/rejected/<batch_id>.jsonl.gz, and            *)
(* ReplayDlqUseCase (scripts/replay_dlq.sh) reads those files again, runs  *)
(* every record through the domain pipeline, publishes what is valid now   *)
(* and dead-letters the rest once more.                                    *)
(*                                                                         *)
(* The files are never removed, and the records of a file are read lazily: *)
(* what is appended to a file while it is being read is read, too.  The    *)
(* order of the records of a file does not matter here.  A record that is  *)
(* not written, because the disk fails, is named in the log and otherwise  *)
(* lost.  What becomes of a message that publish_batch has taken is the    *)
(* matter of TripProducer.                                                 *)
(***************************************************************************)
EXTENDS TripDomain

CONSTANTS
  RawRows,   \* the rows of Parquet files
  Batches,   \* batch ids, which name the files
  SameDirs,  \* whether a replay may write to the directory it reads: settings.etl
             \* has one rejected_dir for both, the tests give each its own
  MaxRows,   \* bound of the model: rows of a batch
  MinNow,    \* bound of the model: the clock starts here
  MaxNow,    \* bound of the model: and stops here
  MaxRetry,  \* bound of the model: retry_count stops here
  Faults,    \* the kinds of fault that may occur
  MaxFaults  \* bound of the model: faults in one behaviour

FaultKinds == {"publish", "corrupt", "crash", "disk"}

None == "none"

ASSUME ReplayAssumption ==
  /\ RawRows \subseteq Row
  /\ None \notin Batches
  /\ SameDirs \subseteq BOOLEAN
  /\ MaxRows \in Nat /\ MaxRetry \in Nat \ {0} /\ MaxFaults \in Nat
  /\ MinNow \in Nat /\ MaxNow \in Nat /\ MinNow <= MaxNow
  /\ Faults \subseteq FaultKinds

VARIABLES
  now,       \* the clock of the validators
  published, \* what publish_batch was given: the trip, and the raw row it came from
  files,     \* the records in data/rejected/, by batch; {} when there is no file
  output,    \* the records written to another directory than the one read
  running,   \* a replay is running
  sameDir,   \* it writes to the directory it reads
  todo,      \* the files it has still to open
  reading,   \* the file it reads, or None
  unread,    \* the records of that file it has not reached
  asked,     \* the records it has opened, without those an error was logged for
  faults     \* faults so far

disk   == <<files, output>>
replay == <<running, sameDir, todo, reading, unread, asked>>
vars == <<now, published, disk, replay, faults>>

Stages == {"parsing", "validation", "deduplication"}

Fault(kind) ==
  /\ kind \in Faults
  /\ faults < MaxFaults
  /\ faults' = faults + 1

\* A dead-letter record. "row" is its original_record; "origin" is the row of
\* the Parquet file, which the code does not keep.
Record(row, origin, stage) ==
  [row |-> row, origin |-> origin, stage |-> stage, retry |-> 0]

Message(row, rec) == [trip |-> TripOf(row), origin |-> rec.origin, stage |-> rec.stage]

Init ==
  /\ now = MinNow
  /\ published = {}
  /\ files = [b \in Batches |-> {}]
  /\ output = {}
  /\ running = FALSE /\ sameDir = FALSE /\ todo = {} /\ reading = None /\ unread = {} /\ asked = {}
  /\ faults = 0

Tick ==
  /\ now < MaxNow
  /\ now' = now + 1
  /\ UNCHANGED <<published, disk, replay, faults>>

-----------------------------------------------------------------------------
(* The producer: one batch, and what it rejects. *)

SchemaRecords(rows) ==
  {Record(rows[i], rows[i], "validation") :
     i \in {j \in DOMAIN rows : ~SchemaValid(rows[j])}}

\* Mutant: the record keeps the normalised row.
MutantDomainRecords(rows, I) ==
  {Record(Normalize(rows[i]), rows[i], Outcome(rows[i], now)) :
     i \in I \ Accepted(rows, I, now)}

DomainRecords(rows, I) ==
  {Record(rows[i], rows[i], Outcome(rows[i], now)) : i \in I \ Accepted(rows, I, now)}

\* The record of a duplicate keeps to_dict() of the trip, not the raw row.
DuplicateRecords(rows, D) ==
  {Record(ToDict(TripOf(rows[i])), rows[i], "deduplication") : i \in D}

\* The producer rejects what it must of a batch and publishes the rest. A batch
\* with a row on which the schema check raises ends the run before anything of
\* it is written. A record whose write fails is lost but for the log.
Ingest(b, rows) ==
  /\ files[b] = {}
  /\ \A i \in DOMAIN rows : ~SchemaRaises(rows[i])
  /\ LET I == {i \in DOMAIN rows : SchemaValid(rows[i])}
         A == Accepted(rows, I, now)
         D == Duplicates(rows, A)
         new == SchemaRecords(rows) \cup DomainRecords(rows, I) \cup DuplicateRecords(rows, D)
     IN /\ published' = published \cup
               {Message(rows[i], Record(rows[i], rows[i], "none")) : i \in A \ D}
        /\ \/ files' = [files EXCEPT ![b] = new] /\ UNCHANGED faults
           \/ /\ Fault("disk")
              /\ \E kept \in SUBSET new : kept # new /\ files' = [files EXCEPT ![b] = kept]
  /\ UNCHANGED <<now, output, replay>>

-----------------------------------------------------------------------------
(* The replay. *)

\* All files, or the one of a batch id.
StartReplay ==
  /\ ~running
  /\ LET written == {b \in Batches : files[b] # {}}
     IN \E S \in {written} \cup {{b} : b \in written} : todo' = S
  /\ running' = TRUE /\ asked' = {}
  /\ sameDir' \in SameDirs
  /\ UNCHANGED <<now, published, disk, reading, unread, faults>>

OpenFile(b) ==
  /\ running /\ reading = None /\ b \in todo
  /\ todo' = todo \ {b}
  /\ reading' = b
  /\ unread' = files[b]
  /\ asked' = asked \cup files[b]
  /\ UNCHANGED <<now, published, disk, running, sameDir, faults>>

EndFile ==
  /\ running /\ reading # None /\ unread = {}
  /\ reading' = None
  /\ UNCHANGED <<now, published, disk, running, sameDir, todo, unread, asked, faults>>

\* Mutant: a recovered record stays a dead letter.
MutantRecover(rec) ==
  /\ Outcome(rec.row, now) = "valid"
  /\ published' = published \cup {Message(rec.row, rec)}
  /\ UNCHANGED <<disk, unread>>

Recover(rec) ==
  /\ Outcome(rec.row, now) = "valid"
  /\ published' = published \cup {Message(rec.row, rec)}
  /\ unread' = unread \ {rec}
  /\ UNCHANGED disk

Again(rec) ==
  [rec EXCEPT !.stage = Outcome(rec.row, now),
              !.retry = IF @ < MaxRetry THEN @ + 1 ELSE @]

\* Mutant: the record is not written again.
MutantReject(rec) ==
  /\ Outcome(rec.row, now) # "valid"
  /\ unread' = unread \ {rec}
  /\ UNCHANGED <<published, disk>>

\* Mutant: the new record is read again, but it is in another file.
MutantRejectElsewhere(rec) ==
  /\ Outcome(rec.row, now) # "valid"
  /\ unread' = (unread \ {rec}) \cup {Again(rec)}
  /\ output' = output \cup {Again(rec)}
  /\ UNCHANGED <<published, files>>

\* Still invalid: dead-lettered again, under the batch id of the record and
\* thus into the file that is being read, when the directory is the same.
Reject(rec) ==
  /\ Outcome(rec.row, now) # "valid"
  /\ IF sameDir
     THEN /\ files' = [files EXCEPT ![reading] = @ \cup {Again(rec)}]
          /\ unread' = (unread \ {rec}) \cup {Again(rec)}
          /\ UNCHANGED output
     ELSE /\ output' = output \cup {Again(rec)}
          /\ unread' = unread \ {rec}
          /\ UNCHANGED files
  /\ UNCHANGED published

ReplayRecord(rec) ==
  /\ running /\ rec \in unread
  /\ Recover(rec) \/ Reject(rec)
  /\ UNCHANGED <<now, running, sameDir, todo, reading, asked, faults>>

\* Still invalid, and the write fails: _write_to_disk logs the record and goes
\* on. The record that was read stays where it is, for another replay.
RejectLost(rec) ==
  /\ Fault("disk")
  /\ running /\ rec \in unread
  /\ Outcome(rec.row, now) # "valid"
  /\ unread' = unread \ {rec}
  /\ asked' = asked \ {rec}
  /\ UNCHANGED <<now, published, disk, running, sameDir, todo, reading>>

\* A line does not parse: the rest of the file is skipped and an error logged.
SkipFile ==
  /\ Fault("corrupt")
  /\ running /\ unread # {}
  /\ asked' = asked \ unread
  /\ unread' = {}
  /\ UNCHANGED <<now, published, disk, running, sameDir, todo, reading>>

\* The memory of a replay that has ended.
Forget ==
  /\ running' = FALSE /\ sameDir' = FALSE
  /\ todo' = {} /\ reading' = None /\ unread' = {} /\ asked' = {}

\* publish_batch gives up on a recovered record: its exception ends the replay.
PublishFails(rec) ==
  /\ Fault("publish")
  /\ rec \in unread /\ Outcome(rec.row, now) = "valid"
  /\ Forget
  /\ UNCHANGED <<now, published, disk>>

Crash ==
  /\ Fault("crash")
  /\ running
  /\ Forget
  /\ UNCHANGED <<now, published, disk>>

EndReplay ==
  /\ running /\ reading = None /\ todo = {}
  /\ Forget
  /\ UNCHANGED <<now, published, disk, faults>>

Replay ==
  \/ \E b \in Batches : OpenFile(b)
  \/ EndFile \/ EndReplay
  \/ \E rec \in unread : ReplayRecord(rec)

Next ==
  \/ Tick
  \/ \E b \in Batches, rows \in BoundedSeq(RawRows, MaxRows) : Ingest(b, rows)
  \/ StartReplay \/ Replay
  \/ SkipFile \/ Crash \/ \E rec \in unread : RejectLost(rec) \/ PublishFails(rec)

Spec == Init /\ [][Next]_vars

\* The replay takes its next step.
FairSpec == Spec /\ WF_vars(Replay)

-----------------------------------------------------------------------------
(* Properties. *)

DeadLetters == [row : Row, origin : RawRows, stage : Stages, retry : 0 .. MaxRetry]

\* What is read was opened or appended, and comes from the file being read.
TypeOK ==
  /\ now \in MinNow .. MaxNow
  /\ files \in [Batches -> SUBSET DeadLetters]
  /\ output \subseteq DeadLetters
  /\ running \in BOOLEAN /\ sameDir \in BOOLEAN
  /\ todo \subseteq Batches
  /\ reading \in Batches \cup {None}
  /\ IF reading = None THEN unread = {} ELSE unread \subseteq files[reading]
  /\ asked \subseteq DeadLetters
  /\ faults \in Nat

\* A trip keeps its identity: whenever and however often a raw row is ingested
\* and replayed, it is published under the one trip_id that the row has, so
\* ReplacingMergeTree keeps one row of it. Dead-lettered duplicates excepted:
\* see DuplicateKeepsIdentity.
OwnIdentity ==
  \A m \in published : m.stage # "deduplication" => m.trip.id = TripOf(m.origin).id

\* Every dead letter there is.
Letters == output \cup UNION {files[b] : b \in Batches}

\* The trip of the record is published as a replay publishes it, or the row is
\* dead-lettered again with a higher retry_count (up to the bound MaxRetry).
IsAnswered(rec) ==
  \/ Message(rec.row, rec) \in published
  \/ \E new \in Letters :
       /\ new.row = rec.row /\ new.origin = rec.origin
       /\ new.retry > rec.retry \/ new.retry = MaxRetry

\* A replay leaves no record of the files it has opened without an answer: it
\* is published, dead-lettered again, or named by an error that was logged
\* (the rest of a corrupt file, a write that failed).
Answered == running => \A rec \in asked \ unread : IsAnswered(rec)

\* What the validators let through, the inserter takes, except for the two
\* things no validator bounds from above: a location id and an amount.
PoisonIsUnbounded ==
  \A m \in published :
    ~Insertable(m.trip) => m.trip.location \notin 0 .. MaxUInt16 \/ m.trip.money > MaxAmount

\* The invariant that is inductive: the three above, and what a dead letter
\* holds. It is the raw row, or it is a duplicate, which stays valid and is
\* thus never dead-lettered again under another stage.
LetterOk(rec) ==
  IF rec.stage = "deduplication"
  THEN Outcome(rec.row, now) = "valid"
  ELSE rec.row = rec.origin

LettersOk == \A rec \in Letters : LetterOk(rec)

IInv ==
  /\ TypeOK
  /\ LettersOk
  /\ OwnIdentity
  /\ Answered
  /\ PoisonIsUnbounded

\* The clock only ever turns a rejected row into a valid one: a message that
\* is replayed from the file is not rejected because time has passed.
StaysValid ==
  [][\A row \in RawRows : Outcome(row, now) = "valid" => Outcome(row, now') = "valid"]_now

\* A replay that writes elsewhere comes to its end.
ReplayEnds == (running /\ ~sameDir) ~> ~running

\* Why it does: it has finitely many files still to open, and of the one it reads
\* finitely many records. Each of its steps leaves fewer, and no batch that is
\* ingested meanwhile adds to them.
ReplayDescends ==
  [][running /\ ~sameDir =>
       \/ ~running' \/ UNCHANGED <<running, sameDir, todo, reading, unread>>
       \/ /\ UNCHANGED <<running, sameDir>>
          /\ \/ todo' \subseteq todo /\ todo' # todo
             \/ todo' = todo /\ reading' = None /\ reading # None
             \/ /\ UNCHANGED <<todo, reading>>
                /\ unread' \subseteq unread /\ unread' # unread]_vars

FinitelyMany ==
  /\ IsFiniteSet({b \in Batches : files[b] # {}}) /\ IsFiniteSet(todo)
  /\ \A b \in Batches : IsFiniteSet(files[b])
  /\ IsFiniteSet(unread)

\* The two invariants together.
ReplayIInv == IInv /\ FinitelyMany

\* event_flow.md: a record that is still invalid goes to
\* "data/rejected/<new_batch_id>.jsonl.gz", a file the replay has not opened,
\* so that every replay would come to its end.
EveryReplayEnds == running ~> ~running

\* A replayed duplicate is published under the trip_id of its row.
\* replay_strategy.md: "original_record contains the raw row exactly as it
\* arrived from ParquetReader".
DuplicateKeepsIdentity ==
  \A m \in published : m.trip.id = TripOf(m.origin).id
=============================================================================
