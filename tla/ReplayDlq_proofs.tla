---------------------------- MODULE ReplayDlq_proofs ----------------------------
(***************************************************************************)
(* Proofs about ReplayDlq for any rows, batches and limits and any number  *)
(* of faults.                                                              *)
(***************************************************************************)
EXTENDS ReplayDlq, TripDomain_proofs, FiniteSetTheorems

-----------------------------------------------------------------------------
(* The inputs of the actions. *)

\* The rows of a batch are rows of Parquet files, hence rows.
LEMMA BatchRows ==
  ASSUME NEW rows \in BoundedSeq(RawRows, MaxRows), NEW i \in DOMAIN rows
  PROVE  rows[i] \in RawRows /\ rows[i] \in Row
BY ReplayAssumption DEF BoundedSeq, SeqOf

LEMMA RecordType ==
  ASSUME NEW row \in Row, NEW origin \in RawRows, NEW stage \in Stages
  PROVE  Record(row, origin, stage) \in DeadLetters
BY ReplayAssumption DEF Record, DeadLetters

\* The records of the file that is read are dead letters on disk.
LEMMA UnreadOnDisk ==
  ASSUME TypeOK, NEW rec \in unread
  PROVE  /\ reading \in Batches /\ rec \in files[reading]
         /\ rec \in Letters /\ rec \in DeadLetters
BY DEF TypeOK, Letters

\* What a rejected record becomes.
LEMMA AgainType ==
  ASSUME NEW rec \in DeadLetters, Outcome(rec.row, now) # "valid"
  PROVE  /\ Again(rec) \in DeadLetters
         /\ Again(rec).row = rec.row /\ Again(rec).origin = rec.origin
         /\ Again(rec).stage \in {"parsing", "validation"}
         /\ Again(rec).retry > rec.retry \/ Again(rec).retry = MaxRetry
<1>1. Outcome(rec.row, now) \in {"parsing", "validation"}
  BY OutcomeType
<1>2. rec.retry \in 0 .. MaxRetry /\ MaxRetry \in Nat
  BY ReplayAssumption DEF DeadLetters
<1>3. (IF rec.retry < MaxRetry THEN rec.retry + 1 ELSE rec.retry) \in 0 .. MaxRetry
  BY <1>2
<1> DEFINE retry == IF rec.retry < MaxRetry THEN rec.retry + 1 ELSE rec.retry
<1>4. Again(rec) = [rec EXCEPT !.stage = Outcome(rec.row, now), !.retry = retry]
  BY DEF Again
<1> HIDE DEF retry
<1>5. /\ Again(rec).row = rec.row /\ Again(rec).origin = rec.origin
      /\ Again(rec).stage = Outcome(rec.row, now) /\ Again(rec).retry = retry
  BY <1>4 DEF DeadLetters
<1>6. Again(rec) \in DeadLetters
  BY <1>1, <1>3, <1>4 DEF DeadLetters, Stages, retry
<1> QED
  BY <1>1, <1>2, <1>5, <1>6 DEF retry

-----------------------------------------------------------------------------
(* What one batch leaves on disk. *)

\* The dead letters of a batch are well formed, and each holds its raw row or
\* a duplicate that is valid.
LEMMA IngestedLetters ==
  ASSUME TypeOK, NEW rows \in BoundedSeq(RawRows, MaxRows),
         NEW I, I \subseteq DOMAIN rows,
         NEW D, D \subseteq Accepted(rows, I, now),
         NEW rec \in SchemaRecords(rows) \cup DomainRecords(rows, I) \cup DuplicateRecords(rows, D)
  PROVE  rec \in DeadLetters /\ LetterOk(rec)
<1>0. now \in Int
  BY ReplayAssumption DEF TypeOK
<1>1. CASE rec \in SchemaRecords(rows)
  <2>1. PICK i \in DOMAIN rows : rec = Record(rows[i], rows[i], "validation")
    BY <1>1 DEF SchemaRecords
  <2>2. rec \in DeadLetters
    BY <2>1, BatchRows, RecordType DEF Stages
  <2> QED
    BY <2>1, <2>2 DEF LetterOk, Record
<1>2. CASE rec \in DomainRecords(rows, I)
  <2>1. PICK i \in I \ Accepted(rows, I, now) : rec = Record(rows[i], rows[i], Outcome(rows[i], now))
    BY <1>2 DEF DomainRecords
  <2>2. Outcome(rows[i], now) \in {"parsing", "validation"}
    BY <2>1, OutcomeType DEF Accepted
  <2>3. rec \in DeadLetters
    BY <2>1, <2>2, BatchRows, RecordType DEF Stages
  <2> QED
    BY <2>1, <2>2, <2>3 DEF LetterOk, Record
<1>3. CASE rec \in DuplicateRecords(rows, D)
  <2>1. PICK i \in D : rec = Record(ToDict(TripOf(rows[i])), rows[i], "deduplication")
    BY <1>3 DEF DuplicateRecords
  <2>2. i \in DOMAIN rows /\ Outcome(rows[i], now) = "valid"
    BY <2>1 DEF Accepted
  <2>3. rows[i] \in RawRows /\ rows[i] \in Row
    BY <2>2, BatchRows
  <2>4. /\ ToDict(TripOf(rows[i])) \in Row
        /\ Outcome(ToDict(TripOf(rows[i])), now) = "valid"
    BY <1>0, <2>2, <2>3, ToDictStaysValid
  <2>5. rec \in DeadLetters
    BY <2>1, <2>3, <2>4, RecordType DEF Stages
  <2>6. rec.row = ToDict(TripOf(rows[i])) /\ rec.stage = "deduplication"
    BY <2>1 DEF Record
  <2> QED
    BY <2>4, <2>5, <2>6 DEF LetterOk
<1> QED
  BY <1>1, <1>2, <1>3

\* One batch: what is published are the trips of valid rows, each under the
\* trip_id of its row; what is on disk grows.
LEMMA IngestEffect ==
  ASSUME TypeOK, NEW b \in Batches, NEW rows \in BoundedSeq(RawRows, MaxRows),
         Ingest(b, rows)
  PROVE  /\ files' \in [Batches -> SUBSET DeadLetters]
         /\ \A c \in Batches : files[c] \subseteq files'[c]
         /\ \A rec \in Letters' : rec \in Letters \/ LetterOk(rec)
         /\ published \subseteq published'
         /\ \A m \in published' : m \in published \/
              \E row \in Row : /\ Outcome(row, now) = "valid"
                               /\ m.trip = TripOf(row) /\ m.origin = row
<1> DEFINE I == {i \in DOMAIN rows : SchemaValid(rows[i])}
           A == Accepted(rows, I, now)
           D == Duplicates(rows, A)
           new == SchemaRecords(rows) \cup DomainRecords(rows, I) \cup DuplicateRecords(rows, D)
           sent == {Message(rows[i], Record(rows[i], rows[i], "none")) : i \in A \ D}
<1>0. PICK kept \in SUBSET new : files' = [files EXCEPT ![b] = kept]
  BY DEF Ingest
<1>1. files[b] = {} /\ published' = published \cup sent /\ output' = output
  BY DEF Ingest
<1>2. I \subseteq DOMAIN rows /\ A \subseteq I /\ D \subseteq A
  BY DEF Accepted, Duplicates
<1>3. \A rec \in new : rec \in DeadLetters /\ LetterOk(rec)
  BY <1>2, IngestedLetters
<1>4. \A m \in sent : \E row \in Row :
        Outcome(row, now) = "valid" /\ m.trip = TripOf(row) /\ m.origin = row
  <2>1. TAKE m \in sent
  <2>2. PICK i \in A \ D : m = Message(rows[i], Record(rows[i], rows[i], "none"))
    OBVIOUS
  <2>3. Outcome(rows[i], now) = "valid" /\ rows[i] \in Row
    BY <1>2, <2>2, BatchRows DEF Accepted
  <2>4. m.trip = TripOf(rows[i]) /\ m.origin = rows[i]
    BY <2>2 DEF Message, Record
  <2> QED
    BY <2>3, <2>4
<1> HIDE DEF new, sent
<1>5. files \in [Batches -> SUBSET DeadLetters]
  BY DEF TypeOK
<1>6. files' \in [Batches -> SUBSET DeadLetters]
  BY <1>0, <1>3, <1>5
<1>7. \A c \in Batches : files[c] \subseteq files'[c]
  BY <1>0, <1>1, <1>5
<1>8. \A rec \in Letters' : rec \in Letters \/ LetterOk(rec)
  BY <1>0, <1>1, <1>3, <1>5 DEF Letters
<1> QED
  BY <1>1, <1>4, <1>6, <1>7, <1>8

\* One record of the replay: what is published is the trip of a valid row,
\* under its trip_id unless the record is of a duplicate; the record is
\* answered, or it is still to be read; what is on disk grows.
LEMMA ReplayEffect ==
  ASSUME IInv, NEW rec \in unread, Recover(rec) \/ Reject(rec),
         UNCHANGED reading
  PROVE  /\ files' \in [Batches -> SUBSET DeadLetters] /\ output' \subseteq DeadLetters
         /\ \A c \in Batches : files[c] \subseteq files'[c]
         /\ output \subseteq output' /\ published \subseteq published'
         /\ unread' \subseteq files'[reading] /\ unread \ {rec} \subseteq unread'
         /\ \A new \in Letters' : new \in Letters \/ LetterOk(new)
         /\ \A m \in published' : m \in published \/
              \E row \in Row : /\ Outcome(row, now) = "valid" /\ m.trip = TripOf(row)
                               /\ m.stage # "deduplication" => m.origin = row
         /\ IsAnswered(rec)'
<1>1. /\ reading \in Batches /\ rec \in files[reading]
      /\ rec \in Letters /\ rec \in DeadLetters
  BY UnreadOnDisk DEF IInv
<1>2. /\ files \in [Batches -> SUBSET DeadLetters] /\ output \subseteq DeadLetters
      /\ unread \subseteq files[reading]
  BY DEF IInv, TypeOK
<1>3. LetterOk(rec)
  BY <1>1 DEF IInv, LettersOk
<1>4. CASE Recover(rec)
  <2> DEFINE m1 == Message(rec.row, rec)
  <2>1. /\ Outcome(rec.row, now) = "valid" /\ published' = published \cup {m1}
        /\ unread' = unread \ {rec} /\ files' = files /\ output' = output
    BY <1>4 DEF Recover, disk
  <2>2. rec.row \in Row
    BY <1>1 DEF DeadLetters
  <2>3. m1.trip = TripOf(rec.row) /\ m1.origin = rec.origin /\ m1.stage = rec.stage
    BY DEF Message
  <2>4. m1.stage # "deduplication" => m1.origin = rec.row
    BY <1>3, <2>3 DEF LetterOk
  <2>5. IsAnswered(rec)'
    BY <2>1 DEF IsAnswered
  <2> HIDE DEF m1
  <2>6. \A m \in published' : m \in published \/
          \E row \in Row : /\ Outcome(row, now) = "valid" /\ m.trip = TripOf(row)
                           /\ m.stage # "deduplication" => m.origin = row
    BY <2>1, <2>2, <2>3, <2>4
  <2>7. Letters' = Letters
    BY <2>1 DEF Letters
  <2> QED
    BY <1>2, <2>1, <2>5, <2>6, <2>7
<1>5. CASE Reject(rec)
  <2> DEFINE again == Again(rec)
  <2>0. Outcome(rec.row, now) # "valid" /\ published' = published
    BY <1>5 DEF Reject
  <2>1. /\ again \in DeadLetters /\ again.row = rec.row /\ again.origin = rec.origin
        /\ again.stage \in {"parsing", "validation"}
        /\ again.retry > rec.retry \/ again.retry = MaxRetry
    BY <1>1, <2>0, AgainType
  <2>2. LetterOk(again)
    BY <1>3, <2>0, <2>1 DEF LetterOk
  <2>3. \/ /\ files' = [files EXCEPT ![reading] = @ \cup {again}]
           /\ unread' = (unread \ {rec}) \cup {again} /\ output' = output
        \/ /\ output' = output \cup {again} /\ unread' = unread \ {rec} /\ files' = files
    BY <1>5 DEF Reject
  <2> HIDE DEF again
  <2>4. /\ files' \in [Batches -> SUBSET DeadLetters] /\ output' \subseteq DeadLetters
        /\ \A c \in Batches : files[c] \subseteq files'[c]
        /\ output \subseteq output'
        /\ unread' \subseteq files'[reading] /\ unread \ {rec} \subseteq unread'
    BY <1>1, <1>2, <2>1, <2>3
  <2>5. again \in Letters' /\ \A new \in Letters' : new \in Letters \/ new = again
    BY <1>1, <1>2, <2>3 DEF Letters
  <2>6. IsAnswered(rec)'
    BY <2>1, <2>5 DEF IsAnswered
  <2> QED
    BY <2>0, <2>2, <2>4, <2>5, <2>6
<1> QED
  BY <1>4, <1>5

-----------------------------------------------------------------------------
(* What every step that publishes or writes keeps. *)

LEMMA LettersGrow ==
  ASSUME \A c \in Batches : files[c] \subseteq files'[c], output \subseteq output'
  PROVE  Letters \subseteq Letters'
BY DEF Letters

LEMMA AnsweredGrows ==
  ASSUME published \subseteq published', Letters \subseteq Letters',
         NEW rec, IsAnswered(rec)
  PROVE  IsAnswered(rec)'
BY DEF IsAnswered

LEMMA LettersOkKept ==
  ASSUME LettersOk, now' = now,
         \A rec \in Letters' : rec \in Letters \/ LetterOk(rec)
  PROVE  LettersOk'
BY DEF LettersOk, LetterOk

LEMMA PublishedKept ==
  ASSUME IInv,
         \A m \in published' : m \in published \/
           \E row \in Row : /\ Outcome(row, now) = "valid" /\ m.trip = TripOf(row)
                            /\ m.stage # "deduplication" => m.origin = row
  PROVE  OwnIdentity' /\ PoisonIsUnbounded'
<1>1. now \in Int
  BY ReplayAssumption DEF IInv, TypeOK
<1>2. \A m \in published' \ published :
        /\ m.stage # "deduplication" => m.trip.id = TripOf(m.origin).id
        /\ ~Insertable(m.trip) =>
             m.trip.location \notin 0 .. MaxUInt16 \/ m.trip.money > MaxAmount
  <2>1. TAKE m \in published' \ published
  <2>2. PICK row \in Row : /\ Outcome(row, now) = "valid" /\ m.trip = TripOf(row)
                           /\ m.stage # "deduplication" => m.origin = row
    OBVIOUS
  <2>3. m.trip.location \in 0 .. MaxUInt16 /\ m.trip.money <= MaxAmount => Insertable(m.trip)
    BY <1>1, <2>2, ValidFits
  <2>4. m.trip.money \in Int
    BY <2>2, TripFields DEF Amount
  <2>5. m.trip.money <= MaxAmount \/ m.trip.money > MaxAmount
    BY <2>4, DomainAssumption
  <2> QED
    BY <2>2, <2>3, <2>5
<1> QED
  BY <1>2 DEF IInv, OwnIdentity, PoisonIsUnbounded

\* A step that only moves the replay on.
LEMMA QuietStep ==
  ASSUME IInv, UNCHANGED <<now, published, disk>>
  PROVE  /\ LettersOk' /\ OwnIdentity' /\ PoisonIsUnbounded'
         /\ \A rec : IsAnswered(rec) => IsAnswered(rec)'
<1>1. UNCHANGED <<published, files, output, now>>
  BY DEF disk
<1>2. Letters' = Letters
  BY <1>1 DEF Letters
<1>3. LettersOk'
  BY <1>1, <1>2 DEF IInv, LettersOk, LetterOk
<1>4. OwnIdentity' /\ PoisonIsUnbounded'
  BY <1>1 DEF IInv, OwnIdentity, PoisonIsUnbounded
<1>5. \A rec : IsAnswered(rec) => IsAnswered(rec)'
  BY <1>1, <1>2 DEF IsAnswered
<1> QED
  BY <1>3, <1>4, <1>5

-----------------------------------------------------------------------------
(* The inductive invariant.                                                *)
(*                                                                         *)
(* A record that the replay rejects is written again under a new stage. So *)
(* OwnIdentity needs that it is not a record of a duplicate, whose row has *)
(* lost the vendor code: LettersOk says that such a record stays valid, by *)
(* ToDictStaysValid and OutcomeMonotone, and is never rejected.            *)

LEMMA InitIInv == Init => IInv
<1> SUFFICES ASSUME Init PROVE IInv
  OBVIOUS
<1>1. TypeOK
  <2>1. now \in MinNow .. MaxNow /\ files \in [Batches -> SUBSET DeadLetters]
    BY ReplayAssumption DEF Init
  <2>2. running = FALSE /\ sameDir = FALSE /\ faults = 0
    BY DEF Init
  <2>3. running \in BOOLEAN /\ sameDir \in BOOLEAN /\ faults \in Nat
    BY <2>2
  <2>4. output = {} /\ todo = {} /\ reading = None /\ unread = {} /\ asked = {}
    BY DEF Init
  <2> QED
    BY <2>1, <2>3, <2>4 DEF TypeOK
<1>2. Letters = {}
  BY DEF Init, Letters
<1> QED
  BY <1>1, <1>2 DEF Init, IInv, LettersOk, OwnIdentity, Answered, PoisonIsUnbounded

LEMMA TickIInv ==
  ASSUME IInv, Tick PROVE IInv'
<1>1. now \in Int /\ now' \in MinNow .. MaxNow /\ now' \in Int /\ now' >= now
  BY ReplayAssumption DEF IInv, TypeOK, Tick
<1>2. UNCHANGED <<published, files, output, running, sameDir, todo, reading, unread, asked, faults>>
  BY DEF Tick, disk, replay
<1>3. TypeOK'
  BY <1>1, <1>2 DEF IInv, TypeOK
<1>4. Letters' = Letters
  BY <1>2 DEF Letters
<1>5. LettersOk'
  <2>1. Letters \subseteq DeadLetters
    BY DEF IInv, TypeOK, Letters
  <2>2. \A rec \in Letters : rec.row \in Row
    BY <2>1 DEF DeadLetters
  <2>3. \A rec \in Letters : LetterOk(rec) => LetterOk(rec)'
    BY <1>1, <2>2, OutcomeMonotone DEF LetterOk
  <2> QED
    BY <1>4, <2>3 DEF IInv, LettersOk
<1>6. OwnIdentity' /\ PoisonIsUnbounded'
  BY <1>2 DEF IInv, OwnIdentity, PoisonIsUnbounded
<1>7. Answered'
  BY <1>2, <1>4 DEF IInv, Answered, IsAnswered
<1> QED
  BY <1>3, <1>5, <1>6, <1>7 DEF IInv

LEMMA IngestIInv ==
  ASSUME IInv, NEW b \in Batches, NEW rows \in BoundedSeq(RawRows, MaxRows),
         Ingest(b, rows)
  PROVE  IInv'
<1>1. TypeOK
  BY DEF IInv
<1>2. /\ UNCHANGED <<now, output, running, sameDir, todo, reading, unread, asked>>
      /\ faults' = faults \/ faults' = faults + 1
  BY DEF Ingest, Fault, replay
<1>3. /\ files' \in [Batches -> SUBSET DeadLetters]
      /\ \A c \in Batches : files[c] \subseteq files'[c]
      /\ \A rec \in Letters' : rec \in Letters \/ LetterOk(rec)
      /\ published \subseteq published'
  BY <1>1, IngestEffect
<1>4. \A m \in published' : m \in published \/
        \E row \in Row : /\ Outcome(row, now) = "valid" /\ m.trip = TripOf(row)
                         /\ m.stage # "deduplication" => m.origin = row
  <2>1. \A m \in published' : m \in published \/
          \E row \in Row : /\ Outcome(row, now) = "valid"
                           /\ m.trip = TripOf(row) /\ m.origin = row
    BY <1>1, IngestEffect
  <2> QED
    BY <2>1
<1>5. TypeOK'
  BY <1>1, <1>2, <1>3 DEF TypeOK
<1>6. Letters \subseteq Letters'
  BY <1>2, <1>3, LettersGrow
<1>7. Answered'
  BY <1>2, <1>3, <1>6, AnsweredGrows DEF IInv, Answered
<1>8. LettersOk'
  BY <1>2, <1>3, LettersOkKept DEF IInv
<1> QED
  BY <1>4, <1>5, <1>7, <1>8, PublishedKept DEF IInv

LEMMA ReplayRecordIInv ==
  ASSUME IInv, NEW rec \in unread, ReplayRecord(rec) PROVE IInv'
<1>1. UNCHANGED <<now, running, sameDir, todo, reading, asked, faults>>
  BY DEF ReplayRecord
<1>2. Recover(rec) \/ Reject(rec)
  BY DEF ReplayRecord
<1>3. reading \in Batches
  BY UnreadOnDisk DEF IInv
<1>4. /\ files' \in [Batches -> SUBSET DeadLetters] /\ output' \subseteq DeadLetters
      /\ \A c \in Batches : files[c] \subseteq files'[c]
      /\ output \subseteq output' /\ published \subseteq published'
      /\ unread' \subseteq files'[reading] /\ unread \ {rec} \subseteq unread'
  BY <1>1, <1>2, ReplayEffect
<1>5. \A new \in Letters' : new \in Letters \/ LetterOk(new)
  BY <1>1, <1>2, ReplayEffect
<1>6. \A m \in published' : m \in published \/
        \E row \in Row : /\ Outcome(row, now) = "valid" /\ m.trip = TripOf(row)
                         /\ m.stage # "deduplication" => m.origin = row
  BY <1>1, <1>2, ReplayEffect
<1>7. IsAnswered(rec)'
  BY <1>1, <1>2, ReplayEffect
<1>8. TypeOK'
  <2>1. reading # None
    BY <1>3, ReplayAssumption
  <2> QED
    BY <1>1, <1>3, <1>4, <2>1 DEF IInv, TypeOK
<1>9. Letters \subseteq Letters'
  BY <1>4, LettersGrow
<1>10. Answered'
  <2>1. SUFFICES ASSUME running', NEW old \in asked' \ unread' PROVE IsAnswered(old)'
    BY DEF Answered
  <2>2. CASE old = rec
    BY <1>7, <2>2
  <2>3. CASE old # rec
    <3>1. running /\ old \in asked \ unread
      BY <1>1, <1>4, <2>1, <2>3
    <3>2. IsAnswered(old)
      BY <3>1 DEF IInv, Answered
    <3> QED
      BY <1>4, <1>9, <3>2, AnsweredGrows
  <2> QED
    BY <2>2, <2>3
<1>11. LettersOk'
  BY <1>1, <1>5, LettersOkKept DEF IInv
<1> QED
  BY <1>6, <1>8, <1>10, <1>11, PublishedKept DEF IInv

LEMMA NextIInv == IInv /\ [Next]_vars => IInv'
<1> SUFFICES ASSUME IInv, [Next]_vars PROVE IInv'
  OBVIOUS
<1> USE DEF IInv
<1>1. CASE Tick
  BY <1>1, TickIInv
<1>2. ASSUME NEW b \in Batches, NEW rows \in BoundedSeq(RawRows, MaxRows), Ingest(b, rows)
      PROVE  IInv'
  BY <1>2, IngestIInv
<1>3. CASE StartReplay
  <2>1. UNCHANGED <<now, published, disk, files, output, reading, unread, faults>>
    BY <1>3 DEF StartReplay, disk
  <2>2. /\ todo' \subseteq Batches /\ sameDir' \in BOOLEAN
        /\ running' = TRUE /\ asked' = {}
    BY <1>3, ReplayAssumption DEF StartReplay
  <2>3. TypeOK'
    BY <2>1, <2>2 DEF TypeOK
  <2>4. Answered'
    BY <2>2 DEF Answered
  <2> QED
    BY <2>1, <2>3, <2>4, QuietStep
<1>4. ASSUME NEW b \in Batches, OpenFile(b) PROVE IInv'
  <2>1. UNCHANGED <<now, published, disk, files, output, running, sameDir, faults>>
    BY <1>4 DEF OpenFile, disk
  <2>2. /\ reading = None /\ unread = {} /\ todo' = todo \ {b} /\ reading' = b
        /\ unread' = files[b] /\ asked' = asked \cup files[b]
    BY <1>4 DEF OpenFile, TypeOK
  <2>3. TypeOK'
    BY <2>1, <2>2, ReplayAssumption DEF TypeOK
  <2>4. Answered'
    BY <2>1, <2>2, QuietStep DEF Answered
  <2> QED
    BY <2>1, <2>3, <2>4, QuietStep
<1>5. CASE EndFile
  <2>1. UNCHANGED <<now, published, disk, files, output, running, sameDir, todo, unread, asked, faults>>
    BY <1>5 DEF EndFile, disk
  <2>2. TypeOK'
    BY <1>5, <2>1 DEF EndFile, TypeOK
  <2>3. Answered'
    BY <2>1, QuietStep DEF Answered
  <2> QED
    BY <2>1, <2>2, <2>3, QuietStep
<1>6. ASSUME NEW rec \in unread, ReplayRecord(rec) PROVE IInv'
  BY <1>6, ReplayRecordIInv
<1>7. CASE SkipFile
  <2>1. UNCHANGED <<now, published, disk, files, output, running, sameDir, todo, reading>>
    BY <1>7 DEF SkipFile, disk
  <2>2. asked' = asked \ unread /\ unread' = {} /\ faults' = faults + 1
    BY <1>7 DEF SkipFile, Fault
  <2>3. TypeOK'
    BY <2>1, <2>2 DEF TypeOK
  <2>4. Answered'
    BY <2>1, <2>2, QuietStep DEF Answered
  <2> QED
    BY <2>1, <2>3, <2>4, QuietStep
<1>13. ASSUME NEW rec \in unread, RejectLost(rec) PROVE IInv'
  <2>1. UNCHANGED <<now, published, disk, files, output, running, sameDir, todo, reading>>
    BY <1>13 DEF RejectLost, disk
  <2>2. asked' = asked \ {rec} /\ unread' = unread \ {rec} /\ faults' = faults + 1
    BY <1>13 DEF RejectLost, Fault
  <2>3. TypeOK'
    BY <2>1, <2>2 DEF TypeOK
  <2>4. Answered'
    BY <2>1, <2>2, QuietStep DEF Answered
  <2> QED
    BY <2>1, <2>3, <2>4, QuietStep
<1>8. ASSUME Forget, UNCHANGED <<now, published, disk>>, faults' \in Nat PROVE IInv'
  <2>1. TypeOK'
    BY <1>8 DEF Forget, TypeOK, disk
  <2>2. Answered'
    BY <1>8 DEF Forget, Answered
  <2> QED
    BY <1>8, <2>1, <2>2, QuietStep
<1>9. CASE Crash
  BY <1>8, <1>9 DEF Crash, Fault, TypeOK
<1>10. CASE EndReplay
  BY <1>8, <1>10 DEF EndReplay, TypeOK
<1>11. ASSUME NEW rec \in unread, PublishFails(rec) PROVE IInv'
  BY <1>8, <1>11 DEF PublishFails, Fault, TypeOK
<1>12. CASE UNCHANGED vars
  <2>1. UNCHANGED <<now, published, disk, files, output, running, sameDir, todo, reading, unread, asked, faults>>
    BY <1>12 DEF vars, disk, replay
  <2>2. TypeOK'
    BY <2>1 DEF TypeOK
  <2>3. Answered'
    BY <2>1, QuietStep DEF Answered
  <2> QED
    BY <2>1, <2>2, <2>3, QuietStep
<1> QED
  BY <1>1, <1>2, <1>3, <1>4, <1>5, <1>6, <1>7, <1>9, <1>10, <1>11, <1>12, <1>13
  DEF Next, Replay

-----------------------------------------------------------------------------
(* The theorems. *)

\* The inductive invariant of the replay and of what feeds it.
THEOREM ReplayInvariant == Spec => []IInv
BY InitIInv, NextIInv, PTL DEF Spec

\* The types of the replay: its records, letters and outcomes.
THEOREM ReplayTypeOK == Spec => []TypeOK
<1>1. IInv => TypeOK
  BY DEF IInv
<1> QED
  BY <1>1, ReplayInvariant, PTL

\* A dead letter holds the raw row, or a duplicate that stays valid.
THEOREM LettersWellFormed == Spec => []LettersOk
<1>1. IInv => LettersOk
  BY DEF IInv
<1> QED
  BY <1>1, ReplayInvariant, PTL

\* However often a raw row is ingested, dead-lettered and replayed, it is
\* published under its one trip_id, dead-lettered duplicates excepted.
THEOREM IdentityKept == Spec => []OwnIdentity
<1>1. IInv => OwnIdentity
  BY DEF IInv
<1> QED
  BY ReplayInvariant, <1>1, PTL

\* A running replay leaves no opened record without an answer, whichever fault
\* strikes it and to whichever directory it writes.
THEOREM EveryRecordAnswered == Spec => []Answered
<1>1. IInv => Answered
  BY DEF IInv
<1> QED
  BY ReplayInvariant, <1>1, PTL

\* A published trip that the inserter cannot take has a location id outside of
\* the range of its column, or an amount above the range of its own.
THEOREM PoisonOnlyUnbounded == Spec => []PoisonIsUnbounded
<1>1. IInv => PoisonIsUnbounded
  BY DEF IInv
<1> QED
  BY ReplayInvariant, <1>1, PTL

\* No row that is valid at one time is rejected at a later one.
THEOREM ValidForever == Spec => StaysValid
<1>1. IInv /\ [Next]_vars =>
        [\A row \in RawRows : Outcome(row, now) = "valid" => Outcome(row, now') = "valid"]_now
  <2> SUFFICES ASSUME IInv, [Next]_vars, now' # now,
                      NEW row \in RawRows, Outcome(row, now) = "valid"
               PROVE  Outcome(row, now') = "valid"
    OBVIOUS
  <2>1. Tick
    BY DEF Next, Ingest, StartReplay, Replay, OpenFile, EndFile, EndReplay,
           ReplayRecord, SkipFile, RejectLost, Crash, PublishFails, vars
  <2>2. now \in Int /\ now' \in Int /\ now' >= now
    BY <2>1, ReplayAssumption DEF IInv, TypeOK, Tick
  <2> QED
    BY <2>2, ReplayAssumption, OutcomeMonotone
<1> QED
  BY ReplayInvariant, <1>1, PTL DEF Spec, StaysValid

-----------------------------------------------------------------------------
(* How a replay ends. *)

LEMMA ImageFinite ==
  ASSUME NEW I, IsFiniteSet(I), NEW f
  PROVE  IsFiniteSet({f[i] : i \in I})
<1> DEFINE T == {f[i] : i \in I}
           g == [i \in I |-> f[i]]
<1>1. g \in Surjection(I, T)
  BY DEF Surjection
<1> HIDE DEF g
<1> QED
  BY <1>1, FS_Surjection

\* A batch leaves finitely many records.
LEMMA BatchIsFinite ==
  ASSUME NEW rows \in BoundedSeq(RawRows, MaxRows),
         NEW I, I \subseteq DOMAIN rows, NEW D, D \subseteq DOMAIN rows
  PROVE  IsFiniteSet(SchemaRecords(rows) \cup DomainRecords(rows, I) \cup DuplicateRecords(rows, D))
<1> DEFINE N == DOMAIN rows
           S == {j \in N : ~SchemaValid(rows[j])}
           R == I \ Accepted(rows, I, now)
           f == [i \in N |-> Record(rows[i], rows[i], "validation")]
           g == [i \in N |-> Record(rows[i], rows[i], Outcome(rows[i], now))]
           h == [i \in N |-> Record(ToDict(TripOf(rows[i])), rows[i], "deduplication")]
<1>1. IsFiniteSet(N)
  <2>1. PICK n \in 0 .. MaxRows : rows \in [1 .. n -> RawRows]
    BY DEF BoundedSeq, SeqOf
  <2>2. N = 1 .. n /\ n \in Int
    BY <2>1, ReplayAssumption
  <2> QED
    BY <2>2, FS_Interval
<1>2. IsFiniteSet(S) /\ IsFiniteSet(R) /\ IsFiniteSet(D)
  <2>1. S \in SUBSET N /\ R \in SUBSET N /\ D \in SUBSET N
    OBVIOUS
  <2> HIDE DEF S, R, N
  <2> QED
    BY <1>1, <2>1, FS_Subset
<1>3. /\ SchemaRecords(rows) = {f[i] : i \in S}
      /\ DomainRecords(rows, I) = {g[i] : i \in R}
      /\ DuplicateRecords(rows, D) = {h[i] : i \in D}
  BY DEF SchemaRecords, DomainRecords, DuplicateRecords
<1> HIDE DEF N, S, R, f, g, h
<1>4. IsFiniteSet({f[i] : i \in S}) /\ IsFiniteSet({g[i] : i \in R}) /\ IsFiniteSet({h[i] : i \in D})
  BY <1>2, ImageFinite
<1> QED
  BY <1>3, <1>4, FS_Union

\* The files that are there, and those still to be opened.
LEMMA IngestFinite ==
  ASSUME IInv, FinitelyMany, NEW b \in Batches, NEW rows \in BoundedSeq(RawRows, MaxRows),
         Ingest(b, rows)
  PROVE  FinitelyMany'
<1> DEFINE I == {i \in DOMAIN rows : SchemaValid(rows[i])}
           D == Duplicates(rows, Accepted(rows, I, now))
           all == SchemaRecords(rows) \cup DomainRecords(rows, I) \cup DuplicateRecords(rows, D)
           written == {c \in Batches : files[c] # {}}
           written1 == {c \in Batches : files'[c] # {}}
<1>1. PICK new \in SUBSET all : files' = [files EXCEPT ![b] = new]
  BY DEF Ingest
<1>6. UNCHANGED <<todo, unread>>
  BY DEF Ingest, replay
<1>2. IsFiniteSet(new)
  <2>1. I \subseteq DOMAIN rows /\ D \subseteq DOMAIN rows
    BY DEF Accepted, Duplicates
  <2> HIDE DEF I, D
  <2>2. IsFiniteSet(all)
    BY <2>1, BatchIsFinite
  <2> HIDE DEF all
  <2> QED
    BY <2>2, FS_Subset
<1> HIDE DEF all
<1>3. files \in [Batches -> SUBSET DeadLetters]
  BY DEF IInv, TypeOK
<1>4. \A c \in Batches : IsFiniteSet(files'[c])
  BY <1>1, <1>2, <1>3 DEF FinitelyMany
<1>5. IsFiniteSet(written1)
  <2>1. written1 \in SUBSET (written \cup {b})
    BY <1>1, <1>3
  <2>2. IsFiniteSet(written \cup {b})
    BY FS_AddElement DEF FinitelyMany
  <2> HIDE DEF written, written1
  <2> QED
    BY <2>1, <2>2, FS_Subset
<1> QED
  BY <1>4, <1>5, <1>6 DEF FinitelyMany

\* A record that is read is one less, or replaced by the one it is written as.
LEMMA RecordFinite ==
  ASSUME IInv, FinitelyMany, NEW rec \in unread, ReplayRecord(rec)
  PROVE  /\ FinitelyMany'
         /\ UNCHANGED <<running, sameDir, todo, reading>>
         /\ ~sameDir => unread' \subseteq unread /\ unread' # unread
<1> DEFINE again == Again(rec)
           written == {c \in Batches : files[c] # {}}
           written1 == {c \in Batches : files'[c] # {}}
<1>1. UNCHANGED <<running, sameDir, todo, reading>>
  BY DEF ReplayRecord
<1>2. files \in [Batches -> SUBSET DeadLetters] /\ reading \in Batches /\ rec \in files[reading]
  BY UnreadOnDisk DEF IInv, TypeOK
<1>3. \/ unread' = unread \ {rec} /\ files' = files
      \/ /\ sameDir /\ unread' = (unread \ {rec}) \cup {again}
         /\ files' = [files EXCEPT ![reading] = @ \cup {again}]
  BY DEF ReplayRecord, Recover, Reject, disk
<1> HIDE DEF again
<1>4. IsFiniteSet(unread')
  <2>1. IsFiniteSet(unread \ {rec})
    BY FS_RemoveElement DEF FinitelyMany
  <2>2. IsFiniteSet((unread \ {rec}) \cup {again})
    BY <2>1, FS_AddElement
  <2> QED
    BY <1>3, <2>1, <2>2
<1>5. \A c \in Batches : IsFiniteSet(files'[c])
  <2>1. IsFiniteSet(files[reading] \cup {again})
    BY <1>2, FS_AddElement DEF FinitelyMany
  <2> QED
    BY <1>2, <1>3, <2>1 DEF FinitelyMany
<1>6. written1 = written
  BY <1>2, <1>3
<1> QED
  BY <1>1, <1>3, <1>4, <1>5, <1>6 DEF FinitelyMany

\* The other steps of a replay.
LEMMA MoveFinite ==
  ASSUME IInv, FinitelyMany,
         StartReplay \/ EndFile \/ EndReplay \/ SkipFile \/ Crash
           \/ (\E b \in Batches : OpenFile(b))
           \/ (\E rec \in unread : RejectLost(rec) \/ PublishFails(rec))
  PROVE  FinitelyMany'
<1> DEFINE written == {b \in Batches : files[b] # {}}
<1>1. files' = files
  BY DEF StartReplay, EndFile, EndReplay, SkipFile, Crash, OpenFile, RejectLost, PublishFails, disk
<1>2. IsFiniteSet(unread')
  <2>1. \/ unread' = unread \/ unread' = {} \/ \E b \in Batches : unread' = files[b]
        \/ \E rec \in unread : unread' = unread \ {rec}
    BY DEF StartReplay, EndFile, EndReplay, SkipFile, Crash, OpenFile, RejectLost, PublishFails, Forget
  <2>2. \A rec : IsFiniteSet(unread \ {rec})
    BY FS_RemoveElement DEF FinitelyMany
  <2> QED
    BY <2>1, <2>2, FS_EmptySet DEF FinitelyMany
<1>3. IsFiniteSet(todo')
  <2>1. CASE StartReplay
    <3>1. IsFiniteSet(written) /\ \A b : IsFiniteSet({b})
      BY FS_Singleton DEF FinitelyMany
    <3>2. todo' = written \/ \E b \in written : todo' = {b}
      BY <2>1 DEF StartReplay
    <3> HIDE DEF written
    <3> QED
      BY <3>1, <3>2
  <2>2. ASSUME NEW b \in Batches, OpenFile(b) PROVE IsFiniteSet(todo')
    BY <2>2, FS_RemoveElement DEF OpenFile, FinitelyMany
  <2>3. CASE EndFile \/ SkipFile \/ \E rec \in unread : RejectLost(rec)
    BY <2>3 DEF EndFile, SkipFile, RejectLost, FinitelyMany
  <2>4. CASE EndReplay \/ Crash \/ \E rec \in unread : PublishFails(rec)
    <3>1. todo' = {}
      BY <2>4 DEF EndReplay, Crash, PublishFails, Forget
    <3> QED
      BY <3>1, FS_EmptySet
  <2> QED
    BY <2>1, <2>2, <2>3, <2>4
<1> QED
  BY <1>1, <1>2, <1>3 DEF FinitelyMany

LEMMA NextFinite == IInv /\ FinitelyMany /\ [Next]_vars => FinitelyMany'
<1> SUFFICES ASSUME IInv, FinitelyMany, [Next]_vars PROVE FinitelyMany'
  OBVIOUS
<1>1. CASE UNCHANGED <<files, todo, unread>>
  BY <1>1 DEF FinitelyMany
<1>2. CASE Tick \/ UNCHANGED vars
  BY <1>1, <1>2 DEF Tick, vars, disk, replay
<1> QED
  BY <1>2, IngestFinite, RecordFinite, MoveFinite DEF Next, Replay

\* What a replay has to read is finite at any time.
THEOREM ReplayIsFinite == Spec => []FinitelyMany
<1>1. Init => IInv /\ FinitelyMany
  <2> SUFFICES ASSUME Init PROVE FinitelyMany
    BY InitIInv
  <2>1. /\ \A b \in Batches : files[b] = {}
        /\ todo = {} /\ unread = {} /\ {b \in Batches : files[b] # {}} = {}
    BY DEF Init
  <2> QED
    BY <2>1, FS_EmptySet DEF FinitelyMany
<1>2. (IInv /\ FinitelyMany) /\ [Next]_vars => (IInv /\ FinitelyMany)'
  BY NextIInv, NextFinite
<1> QED
  BY <1>1, <1>2, PTL DEF Spec

\* The two invariants of the replay, together.
THEOREM ReplayIInvariant == Spec => []ReplayIInv
<1>1. IInv /\ FinitelyMany => ReplayIInv
  BY DEF ReplayIInv
<1> QED
  BY <1>1, ReplayInvariant, ReplayIsFinite, PTL

\* A replay that writes to another directory has less to read after each of its
\* steps, whatever is ingested and whichever fault strikes meanwhile.
THEOREM ReplayIsBounded == Spec => ReplayDescends
<1> DEFINE Descends ==
      running /\ ~sameDir =>
        \/ ~running' \/ UNCHANGED <<running, sameDir, todo, reading, unread>>
        \/ /\ UNCHANGED <<running, sameDir>>
           /\ \/ todo' \subseteq todo /\ todo' # todo
              \/ todo' = todo /\ reading' = None /\ reading # None
              \/ /\ UNCHANGED <<todo, reading>>
                 /\ unread' \subseteq unread /\ unread' # unread
<1>1. IInv /\ FinitelyMany /\ [Next]_vars => [Descends]_vars
  <2> SUFFICES ASSUME IInv, FinitelyMany, [Next]_vars, running, ~sameDir
               PROVE  Descends
    OBVIOUS
  <2>1. CASE UNCHANGED <<running, sameDir, todo, reading, unread>>
    BY <2>1
  <2>2. CASE Tick \/ UNCHANGED vars \/ \E b \in Batches, rows \in BoundedSeq(RawRows, MaxRows) : Ingest(b, rows)
    BY <2>1, <2>2 DEF Tick, Ingest, vars, replay
  <2>3. CASE EndReplay \/ Crash \/ \E rec \in unread : PublishFails(rec)
    BY <2>3 DEF EndReplay, Crash, PublishFails, Forget
  <2>4. CASE EndFile \/ SkipFile \/ \E b \in Batches : OpenFile(b)
    BY <2>4 DEF EndFile, SkipFile, OpenFile
  <2>5. ASSUME NEW rec \in unread, ReplayRecord(rec) PROVE Descends
    BY <2>5, RecordFinite
  <2>7. ASSUME NEW rec \in unread, RejectLost(rec) PROVE Descends
    BY <2>7 DEF RejectLost
  <2>6. ~StartReplay
    BY DEF StartReplay
  <2> QED
    BY <2>2, <2>3, <2>4, <2>5, <2>6, <2>7 DEF Next, Replay
<1> QED
  BY <1>1, ReplayInvariant, ReplayIsFinite, PTL DEF Spec, ReplayDescends
=============================================================================
