-------------------------- MODULE TripProducer_proofs --------------------------
(***************************************************************************)
(* Proofs about TripProducer for any file, any classes of rows, any length *)
(* of the queue, any number of attempts and any number of faults.          *)
(***************************************************************************)
EXTENDS TripProducer, SequenceTheorems, FiniteSetTheorems, TLAPS

-----------------------------------------------------------------------------
(* The helpers of the model. *)

\* A message that leaves the queue leaves the others in it.
LEMMA RemoveAtKeeps ==
  ASSUME NEW S, NEW s \in Seq(S), NEW i \in DOMAIN s
  PROVE  /\ RemoveAt(s, i) \in Seq(S)
         /\ ToSet(s) \subseteq ToSet(RemoveAt(s, i)) \cup {s[i]}
<1>1. i \in 1 .. Len(s) /\ Len(s) \in Nat /\ DOMAIN s = 1 .. Len(s)
  OBVIOUS
<1> DEFINE a == SubSeq(s, 1, i - 1)
           b == SubSeq(s, i + 1, Len(s))
           r == a \o b
<1>2. a \in Seq(S) /\ Len(a) = i - 1 /\ \A k \in 1 .. (i - 1) : a[k] = s[k]
  BY <1>1
<1>3. b \in Seq(S) /\ Len(b) = Len(s) - i /\ \A k \in 1 .. (Len(s) - i) : b[k] = s[i + k]
  BY <1>1
<1> HIDE DEF a, b
<1>4. r \in Seq(S) /\ Len(r) = Len(s) - 1 /\ DOMAIN r = 1 .. (Len(s) - 1)
      /\ \A k \in 1 .. (Len(s) - 1) : r[k] = IF k <= i - 1 THEN a[k] ELSE b[k - (i - 1)]
  <2>1. /\ r \in Seq(S) /\ Len(r) = Len(a) + Len(b)
        /\ \A k \in 1 .. Len(a) + Len(b) :
             r[k] = IF k <= Len(a) THEN a[k] ELSE b[k - Len(a)]
    BY <1>2, <1>3, ConcatProperties, Zenon
  <2>2. Len(a) = i - 1 /\ Len(a) + Len(b) = Len(s) - 1
    BY <1>1, <1>2, <1>3
  <2> HIDE DEF r
  <2> QED BY <2>1, <2>2
<1> HIDE DEF r
<1>5. \A k \in 1 .. (i - 1) : r[k] = s[k]
  BY <1>1, <1>2, <1>4
<1>6. \A k \in (i + 1) .. Len(s) : r[k - 1] = s[k]
  <2> TAKE k \in (i + 1) .. Len(s)
  <2>1. k - 1 \in (i .. (Len(s) - 1)) /\ k - i \in 1 .. (Len(s) - i)
    BY <1>1
  <2>2. r[k - 1] = b[k - i]
    <3>1. k - 1 \in 1 .. (Len(s) - 1) /\ ~(k - 1 <= i - 1) /\ (k - 1) - (i - 1) = k - i
      BY <1>1
    <3>2. r[k - 1] = b[(k - 1) - (i - 1)]
      BY <1>4, <3>1
    <3> QED BY <3>1, <3>2
  <2>3. b[k - i] = s[i + (k - i)]
    BY <1>3, <2>1
  <2>4. i + (k - i) = k
    BY <1>1
  <2> QED BY <2>2, <2>3, <2>4
<1>7. \A k \in 1 .. Len(s) : s[k] \in ToSet(r) \cup {s[i]}
  <2> TAKE k \in 1 .. Len(s)
  <2>1. CASE k = i
    BY <2>1
  <2>2. CASE k < i
    <3>1. k \in DOMAIN r /\ r[k] = s[k]
      BY <1>1, <1>4, <1>5, <2>2
    <3> QED BY <3>1 DEF ToSet
  <2>3. CASE k > i
    <3>1. k - 1 \in DOMAIN r /\ r[k - 1] = s[k]
      BY <1>1, <1>4, <1>6, <2>3
    <3> QED BY <3>1 DEF ToSet
  <2> QED BY <1>1, <2>1, <2>2, <2>3
<1>8. r = RemoveAt(s, i)
  BY DEF RemoveAt, r, a, b
<1> QED
  BY <1>1, <1>4, <1>7, <1>8 DEF ToSet

\* A message that enters the queue joins the others.
LEMMA AppendKeeps ==
  ASSUME NEW S, NEW s \in Seq(S), NEW e \in S
  PROVE  /\ Append(s, e) \in Seq(S)
         /\ ToSet(Append(s, e)) = ToSet(s) \cup {e}
<1>1. DOMAIN Append(s, e) = 1 .. (Len(s) + 1) /\ DOMAIN s = 1 .. Len(s) /\ Len(s) \in Nat
  OBVIOUS
<1>2. \A k \in 1 .. Len(s) : Append(s, e)[k] = s[k]
  OBVIOUS
<1>3. Append(s, e)[Len(s) + 1] = e
  OBVIOUS
<1> QED
  BY <1>1, <1>2, <1>3 DEF ToSet

\* The rows of a batch of the file, by what becomes of them.
LEMMA BatchTypes ==
  ASSUME file \in Files, NEW b \in DOMAIN file
  PROVE  /\ SchemaInvalid(file[b]) \subseteq Rows
         /\ DomainInvalid(file[b]) \subseteq Rows
         /\ ValidTrips(file[b]) \subseteq Trips
<1>1. file[b] \in Seq(Rows)
  BY ConstantsAssumption
<1>2. \A i \in DOMAIN file[b] : file[b][i] \in Rows
  BY <1>1
<1> QED
  BY <1>2, ConstantsAssumption DEF SchemaInvalid, DomainInvalid, ValidTrips, Parsed

-----------------------------------------------------------------------------
(* Type correctness. *)

LEMMA InitIInv == Init => IInv
<1> SUFFICES ASSUME Init PROVE IInv
  OBVIOUS
<1>1. file \in Files /\ Len(file) \in Nat
  BY ConstantsAssumption DEF Init
<1>2. TypeOK
  <2>1. queue \in Seq(Trips)
    BY EmptySeq DEF Init
  <2>2. shutdown \in BOOLEAN
    BY DEF Init
  <2> QED BY <1>1, <2>1, <2>2 DEF Init, TypeOK, ControlPoints
<1>3. RowsAccounted /\ CleanExit
  BY DEF Init, RowsAccounted, CleanExit, Running
<1>4. BatchProgress /\ ExitControl
  BY <1>1 DEF Init, BatchProgress, ExitControl, InBatch
<1> QED
  BY <1>2, <1>3, <1>4 DEF IInv

\* The file and the point the run has reached in it.
LEMMA FilePosition ==
  ASSUME IInv
  PROVE  /\ Len(file) \in Nat /\ DOMAIN file = 1 .. Len(file)
         /\ next \in Nat \ {0}
         /\ InBatch => next \in DOMAIN file
         /\ \A b \in Done : b \in DOMAIN file
<1>1. Len(file) \in Nat /\ DOMAIN file = 1 .. Len(file)
  BY ConstantsAssumption DEF IInv, TypeOK
<1>2. next \in Nat \ {0} /\ next <= Len(file) + 1
  BY DEF IInv, TypeOK, ExitControl
<1> QED
  BY <1>1, <1>2 DEF IInv, BatchProgress, Done

\* A run goes on with the file it has started with.
LEMMA SameFile == [Next]_vars => file' = file
BY DEF Next, Start, RequestShutdown, Crash, Broker, Answer, AnswerLetter, Ingest, vars

LEMMA TypeStep == IInv /\ [Next]_vars => TypeOK'
<1> SUFFICES ASSUME IInv, [Next]_vars PROVE TypeOK'
  OBVIOUS
<1>0. TypeOK /\ file' = file
  BY SameFile DEF IInv
<1> USE <1>0 DEF TypeOK
<1>f. faults' \in Nat \/ UNCHANGED faults => faults' \in Nat
  OBVIOUS
<1>g. ASSUME NEW k, Fault(k) PROVE faults' \in Nat
  BY <1>g DEF Fault
<1>h. \A i \in DOMAIN queue : queue[i] \in Trips
  OBVIOUS
<1>q. ASSUME NEW i \in DOMAIN queue, Leave(i)
      PROVE  queue' \in Seq(Trips) /\ unserved' \in Nat
  BY <1>q, RemoveAtKeeps DEF Leave
<1>e. ASSUME ForgetProcess
      PROVE  /\ queue' \in Seq(Trips) /\ unserved' \in Nat /\ dlqQueue' \subseteq Rows
             /\ pc' \in ControlPoints /\ toReject' \subseteq Rows
             /\ toSend' \subseteq Trips /\ attempt' \in Nat /\ shutdown' \in BOOLEAN
  <2>1. queue' \in Seq(Trips)
    BY <1>e, EmptySeq DEF ForgetProcess
  <2>2. shutdown' \in BOOLEAN
    BY <1>e DEF ForgetProcess
  <2> QED BY <1>e, <2>1, <2>2 DEF ForgetProcess, ControlPoints
<1>1. CASE UNCHANGED vars
  BY <1>1 DEF vars, trips, letters, progress
<1>2. CASE Start
  BY <1>2 DEF Start, trips, letters, ControlPoints
<1>3. CASE RequestShutdown
  BY <1>3, <1>g DEF RequestShutdown, trips, letters, progress
<1>4. CASE Crash
  BY <1>4, <1>e, <1>g DEF Crash
<1>5. CASE Broker
  <2>1. ASSUME NEW i \in DOMAIN queue, Ack(i) PROVE TypeOK'
    BY <2>1, <1>h, <1>q DEF Ack, letters, progress
  <2>2. ASSUME NEW i \in DOMAIN queue, DeliveryFails(i) PROVE TypeOK'
    BY <2>2, <1>g, <1>h, <1>q DEF DeliveryFails, letters, progress
  <2>3. ASSUME NEW r \in Rows, AckLetter(r) PROVE TypeOK'
    BY <2>3 DEF AckLetter, trips, progress
  <2> QED BY <1>5, <2>1, <2>2, <2>3 DEF Broker, Answer, AnswerLetter
<1>6. CASE Ingest
  <2>1. CASE NextBatch
    <3>1. next \in DOMAIN file => SchemaInvalid(Batch) \subseteq Rows
      BY BatchTypes DEF Batch
    <3>2. next <= Len(file) => next \in DOMAIN file
      BY FilePosition
    <3> QED BY <2>1, <3>1, <3>2 DEF NextBatch, trips, letters, ControlPoints
  <2>2. CASE ReadError
    BY <2>2, <1>g DEF ReadError, trips, letters, progress, ControlPoints
  <2>12. CASE CheckRaises
    BY <2>12 DEF CheckRaises, trips, letters, progress, ControlPoints
  <2>3. CASE ProcessBatch
    <3>1. ValidTrips(Batch) \subseteq Trips
      BY <2>3, BatchTypes, FilePosition DEF Batch, ProcessBatch, InBatch
    <3> QED BY <2>3, <3>1 DEF ProcessBatch, trips, letters, ControlPoints
  <2>4. CASE ProduceError
    <3>1. ValidTrips(Batch) \subseteq Trips
      BY <2>4, BatchTypes, FilePosition DEF Batch, ProduceError, InBatch
    <3>2. faults' \in Nat
      BY <2>4, <1>g DEF ProduceError
    <3>3. attempt' \in Nat /\ toSend' \subseteq Trips /\ pc' \in ControlPoints
          /\ exit' \in {"none", "ok", "error", "killed"}
      BY <2>4, <3>1 DEF ProduceError, RetryPublish, ControlPoints
    <3> QED BY <2>4, <3>2, <3>3 DEF ProduceError, trips, letters
  <2>5. CASE Published
    <3>1. DomainInvalid(Batch) \subseteq Rows
      BY <2>5, BatchTypes, FilePosition DEF Batch, Published, InBatch
    <3> QED BY <2>5, <3>1 DEF Published, letters, ControlPoints
  <2>6. CASE BatchDone
    BY <2>6 DEF BatchDone, trips, letters, ControlPoints
  <2>7. ASSUME NEW r \in Rows, SendLetter(r) PROVE TypeOK'
    <3>1. faults' \in Nat /\ dlqQueue' \subseteq Rows /\ disk' \subseteq Rows
          /\ logged' \subseteq Trips \cup Rows /\ toReject' \subseteq Rows
      BY <2>7, <1>g DEF SendLetter
    <3> QED BY <2>7, <3>1 DEF SendLetter, trips
  <2>8. ASSUME NEW t \in Trips, Produce(t) PROVE TypeOK'
    BY <2>8, AppendKeeps DEF Produce, letters
  <2>9. ASSUME FlushQueue PROVE faults' \in Nat /\ logged' \subseteq Trips \cup Rows
    BY <2>9, <1>g, <1>h DEF FlushQueue, ToSet
  <2>10. CASE Flush
    BY <2>9, <2>10 DEF Flush, letters, progress, ControlPoints
  <2>11. CASE Close
    BY <1>e, <2>9, <2>11 DEF Close
  <2> QED
    BY <1>6, <2>1, <2>2, <2>3, <2>4, <2>5, <2>6, <2>7, <2>8, <2>10, <2>11, <2>12 DEF Ingest
<1> QED
  BY <1>1, <1>2, <1>3, <1>4, <1>5, <1>6 DEF Next

-----------------------------------------------------------------------------
(* The inductive invariant. *)

\* A step that leaves the control of the process alone preserves the
\* invariant if no trip and no row leaves the places it is accounted in.
LEMMA StoreStep ==
  ASSUME IInv, TypeOK',
         UNCHANGED <<file, pc, next, toReject, toSend, exit>>,
         topic \cup logged \subseteq topic' \cup logged',
         Sent \subseteq Sent', Lettered \subseteq Lettered'
  PROVE  IInv'
<1> USE DEF IInv
<1>1. RowsAccounted'
  BY DEF RowsAccounted, Running, Done
<1>2. CleanExit'
  BY DEF CleanExit, Done
<1>3. BatchProgress'
  BY DEF BatchProgress, InBatch, Batch
<1>4. ExitControl'
  BY DEF ExitControl, InBatch
<1> QED
  BY <1>1, <1>2, <1>3, <1>4

\* The answers of the brokers.
LEMMA BrokerStep ==
  ASSUME IInv, TypeOK', file' = file, Broker
  PROVE  IInv'
<1>0. TypeOK
  BY DEF IInv
<1>q. ASSUME NEW i \in DOMAIN queue, Leave(i)
      PROVE  ToSet(queue) \subseteq ToSet(queue') \cup {queue[i]}
  BY <1>0, <1>q, RemoveAtKeeps DEF Leave, TypeOK
<1>1. ASSUME NEW i \in DOMAIN queue, Ack(i) PROVE IInv'
  <2>1. UNCHANGED <<pc, next, toReject, toSend, exit, disk, logged>>
        /\ topic' = topic \cup {queue[i]}
    BY <1>1 DEF Ack, letters, progress
  <2>2. ToSet(queue) \subseteq ToSet(queue') \cup {queue[i]}
    BY <1>1, <1>q DEF Ack
  <2>3. Sent \subseteq Sent' /\ Lettered \subseteq Lettered'
    BY <2>1, <2>2 DEF Sent, Lettered
  <2> QED BY <2>1, <2>3, StoreStep
<1>2. ASSUME NEW i \in DOMAIN queue, DeliveryFails(i) PROVE IInv'
  <2>1. UNCHANGED <<pc, next, toReject, toSend, exit, disk, topic>>
        /\ logged' = logged \cup {queue[i]}
    BY <1>2 DEF DeliveryFails, letters, progress
  <2>2. ToSet(queue) \subseteq ToSet(queue') \cup {queue[i]}
    BY <1>2, <1>q DEF DeliveryFails
  <2>3. Sent \subseteq Sent' /\ Lettered \subseteq Lettered'
    BY <2>1, <2>2 DEF Sent, Lettered
  <2> QED BY <2>1, <2>3, StoreStep
<1>3. ASSUME NEW r \in Rows, AckLetter(r) PROVE IInv'
  <2>1. UNCHANGED <<pc, next, toReject, toSend, exit, disk, logged, topic, queue>>
    BY <1>3 DEF AckLetter, trips, progress
  <2>2. Sent \subseteq Sent' /\ Lettered \subseteq Lettered'
    BY <2>1 DEF Sent, Lettered
  <2> QED BY <2>1, <2>2, StoreStep
<1> QED
  BY <1>1, <1>2, <1>3 DEF Broker, Answer, AnswerLetter

\* The steps that start a batch, work on it or finish it.
LEMMA BatchStep ==
  ASSUME IInv, TypeOK', file' = file,
         \/ NextBatch \/ ProcessBatch \/ ProduceError \/ Published \/ BatchDone
         \/ \E r \in Rows : SendLetter(r)
         \/ \E t \in Trips : Produce(t)
  PROVE  IInv'
<1> USE DEF IInv
<1>0. TypeOK
  OBVIOUS
<1>p. /\ Len(file) \in Nat /\ DOMAIN file = 1 .. Len(file)
      /\ next \in Nat \ {0}
      /\ InBatch => next \in DOMAIN file
      /\ \A b \in Done : b \in DOMAIN file
  BY FilePosition
<1>1. CASE NextBatch
  <2>1. UNCHANGED <<topic, queue, logged, disk, next, toSend>> /\ pc = "read"
    BY <1>1 DEF NextBatch, trips, letters
  <2>2. Sent' = Sent /\ Lettered' = Lettered
    BY <2>1 DEF Sent, Lettered
  <2>3. \/ /\ next <= Len(file) /\ ~Raises(Batch) /\ toReject' = SchemaInvalid(Batch)
           /\ pc' = "schema" /\ exit' = exit
        \/ pc' = "flush" /\ exit' = "ok" /\ toReject' = toReject
    BY <1>1 DEF NextBatch
  <2>4. RowsAccounted' /\ CleanExit'
    BY <2>1, <2>2, <2>3 DEF RowsAccounted, CleanExit, Running, Done
  <2>5. BatchProgress'
    BY <1>p, <2>1, <2>2, <2>3 DEF BatchProgress, InBatch, Batch
  <2>6. ExitControl'
    BY <2>1, <2>3 DEF ExitControl, InBatch
  <2> QED BY <2>4, <2>5, <2>6
<1>2. CASE ProcessBatch
  <2>1. UNCHANGED <<topic, queue, logged, disk, next, toReject, exit>> /\ pc = "schema"
        /\ pc' = "publish" /\ toReject = {} /\ toSend' = ValidTrips(Batch)
    BY <1>2 DEF ProcessBatch, trips, letters
  <2>2. Sent' = Sent /\ Lettered' = Lettered
    BY <2>1 DEF Sent, Lettered
  <2>4. RowsAccounted' /\ CleanExit'
    BY <2>1, <2>2 DEF RowsAccounted, CleanExit, Running, Done
  <2>5. BatchProgress'
    BY <1>p, <2>1, <2>2 DEF BatchProgress, InBatch, Batch
  <2>6. ExitControl'
    BY <2>1 DEF ExitControl, InBatch
  <2> QED BY <2>4, <2>5, <2>6
<1>3. CASE ProduceError
  <2>1. UNCHANGED <<topic, queue, logged, disk, next, toReject>> /\ pc = "publish"
    BY <1>3 DEF ProduceError, trips, letters
  <2>2. Sent' = Sent /\ Lettered' = Lettered
    BY <2>1 DEF Sent, Lettered
  <2>3. \/ toSend' = ValidTrips(Batch) /\ UNCHANGED <<pc, exit>>
        \/ pc' = "flush" /\ exit' = "error"
    BY <1>3 DEF ProduceError, RetryPublish
  <2>4. RowsAccounted' /\ CleanExit'
    BY <2>1, <2>2, <2>3 DEF RowsAccounted, CleanExit, Running, Done
  <2>5. BatchProgress'
    BY <1>p, <2>1, <2>2, <2>3 DEF BatchProgress, InBatch, Batch
  <2>6. ExitControl'
    <3>1. next' <= Len(file) + 1
      BY <2>1 DEF ExitControl
    <3>2. toReject = {}
      BY <1>3 DEF ProduceError, ExitControl
    <3> QED BY <2>1, <2>3, <3>1, <3>2 DEF ExitControl, InBatch
  <2> QED BY <2>4, <2>5, <2>6
<1>4. CASE Published
  <2>1. UNCHANGED <<topic, queue, logged, disk, next, toSend, exit>> /\ pc = "publish"
        /\ pc' = "reject" /\ toSend = {} /\ toReject' = DomainInvalid(Batch)
    BY <1>4 DEF Published, letters
  <2>2. Sent' = Sent /\ Lettered' = Lettered
    BY <2>1 DEF Sent, Lettered
  <2>4. RowsAccounted' /\ CleanExit'
    BY <2>1, <2>2 DEF RowsAccounted, CleanExit, Running, Done
  <2>5. BatchProgress'
    BY <1>p, <2>1, <2>2 DEF BatchProgress, InBatch, Batch
  <2>6. ExitControl'
    BY <2>1 DEF ExitControl, InBatch
  <2> QED BY <2>4, <2>5, <2>6
<1>5. CASE BatchDone
  <2>1. UNCHANGED <<topic, queue, logged, disk, toReject, exit>> /\ pc = "reject"
        /\ pc' = "read" /\ toReject = {} /\ next' = next + 1
    BY <1>5 DEF BatchDone, trips, letters
  <2>2. Sent' = Sent /\ Lettered' = Lettered
    BY <2>1 DEF Sent, Lettered
  <2>3. /\ ~Raises(Batch)
        /\ ValidTrips(Batch) \subseteq Sent /\ Rejected(Batch) \subseteq Lettered
    BY <2>1 DEF BatchProgress, InBatch, Rejected
  <2>4. Done' = Done \cup {next} /\ Batch = file[next]
    BY <1>p, <2>1 DEF Done, Batch
  <2>5. RowsAccounted'
    BY <2>1, <2>2, <2>3, <2>4 DEF RowsAccounted, Running
  <2>6. CleanExit' /\ BatchProgress'
    BY <2>1 DEF CleanExit, BatchProgress, InBatch
  <2>7. ExitControl'
    BY <1>p, <2>1 DEF ExitControl, InBatch
  <2> QED BY <2>5, <2>6, <2>7
<1>6. ASSUME NEW r \in Rows, SendLetter(r) PROVE IInv'
  <2>1. UNCHANGED <<topic, queue, pc, next, toSend, exit>> /\ pc \in {"schema", "reject"}
        /\ toReject' = toReject \ {r}
    BY <1>6 DEF SendLetter, trips
  <2>2. logged \subseteq logged' /\ Lettered' = Lettered \cup {r}
    BY <1>6 DEF SendLetter, Lettered
  <2>3. Sent \subseteq Sent'
    BY <2>1, <2>2 DEF Sent
  <2>4. RowsAccounted' /\ CleanExit'
    BY <2>1, <2>2, <2>3 DEF RowsAccounted, CleanExit, Running, Done
  <2>5. BatchProgress'
    BY <1>p, <2>1, <2>2, <2>3 DEF BatchProgress, InBatch, Batch
  <2>6. ExitControl'
    BY <2>1 DEF ExitControl, InBatch
  <2> QED BY <2>4, <2>5, <2>6
<1>7. ASSUME NEW t \in Trips, Produce(t) PROVE IInv'
  <2>1. UNCHANGED <<topic, logged, disk, pc, next, toReject, exit>> /\ pc = "publish"
        /\ toSend' = toSend \ {t} /\ queue' = Append(queue, t)
    BY <1>7 DEF Produce, letters
  <2>2. ToSet(queue') = ToSet(queue) \cup {t}
    BY <1>0, <2>1, AppendKeeps DEF TypeOK
  <2>3. Sent' = Sent \cup {t} /\ Lettered' = Lettered
    BY <2>1, <2>2 DEF Sent, Lettered
  <2>4. RowsAccounted' /\ CleanExit'
    BY <2>1, <2>3 DEF RowsAccounted, CleanExit, Running, Done
  <2>5. BatchProgress'
    BY <1>p, <2>1, <2>3 DEF BatchProgress, InBatch, Batch
  <2>6. ExitControl'
    BY <2>1 DEF ExitControl, InBatch
  <2> QED BY <2>4, <2>5, <2>6
<1> QED
  BY <1>1, <1>2, <1>3, <1>4, <1>5, <1>6, <1>7

\* The steps that start, stop or kill the process.
LEMMA RunStep ==
  ASSUME IInv, TypeOK', file' = file, Start \/ Crash \/ CheckRaises \/ ReadError \/ Flush \/ Close
  PROVE  IInv'
<1> USE DEF IInv
<1>p. Len(file) \in Nat
  BY FilePosition
<1>0. TypeOK
  OBVIOUS
<1>1. CASE Start
  <2>1. pc = "down" /\ pc' = "read" /\ next' = 1 /\ exit' = "none" /\ toReject' = toReject
    BY <1>1 DEF Start
  <2>2. Done' = {}
    BY <2>1 DEF Done
  <2> QED
    BY <1>p, <2>1, <2>2 DEF RowsAccounted, CleanExit, BatchProgress, ExitControl, InBatch
<1>2. CASE Crash
  <2>1. pc' = "down" /\ exit' = "killed" /\ next' = next /\ toReject' = {}
    BY <1>2 DEF Crash, ForgetProcess
  <2> QED
    BY <2>1 DEF RowsAccounted, Running, CleanExit, BatchProgress, ExitControl, InBatch
<1>3. CASE CheckRaises \/ ReadError
  <2>1. UNCHANGED <<topic, queue, logged, disk, next, toReject>> /\ pc = "read"
        /\ pc' = "flush" /\ exit' = "error"
    BY <1>3 DEF CheckRaises, ReadError, trips, letters, progress
  <2>2. Sent' = Sent /\ Lettered' = Lettered
    BY <2>1 DEF Sent, Lettered
  <2> QED
    BY <2>1, <2>2
    DEF RowsAccounted, Running, Done, CleanExit, BatchProgress, ExitControl, InBatch
<1>4. ASSUME FlushQueue
      PROVE  logged \subseteq logged' /\ ToSet(queue) \subseteq logged'
  <2>1. CASE queue = <<>> /\ UNCHANGED <<logged, faults>>
    BY <2>1 DEF ToSet
  <2>2. CASE logged' = logged \cup ToSet(queue)
    BY <2>2
  <2> QED BY <1>4, <2>1, <2>2 DEF FlushQueue
<1>5. CASE Flush
  <2>1. UNCHANGED <<topic, queue, disk, next, toReject, exit>> /\ pc = "flush"
        /\ pc' = "close" /\ logged \subseteq logged'
    BY <1>4, <1>5 DEF Flush, letters, progress
  <2>2. Sent \subseteq Sent' /\ Lettered \subseteq Lettered'
    BY <2>1 DEF Sent, Lettered
  <2> QED
    BY <2>1, <2>2
    DEF RowsAccounted, Running, Done, CleanExit, BatchProgress, ExitControl, InBatch
<1>6. CASE Close
  <2>1. UNCHANGED <<topic, disk, next, exit>> /\ pc = "close"
        /\ pc' = "down" /\ toReject' = {}
    BY <1>6 DEF Close, ForgetProcess
  <2>2. logged \subseteq logged' /\ ToSet(queue) \subseteq logged'
    BY <1>4, <1>6 DEF Close
  <2>3. Sent \subseteq topic' \cup logged' /\ Lettered \subseteq Lettered'
    BY <2>1, <2>2 DEF Sent, Lettered
  <2>4. CleanExit'
    BY <2>1, <2>3 DEF RowsAccounted, Running, Done, CleanExit
  <2> QED
    BY <2>1, <2>4 DEF RowsAccounted, Running, BatchProgress, ExitControl, InBatch
<1> QED
  BY <1>1, <1>2, <1>3, <1>5, <1>6

LEMMA NextIInv == IInv /\ [Next]_vars => IInv'
<1> SUFFICES ASSUME IInv, [Next]_vars PROVE IInv'
  OBVIOUS
<1>0. TypeOK' /\ file' = file
  BY TypeStep, SameFile
<1>1. CASE UNCHANGED vars
  <2>1. UNCHANGED <<pc, next, toReject, toSend, exit, topic, queue, logged, disk>>
    BY <1>1 DEF vars, trips, letters, progress
  <2>2. Sent' = Sent /\ Lettered' = Lettered
    BY <2>1 DEF Sent, Lettered
  <2> QED BY <1>0, <2>1, <2>2, StoreStep
<1>2. CASE RequestShutdown
  <2>1. UNCHANGED <<pc, next, toReject, toSend, exit, topic, queue, logged, disk>>
    BY <1>2 DEF RequestShutdown, trips, letters, progress
  <2>2. Sent' = Sent /\ Lettered' = Lettered
    BY <2>1 DEF Sent, Lettered
  <2> QED BY <1>0, <2>1, <2>2, StoreStep
<1>3. CASE Broker
  BY <1>0, <1>3, BrokerStep
<1>4. CASE Start \/ Crash \/ CheckRaises \/ ReadError \/ Flush \/ Close
  BY <1>0, <1>4, RunStep
<1>5. CASE \/ NextBatch \/ ProcessBatch \/ ProduceError \/ Published \/ BatchDone
           \/ \E r \in Rows : SendLetter(r)
           \/ \E t \in Trips : Produce(t)
  BY <1>0, <1>5, BatchStep
<1> QED
  BY <1>1, <1>2, <1>3, <1>4, <1>5 DEF Next, Ingest

\* Every reachable state satisfies the invariant.
THEOREM Inductive == Spec => []IInv
<1>1. Init => IInv
  BY InitIInv
<1>2. IInv /\ [Next]_vars => IInv'
  BY NextIInv
<1> QED
  BY <1>1, <1>2, PTL DEF Spec

\* No row of a finished batch of _process_batch disappears silently.
THEOREM RowsAreAccounted == Spec => []RowsAccounted
<1>1. IInv => RowsAccounted
  BY DEF IInv
<1> QED
  BY <1>1, Inductive, PTL

\* What a run that ended with exit code 0 has ingested is in the topic and on
\* disk.
THEOREM ExitZeroIsTrue == Spec => []CleanExit
<1>1. IInv => CleanExit
  BY DEF IInv
<1> QED
  BY <1>1, Inductive, PTL

-----------------------------------------------------------------------------
(* How a run ends. *)

LEMMA ImageFinite ==
  ASSUME NEW I, IsFiniteSet(I), NEW f
  PROVE  IsFiniteSet({f[i] : i \in I})
<1> DEFINE T == {f[i] : i \in I}
           g == [i \in I |-> f[i]]
<1>1. g \in Surjection(I, T)
  BY DEF Surjection
<1> HIDE DEF g
<1> QED
  BY <1>1, FS_Surjection

\* What has to be rejected or sent of a batch is finite.
LEMMA BatchFinite ==
  ASSUME file \in Files, NEW b \in DOMAIN file
  PROVE  /\ IsFiniteSet(SchemaInvalid(file[b]))
         /\ IsFiniteSet(DomainInvalid(file[b]))
         /\ IsFiniteSet(ValidTrips(file[b]))
<1> DEFINE s == file[b]
           D == DOMAIN s
           S == {j \in D : Kind[s[j]] = "schema"}
           R == {j \in D : \/ Kind[s[j]] = "domain"
                           \/ Kind[s[j]] = "valid" /\ Duplicate(s, j)}
           trip == [i \in D |-> TripOf[s[i]]]
<1>1. s \in Seq(Rows)
  BY ConstantsAssumption
<1>2. D = 1 .. Len(s) /\ Len(s) \in Nat
  BY <1>1
<1>3. IsFiniteSet(D)
  BY <1>2, FS_Interval
<1>4. IsFiniteSet(S) /\ IsFiniteSet(R) /\ IsFiniteSet(Parsed(s))
  <2>1. S \in SUBSET D /\ R \in SUBSET D /\ Parsed(s) \in SUBSET D
    BY DEF Parsed
  <2> HIDE DEF S, R, D
  <2> QED
    BY <1>3, <2>1, FS_Subset
<1>5. SchemaInvalid(s) = {s[i] : i \in S} /\ DomainInvalid(s) = {s[i] : i \in R}
  BY DEF SchemaInvalid, DomainInvalid
<1>6. ValidTrips(s) = {trip[i] : i \in Parsed(s)}
  BY DEF ValidTrips, Parsed
<1> HIDE DEF s, D, S, R, trip
<1>7. IsFiniteSet({s[i] : i \in S}) /\ IsFiniteSet({s[i] : i \in R})
  BY <1>4, ImageFinite
<1>8. IsFiniteSet({trip[i] : i \in Parsed(s)})
  BY <1>4, ImageFinite
<1>9. IsFiniteSet(SchemaInvalid(s)) /\ IsFiniteSet(DomainInvalid(s)) /\ IsFiniteSet(ValidTrips(s))
  BY <1>5, <1>6, <1>7, <1>8
<1> QED
  BY <1>9 DEF s

\* The numbers that Descends compares.
LEMMA DescentTypes ==
  ASSUME IInv, attempt \in 0 .. MaxAttempts
  PROVE  /\ BatchesLeft \in Nat /\ AttemptsLeft \in Nat /\ Stage \in 0 .. 6
         /\ Len(file) \in Nat /\ next \in Nat /\ MaxAttempts \in Nat
<1>1. /\ Len(file) \in Nat /\ next \in Nat /\ next <= Len(file) + 1
      /\ MaxAttempts \in Nat
  BY FilePosition, ConstantsAssumption DEF IInv, ExitControl
<1>2. pc \in ControlPoints
  BY DEF IInv, TypeOK
<1>3. Stage \in 0 .. 6
  BY <1>2 DEF ControlPoints, Stage
<1> QED
  BY <1>1, <1>3 DEF BatchesLeft, AttemptsLeft

\* A row or a trip that is dealt with is one less.
LEMMA OneRowLess ==
  ASSUME NEW S, IsFiniteSet(S), NEW x \in S, NEW T, IsFiniteSet(T)
  PROVE  /\ IsFiniteSet(S \ {x})
         /\ Cardinality(S \ {x}) + Cardinality(T) < Cardinality(S) + Cardinality(T)
<1>1. IsFiniteSet(S \ {x}) /\ Cardinality(S \ {x}) = Cardinality(S) - 1
  BY FS_RemoveElement
<1>2. Cardinality(S) \in Nat /\ Cardinality(T) \in Nat
  BY FS_CardinalityType
<1> QED
  BY <1>1, <1>2

LEMMA RowStep ==
  ASSUME IInv, DescentIInv, file' = file,
         (\E r \in Rows : SendLetter(r)) \/ (\E t \in Trips : Produce(t))
  PROVE  DescentIInv' /\ Descends
<1>1. UNCHANGED <<pc, next, attempt>>
  BY DEF SendLetter, Produce
<1>2. IsFiniteSet(toReject) /\ IsFiniteSet(toSend)
  BY DEF DescentIInv
<1>3. IsFiniteSet(toReject') /\ IsFiniteSet(toSend') /\ RowsLeft' < RowsLeft
  <2>1. ASSUME NEW r \in Rows, SendLetter(r)
        PROVE  IsFiniteSet(toReject') /\ IsFiniteSet(toSend') /\ RowsLeft' < RowsLeft
    <3>1. r \in toReject /\ toReject' = toReject \ {r} /\ toSend' = toSend
      BY <2>1 DEF SendLetter
    <3> QED
      BY <1>2, <3>1, OneRowLess DEF RowsLeft
  <2>2. ASSUME NEW t \in Trips, Produce(t)
        PROVE  IsFiniteSet(toReject') /\ IsFiniteSet(toSend') /\ RowsLeft' < RowsLeft
    <3>1. t \in toSend /\ toSend' = toSend \ {t} /\ toReject' = toReject
      BY <2>2 DEF Produce
    <3>2. Cardinality(toSend \ {t}) + Cardinality(toReject)
            < Cardinality(toSend) + Cardinality(toReject)
      BY <1>2, <3>1, OneRowLess
    <3>3. IsFiniteSet(toSend \ {t})
      BY <1>2, <3>1, OneRowLess
    <3>4. /\ Cardinality(toSend \ {t}) \in Nat /\ Cardinality(toReject) \in Nat
          /\ Cardinality(toSend) \in Nat
      BY <1>2, <3>3, FS_CardinalityType
    <3> QED
      BY <1>2, <3>1, <3>2, <3>3, <3>4 DEF RowsLeft
  <2> QED
    BY <2>1, <2>2
<1>4. BatchesLeft' = BatchesLeft /\ Stage' = Stage /\ AttemptsLeft' = AttemptsLeft
  BY <1>1 DEF BatchesLeft, Stage, AttemptsLeft
<1> QED
  BY <1>1, <1>3, <1>4 DEF DescentIInv, Descends

LEMMA RetryStep ==
  ASSUME IInv, DescentIInv, file' = file, ProduceError
  PROVE  DescentIInv' /\ Descends
<1>1. pc = "publish" /\ next \in DOMAIN file /\ next' = next /\ toReject' = toReject
  BY DEF ProduceError, IInv, BatchProgress, InBatch
<1>2. IsFiniteSet(ValidTrips(Batch))
  BY <1>1, BatchFinite DEF Batch, IInv, TypeOK
<1>3. attempt \in 0 .. MaxAttempts /\ MaxAttempts \in Nat
  BY ConstantsAssumption DEF DescentIInv
<1>4. BatchesLeft' = BatchesLeft /\ BatchesLeft \in Nat
  BY <1>1 DEF BatchesLeft, DescentIInv
<1>5. CASE attempt < MaxAttempts
  <2>1. attempt' = attempt + 1 /\ toSend' = ValidTrips(Batch) /\ pc' = pc
    BY <1>3, <1>5 DEF ProduceError, RetryPublish
  <2>2. Stage' = Stage
    BY <2>1 DEF Stage
  <2>3. AttemptsLeft' < AttemptsLeft /\ attempt' \in 0 .. MaxAttempts
    BY <1>3, <1>5, <2>1 DEF AttemptsLeft
  <2> QED
    BY <1>1, <1>2, <1>4, <2>1, <2>2, <2>3 DEF DescentIInv, Descends
<1>6. CASE ~(attempt < MaxAttempts)
  <2>1. pc' = "flush" /\ attempt' = attempt /\ toSend' = toSend
    BY <1>6 DEF ProduceError, RetryPublish
  <2>2. Stage' = 2 /\ Stage = 4
    BY <1>1, <2>1 DEF Stage
  <2> QED
    BY <1>1, <1>4, <2>1, <2>2 DEF DescentIInv, Descends
<1> QED
  BY <1>5, <1>6

\* The steps that go on to the next point of the batch or of the run.
LEMMA StageStep ==
  ASSUME IInv, DescentIInv, file' = file,
         NextBatch \/ CheckRaises \/ ReadError \/ ProcessBatch \/ Published \/ Flush \/ Close \/ Crash
  PROVE  DescentIInv' /\ Descends
<1>0. file \in Files
  BY DEF IInv, TypeOK
<1>1. next' = next
  BY DEF NextBatch, CheckRaises, ReadError, ProcessBatch, Published, Flush, Close, Crash, progress
<1>2. Stage' < Stage /\ Stage' \in Nat
  <2>1. pc \in ControlPoints
    BY DEF IInv, TypeOK
  <2>2. CASE NextBatch \/ CheckRaises \/ ReadError
    BY <2>2 DEF NextBatch, CheckRaises, ReadError, Stage
  <2>3. CASE ProcessBatch \/ Published
    BY <2>3 DEF ProcessBatch, Published, Stage
  <2>4. CASE Flush \/ Close
    BY <2>4 DEF Flush, Close, ForgetProcess, Stage
  <2>5. CASE Crash
    BY <2>1, <2>5 DEF Crash, Running, ForgetProcess, ControlPoints, Stage
  <2> QED
    BY <2>2, <2>3, <2>4, <2>5
<1>3. BatchesLeft' = BatchesLeft /\ BatchesLeft \in Nat
  BY <1>1 DEF BatchesLeft, DescentIInv
<1>4. MaxAttempts \in Nat \ {0} /\ attempt \in 0 .. MaxAttempts
  BY ConstantsAssumption DEF DescentIInv
<1>5. attempt' \in 0 .. MaxAttempts
  <2>1. attempt' \in {attempt, 0, 1}
    BY DEF NextBatch, CheckRaises, ReadError, ProcessBatch, Published, Flush, Close, Crash,
           ForgetProcess, progress
  <2> QED
    BY <1>4, <2>1
<1>6. IsFiniteSet(toReject') /\ IsFiniteSet(toSend')
  <2>1. IsFiniteSet(toReject) /\ IsFiniteSet(toSend) /\ IsFiniteSet({})
    BY FS_EmptySet DEF DescentIInv
  <2>2. CASE NextBatch
    <3>1. CASE toReject' = toReject /\ toSend' = toSend
      BY <2>1, <3>1
    <3>2. CASE next <= Len(file) /\ toReject' = SchemaInvalid(Batch) /\ toSend' = toSend
      <4>1. next \in DOMAIN file
        BY <3>2, FilePosition
      <4> QED
        BY <1>0, <2>1, <3>2, <4>1, BatchFinite DEF Batch
    <3> QED
      BY <2>2, <3>1, <3>2 DEF NextBatch
  <2>3. CASE ProcessBatch \/ Published
    <3>1. next \in DOMAIN file
      BY <2>3 DEF ProcessBatch, Published, IInv, BatchProgress, InBatch
    <3>2. IsFiniteSet(ValidTrips(Batch)) /\ IsFiniteSet(DomainInvalid(Batch))
      BY <1>0, <3>1, BatchFinite DEF Batch
    <3> QED
      BY <2>1, <2>3, <3>2 DEF ProcessBatch, Published
  <2>4. CASE CheckRaises \/ ReadError \/ Flush
    BY <2>1, <2>4 DEF CheckRaises, ReadError, Flush, progress
  <2>5. CASE Close \/ Crash
    BY <2>1, <2>5 DEF Close, Crash, ForgetProcess
  <2> QED
    BY <2>2, <2>3, <2>4, <2>5
<1> QED
  BY <1>2, <1>3, <1>5, <1>6 DEF DescentIInv, Descends

LEMMA BatchDoneStep ==
  ASSUME IInv, DescentIInv, file' = file, BatchDone
  PROVE  DescentIInv' /\ Descends
<1>1. pc = "reject" /\ pc' = "read" /\ next' = next + 1 /\ UNCHANGED <<attempt, toReject, toSend>>
  BY DEF BatchDone
<1>2. next \in 1 .. Len(file) /\ Len(file) \in Nat
  BY <1>1, FilePosition DEF InBatch
<1>3. BatchesLeft' < BatchesLeft /\ BatchesLeft' \in Nat
  BY <1>1, <1>2 DEF BatchesLeft
<1>4. Stage' \in Nat
  BY <1>1 DEF Stage
<1> QED
  BY <1>1, <1>3, <1>4 DEF DescentIInv, Descends

LEMMA NextDescent ==
  IInv /\ DescentIInv /\ [Next]_vars =>
    DescentIInv' /\ (Running => UNCHANGED <<pc, progress>> \/ Descends)
<1> SUFFICES ASSUME IInv, DescentIInv, [Next]_vars
             PROVE  DescentIInv' /\ (Running => UNCHANGED <<pc, progress>> \/ Descends)
  OBVIOUS
<1>0. file' = file
  BY SameFile
<1>1. CASE UNCHANGED <<pc, progress>>
  BY <1>0, <1>1 DEF progress, DescentIInv, BatchesLeft, Stage
<1>2. CASE Start
  <2>1. pc = "down" /\ pc' = "read" /\ next' = 1 /\ UNCHANGED <<attempt, toReject, toSend>>
    BY <1>2 DEF Start
  <2>2. BatchesLeft' \in Nat /\ Stage' \in Nat
    BY <2>1, FilePosition DEF BatchesLeft, Stage
  <2> QED
    BY <2>1, <2>2 DEF DescentIInv, Running
<1>3. CASE Ingest \/ Crash
  BY <1>0, <1>3, RowStep, RetryStep, StageStep, BatchDoneStep DEF Ingest
<1>4. CASE RequestShutdown \/ Broker
  <2>1. UNCHANGED <<pc, progress>>
    BY <1>4 DEF RequestShutdown, Broker, Answer, AnswerLetter, Ack, DeliveryFails, AckLetter
  <2> QED
    BY <1>1, <2>1
<1>5. CASE UNCHANGED vars
  BY <1>1, <1>5 DEF vars
<1> QED
  BY <1>2, <1>3, <1>4, <1>5 DEF Next

\* What a run has left is a number of batches, points, attempts and rows.
THEOREM DescentInvariant == Spec => []DescentIInv
<1>1. Init => IInv /\ DescentIInv
  <2> SUFFICES ASSUME Init PROVE DescentIInv
    BY InitIInv
  <2>1. pc = "down" /\ next = 1 /\ attempt = 0 /\ toReject = {} /\ toSend = {}
    BY DEF Init
  <2>2. Len(file) \in Nat /\ MaxAttempts \in Nat
    BY ConstantsAssumption DEF Init
  <2>3. BatchesLeft \in Nat /\ Stage \in Nat
    BY <2>1, <2>2 DEF BatchesLeft, Stage
  <2> QED
    BY <2>1, <2>2, <2>3, FS_EmptySet DEF DescentIInv
<1>2. (IInv /\ DescentIInv) /\ [Next]_vars => (IInv /\ DescentIInv)'
  BY NextIInv, NextDescent
<1> QED
  BY <1>1, <1>2, PTL DEF Spec

\* The two invariants of the producer, together.
THEOREM ProducerInvariant == Spec => []ProducerIInv
<1>1. IInv /\ DescentIInv => ProducerIInv
  BY DEF ProducerIInv
<1> QED
  BY <1>1, Inductive, DescentInvariant, PTL

\* Every step of a run lessens what it has left, for any file, queue and number of
\* attempts: publish_batch never starts over for ever.
THEOREM RunIsBounded == Spec => RunDescends
<1>1. IInv /\ DescentIInv /\ [Next]_vars
        => [Running => UNCHANGED <<pc, progress>> \/ Descends]_vars
  BY NextDescent
<1> QED
  BY <1>1, Inductive, DescentInvariant, PTL DEF Spec, RunDescends
=============================================================================
