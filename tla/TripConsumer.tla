----------------------------- MODULE TripConsumer -----------------------------
(***************************************************************************)
(* The consumer side of the pipeline: the processes of                     *)
(* etl/entrypoints/consumer.py, all in one Kafka consumer group, that read *)
(* the trips topic, accumulate rows into batches, insert each batch into   *)
(* ClickHouse and commit the Kafka offsets only after the insert.          *)
(*                                                                         *)
(* The group coordinator, the topic and the ClickHouse table are external; *)
(* they are modelled by what the code relies on:                           *)
(*   - a group member reads every partition assigned to it from the        *)
(*     committed offset, and keeps reading after the group has fenced it   *)
(*     until it rejoins;                                                   *)
(*   - the assignment is eager (the client's default): when a member joins *)
(*     or leaves, every other one gives up all its partitions in its next  *)
(*     poll(), and they are handed out again once all have;                *)
(*   - a commit covers the positions of the current assignment, is         *)
(*     rejected when the group has fenced the caller, and raises when the  *)
(*     assignment has no offset newer than the committed one;              *)
(*   - taxi.trips is a ReplacingMergeTree: a trip inserted twice is one    *)
(*     row of the merged table, but both rows feed the materialized views. *)
(***************************************************************************)
EXTENDS Naturals, FiniteSets, SequencesExt

CONSTANTS
  Consumers,    \* the consumer processes of the group
  Partitions,   \* the partitions of the trips topic
  Trips,        \* trips, identified by trip_id
  Poison,       \* valid trips whose row the table's columns cannot take: a location
                \* above UInt16 or an amount above Decimal(9, 2) (TripDomain)
  Junk,         \* a message the serializer cannot decode (or a tombstone)
  KeyPartition, \* the partition of each trip: messages are keyed by trip_id
  BatchSize,    \* kafka.batch_size: rows that force a flush
  MaxAttempts,  \* RetryConfig.CLICKHOUSE_INSERT max_attempts
  MaxLog,       \* bound of the model: messages on the topic
  MaxRows,      \* bound of the model: how far the views' rows of a trip are counted
  FaultBudgets  \* bound of the model: which kinds of fault may strike, how often

FaultKinds == {"sigterm", "crash", "fence", "insert", "commit", "fatal"}

ASSUME ConstantsAssumption ==
  /\ Poison \subseteq Trips
  /\ Junk \notin Trips
  /\ KeyPartition \in [Trips -> Partitions]
  /\ BatchSize \in Nat \ {0}
  /\ MaxAttempts \in Nat \ {0}
  /\ MaxLog \in Nat
  /\ MaxRows \in Nat /\ MaxRows > MaxLog
  /\ FaultBudgets \subseteq [kinds: SUBSET FaultKinds, left: Nat]

VARIABLES
  log,        \* the messages of each partition, never removed
  committed,  \* the group's committed offset of each partition
  stored,     \* the trips of the merged table (SELECT ... FINAL)
  viewRows,   \* rows of each trip the materialized views have counted
  member,     \* whether the group counts the consumer as a live member
  assigned,   \* the partitions the consumer's client reads
  position,   \* the next offset the client returns, per assigned partition
  revoking,   \* the members that a rebalance under way is still waiting for
  traded,     \* history: the trips a consumer held when it gave up its partitions
  pc,         \* the control point of main() and consume_batches()
  acc,        \* the rows of the BatchAccumulator
  batch,      \* the rows of the batch that is being persisted
  attempt,    \* the attempt number of the insert (retry decorator)
  shutdown,   \* ShutdownHandler.is_shutdown_requested
  draining,   \* the generator is in its finally block
  faults      \* the faults that may still strike this behaviour

kafkaVars  == <<log, committed>>
storeVars  == <<stored, viewRows>>
groupVars  == <<member, assigned, position, revoking, traded>>
batchVars  == <<acc, batch, attempt>>
vars == <<kafkaVars, storeVars, groupVars, pc, batchVars, shutdown, draining, faults>>

Message == Trips \cup {Junk}

\* The control points of one process.
\*   loop     at the head of "while not shutdown_handler.is_shutdown_requested"
\*   polling  inside poll(timeout=1.0)
\*   polled   before accumulator.should_flush()
\*   insert   in save_batch_from_dicts, inside the retry decorator
\*   commit   before consumer_adapter.commit()
\*   closing  the generator has ended; lifecycle.shutdown() is next
\*   down     no process runs
ControlPoints == {"loop", "polling", "polled", "insert", "commit", "closing", "down"}

Running(c) == pc[c] \notin {"closing", "down"}

Fault(kind) ==
  /\ kind \in faults.kinds
  /\ faults.left > 0
  /\ faults' = [faults EXCEPT !.left = @ - 1]

Init ==
  /\ log = [p \in Partitions |-> <<>>]
  /\ committed = [p \in Partitions |-> 0]
  /\ stored = {}
  /\ viewRows = [t \in Trips |-> 0]
  /\ member = [c \in Consumers |-> FALSE]
  /\ assigned = [c \in Consumers |-> {}]
  /\ position = [c \in Consumers |-> [p \in Partitions |-> 0]]
  /\ revoking = {}
  /\ traded = {}
  /\ pc = [c \in Consumers |-> "down"]
  /\ acc = [c \in Consumers |-> <<>>]
  /\ batch = [c \in Consumers |-> <<>>]
  /\ attempt = [c \in Consumers |-> 0]
  /\ shutdown = [c \in Consumers |-> FALSE]
  /\ draining = [c \in Consumers |-> FALSE]
  /\ faults \in FaultBudgets

-----------------------------------------------------------------------------
(* The producer, as the consumer sees it: messages arrive. *)

Produce(p, m) ==
  /\ SumFunction([q \in Partitions |-> Len(log[q])]) < MaxLog
  /\ m \in Trips => p = KeyPartition[m]
  /\ log' = [log EXCEPT ![p] = Append(@, m)]
  /\ UNCHANGED <<committed, storeVars, groupVars, pc, batchVars, shutdown, draining, faults>>

-----------------------------------------------------------------------------
(* The consumer group. *)

\* The membership changes with c: every other member is to give up what it has.
Rebalance(c) == revoking' = {d \in Consumers \ {c} : member[d] /\ assigned[d] # {}}

Members == {c \in Consumers : member[c]}

Share(owner, c) == {p \in Partitions : owner[p] = c}

\* The shares of the default assignor differ by one partition at most.
Balanced(owner) ==
  \A c, d \in Members : Cardinality(Share(owner, c)) <= Cardinality(Share(owner, d)) + 1

\* Once all have, the coordinator shares the partitions out among the members,
\* who start to read them at the committed offsets (auto.offset.reset: earliest).
Assign ==
  /\ revoking = {}
  /\ \A c \in Members : Running(c) /\ assigned[c] = {}
  /\ \E owner \in [Partitions -> Members] :
       /\ Balanced(owner)
       /\ assigned' = [c \in Consumers |-> IF member[c] THEN Share(owner, c) ELSE assigned[c]]
       /\ position' = [c \in Consumers |-> [p \in Partitions |->
                         IF member[c] /\ owner[p] = c THEN committed[p] ELSE position[c][p]]]
  /\ UNCHANGED <<kafkaVars, storeVars, member, revoking, traded, pc, batchVars, shutdown, draining, faults>>

\* poll() serves the rebalance: the client gives up its whole assignment. The
\* rows that are already accumulated stay where they are: the adapter
\* subscribes without a revocation callback.
Revoke(c) ==
  /\ pc[c] = "polling" /\ c \in revoking
  /\ revoking' = revoking \ {c}
  /\ assigned' = [assigned EXCEPT ![c] = {}]
  /\ position' = [position EXCEPT ![c] = [p \in Partitions |-> 0]]
  /\ traded' = traded \cup ToSet(acc[c])
  /\ UNCHANGED <<kafkaVars, storeVars, member, pc, batchVars, shutdown, draining, faults>>

\* session.timeout.ms or max.poll.interval.ms expires: the coordinator drops
\* the member, whose client does not know it yet.
Fence(c) ==
  /\ Fault("fence")
  /\ member[c] /\ Running(c)
  /\ member' = [member EXCEPT ![c] = FALSE]
  /\ Rebalance(c)
  /\ UNCHANGED <<kafkaVars, storeVars, assigned, position, traded, pc, batchVars, shutdown, draining>>

\* The session of a dead process expires.
SessionTimeout(c) ==
  /\ member[c] /\ pc[c] = "down"
  /\ member' = [member EXCEPT ![c] = FALSE]
  /\ assigned' = [assigned EXCEPT ![c] = {}]
  /\ Rebalance(c)
  /\ UNCHANGED <<kafkaVars, storeVars, position, traded, pc, batchVars, shutdown, draining, faults>>

\* A fenced client learns of it, gives up its assignment and joins again.
Rejoin(c) ==
  /\ ~member[c] /\ Running(c)
  /\ member' = [member EXCEPT ![c] = TRUE]
  /\ assigned' = [assigned EXCEPT ![c] = {}]
  /\ position' = [position EXCEPT ![c] = [p \in Partitions |-> 0]]
  /\ Rebalance(c)
  /\ UNCHANGED <<kafkaVars, storeVars, traded, pc, batchVars, shutdown, draining, faults>>

-----------------------------------------------------------------------------
(* The process: start, signals, crash and close. *)

\* startup("consumer") builds the adapter, which subscribes, and main enters
\* consume_batches: the group gets one more member.
Start(c) ==
  /\ pc[c] = "down" /\ ~member[c]
  /\ pc' = [pc EXCEPT ![c] = "loop"]
  /\ member' = [member EXCEPT ![c] = TRUE]
  /\ assigned' = [assigned EXCEPT ![c] = {}]
  /\ Rebalance(c)
  /\ UNCHANGED <<kafkaVars, storeVars, position, traded, batchVars, shutdown, draining, faults>>

\* SIGTERM or SIGINT: ShutdownHandler sets the flag, at any control point.
RequestShutdown(c) ==
  /\ Fault("sigterm")
  /\ Running(c) /\ ~shutdown[c]
  /\ shutdown' = [shutdown EXCEPT ![c] = TRUE]
  /\ UNCHANGED <<kafkaVars, storeVars, groupVars, pc, batchVars, draining>>

\* The memory of a process that has ended.
ForgetProcess(c) ==
  /\ pc' = [pc EXCEPT ![c] = "down"]
  /\ acc' = [acc EXCEPT ![c] = <<>>]
  /\ batch' = [batch EXCEPT ![c] = <<>>]
  /\ attempt' = [attempt EXCEPT ![c] = 0]
  /\ shutdown' = [shutdown EXCEPT ![c] = FALSE]
  /\ draining' = [draining EXCEPT ![c] = FALSE]
  /\ position' = [position EXCEPT ![c] = [p \in Partitions |-> 0]]

\* The process is killed. The group keeps it until its session expires.
Crash(c) ==
  /\ Fault("crash")
  /\ pc[c] # "down"
  /\ ForgetProcess(c)
  /\ UNCHANGED <<kafkaVars, storeVars, member, assigned, revoking, traded>>

\* Mutant: close() commits the positions first, as its docstring says.
MutantClose(c) ==
  /\ pc[c] = "closing"
  /\ ForgetProcess(c)
  /\ member' = [member EXCEPT ![c] = FALSE]
  /\ assigned' = [assigned EXCEPT ![c] = {}]
  /\ committed' = [p \in Partitions |->
                     IF member[c] /\ p \in assigned[c] THEN position[c][p] ELSE committed[p]]
  /\ IF member[c] THEN Rebalance(c) ELSE UNCHANGED revoking
  /\ UNCHANGED <<log, storeVars, traded, faults>>

\* lifecycle.shutdown() closes the adapter: it leaves the group, which goes on
\* without it, and, with enable.auto.commit=false, commits nothing.
Close(c) ==
  /\ pc[c] = "closing"
  /\ ForgetProcess(c)
  /\ member' = [member EXCEPT ![c] = FALSE]
  /\ assigned' = [assigned EXCEPT ![c] = {}]
  /\ IF member[c] THEN Rebalance(c) ELSE UNCHANGED revoking
  /\ UNCHANGED <<kafkaVars, storeVars, traded, faults>>

-----------------------------------------------------------------------------
(* KafkaConsumerAdapter.consume_batches. *)

\* accumulator.flush(), yield, and main calls save_batch_from_dicts.
YieldBatch(c) ==
  /\ batch' = [batch EXCEPT ![c] = acc[c]]
  /\ acc' = [acc EXCEPT ![c] = <<>>]
  /\ attempt' = [attempt EXCEPT ![c] = 1]
  /\ pc' = [pc EXCEPT ![c] = "insert"]

\* The finally block: the rows that are left are one last batch.
LeaveLoop(c) ==
  /\ draining' = [draining EXCEPT ![c] = TRUE]
  /\ IF acc[c] # <<>>
     THEN YieldBatch(c)
     ELSE /\ pc' = [pc EXCEPT ![c] = "closing"]
          /\ UNCHANGED batchVars

\* Mutant: the loop does not look at the flag.
MutantLoopHead(c) ==
  /\ pc[c] = "loop"
  /\ pc' = [pc EXCEPT ![c] = "polling"]
  /\ UNCHANGED <<kafkaVars, storeVars, groupVars, batchVars, shutdown, draining, faults>>

LoopHead(c) ==
  /\ pc[c] = "loop"
  /\ \/ /\ ~shutdown[c]
        /\ pc' = [pc EXCEPT ![c] = "polling"]
        /\ UNCHANGED <<batchVars, draining>>
     \/ /\ shutdown[c]
        /\ LeaveLoop(c)
  /\ UNCHANGED <<kafkaVars, storeVars, groupVars, shutdown, faults>>

\* poll returns the next message of an assigned partition. A message that
\* does not decode is dropped; either way the position moves past it.
Deliver(c, p) ==
  /\ pc[c] = "polling" /\ p \in assigned[c]
  /\ position[c][p] < Len(log[p])
  /\ LET m == log[p][position[c][p] + 1]
     IN acc' = IF m = Junk THEN acc ELSE [acc EXCEPT ![c] = Append(@, m)]
  /\ position' = [position EXCEPT ![c][p] = @ + 1]
  /\ pc' = [pc EXCEPT ![c] = "polled"]
  /\ UNCHANGED <<kafkaVars, storeVars, member, assigned, revoking, traded, batch, attempt, shutdown,
                 draining, faults>>

\* poll returns None, PARTITION_EOF or a non-fatal error.
PollNothing(c) ==
  /\ pc[c] = "polling"
  /\ pc' = [pc EXCEPT ![c] = "polled"]
  /\ UNCHANGED <<kafkaVars, storeVars, groupVars, batchVars, shutdown, draining, faults>>

\* poll returns a fatal error: KafkaException leaves the loop through finally.
PollFatal(c) ==
  /\ Fault("fatal")
  /\ pc[c] = "polling"
  /\ LeaveLoop(c)
  /\ UNCHANGED <<kafkaVars, storeVars, groupVars, shutdown>>

\* Mutant: only the size threshold flushes.
MutantFlush(c) ==
  /\ pc[c] = "polled" /\ Len(acc[c]) >= BatchSize
  /\ YieldBatch(c)
  /\ UNCHANGED <<kafkaVars, storeVars, groupVars, shutdown, draining, faults>>

\* should_flush() holds by size or because max_wait_seconds have passed since
\* the last flush; an empty batch is not yielded.
Flush(c) ==
  /\ pc[c] = "polled" /\ acc[c] # <<>>
  /\ YieldBatch(c)
  /\ UNCHANGED <<kafkaVars, storeVars, groupVars, shutdown, draining, faults>>

\* Neither threshold is reached, or the flush is of an empty accumulator.
NoFlush(c) ==
  /\ pc[c] = "polled" /\ Len(acc[c]) < BatchSize
  /\ pc' = [pc EXCEPT ![c] = "loop"]
  /\ UNCHANGED <<kafkaVars, storeVars, groupVars, batchVars, shutdown, draining, faults>>

-----------------------------------------------------------------------------
(* main(): persist the batch, then commit. *)

Copies(s, t) == Cardinality({i \in DOMAIN s : s[i] = t})

AtMost(n) == IF n > MaxRows THEN MaxRows ELSE n

\* Rows of the trips in S reach taxi.trips and its views. An insert that
\* spans several monthly partitions of the table is not atomic.
Apply(c, S) ==
  /\ stored' = stored \cup S
  /\ viewRows' = [t \in Trips |->
                    AtMost(viewRows[t] + (IF t \in S THEN Copies(batch[c], t) ELSE 0))]

\* Back in the generator: the loop goes on, or its finally block ends.
Resume(c) ==
  /\ pc' = [pc EXCEPT ![c] = IF draining[c] THEN "closing" ELSE "loop"]
  /\ batch' = [batch EXCEPT ![c] = <<>>]
  /\ attempt' = [attempt EXCEPT ![c] = 0]

\* Mutant: a failed batch is logged and the loop goes on.
MutantGiveUp(c) ==
  /\ Resume(c)
  /\ UNCHANGED shutdown

\* except Exception: no commit, request_shutdown().
GiveUp(c) ==
  /\ Resume(c)
  /\ shutdown' = [shutdown EXCEPT ![c] = TRUE]

HasPoison(c) == ToSet(batch[c]) \cap Poison # {}

\* Mutant: the insert returns before its rows are durable
\* (wait_for_async_insert=0).
MutantInsertUnconfirmed(c) ==
  /\ pc[c] = "insert" /\ ~HasPoison(c)
  /\ \E S \in SUBSET ToSet(batch[c]) : Apply(c, S)
  /\ pc' = [pc EXCEPT ![c] = "commit"]
  /\ UNCHANGED <<kafkaVars, groupVars, batchVars, shutdown, draining, faults>>

\* Mutant: the last batch of a shutdown is inserted but not committed.
MutantInsertNoFinalCommit(c) ==
  /\ pc[c] = "insert" /\ ~HasPoison(c)
  /\ Apply(c, ToSet(batch[c]))
  /\ pc' = [pc EXCEPT ![c] = IF draining[c] THEN "closing" ELSE "commit"]
  /\ UNCHANGED <<kafkaVars, groupVars, batchVars, shutdown, draining, faults>>

InsertOk(c) ==
  /\ pc[c] = "insert" /\ ~HasPoison(c)
  /\ Apply(c, ToSet(batch[c]))
  /\ pc' = [pc EXCEPT ![c] = "commit"]
  /\ UNCHANGED <<kafkaVars, groupVars, batchVars, shutdown, draining, faults>>

\* Mutant: the last attempt's exception is swallowed.
MutantInsertError(c) ==
  /\ Fault("insert")
  /\ pc[c] = "insert" /\ ~HasPoison(c)
  /\ \E S \in SUBSET ToSet(batch[c]) : Apply(c, S)
  /\ IF attempt[c] < MaxAttempts
     THEN attempt' = [attempt EXCEPT ![c] = @ + 1] /\ UNCHANGED pc
     ELSE pc' = [pc EXCEPT ![c] = "commit"] /\ UNCHANGED attempt
  /\ UNCHANGED <<kafkaVars, groupVars, acc, batch, shutdown, draining>>

\* An attempt raises a ClickHouse or network error. What it had sent may
\* have been applied. The retry decorator tries again until the last attempt.
InsertError(c) ==
  /\ Fault("insert")
  /\ pc[c] = "insert" /\ ~HasPoison(c)
  /\ \E S \in SUBSET ToSet(batch[c]) : Apply(c, S)
  /\ \/ /\ attempt[c] < MaxAttempts
        /\ attempt' = [attempt EXCEPT ![c] = @ + 1]
        /\ UNCHANGED <<pc, batch, shutdown>>
     \/ /\ attempt[c] >= MaxAttempts
        /\ GiveUp(c)
  /\ UNCHANGED <<kafkaVars, groupVars, acc, draining>>

\* The batch does not convert to the types of the columns, and nothing of it is
\* applied. What the driver raises is retried like any ClickHouse error; the
\* errors of the Arrow conversion before it are not.
InsertPoison(c) ==
  /\ pc[c] = "insert" /\ HasPoison(c)
  /\ \/ /\ attempt[c] < MaxAttempts
        /\ attempt' = [attempt EXCEPT ![c] = @ + 1]
        /\ UNCHANGED <<pc, batch, shutdown>>
     \/ GiveUp(c)
  /\ UNCHANGED <<kafkaVars, storeVars, groupVars, acc, draining, faults>>

\* Partitions for which commit() has an offset to send.
Uncommitted(c) == {p \in assigned[c] : committed[p] < position[c][p]}

CommitPositions(c) ==
  committed' = [p \in Partitions |->
                  IF p \in Uncommitted(c) THEN position[c][p] ELSE committed[p]]

\* Mutant: the offsets are stored whoever asks (a consumer outside the group
\* protocol), so one that the group has fenced overwrites them.
MutantCommitOk(c) ==
  /\ pc[c] = "commit" /\ assigned[c] # {}
  /\ committed' = [p \in Partitions |->
                     IF p \in assigned[c] THEN position[c][p] ELSE committed[p]]
  /\ Resume(c)
  /\ UNCHANGED <<log, storeVars, groupVars, acc, shutdown, draining, faults>>

CommitOk(c) ==
  /\ pc[c] = "commit"
  /\ member[c] /\ Uncommitted(c) # {}
  /\ CommitPositions(c)
  /\ Resume(c)
  /\ UNCHANGED <<log, storeVars, groupVars, acc, shutdown, draining, faults>>

\* The group has fenced the caller, or its assignment has nothing to commit.
CommitRejected(c) ==
  /\ pc[c] = "commit"
  /\ ~member[c] \/ Uncommitted(c) = {}
  /\ GiveUp(c)
  /\ UNCHANGED <<kafkaVars, storeVars, groupVars, acc, draining, faults>>

\* The commit request fails, before or after the coordinator stored it.
CommitError(c) ==
  /\ Fault("commit")
  /\ pc[c] = "commit" /\ member[c]
  /\ CommitPositions(c) \/ UNCHANGED committed
  /\ GiveUp(c)
  /\ UNCHANGED <<log, storeVars, groupVars, acc, draining>>

-----------------------------------------------------------------------------

Group(c) ==
  \/ Revoke(c) \/ Fence(c) \/ SessionTimeout(c) \/ Rejoin(c)

Persist(c) ==
  \/ InsertOk(c) \/ InsertError(c) \/ InsertPoison(c)
  \/ CommitOk(c) \/ CommitRejected(c) \/ CommitError(c)

Poll(c) ==
  \/ \E p \in Partitions : Deliver(c, p)
  \/ PollNothing(c) \/ PollFatal(c)

Process(c) ==
  \/ Start(c) \/ RequestShutdown(c) \/ Crash(c) \/ Close(c)
  \/ LoopHead(c) \/ Poll(c) \/ Flush(c) \/ NoFlush(c) \/ Persist(c)

Next ==
  \/ \E p \in Partitions, m \in Message : Produce(p, m)
  \/ Assign
  \/ \E c \in Consumers : Group(c) \/ Process(c)

Spec == Init /\ [][Next]_vars

\* What the running system guarantees. A process that is up takes its next
\* step: poll returns within a second, inserts and commits return or raise.
\* A supervisor restarts a consumer that has ended; the group expires dead
\* sessions and completes rebalances. Strong fairness: poll does not
\* ignore an assigned partition that has messages, or a rebalance, for ever, and
\* a loop that keeps running sees max_wait_seconds pass.
Fairness ==
  /\ \A c \in Consumers :
       /\ WF_vars(LoopHead(c) \/ Poll(c) \/ Flush(c) \/ NoFlush(c) \/ Persist(c) \/ Close(c))
       /\ WF_vars(Start(c)) /\ WF_vars(SessionTimeout(c)) /\ WF_vars(Rejoin(c))
       /\ SF_vars(Flush(c)) /\ SF_vars(Revoke(c))
       /\ \A p \in Partitions : SF_vars(Deliver(c, p))
  /\ WF_vars(Assign)

FairSpec == Spec /\ Fairness

-----------------------------------------------------------------------------
(* Properties. *)

TypeOK ==
  /\ log \in [Partitions -> Seq(Message)]
  /\ committed \in [Partitions -> Nat]
  /\ stored \subseteq Trips
  /\ viewRows \in [Trips -> Nat]
  /\ member \in [Consumers -> BOOLEAN]
  /\ assigned \in [Consumers -> SUBSET Partitions]
  /\ position \in [Consumers -> [Partitions -> Nat]]
  /\ revoking \subseteq Consumers
  /\ traded \subseteq Trips
  /\ pc \in [Consumers -> ControlPoints]
  /\ acc \in [Consumers -> Seq(Trips)]
  /\ batch \in [Consumers -> Seq(Trips)]
  /\ attempt \in [Consumers -> Nat]
  /\ shutdown \in [Consumers -> BOOLEAN]
  /\ draining \in [Consumers -> BOOLEAN]
  /\ faults \in [kinds: SUBSET FaultKinds, left: Nat]

Published(t) == \E p \in Partitions : \E i \in DOMAIN log[p] : log[p][i] = t

\* No trip is lost. Every decodable message below the committed offset of its
\* partition is in the table: "offset advances only here -- after confirmed
\* insert". Crashes, rebalances, zombie members and failed inserts included.
NoLoss ==
  \A p \in Partitions : \A i \in 1 .. Len(log[p]) :
    i <= committed[p] => log[p][i] \in stored \cup {Junk}

\* The consumer may still reach commit() with what it has read.
MayCommit(c) ==
  member[c] /\ Running(c) /\ ~(pc[c] = "loop" /\ shutdown[c] /\ acc[c] = <<>>)

\* Nothing a consumer has read past the committed offset has been forgotten
\* while it can still commit: the rows are in its accumulator, in the batch
\* being persisted, or in the table. This is what makes commit(), which
\* commits positions and not rows, safe after a failed insert, a revocation
\* or a shutdown.
ReadAheadHeld ==
  \A c \in Consumers : MayCommit(c) =>
    \A p \in assigned[c] : \A i \in 1 .. Len(log[p]) :
      committed[p] < i /\ i <= position[c][p] =>
        log[p][i] \in ToSet(acc[c]) \cup ToSet(batch[c]) \cup stored \cup {Junk}

\* The invariant that is inductive: the two above, and what they rest on.
ExclusiveOwner ==
  \A c, d \in Consumers :
    c # d /\ member[c] /\ member[d] => assigned[c] \cap assigned[d] = {}

OffsetBounds ==
  /\ \A p \in Partitions : committed[p] <= Len(log[p])
  /\ \A c \in Consumers : \A p \in assigned[c] :
       /\ position[c][p] <= Len(log[p])
       /\ member[c] /\ Running(c) => committed[p] <= position[c][p]

RowsPublished ==
  \A c \in Consumers : \A t \in ToSet(acc[c]) \cup ToSet(batch[c]) : Published(t)

BatchControl ==
  \A c \in Consumers :
    /\ pc[c] \in {"insert", "commit"} => acc[c] = <<>>
    /\ pc[c] \notin {"insert", "commit"} => batch[c] = <<>>
    /\ pc[c] = "commit" => ToSet(batch[c]) \subseteq stored

IInv ==
  /\ TypeOK
  /\ NoLoss
  /\ ReadAheadHeld
  /\ ExclusiveOwner
  /\ OffsetBounds
  /\ RowsPublished
  /\ BatchControl

\* While consumers only join, are stopped gracefully and run into poison, the
\* one way a trip is counted more often than it is on the topic is a rebalance
\* that finds its row in an accumulator: the consumer that held it inserts it,
\* and so does the next owner of the partition. A graceful stop alone counts
\* nothing twice: the last rows are flushed, inserted and committed.
TwiceOnlyIfTraded ==
  faults.kinds \subseteq {"sigterm"} =>
    \A t \in Trips \ traded : viewRows[t] <= Copies(log[KeyPartition[t]], t)

\* What it rests on: messages are where their key puts them; a consumer is in
\* the group for as long as it runs, and holds rows of the partitions it reads,
\* or traded ones; what it has read covers the rows that are counted and those
\* it still holds; and the committed offset covers those that are counted, but
\* between an insert and its commit.
CopiesUpTo(s, n, t) == Cardinality({i \in DOMAIN s : i <= n /\ s[i] = t})

KeyedMessages ==
  \A p \in Partitions : \A i \in DOMAIN log[p] :
    log[p][i] \in Trips => KeyPartition[log[p][i]] = p

HoldsOwnRows ==
  \A c \in Consumers :
    /\ member[c] <=> pc[c] # "down"
    /\ pc[c] = "down" => assigned[c] = {} /\ acc[c] = <<>>
    /\ \A t \in ToSet(acc[c]) \cup ToSet(batch[c]) : KeyPartition[t] \in assigned[c] \/ t \in traded

\* The rows of a trip that the consumer has read and has yet to insert.
Pending(c, t) ==
  Copies(acc[c], t) + (IF pc[c] = "insert" THEN Copies(batch[c], t) ELSE 0)

ReadCovers ==
  \A c \in Consumers, t \in Trips \ traded :
    LET p == KeyPartition[t]
    IN p \in assigned[c] =>
         viewRows[t] + Pending(c, t) <= CopiesUpTo(log[p], position[c][p], t)

CommittedCovers ==
  \A t \in Trips \ traded :
    LET p == KeyPartition[t]
    IN (\A c \in Consumers : p \in assigned[c] => pc[c] # "commit") =>
         viewRows[t] <= CopiesUpTo(log[p], committed[p], t)

GracefulIInv ==
  faults.kinds \subseteq {"sigterm"} =>
    KeyedMessages /\ HoldsOwnRows /\ ReadCovers /\ CommittedCovers

\* The committed offset of a partition never goes back, not even when a
\* fenced consumer that is behind the current owner commits.
CommittedMonotonic ==
  [][\A p \in Partitions : committed[p] <= committed'[p]]_committed

\* The group as a whole, seen through its topic, its offsets and the table,
\* is the abstract delivery of TripDelivery: at least once, acknowledged
\* only when stored.
Delivery == INSTANCE TripDelivery WITH log <- log, committed <- committed, stored <- stored
DeliversTrips == Delivery!Spec

\* Every trip that is published is in the table in the end, whatever finitely
\* many faults strike the consumers, as long as no row is poison and rebalances
\* come to an end. (They need not: commit() raises in a consumer that has just
\* lost its partitions, so it ends, and its leaving is the next rebalance.)
EventuallyStored ==
  Poison = {} /\ <>[](revoking = {}) => \A t \in Trips : Published(t) ~> t \in stored

\* A consumer asked to stop does stop: the flag is looked at every second,
\* the retries of an insert are bounded, and the loop never starts over.
ShutdownCompletes ==
  \A c \in Consumers : shutdown[c] ~> pc[c] = "down"

\* Why it does: the process has a bounded number of steps left, and each of them
\* leaves fewer. In the loop that is the rest of this round, with its batch
\* persisted, and then the last batch; each batch has its attempts.
AfterBatch(c) == IF draining[c] THEN 1 ELSE MaxAttempts + 3

StepsLeft(c) ==
  CASE pc[c] = "down"    -> 0
    [] pc[c] = "closing" -> 1
    [] pc[c] = "commit"  -> AfterBatch(c) + 1
    [] pc[c] = "insert"  -> AfterBatch(c) + 1 + (MaxAttempts + 1 - attempt[c])
    [] pc[c] = "loop"    -> MaxAttempts + 3
    [] pc[c] = "polled"  -> 2 * MaxAttempts + 5
    [] pc[c] = "polling" -> 2 * MaxAttempts + 6

\* The flag is never taken back, no fault starts the round again, and nobody
\* else's step delays the shutdown.
ShutdownDescends ==
  [][\A c \in Consumers : shutdown[c] =>
       /\ shutdown'[c] \/ pc'[c] = "down"
       /\ StepsLeft(c)' <= StepsLeft(c)
       /\ pc'[c] # pc[c] \/ attempt'[c] # attempt[c] => StepsLeft(c)' < StepsLeft(c)]_vars

\* What it rests on: an insert is within its attempts, a consumer that drains is
\* past its loop, and the flag does not outlive the process. A shutdown is over
\* after 2 * MaxAttempts + 6 steps of the process.
DescentIInv ==
  \A c \in Consumers :
    /\ pc[c] = "insert" => attempt[c] \in 1 .. MaxAttempts
    /\ draining[c] => pc[c] \in {"insert", "commit", "closing"}
    /\ shutdown[c] => pc[c] # "down"
    /\ StepsLeft(c) \in 0 .. 2 * MaxAttempts + 6

\* The three invariants together.
ConsumerIInv == IInv /\ GracefulIInv /\ DescentIInv

\* architecture.md: the views of a trip that "arrives twice" after a restart
\* are said to give deduplicated counts.
ViewsDeduplicated == \A t \in Trips : viewRows[t] <= 1

\* replay_strategy.md lists a failed insert (stage PERSIST) among what is
\* dead-lettered: a row that cannot be inserted would leave the stream, and
\* the valid trips around it would be stored.
PersistFailureIsIsolated ==
  \A t \in Trips \ Poison : Published(t) ~> t \in stored
=============================================================================
