------------------------------- MODULE LagMonitor -------------------------------
(***************************************************************************)
(* LagMonitorLoop and KafkaLagMonitor: a daemon thread of the consumer     *)
(* process that polls the broker every interval_seconds and publishes the  *)
(* lag of the consumer group.                                              *)
(*                                                                         *)
(* The topic and the group are external: messages are appended, expire by  *)
(* retention and are acknowledged while a poll makes its requests one      *)
(* after the other. The monitor's own group.id is not the consumers', so a *)
(* poll changes nothing there.                                             *)
(***************************************************************************)
EXTENDS Integers, Functions

CONSTANTS
  Partitions,  \* the partitions of the trips topic
  MaxMessages, \* bound of the model: messages of the topic
  MaxExpired   \* bound of the model: messages that expire

ASSUME LagAssumption == MaxMessages \in Nat /\ MaxExpired \in Nat

VARIABLES
  low,            \* the oldest offset that retention has left, per partition
  high,           \* the high watermark
  committed,      \* the offset the group has committed, or NoOffset
  thread,         \* where the thread is
  stop,           \* _stop_event
  todo,           \* the partitions whose watermark the poll has not read yet
  lags,           \* what the poll has gathered
  partitionLags,  \* _partition_lags: what the last poll that succeeded has gathered
  closed,         \* the monitor's consumer has been closed
  uncaught,       \* an exception has left poll() while it was open (history)
  heldAtRead,     \* the backlog when the poll read the committed offsets (history)
  heldThen        \* the same for the poll of partitionLags (history)

topicVars == <<low, high, committed>>
pollVars == <<todo, lags, heldAtRead>>
publishedVars == <<partitionLags, heldThen>>
threadVars == <<thread, pollVars, publishedVars, uncaught>>
lagVars == <<topicVars, threadVars, stop, closed>>

NoOffset == -1001

Larger(a, b) == IF a < b THEN b ELSE a

NoLags == [p \in Partitions |-> [current |-> 0, committed |-> NoOffset]]
NoBacklog == [p \in Partitions |-> 0]

LagInit ==
  /\ low = NoBacklog /\ high = NoBacklog
  /\ committed = [p \in Partitions |-> NoOffset]
  /\ thread = "new" /\ stop = FALSE /\ closed = FALSE /\ uncaught = FALSE
  /\ todo = {} /\ lags = NoLags /\ partitionLags = NoLags
  /\ heldAtRead = NoBacklog /\ heldThen = NoBacklog

\* What a process starts with.
LagReset ==
  /\ thread' = "new" /\ stop' = FALSE /\ closed' = FALSE /\ uncaught' = FALSE
  /\ todo' = {} /\ lags' = NoLags /\ partitionLags' = NoLags
  /\ heldAtRead' = NoBacklog /\ heldThen' = NoBacklog

-----------------------------------------------------------------------------
(* The topic. *)

Append(p) ==
  /\ SumFunction(high) < MaxMessages
  /\ high' = [high EXCEPT ![p] = @ + 1]
  /\ UNCHANGED <<low, committed, threadVars, stop, closed>>

Expire(p) ==
  /\ low[p] < high[p] /\ SumFunction(low) < MaxExpired
  /\ low' = [low EXCEPT ![p] = @ + 1]
  /\ UNCHANGED <<high, committed, threadVars, stop, closed>>

GroupCommits(p) ==
  /\ \E n \in 1 .. high[p] : n > committed[p] /\ committed' = [committed EXCEPT ![p] = n]
  /\ UNCHANGED <<low, high, threadVars, stop, closed>>

\* The messages of a partition that the group still has to read.
Backlog(p) == high[p] - Larger(low[p], committed[p])

-----------------------------------------------------------------------------
(* The thread. *)

\* What a poll has gathered is gone when it is over.
Forget == todo' = {} /\ lags' = NoLags /\ heldAtRead' = NoBacklog

\* Mutant: a group that has never committed has no lag.
MutantLag(current, offset) == IF offset < 0 THEN 0 ELSE Larger(0, current - offset)

\* PartitionLag.lag: without a committed offset the whole partition is lag.
Lag(current, offset) == IF offset < 0 THEN current ELSE Larger(0, current - offset)

\* The gauge kafka_consumer_lag of a partition, after the last poll that succeeded.
GaugeOf(p) == Lag(partitionLags[p].current, partitionLags[p].committed)

\* _stop_event.wait(interval_seconds): a timeout is the next poll.
Wake ==
  /\ thread = "wait"
  /\ thread' = IF stop THEN "ended" ELSE "list"
  /\ UNCHANGED <<topicVars, pollVars, publishedVars, stop, closed, uncaught>>

ListTopic ==
  /\ thread = "list"
  /\ thread' = "offsets"
  /\ UNCHANGED <<topicVars, pollVars, publishedVars, stop, closed, uncaught>>

\* Before the topic is created: there is no partition to ask for.
TopicUnknown ==
  /\ thread = "list"
  /\ high = NoBacklog
  /\ thread' = "wait"
  /\ partitionLags' = NoLags /\ heldThen' = NoBacklog
  /\ UNCHANGED <<topicVars, pollVars, stop, closed, uncaught>>

ReadCommitted ==
  /\ thread = "offsets"
  /\ thread' = "marks"
  /\ todo' = Partitions
  /\ lags' = [p \in Partitions |-> [current |-> 0, committed |-> committed[p]]]
  /\ heldAtRead' = [p \in Partitions |-> Backlog(p)]
  /\ UNCHANGED <<topicVars, publishedVars, stop, closed, uncaught>>

\* get_watermark_offsets(), one partition after the other, by the consumer that
\* LagMonitorLoop.shutdown() closes.
ReadWatermark(p) ==
  /\ thread = "marks" /\ p \in todo /\ ~closed
  /\ lags' = [lags EXCEPT ![p].current = high[p]]
  /\ todo' = todo \ {p}
  /\ UNCHANGED <<thread, topicVars, publishedVars, heldAtRead, stop, closed, uncaught>>

\* A poll that has read everything is published, and the thread waits again.
Publish ==
  /\ thread = "marks" /\ todo = {}
  /\ partitionLags' = lags /\ heldThen' = heldAtRead
  /\ thread' = "wait"
  /\ Forget
  /\ UNCHANGED <<topicVars, stop, closed, uncaught>>

Polling == thread \in {"list", "offsets", "marks"}
Asking == Polling /\ ~(thread = "marks" /\ todo = {})

\* Mutant: poll() lets the exception out.
MutantKafkaError ==
  /\ Asking
  /\ thread' = "ended"
  /\ Forget
  /\ UNCHANGED <<topicVars, publishedVars, stop, closed, uncaught>>

\* A request raises KafkaException: poll() logs it, the gauge stays.
KafkaError ==
  /\ Asking
  /\ thread' = "wait"
  /\ Forget
  /\ UNCHANGED <<topicVars, publishedVars, stop, closed, uncaught>>

\* Any other exception (the TimeoutError of future.result(timeout=10)) leaves
\* poll() and _run().
OtherError ==
  /\ Asking
  /\ thread' = "ended"
  /\ uncaught' = TRUE
  /\ Forget
  /\ UNCHANGED <<topicVars, publishedVars, stop, closed>>

\* A closed consumer raises RuntimeError.
ClosedError ==
  /\ thread = "marks" /\ todo # {} /\ closed
  /\ thread' = "ended"
  /\ Forget
  /\ UNCHANGED <<topicVars, publishedVars, stop, closed, uncaught>>

ThreadStep ==
  \/ Wake \/ ListTopic \/ TopicUnknown \/ ReadCommitted
  \/ \E p \in Partitions : ReadWatermark(p)
  \/ Publish \/ ClosedError

-----------------------------------------------------------------------------
(* Properties. *)

PartitionLag == [current : Nat, committed : Nat \cup {NoOffset}]

LagTypeOK ==
  /\ low \in [Partitions -> Nat] /\ high \in [Partitions -> Nat]
  /\ committed \in [Partitions -> Nat \cup {NoOffset}]
  /\ thread \in {"new", "wait", "list", "offsets", "marks", "ended"}
  /\ stop \in BOOLEAN /\ closed \in BOOLEAN /\ uncaught \in BOOLEAN
  /\ todo \subseteq Partitions
  /\ lags \in [Partitions -> PartitionLag] /\ partitionLags \in [Partitions -> PartitionLag]
  /\ heldAtRead \in [Partitions -> Nat] /\ heldThen \in [Partitions -> Nat]

\* What the gauge is made of brackets the truth, although the requests of a
\* poll are not made at one instant and the group and the producers go on:
\* a partition's lag is at least the backlog at the time the committed offsets
\* were read, and at most the distance, in offsets, from there to the end the log
\* has now. (Offsets, not messages: those that have expired are in it, since
\* lag is computed without the low watermark.)
GaugeBracketed ==
  \A p \in Partitions :
    /\ heldThen[p] <= GaugeOf(p)
    /\ GaugeOf(p) <= high[p] - Larger(0, partitionLags[p].committed)

\* The inductive invariant: the log goes forward only, and the poll under way
\* brackets the truth already, for the partitions it has asked about with what
\* it has read and for the others with what it will read.
LogInOrder == \A p \in Partitions : low[p] <= high[p] /\ committed[p] <= high[p]

ReadSoFar(p) == IF p \in todo THEN high[p] ELSE lags[p].current

PollBrackets ==
  thread = "marks" =>
    \A p \in Partitions :
      /\ ReadSoFar(p) <= high[p]
      /\ lags[p].committed <= ReadSoFar(p)
      /\ heldAtRead[p] <= Lag(ReadSoFar(p), lags[p].committed)

LagIInv ==
  /\ LagTypeOK
  /\ GaugeBracketed
  /\ LogInOrder
  /\ PollBrackets
=============================================================================
