----------------------------- MODULE ConsumerProcess -----------------------------
(***************************************************************************)
(* The life of a consumer process: startup("consumer") of lifecycle.py, the *)
(* lag monitor thread it starts (LagMonitor), the consume loop, and the     *)
(* finally block of main() that stops the thread and calls shutdown().      *)
(*                                                                         *)
(* What the loop does with batches is TripConsumer's; here it goes on until *)
(* the flag is set or it raises.                                            *)
(***************************************************************************)
EXTENDS LagMonitor

CONSTANT MaxFaults   \* bound of the model: what raises, and kills

ASSUME ProcessAssumption == MaxFaults \in Nat

VARIABLES
  point,       \* where main() is
  components,  \* startup() has returned
  looping,     \* lag_monitor_loop has been set
  open,        \* the resources that are open
  closing,     \* the resources whose closing method has been called
  flag,        \* ShutdownHandler: shutdown is requested
  code,        \* the exit code of the process
  overrun,     \* the join of the thread has timed out (history)
  faults

mainVars == <<point, components, looping, open, closing, flag, code, overrun>>
processVars == <<lagVars, mainVars, faults>>

Resources == {"clickhouse", "consumer", "metrics", "monitor"}

Killed == 137

\* What the step of a point opens when it succeeds, and the point behind it.
\* (Loading the zones opens nothing.)
Opens ==
  [ping |-> {"clickhouse"}, zones |-> {}, kafka |-> {"consumer"}, metrics |-> {"metrics"},
   wire |-> {"monitor"}, start |-> {}]
After ==
  [ping |-> "zones", zones |-> "kafka", kafka |-> "metrics", metrics |-> "wire",
   wire |-> "start", start |-> "consume"]
StartPoints == DOMAIN Opens

\* shutdown(components): what each step closes, and the point behind it.
Closes == [closeConsumer |-> "consumer", closeClickHouse |-> "clickhouse", stopMetrics |-> "metrics"]
Then == [closeConsumer |-> "closeClickHouse", closeClickHouse |-> "stopMetrics", stopMetrics |-> "exited"]
ClosePoints == DOMAIN Closes

Points == StartPoints \cup {"consume", "finally", "join"} \cup ClosePoints \cup {"stuck", "exited"}

ProcessInit ==
  /\ LagInit
  /\ point = "exited" /\ code = 0
  /\ components = FALSE /\ looping = FALSE
  /\ open = {} /\ closing = {}
  /\ flag = FALSE /\ overrun = FALSE
  /\ faults = 0

Fault ==
  /\ faults < MaxFaults
  /\ faults' = faults + 1

StartProcess ==
  /\ point = "exited"
  /\ point' = "ping" /\ code' = 0
  /\ components' = FALSE /\ looping' = FALSE
  /\ open' = {} /\ closing' = {}
  /\ flag' = FALSE /\ overrun' = FALSE
  /\ LagReset
  /\ UNCHANGED <<topicVars, faults>>

-----------------------------------------------------------------------------
(* startup(), and what main() does before the loop. *)

StartupStep ==
  /\ point \in StartPoints
  /\ point' = After[point]
  /\ open' = open \cup Opens[point]
  /\ components' = (components \/ point = "metrics")
  /\ looping' = (looping \/ point = "wire")
  /\ thread' = IF point = "start" THEN "wait" ELSE thread
  /\ UNCHANGED <<topicVars, pollVars, publishedVars, uncaught, stop, closed, closing, flag, code, overrun, faults>>

\* The step raises: main() logs it, and its finally block closes what it knows.
StartupError ==
  /\ Fault
  /\ point \in StartPoints
  /\ point' = "finally" /\ code' = 1
  /\ UNCHANGED <<lagVars, components, looping, open, closing, flag, overrun>>

-----------------------------------------------------------------------------
(* The loop. *)

\* Event.set() of the flag. The lock it holds is not reentrant: a signal that
\* comes in the middle of it runs its handler in the same thread, which calls
\* set() again and waits for itself.
SetFlag ==
  /\ flag' = TRUE
  /\ point' \in {point, "stuck"}

\* SIGTERM or SIGINT, at any time and more than once: during startup it is only
\* remembered.
Signal ==
  /\ point \notin {"stuck", "exited"}
  /\ SetFlag
  /\ UNCHANGED <<lagVars, components, looping, open, closing, code, overrun, faults>>

\* The except branch of a batch: the insert or the commit has failed.
BatchError ==
  /\ Fault
  /\ point = "consume"
  /\ SetFlag
  /\ UNCHANGED <<lagVars, components, looping, open, closing, code, overrun>>

\* consume_batches() raises.
LoopError ==
  /\ Fault
  /\ point = "consume"
  /\ point' = "finally" /\ code' = 1
  /\ UNCHANGED <<lagVars, components, looping, open, closing, flag, overrun>>

\* Mutant: the loop ends with the messages, not with the flag.
MutantLoopEnds ==
  /\ point = "consume" /\ flag
  /\ \A p \in Partitions : Backlog(p) = 0
  /\ point' = "finally"
  /\ UNCHANGED <<lagVars, components, looping, open, closing, flag, code, overrun, faults>>

\* The flag is seen at the head of the loop; the last batch has been persisted
\* or given up (TripConsumer).
LoopEnds ==
  /\ point = "consume" /\ flag
  /\ point' = "finally"
  /\ UNCHANGED <<lagVars, components, looping, open, closing, flag, code, overrun, faults>>

-----------------------------------------------------------------------------
(* The finally block. *)

Finally ==
  /\ point = "finally"
  /\ \/ /\ looping
        /\ stop' = TRUE
        /\ point' = "join"
     \/ /\ ~looping
        /\ point' = IF components THEN "closeConsumer" ELSE "exited"
        /\ UNCHANGED stop
  /\ UNCHANGED <<topicVars, threadVars, closed, components, looping, open, closing, flag, code, overrun, faults>>

\* Mutant: the monitor is closed before the thread is joined.
MutantJoinThread ==
  /\ point = "join" /\ thread # "new"
  /\ overrun' = FALSE
  /\ closed' = TRUE
  /\ open' = open \ {"monitor"} /\ closing' = closing \cup {"monitor"}
  /\ point' = "closeConsumer"
  /\ UNCHANGED <<topicVars, threadVars, stop, components, looping, flag, code, faults>>

\* LagMonitorLoop.shutdown(): the thread is joined for interval_seconds + 5. A
\* thread that waits sees the event in that time; a poll may take longer (10
\* seconds for the topic, 10 for the offsets, 5 for each partition). The
\* monitor's consumer is closed in either case.
JoinThread ==
  /\ point = "join" /\ thread \notin {"new", "wait"}
  /\ overrun' = (thread # "ended")
  /\ closed' = TRUE
  /\ open' = open \ {"monitor"} /\ closing' = closing \cup {"monitor"}
  /\ point' = "closeConsumer"
  /\ UNCHANGED <<topicVars, threadVars, stop, components, looping, flag, code, faults>>

\* A thread that could not be started cannot be joined: RuntimeError leaves the
\* finally block before shutdown(components).
JoinError ==
  /\ point = "join" /\ thread = "new"
  /\ point' = "exited" /\ code' = 1
  /\ UNCHANGED <<lagVars, components, looping, open, closing, flag, overrun, faults>>

\* When the process is over, so are its daemon thread and the gauge.
ThreadAt(next) ==
  \/ /\ next = "exited"
     /\ thread' = IF thread = "new" THEN "new" ELSE "ended"
     /\ Forget
     /\ partitionLags' = NoLags /\ heldThen' = NoBacklog
  \/ /\ next # "exited"
     /\ UNCHANGED <<thread, pollVars, publishedVars>>

CloseStep ==
  /\ point \in ClosePoints
  /\ open' = open \ {Closes[point]} /\ closing' = closing \cup {Closes[point]}
  /\ point' = Then[point]
  /\ ThreadAt(Then[point])
  /\ UNCHANGED <<topicVars, uncaught, stop, closed, components, looping, flag, code, overrun, faults>>

\* Mutant: an exception leaves shutdown().
MutantCloseError ==
  /\ Fault
  /\ point \in ClosePoints
  /\ closing' = closing \cup {Closes[point]}
  /\ point' = "exited" /\ code' = 1
  /\ ThreadAt("exited")
  /\ UNCHANGED <<topicVars, uncaught, stop, closed, components, looping, open, flag, overrun>>

\* The closing method raises: it is logged, the next one is called.
CloseError ==
  /\ Fault
  /\ point \in ClosePoints
  /\ closing' = closing \cup {Closes[point]}
  /\ point' = Then[point]
  /\ ThreadAt(Then[point])
  /\ UNCHANGED <<topicVars, uncaught, stop, closed, components, looping, open, flag, code, overrun>>

\* SIGKILL: the grace period of the container is over, or the process is stuck.
Kill ==
  /\ \/ Fault /\ point # "exited"
     \/ point = "stuck" /\ UNCHANGED faults
  /\ point' = "exited" /\ code' = Killed
  /\ ThreadAt("exited")
  /\ UNCHANGED <<topicVars, uncaught, stop, closed, components, looping, open, closing, flag, overrun>>

-----------------------------------------------------------------------------

LagThread ==
  /\ ThreadStep
  /\ UNCHANGED <<mainVars, faults>>

LagFault ==
  /\ Fault
  /\ KafkaError \/ OtherError
  /\ UNCHANGED mainVars

\* The steps main() takes by itself.
MainStep ==
  \/ StartupStep \/ LoopEnds \/ Finally \/ JoinThread \/ JoinError \/ CloseStep

ProcessFault == StartupError \/ BatchError \/ LoopError \/ CloseError \/ Kill \/ LagFault

TopicStep == \E p \in Partitions : Append(p) \/ Expire(p) \/ GroupCommits(p)

ProcessNext ==
  \/ StartProcess \/ MainStep \/ LagThread
  \/ Signal \/ ProcessFault
  \/ TopicStep /\ UNCHANGED <<mainVars, faults>>

ProcessSpec == ProcessInit /\ [][ProcessNext]_processVars

ProcessFairness == WF_processVars(MainStep) /\ WF_processVars(LagThread)

-----------------------------------------------------------------------------
(* Properties. *)

ProcessTypeOK ==
  /\ LagTypeOK
  /\ point \in Points
  /\ components \in BOOLEAN /\ looping \in BOOLEAN
  /\ open \subseteq Resources /\ closing \subseteq Resources
  /\ flag \in BOOLEAN /\ overrun \in BOOLEAN
  /\ code \in {0, 1, Killed}
  /\ faults \in 0 .. MaxFaults

\* Whatever raises on the way out, a process that ends by itself has called the
\* closing method of everything it has opened, but for two cases: startup()
\* has raised, so that main() has no components; or the lag monitor's thread
\* could not be started, so that joining it raises before shutdown().
ClosedWhenDone ==
  point = "exited" /\ code # Killed /\ ~(open \subseteq closing) =>
    /\ code = 1
    /\ ~components \/ (looping /\ thread = "new")

\* The monitor's consumer is closed under a running poll only when the poll has
\* outlasted the join; and while the process consumes, the thread is there
\* unless an exception that is no KafkaException has ended it.
ThreadOutlives ==
  /\ closed /\ Polling => overrun
  /\ point = "consume" /\ thread \in {"new", "ended"} => uncaught

\* The inductive invariant: what startup() has opened at each of its points, what
\* shutdown() still has to close at each of its own, and that the thread is told
\* to stop, and its monitor closed, on the way out only.
Opened ==
  [ping |-> {}, zones |-> {"clickhouse"}, kafka |-> {"clickhouse"},
   metrics |-> {"clickhouse", "consumer"}, wire |-> {"clickhouse", "consumer", "metrics"},
   start |-> Resources]
Remaining ==
  [closeConsumer |-> {"consumer", "clickhouse", "metrics"},
   closeClickHouse |-> {"clickhouse", "metrics"}, stopMetrics |-> {"metrics"}]

WhileStarting ==
  point \in StartPoints =>
    /\ open = Opened[point] /\ thread = "new"
    /\ components <=> point \in {"wire", "start"}
    /\ looping <=> point = "start"

WhileClosing == point \in ClosePoints => open \ closing \subseteq Remaining[point]

OnTheWay ==
  /\ point = "consume" => components /\ looping /\ thread # "new"
  /\ point = "finally" /\ ~components => code = 1
  /\ point \in StartPoints \cup {"consume", "finally"} => ~stop /\ ~closed
  /\ point = "join" => components /\ looping /\ stop
  /\ closed => stop
  /\ "monitor" \in open => looping
  /\ looping => components

ProcessIInv ==
  /\ LagIInv
  /\ ProcessTypeOK
  /\ ClosedWhenDone
  /\ ThreadOutlives
  /\ WhileStarting /\ WhileClosing
  /\ OnTheWay

\* In the end the gauge says what the broker says, as long as the process goes
\* on consuming and its thread has met no exception that poll() lets out.
Current == \A p \in Partitions : GaugeOf(p) = Lag(high[p], committed[p])
LagReported == []<>(point # "consume" \/ uncaught) \/ <>[]Current

\* A process that is asked to stop ends, whatever its thread is doing, unless a
\* second signal, or one during request_shutdown(), has come at the wrong time.
ProcessEnds == flag ~> point \in {"exited", "stuck"}
=============================================================================
