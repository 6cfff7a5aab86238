------------------------- MODULE ConsumerProcess_proofs -------------------------
(***************************************************************************)
(* Proofs about ConsumerProcess, with its lag monitor, for any number of   *)
(* partitions, messages and faults.                                        *)
(***************************************************************************)
EXTENDS ConsumerProcess, TLAPS

(***************************************************************************)
(* LagMonitor: every step of the topic and of the thread keeps LagIInv.    *)
(***************************************************************************)

USE DEF topicVars, pollVars, publishedVars, threadVars, lagVars, NoOffset, Larger

\* What the topic's steps leave alone.
LEMMA LogGrows ==
  ASSUME LagIInv, LogInOrder', UNCHANGED <<threadVars, stop, closed>>,
         low' \in [Partitions -> Nat], high' \in [Partitions -> Nat],
         committed' \in [Partitions -> Nat \cup {NoOffset}],
         \A p \in Partitions : high[p] <= high'[p]
  PROVE  LagIInv'
<1>1. LagTypeOK'
  BY DEF LagIInv, LagTypeOK, PartitionLag
<1>2. GaugeBracketed'
  BY DEF LagIInv, LagTypeOK, GaugeBracketed, GaugeOf, Lag, PartitionLag
<1>3. PollBrackets'
  <2> SUFFICES ASSUME thread = "marks", NEW p \in Partitions
               PROVE  /\ ReadSoFar(p)' <= high'[p]
                      /\ lags[p].committed <= ReadSoFar(p)'
                      /\ heldAtRead[p] <= Lag(ReadSoFar(p)', lags[p].committed)
    BY DEF PollBrackets, Lag
  <2>1. /\ ReadSoFar(p) <= high[p] /\ lags[p].committed <= ReadSoFar(p)
        /\ heldAtRead[p] <= Lag(ReadSoFar(p), lags[p].committed)
    BY DEF LagIInv, PollBrackets
  <2>2. /\ high[p] \in Nat /\ high'[p] \in Nat /\ high[p] <= high'[p]
        /\ heldAtRead[p] \in Nat
        /\ lags[p].current \in Nat /\ lags[p].committed \in Nat \cup {NoOffset}
    BY DEF LagIInv, LagTypeOK, PartitionLag
  <2>3. CASE p \in todo
    BY <2>1, <2>2, <2>3 DEF ReadSoFar, Lag
  <2>4. CASE p \notin todo
    BY <2>1, <2>2, <2>4 DEF ReadSoFar, Lag
  <2> QED
    BY <2>3, <2>4
<1> QED
  BY <1>1, <1>2, <1>3 DEF LagIInv

LEMMA AppendLagIInv ==
  ASSUME LagIInv, NEW p \in Partitions, Append(p)
  PROVE  LagIInv'
<1>1. high' = [high EXCEPT ![p] = @ + 1] /\ UNCHANGED <<low, committed, threadVars, stop, closed>>
  BY DEF Append
<1>2. high' \in [Partitions -> Nat] /\ \A q \in Partitions : high[q] <= high'[q]
  BY <1>1 DEF LagIInv, LagTypeOK
<1>3. LogInOrder'
  BY <1>1, <1>2 DEF LagIInv, LagTypeOK, LogInOrder
<1> QED
  BY <1>1, <1>2, <1>3, LogGrows DEF LagIInv, LagTypeOK

LEMMA ExpireLagIInv ==
  ASSUME LagIInv, NEW p \in Partitions, Expire(p)
  PROVE  LagIInv'
<1>1. /\ low[p] < high[p] /\ low' = [low EXCEPT ![p] = @ + 1]
      /\ UNCHANGED <<high, committed, threadVars, stop, closed>>
  BY DEF Expire
<1>2. low' \in [Partitions -> Nat] /\ \A q \in Partitions : high[q] <= high'[q]
  BY <1>1 DEF LagIInv, LagTypeOK
<1>3. LogInOrder'
  BY <1>1, <1>2 DEF LagIInv, LagTypeOK, LogInOrder
<1> QED
  BY <1>1, <1>2, <1>3, LogGrows DEF LagIInv, LagTypeOK

LEMMA GroupCommitsLagIInv ==
  ASSUME LagIInv, NEW p \in Partitions, GroupCommits(p)
  PROVE  LagIInv'
<1>1. PICK n \in 1 .. high[p] : committed' = [committed EXCEPT ![p] = n]
  BY DEF GroupCommits
<1>2. UNCHANGED <<low, high, threadVars, stop, closed>>
  BY DEF GroupCommits
<1>3. /\ committed' \in [Partitions -> Nat \cup {NoOffset}]
      /\ \A q \in Partitions : high[q] <= high'[q]
  BY <1>1, <1>2 DEF LagIInv, LagTypeOK
<1>4. LogInOrder'
  BY <1>1, <1>2, <1>3 DEF LagIInv, LagTypeOK, LogInOrder
<1> QED
  BY <1>2, <1>3, <1>4, LogGrows DEF LagIInv, LagTypeOK

-----------------------------------------------------------------------------
(* The thread, between two polls and at their start. *)

\* A step that publishes nothing and is not in the middle of a poll afterwards.
LEMMA NothingPublished ==
  ASSUME LagIInv, UNCHANGED <<topicVars, publishedVars>>,
         thread' \in {"new", "wait", "list", "offsets", "ended"},
         stop' \in BOOLEAN, closed' \in BOOLEAN, uncaught' \in BOOLEAN,
         todo' \subseteq Partitions, lags' \in [Partitions -> PartitionLag],
         heldAtRead' \in [Partitions -> Nat]
  PROVE  LagIInv'
<1>1. LagTypeOK'
  BY DEF LagIInv, LagTypeOK
<1>2. GaugeBracketed'
  BY DEF LagIInv, GaugeBracketed, GaugeOf, Lag
<1>3. LogInOrder' /\ PollBrackets'
  BY DEF LagIInv, LogInOrder, PollBrackets
<1> QED
  BY <1>1, <1>2, <1>3 DEF LagIInv

\* A step that leaves nothing published, as a process that starts or is over.
LEMMA NothingLeft ==
  ASSUME LagIInv, UNCHANGED topicVars, partitionLags' = NoLags, heldThen' = NoBacklog,
         thread' \in {"new", "wait", "ended"},
         stop' \in BOOLEAN, closed' \in BOOLEAN, uncaught' \in BOOLEAN,
         todo' \subseteq Partitions, lags' \in [Partitions -> PartitionLag],
         heldAtRead' \in [Partitions -> Nat]
  PROVE  LagIInv'
<1>1. NoLags \in [Partitions -> PartitionLag] /\ NoBacklog \in [Partitions -> Nat]
  BY DEF NoLags, NoBacklog, PartitionLag
<1>2. LagTypeOK'
  BY <1>1 DEF LagIInv, LagTypeOK
<1>3. GaugeBracketed'
  <2> SUFFICES ASSUME NEW p \in Partitions
               PROVE  /\ heldThen'[p] <= GaugeOf(p)'
                      /\ GaugeOf(p)' <= high[p] - Larger(0, partitionLags'[p].committed)
    BY DEF GaugeBracketed
  <2>1. heldThen'[p] = 0 /\ partitionLags'[p] = [current |-> 0, committed |-> NoOffset]
    BY DEF NoLags, NoBacklog
  <2>2. high[p] \in Nat
    BY DEF LagIInv, LagTypeOK
  <2> QED
    BY <2>1, <2>2 DEF GaugeOf, Lag
<1>4. LogInOrder' /\ PollBrackets'
  BY DEF LagIInv, LogInOrder, PollBrackets
<1> QED
  BY <1>2, <1>3, <1>4 DEF LagIInv

LEMMA ForgetType ==
  ASSUME Forget
  PROVE  /\ todo' \subseteq Partitions /\ lags' \in [Partitions -> PartitionLag]
         /\ heldAtRead' \in [Partitions -> Nat]
BY DEF Forget, NoLags, NoBacklog, PartitionLag

LEMMA WakeLagIInv ==
  ASSUME LagIInv, Wake \/ ListTopic
  PROVE  LagIInv'
<1>1. thread' \in {"list", "offsets", "ended"}
  BY DEF Wake, ListTopic
<1>2. UNCHANGED <<topicVars, pollVars, publishedVars, stop, closed, uncaught>>
  BY DEF Wake, ListTopic
<1> QED
  BY <1>1, <1>2, NothingPublished DEF LagIInv, LagTypeOK

LEMMA TopicUnknownLagIInv ==
  ASSUME LagIInv, TopicUnknown
  PROVE  LagIInv'
BY NothingLeft DEF TopicUnknown, LagIInv, LagTypeOK

\* A poll that raises publishes nothing.
LEMMA PollFailsLagIInv ==
  ASSUME LagIInv, KafkaError \/ OtherError \/ ClosedError
  PROVE  LagIInv'
<1>1. /\ thread' \in {"wait", "ended"} /\ Forget
      /\ UNCHANGED <<topicVars, publishedVars, stop, closed>>
  BY DEF KafkaError, OtherError, ClosedError
<1>2. uncaught' \in BOOLEAN
  BY DEF KafkaError, OtherError, ClosedError, LagIInv, LagTypeOK
<1> QED
  BY <1>1, <1>2, ForgetType, NothingPublished DEF LagIInv, LagTypeOK

-----------------------------------------------------------------------------
(* The thread, in the middle of a poll. *)

\* The committed offsets are those of the backlog at this time; the watermarks
\* that will be read are at least those of now.
LEMMA ReadCommittedLagIInv ==
  ASSUME LagIInv, ReadCommitted
  PROVE  LagIInv'
<1>1. /\ thread' = "marks" /\ todo' = Partitions
      /\ lags' = [p \in Partitions |-> [current |-> 0, committed |-> committed[p]]]
      /\ heldAtRead' = [p \in Partitions |-> Backlog(p)]
      /\ UNCHANGED <<topicVars, publishedVars, stop, closed, uncaught>>
  BY DEF ReadCommitted
<1>2. ASSUME NEW p \in Partitions
      PROVE  /\ low[p] \in Nat /\ high[p] \in Nat /\ committed[p] \in Nat \cup {NoOffset}
             /\ low[p] <= high[p] /\ committed[p] <= high[p]
  BY DEF LagIInv, LagTypeOK, LogInOrder
<1>3. ASSUME NEW p \in Partitions PROVE Backlog(p) \in Nat /\ Backlog(p) <= Lag(high[p], committed[p])
  BY <1>2 DEF Backlog, Lag
<1>4. lags' \in [Partitions -> PartitionLag] /\ heldAtRead' \in [Partitions -> Nat]
  BY <1>1, <1>2, <1>3 DEF PartitionLag
<1>5. LagTypeOK'
  BY <1>1, <1>4 DEF LagIInv, LagTypeOK
<1>6. GaugeBracketed' /\ LogInOrder'
  BY <1>1 DEF LagIInv, GaugeBracketed, GaugeOf, Lag, LogInOrder
<1>7. PollBrackets'
  <2> SUFFICES ASSUME NEW p \in Partitions
               PROVE  /\ ReadSoFar(p)' <= high[p]
                      /\ lags'[p].committed <= ReadSoFar(p)'
                      /\ heldAtRead'[p] <= Lag(ReadSoFar(p)', lags'[p].committed)
    BY <1>1 DEF PollBrackets, Lag
  <2>1. ReadSoFar(p)' = high[p] /\ lags'[p].committed = committed[p] /\ heldAtRead'[p] = Backlog(p)
    BY <1>1 DEF ReadSoFar
  <2> QED
    BY <1>2, <1>3, <2>1
<1> QED
  BY <1>5, <1>6, <1>7 DEF LagIInv

LEMMA ReadWatermarkLagIInv ==
  ASSUME LagIInv, NEW p \in Partitions, ReadWatermark(p)
  PROVE  LagIInv'
<1>1. /\ thread = "marks" /\ p \in todo /\ todo' = todo \ {p}
      /\ lags' = [lags EXCEPT ![p].current = high[p]]
      /\ UNCHANGED <<thread, topicVars, publishedVars, heldAtRead, stop, closed, uncaught>>
  BY DEF ReadWatermark
<1>2. lags \in [Partitions -> PartitionLag] /\ high \in [Partitions -> Nat]
  BY DEF LagIInv, LagTypeOK
<1>3. lags'[p] = [current |-> high[p], committed |-> lags[p].committed]
  BY <1>1, <1>2 DEF PartitionLag
<1>4. \A q \in Partitions \ {p} : lags'[q] = lags[q]
  BY <1>1, <1>2
<1>5. lags' \in [Partitions -> PartitionLag]
  <2>1. [lags[p] EXCEPT !.current = high[p]] \in PartitionLag
    BY <1>2 DEF PartitionLag
  <2> QED
    BY <1>1, <1>2, <2>1
<1>6. LagTypeOK'
  BY <1>1, <1>5 DEF LagIInv, LagTypeOK
<1>7. GaugeBracketed' /\ LogInOrder'
  BY <1>1 DEF LagIInv, GaugeBracketed, GaugeOf, Lag, LogInOrder
<1>8. \A q \in Partitions : ReadSoFar(q)' = ReadSoFar(q) /\ lags'[q].committed = lags[q].committed
  <2> SUFFICES ASSUME NEW q \in Partitions
               PROVE  ReadSoFar(q)' = ReadSoFar(q) /\ lags'[q].committed = lags[q].committed
    OBVIOUS
  <2>1. CASE q = p
    BY <1>1, <1>3, <2>1 DEF ReadSoFar
  <2>2. CASE q # p
    BY <1>1, <1>4, <2>2 DEF ReadSoFar
  <2> QED
    BY <2>1, <2>2
<1>9. PollBrackets'
  <2> SUFFICES ASSUME NEW q \in Partitions
               PROVE  /\ ReadSoFar(q)' <= high[q]
                      /\ lags'[q].committed <= ReadSoFar(q)'
                      /\ heldAtRead[q] <= Lag(ReadSoFar(q)', lags'[q].committed)
    BY <1>1 DEF PollBrackets, Lag
  <2> QED
    BY <1>1, <1>8 DEF LagIInv, PollBrackets
<1> QED
  BY <1>6, <1>7, <1>9 DEF LagIInv

\* All partitions have been asked about: what has been read is what is published.
LEMMA PublishLagIInv ==
  ASSUME LagIInv, Publish
  PROVE  LagIInv'
<1>1. /\ thread = "marks" /\ todo = {} /\ partitionLags' = lags /\ heldThen' = heldAtRead
      /\ thread' = "wait" /\ Forget /\ UNCHANGED <<topicVars, stop, closed, uncaught>>
  BY DEF Publish
<1>2. LagTypeOK'
  BY <1>1, ForgetType DEF LagIInv, LagTypeOK
<1>3. GaugeBracketed'
  <2> SUFFICES ASSUME NEW p \in Partitions
               PROVE  /\ heldAtRead[p] <= Lag(lags[p].current, lags[p].committed)
                      /\ Lag(lags[p].current, lags[p].committed)
                           <= high[p] - Larger(0, lags[p].committed)
    BY <1>1 DEF GaugeBracketed, GaugeOf, Lag
  <2>1. /\ lags[p].current <= high[p] /\ lags[p].committed <= lags[p].current
        /\ heldAtRead[p] <= Lag(lags[p].current, lags[p].committed)
    BY <1>1 DEF LagIInv, PollBrackets, ReadSoFar
  <2>2. /\ high[p] \in Nat
        /\ lags[p].current \in Nat /\ lags[p].committed \in Nat \cup {NoOffset}
    BY DEF LagIInv, LagTypeOK, PartitionLag
  <2> QED
    BY <2>1, <2>2 DEF Lag
<1>4. LogInOrder' /\ PollBrackets'
  BY <1>1 DEF LagIInv, LogInOrder, PollBrackets
<1> QED
  BY <1>2, <1>3, <1>4 DEF LagIInv

-----------------------------------------------------------------------------

LEMMA InitLagIInv == LagInit => LagIInv
<1> SUFFICES ASSUME LagInit PROVE LagIInv
  OBVIOUS
<1>1. LagTypeOK
  BY DEF LagInit, LagTypeOK, NoLags, NoBacklog, PartitionLag
<1>2. GaugeBracketed
  BY DEF LagInit, GaugeBracketed, GaugeOf, Lag, NoLags, NoBacklog
<1>3. LogInOrder /\ PollBrackets
  BY DEF LagInit, LogInOrder, PollBrackets, NoBacklog
<1> QED
  BY <1>1, <1>2, <1>3 DEF LagIInv

LEMMA StutterLagIInv == LagIInv /\ UNCHANGED lagVars => LagIInv'
BY DEF LagIInv, LagTypeOK, GaugeBracketed, GaugeOf, LogInOrder, PollBrackets, ReadSoFar, Lag

LEMMA ThreadStepLagIInv ==
  ASSUME LagIInv, ThreadStep
  PROVE  LagIInv'
BY WakeLagIInv, TopicUnknownLagIInv, ReadCommittedLagIInv, ReadWatermarkLagIInv,
   PublishLagIInv, PollFailsLagIInv DEF ThreadStep

\* A new process has no gauge, and no poll.
LEMMA ResetLagIInv ==
  ASSUME LagIInv, LagReset, UNCHANGED topicVars
  PROVE  LagIInv'
<1>1. Forget /\ partitionLags' = NoLags /\ heldThen' = NoBacklog
  BY DEF LagReset, Forget
<1>2. thread' = "new" /\ stop' = FALSE /\ closed' = FALSE /\ uncaught' = FALSE
  BY DEF LagReset
<1> QED
  BY <1>1, <1>2, ForgetType, NothingLeft

(***************************************************************************)
(* main().                                                                 *)
(***************************************************************************)

\* The invariant of main() without the monitor's.
MainOk ==
  /\ point \in Points
  /\ components \in BOOLEAN /\ looping \in BOOLEAN
  /\ open \subseteq Resources /\ closing \subseteq Resources
  /\ flag \in BOOLEAN /\ overrun \in BOOLEAN
  /\ code \in {0, 1, Killed}
  /\ faults \in 0 .. MaxFaults
  /\ ClosedWhenDone
  /\ ThreadOutlives
  /\ WhileStarting /\ WhileClosing
  /\ OnTheWay

LEMMA Parts == ProcessIInv <=> LagIInv /\ MainOk
BY DEF ProcessIInv, ProcessTypeOK, MainOk, LagIInv

LEMMA PartsNext == ProcessIInv' <=> LagIInv' /\ MainOk'
BY DEF ProcessIInv, ProcessTypeOK, MainOk, LagIInv

LEMMA PointSets ==
  /\ StartPoints = {"ping", "zones", "kafka", "metrics", "wire", "start"}
  /\ ClosePoints = {"closeConsumer", "closeClickHouse", "stopMetrics"}
BY DEF StartPoints, Opens, ClosePoints, Closes

\* What every leaf below expands.
USE DEF Resources, Killed, Polling, Points, mainVars, Fault

-----------------------------------------------------------------------------
(* Starting up. *)

LEMMA StartProcessMainOk ==
  ASSUME LagIInv, MainOk, StartProcess
  PROVE  LagIInv' /\ MainOk'
<1>1. LagReset /\ UNCHANGED topicVars
  BY DEF StartProcess
<1>2. LagIInv'
  BY <1>1, ResetLagIInv
<1>3. MainOk'
  BY <1>1, PointSets DEF StartProcess, LagReset, MainOk, ClosedWhenDone, ThreadOutlives,
     WhileStarting, WhileClosing, OnTheWay, Opened
<1> QED
  BY <1>2, <1>3

\* What each step opens is what is open at the next point.
LEMMA StartupFacts ==
  ASSUME MainOk, StartupStep
  PROVE  /\ point' \in StartPoints => open' = Opened[point']
         /\ point' \in StartPoints \cup {"consume"}
         /\ point' = "consume" <=> point = "start"
         /\ components' <=> point' \in {"wire", "start", "consume"}
         /\ looping' <=> point' \in {"start", "consume"}
         /\ point' # "ping"
         /\ "monitor" \in open' => looping'
         /\ open' \subseteq Resources
<1>1. /\ point \in StartPoints /\ point' = After[point] /\ open' = open \cup Opens[point]
      /\ components' = (components \/ point = "metrics")
      /\ looping' = (looping \/ point = "wire")
  BY DEF StartupStep
<1>2. /\ open = Opened[point] /\ open \subseteq Resources
      /\ components <=> point \in {"wire", "start"}
      /\ looping <=> point = "start"
  BY <1>1 DEF MainOk, WhileStarting
<1>3. CASE point = "ping"
  BY <1>1, <1>2, <1>3, PointSets DEF Opens, After, Opened
<1>4. CASE point = "zones"
  BY <1>1, <1>2, <1>4, PointSets DEF Opens, After, Opened
<1>5. CASE point = "kafka"
  BY <1>1, <1>2, <1>5, PointSets DEF Opens, After, Opened
<1>6. CASE point = "metrics"
  BY <1>1, <1>2, <1>6, PointSets DEF Opens, After, Opened
<1>7. CASE point = "wire"
  BY <1>1, <1>2, <1>7, PointSets DEF Opens, After, Opened
<1>8. CASE point = "start"
  BY <1>1, <1>2, <1>8, PointSets DEF Opens, After, Opened
<1> QED
  BY <1>1, <1>3, <1>4, <1>5, <1>6, <1>7, <1>8, PointSets

LEMMA StartupStepMainOk ==
  ASSUME LagIInv, MainOk, StartupStep
  PROVE  LagIInv' /\ MainOk'
<1>1. /\ point \in StartPoints /\ thread = "new" /\ ~stop /\ ~closed
      /\ thread' = IF point = "start" THEN "wait" ELSE thread
      /\ UNCHANGED <<topicVars, pollVars, publishedVars, uncaught, stop, closed,
                     closing, flag, code, overrun, faults>>
  BY DEF StartupStep, MainOk, WhileStarting, OnTheWay
<1>2. LagIInv'
  BY <1>1, NothingPublished DEF LagIInv, LagTypeOK
<1>3. ThreadOutlives' /\ ClosedWhenDone' /\ WhileClosing'
  BY <1>1, StartupFacts, PointSets DEF ThreadOutlives, ClosedWhenDone, WhileClosing
<1>4. WhileStarting'
  BY <1>1, StartupFacts, PointSets DEF WhileStarting
<1>5. OnTheWay'
  BY <1>1, StartupFacts, PointSets DEF MainOk, OnTheWay
<1>6. components' \in BOOLEAN /\ looping' \in BOOLEAN
  BY DEF StartupStep, MainOk
<1>7. point' \in Points /\ open' \subseteq Resources
  BY StartupFacts, PointSets
<1> QED
  BY <1>1, <1>2, <1>3, <1>4, <1>5, <1>6, <1>7 DEF MainOk

LEMMA StartupErrorMainOk ==
  ASSUME LagIInv, MainOk, StartupError
  PROVE  LagIInv' /\ MainOk'
BY StutterLagIInv, PointSets, ProcessAssumption DEF StartupError, MainOk, ClosedWhenDone, ThreadOutlives,
   WhileStarting, WhileClosing, OnTheWay

-----------------------------------------------------------------------------
(* The loop. *)

\* A set() that sticks leaves every other variable alone, and nothing is said of
\* the point "stuck".
LEMMA SetFlagMainOk ==
  ASSUME LagIInv, MainOk, SetFlag, faults' \in 0 .. MaxFaults,
         UNCHANGED <<lagVars, components, looping, open, closing, code, overrun>>
  PROVE  LagIInv' /\ MainOk'
<1>1. LagIInv'
  BY StutterLagIInv
<1>2. CASE point' = point
  BY <1>1, <1>2, PointSets DEF SetFlag, lagVars, topicVars, threadVars, MainOk, ClosedWhenDone,
     ThreadOutlives, WhileStarting, WhileClosing, OnTheWay
<1>3. CASE point' = "stuck"
  <2>1. point' \notin StartPoints \cup ClosePoints \cup {"consume", "finally", "join", "exited"}
    BY <1>3 DEF StartPoints, ClosePoints, Opens, Closes
  <2>2. ClosedWhenDone' /\ WhileStarting' /\ WhileClosing'
    BY <2>1 DEF ClosedWhenDone, WhileStarting, WhileClosing
  <2>3. ThreadOutlives'
    BY <2>1 DEF MainOk, ThreadOutlives, Polling, lagVars, threadVars
  <2>4. OnTheWay'
    BY <2>1 DEF MainOk, OnTheWay, lagVars, threadVars
  <2> QED
    BY <1>1, <1>3, <2>2, <2>3, <2>4, PointSets DEF SetFlag, MainOk, lagVars, threadVars
<1> QED
  BY <1>2, <1>3 DEF SetFlag

LEMMA SignalMainOk ==
  ASSUME LagIInv, MainOk, Signal
  PROVE  LagIInv' /\ MainOk'
BY SetFlagMainOk DEF Signal, MainOk

LEMMA BatchErrorMainOk ==
  ASSUME LagIInv, MainOk, BatchError
  PROVE  LagIInv' /\ MainOk'
BY SetFlagMainOk, ProcessAssumption DEF BatchError, Fault, MainOk

LEMMA LoopOverMainOk ==
  ASSUME LagIInv, MainOk, LoopError \/ LoopEnds
  PROVE  LagIInv' /\ MainOk'
<1>1. /\ point = "consume" /\ point' = "finally" /\ code' \in {code, 1}
      /\ UNCHANGED <<lagVars, components, looping, open, closing, flag, overrun>>
      /\ faults' \in 0 .. MaxFaults
  BY ProcessAssumption DEF LoopError, LoopEnds, MainOk
<1> QED
  BY <1>1, StutterLagIInv, PointSets DEF MainOk, ClosedWhenDone, ThreadOutlives,
     WhileStarting, WhileClosing, OnTheWay

-----------------------------------------------------------------------------
(* The way out. *)

LEMMA FinallyMainOk ==
  ASSUME LagIInv, MainOk, Finally
  PROVE  LagIInv' /\ MainOk'
<1>1. /\ point = "finally"
      /\ UNCHANGED <<topicVars, threadVars, closed, components, looping, open, closing,
                     flag, code, overrun, faults>>
      /\ \/ looping /\ stop' = TRUE /\ point' = "join"
         \/ /\ ~looping /\ stop' = stop
            /\ point' = IF components THEN "closeConsumer" ELSE "exited"
  BY DEF Finally
<1>2. LagTypeOK'
  BY <1>1 DEF LagIInv, LagTypeOK
<1>3. LagIInv'
  BY <1>1, <1>2 DEF LagIInv, GaugeBracketed, GaugeOf, LogInOrder, PollBrackets, ReadSoFar, Lag
<1>4. point' \in {"join", "closeConsumer", "exited"}
  BY <1>1
<1>5. WhileStarting' /\ WhileClosing'
  <2>1. point' = "closeConsumer" => open \ closing \subseteq Remaining["closeConsumer"]
    BY <1>1 DEF MainOk, OnTheWay, Remaining
  <2> QED
    BY <1>1, <1>4, <2>1, PointSets DEF WhileStarting, WhileClosing
<1>6. ClosedWhenDone'
  BY <1>1 DEF MainOk, OnTheWay, ClosedWhenDone
<1>7. ThreadOutlives'
  BY <1>1, <1>4 DEF MainOk, ThreadOutlives
<1>8. OnTheWay'
  BY <1>1, <1>4, PointSets DEF MainOk, OnTheWay
<1>9. MainOk'
  BY <1>1, <1>4, <1>5, <1>6, <1>7, <1>8, PointSets DEF MainOk
<1> QED
  BY <1>3, <1>9

\* The thread is at a poll only if the join has timed out.
LEMMA JoinThreadMainOk ==
  ASSUME LagIInv, MainOk, JoinThread
  PROVE  LagIInv' /\ MainOk'
<1>1. /\ point = "join" /\ thread \notin {"new", "wait"} /\ overrun' = (thread # "ended")
      /\ closed' = TRUE /\ open' = open \ {"monitor"} /\ closing' = closing \cup {"monitor"}
      /\ point' = "closeConsumer"
      /\ UNCHANGED <<topicVars, threadVars, stop, components, looping, flag, code, faults>>
  BY DEF JoinThread
<1>2. LagTypeOK'
  BY <1>1 DEF LagIInv, LagTypeOK
<1>3. LagIInv'
  BY <1>1, <1>2 DEF LagIInv, GaugeBracketed, GaugeOf, LogInOrder, PollBrackets, ReadSoFar, Lag
<1>4. stop
  BY <1>1 DEF MainOk, OnTheWay
<1>5. overrun' \in BOOLEAN
  BY <1>1
<1>6. MainOk'
  BY <1>1, <1>4, <1>5, PointSets DEF MainOk, ClosedWhenDone, ThreadOutlives,
     WhileStarting, WhileClosing, OnTheWay, Remaining
<1> QED
  BY <1>3, <1>6

LEMMA JoinErrorMainOk ==
  ASSUME LagIInv, MainOk, JoinError
  PROVE  LagIInv' /\ MainOk'
BY StutterLagIInv, PointSets DEF JoinError, MainOk, ClosedWhenDone, ThreadOutlives,
   WhileStarting, WhileClosing, OnTheWay

\* What is left of the thread behind a closing step.
LEMMA ThreadAtFacts ==
  ASSUME LagIInv, NEW next, ThreadAt(next), UNCHANGED <<topicVars, uncaught, stop, closed>>
  PROVE  /\ LagIInv'
         /\ next = "exited" => thread' \in {"new", "ended"}
         /\ thread' = "new" <=> thread = "new"
         /\ Polling' => Polling
<1>1. CASE next = "exited"
  <2>1. /\ thread' = IF thread = "new" THEN "new" ELSE "ended"
        /\ Forget /\ partitionLags' = NoLags /\ heldThen' = NoBacklog
    BY <1>1 DEF ThreadAt
  <2>2. LagIInv'
    BY <2>1, ForgetType, NothingLeft DEF LagIInv, LagTypeOK
  <2> QED
    BY <2>1, <2>2
<1>2. CASE next # "exited"
  BY <1>2, StutterLagIInv DEF ThreadAt
<1> QED
  BY <1>1, <1>2

LEMMA CloseMainOk ==
  ASSUME LagIInv, MainOk, CloseStep \/ CloseError
  PROVE  LagIInv' /\ MainOk'
<1>1. /\ point \in ClosePoints /\ point' = Then[point] /\ ThreadAt(point')
      /\ closing' = closing \cup {Closes[point]}
      /\ open' \in {open, open \ {Closes[point]}}
      /\ UNCHANGED <<topicVars, uncaught, stop, closed, components, looping, flag, code, overrun>>
  BY DEF CloseStep, CloseError
<1>2. faults' \in 0 .. MaxFaults
  BY ProcessAssumption DEF CloseStep, CloseError, MainOk
<1>3. /\ LagIInv'
      /\ point' = "exited" => thread' \in {"new", "ended"}
      /\ thread' = "new" <=> thread = "new"
      /\ Polling' => Polling
  BY <1>1, ThreadAtFacts
<1>4. /\ point' \in {"closeClickHouse", "stopMetrics", "exited"}
      /\ point' \in ClosePoints => open' \ closing' \subseteq Remaining[point']
      /\ point' = "exited" => open' \subseteq closing'
      /\ closing' \subseteq Resources
  <2>1. open \ closing \subseteq Remaining[point]
    BY <1>1 DEF MainOk, WhileClosing
  <2>2. CASE point = "closeConsumer"
    BY <1>1, <2>1, <2>2, PointSets DEF Then, Closes, Remaining, MainOk
  <2>3. CASE point = "closeClickHouse"
    BY <1>1, <2>1, <2>3, PointSets DEF Then, Closes, Remaining, MainOk
  <2>4. CASE point = "stopMetrics"
    BY <1>1, <2>1, <2>4, PointSets DEF Then, Closes, Remaining, MainOk
  <2> QED
    BY <1>1, <2>2, <2>3, <2>4, PointSets
<1>5. MainOk'
  BY <1>1, <1>2, <1>3, <1>4, PointSets DEF MainOk, ClosedWhenDone, ThreadOutlives,
     WhileStarting, WhileClosing, OnTheWay
<1> QED
  BY <1>3, <1>5

LEMMA KillMainOk ==
  ASSUME LagIInv, MainOk, Kill
  PROVE  LagIInv' /\ MainOk'
<1>1. /\ point' = "exited" /\ code' = Killed /\ ThreadAt("exited")
      /\ UNCHANGED <<topicVars, uncaught, stop, closed, components, looping, open, closing,
                     flag, overrun>>
  BY DEF Kill
<1>2. LagIInv' /\ thread' \in {"new", "ended"} /\ (Polling' => Polling)
  BY <1>1, ThreadAtFacts
<1>3. faults' \in 0 .. MaxFaults
  BY ProcessAssumption DEF Kill, MainOk
<1>4. MainOk'
  BY <1>1, <1>2, <1>3, PointSets DEF MainOk, ClosedWhenDone, ThreadOutlives,
     WhileStarting, WhileClosing, OnTheWay
<1> QED
  BY <1>2, <1>4

-----------------------------------------------------------------------------
(* The monitor's thread, and the topic. *)

\* The thread starts no poll when it has been told to stop, and ends while the
\* process consumes only by an exception that poll() lets out.
LEMMA ThreadMainOk ==
  ASSUME MainOk, ThreadStep \/ KafkaError \/ OtherError, UNCHANGED mainVars,
         faults' \in 0 .. MaxFaults
  PROVE  MainOk'
<1>1. /\ thread # "new" /\ thread' # "new" /\ UNCHANGED <<stop, closed>>
      /\ Polling' /\ ~Polling => ~stop
      /\ thread' = "ended" /\ thread # "ended" => stop \/ closed \/ uncaught'
      /\ uncaught => uncaught'
  BY DEF ThreadStep, Wake, ListTopic, TopicUnknown, ReadCommitted, ReadWatermark, Publish,
     ClosedError, KafkaError, OtherError, Asking
<1>2. ThreadOutlives'
  BY <1>1, PointSets DEF MainOk, ThreadOutlives, OnTheWay
<1>3. ClosedWhenDone' /\ WhileStarting' /\ WhileClosing' /\ OnTheWay'
  BY <1>1 DEF MainOk, ClosedWhenDone, WhileStarting, WhileClosing, OnTheWay
<1> QED
  BY <1>2, <1>3 DEF MainOk

LEMMA LagThreadMainOk ==
  ASSUME LagIInv, MainOk, LagThread
  PROVE  LagIInv' /\ MainOk'
BY ThreadStepLagIInv, ThreadMainOk DEF LagThread, MainOk

LEMMA LagFaultMainOk ==
  ASSUME LagIInv, MainOk, LagFault
  PROVE  LagIInv' /\ MainOk'
<1>1. faults' \in 0 .. MaxFaults
  BY ProcessAssumption DEF LagFault, MainOk
<1> QED
  BY <1>1, PollFailsLagIInv, ThreadMainOk DEF LagFault

LEMMA TopicStepMainOk ==
  ASSUME LagIInv, MainOk, TopicStep, UNCHANGED <<mainVars, faults>>
  PROVE  LagIInv' /\ MainOk'
<1>1. LagIInv'
  BY AppendLagIInv, ExpireLagIInv, GroupCommitsLagIInv DEF TopicStep
<1>2. UNCHANGED <<threadVars, stop, closed>>
  BY DEF TopicStep, Append, Expire, GroupCommits
<1>3. MainOk'
  BY <1>2 DEF MainOk, ClosedWhenDone, ThreadOutlives, WhileStarting, WhileClosing, OnTheWay
<1> QED
  BY <1>1, <1>3

-----------------------------------------------------------------------------
(* The specification. *)

LEMMA InitProcessIInv == ProcessInit => ProcessIInv
<1> SUFFICES ASSUME ProcessInit PROVE LagIInv /\ MainOk
  BY Parts
<1>1. LagInit
  BY DEF ProcessInit
<1>2. MainOk
  <2>1. ClosedWhenDone /\ ThreadOutlives /\ WhileStarting /\ WhileClosing /\ OnTheWay
    BY <1>1, PointSets DEF ProcessInit, LagInit, ClosedWhenDone,
       ThreadOutlives, WhileStarting, WhileClosing, OnTheWay
  <2>2. components \in BOOLEAN /\ looping \in BOOLEAN /\ flag \in BOOLEAN /\ overrun \in BOOLEAN
    BY DEF ProcessInit
  <2>3. /\ point \in Points /\ code \in {0, 1, Killed}
        /\ open \subseteq Resources /\ closing \subseteq Resources
    BY DEF ProcessInit
  <2>4. faults \in 0 .. MaxFaults
    BY ProcessAssumption DEF ProcessInit
  <2> QED
    BY <2>1, <2>2, <2>3, <2>4 DEF MainOk
<1> QED
  BY <1>1, <1>2, InitLagIInv

LEMMA NextProcessIInv == ProcessIInv /\ [ProcessNext]_processVars => ProcessIInv'
<1> SUFFICES ASSUME LagIInv, MainOk, [ProcessNext]_processVars PROVE LagIInv' /\ MainOk'
  BY Parts, PartsNext
<1>1. CASE UNCHANGED processVars
  BY <1>1, StutterLagIInv DEF processVars, MainOk, ClosedWhenDone, ThreadOutlives,
     WhileStarting, WhileClosing, OnTheWay
<1>2. CASE StartProcess
  BY <1>2, StartProcessMainOk
<1>3. CASE MainStep
  BY <1>3, StartupStepMainOk, LoopOverMainOk, FinallyMainOk, JoinThreadMainOk,
     JoinErrorMainOk, CloseMainOk DEF MainStep
<1>4. CASE LagThread
  BY <1>4, LagThreadMainOk
<1>5. CASE Signal
  BY <1>5, SignalMainOk
<1>6. CASE ProcessFault
  BY <1>6, StartupErrorMainOk, BatchErrorMainOk, LoopOverMainOk, CloseMainOk,
     KillMainOk, LagFaultMainOk DEF ProcessFault
<1>7. CASE TopicStep /\ UNCHANGED <<mainVars, faults>>
  BY <1>7, TopicStepMainOk
<1> QED
  BY <1>1, <1>2, <1>3, <1>4, <1>5, <1>6, <1>7 DEF ProcessNext

\* The inductive invariant of the process and its monitor.
THEOREM ProcessInvariant == ProcessSpec => []ProcessIInv
<1>1. ProcessInit => ProcessIInv
  BY InitProcessIInv
<1>2. ProcessIInv /\ [ProcessNext]_processVars => ProcessIInv'
  BY NextProcessIInv
<1> QED
  BY <1>1, <1>2, PTL DEF ProcessSpec

\* The gauge brackets the backlog, for any number of partitions and messages.
THEOREM GaugeBrackets == ProcessSpec => []GaugeBracketed
<1>1. ProcessIInv => GaugeBracketed
  BY DEF ProcessIInv, LagIInv
<1> QED
  BY <1>1, ProcessInvariant, PTL

\* Everything that was opened is closed, but for the two ways out that the
\* property names.
THEOREM ResourcesClosed == ProcessSpec => []ClosedWhenDone
<1>1. ProcessIInv => ClosedWhenDone
  BY DEF ProcessIInv
<1> QED
  BY <1>1, ProcessInvariant, PTL

\* The monitor is not closed under a poll that the join could have waited for.
THEOREM ThreadIsJoined == ProcessSpec => []ThreadOutlives
<1>1. ProcessIInv => ThreadOutlives
  BY DEF ProcessIInv
<1> QED
  BY <1>1, ProcessInvariant, PTL
=============================================================================
