-------------------------- MODULE TripConsumer_proofs --------------------------
(***************************************************************************)
(* Proofs about TripConsumer for any number of consumers, partitions and   *)
(* trips, any batch size and any number of faults.                         *)
(***************************************************************************)
EXTENDS TripConsumer, FiniteSetTheorems, TLAPS

-----------------------------------------------------------------------------
(* The helpers of the model. *)

\* The rows of a batch after one more row has been accumulated.
LEMMA ToSetAppend ==
  ASSUME NEW S, NEW s \in Seq(S), NEW e \in S
  PROVE  ToSet(Append(s, e)) = ToSet(s) \cup {e}
<1>1. DOMAIN Append(s, e) = 1 .. Len(s) + 1 /\ DOMAIN s = 1 .. Len(s)
  OBVIOUS
<1>2. \A i \in 1 .. Len(s) : Append(s, e)[i] = s[i]
  OBVIOUS
<1>3. Append(s, e)[Len(s) + 1] = e
  OBVIOUS
<1>4. Len(s) \in Nat
  OBVIOUS
<1> QED
  BY <1>1, <1>2, <1>3, <1>4 DEF ToSet

\* An empty accumulator holds no row.
LEMMA ToSetEmpty == ToSet(<<>>) = {}
  BY DEF ToSet

\* The number of rows of a trip in a batch is a number.
LEMMA CopiesType ==
  ASSUME NEW s \in Seq(Trips), NEW t
  PROVE  Copies(s, t) \in Nat
<1>1. IsFiniteSet(DOMAIN s)
  <2>1. DOMAIN s = 1 .. Len(s) /\ Len(s) \in Nat
    OBVIOUS
  <2> QED BY <2>1, FS_Interval
<1>2. IsFiniteSet({i \in DOMAIN s : s[i] = t})
  BY <1>1, FS_Subset
<1> QED
  BY <1>2, FS_CardinalityType DEF Copies

-----------------------------------------------------------------------------
(* Type correctness. *)

LEMMA InitTypeOK == Init => TypeOK
  BY ConstantsAssumption DEF Init, TypeOK, ControlPoints, Message

LEMMA ApplyType ==
  ASSUME TypeOK, NEW c \in Consumers, NEW S, S \subseteq ToSet(batch[c]), Apply(c, S)
  PROVE  stored' \subseteq Trips /\ viewRows' \in [Trips -> Nat]
<1>1. ToSet(batch[c]) \subseteq Trips
  BY DEF TypeOK, ToSet
<1>2. \A t \in Trips : Copies(batch[c], t) \in Nat
  BY CopiesType DEF TypeOK
<1>3. \A n \in Nat : AtMost(n) \in Nat
  BY ConstantsAssumption DEF AtMost
<1>4. \A t \in Trips : viewRows[t] + (IF t \in S THEN Copies(batch[c], t) ELSE 0) \in Nat
  BY <1>2 DEF TypeOK
<1>5. viewRows' \in [Trips -> Nat]
  BY <1>3, <1>4 DEF Apply
<1> QED
  BY <1>1, <1>5 DEF Apply, TypeOK

\* A fault uses up one of the faults that are left.
LEMMA FaultStep ==
  ASSUME TypeOK, NEW kind, Fault(kind)
  PROVE  faults' \in [kinds: SUBSET FaultKinds, left: Nat]
<1>1. faults' = [faults EXCEPT !.left = @ - 1] /\ faults.left > 0
  BY DEF Fault
<1>2. faults \in [kinds: SUBSET FaultKinds, left: Nat]
  BY DEF TypeOK
<1>3. faults.left - 1 \in Nat
  BY <1>1, <1>2
<1> QED
  BY <1>1, <1>2, <1>3

LEMMA LeaveLoopType ==
  ASSUME TypeOK, NEW c \in Consumers, LeaveLoop(c)
  PROVE  /\ pc' \in [Consumers -> ControlPoints]
         /\ acc' \in [Consumers -> Seq(Trips)]
         /\ batch' \in [Consumers -> Seq(Trips)]
         /\ attempt' \in [Consumers -> Nat]
         /\ draining' \in [Consumers -> BOOLEAN]
<1> USE DEF TypeOK, ControlPoints
<1>1. draining' \in [Consumers -> BOOLEAN]
  BY DEF LeaveLoop
<1>2. CASE acc[c] # <<>>
  <2>1. YieldBatch(c)
    BY <1>2 DEF LeaveLoop
  <2> QED
    BY <1>1, <2>1 DEF YieldBatch
<1>3. CASE acc[c] = <<>>
  <2>1. UNCHANGED <<acc, batch, attempt>> /\ pc' = [pc EXCEPT ![c] = "closing"]
    BY <1>3 DEF LeaveLoop, batchVars
  <2> QED
    BY <1>1, <2>1
<1> QED
  BY <1>2, <1>3

LEMMA NextTypeOK == TypeOK /\ [Next]_vars => TypeOK'
<1> SUFFICES ASSUME TypeOK, [Next]_vars PROVE TypeOK'
  OBVIOUS
<1> USE DEF TypeOK, kafkaVars, storeVars, groupVars, batchVars, ControlPoints
<1>1. ASSUME NEW p \in Partitions, NEW m \in Message, Produce(p, m) PROVE TypeOK'
  BY <1>1 DEF Produce
<1>2. ASSUME NEW c \in Consumers, Group(c) PROVE TypeOK'
  <2>1. CASE Revoke(c)
    <3>1. ToSet(acc[c]) \subseteq Trips
      BY DEF ToSet
    <3> QED
      BY <2>1, <3>1 DEF Revoke
  <2>2. CASE Fence(c)
    BY <2>2, FaultStep DEF Fence, Rebalance
  <2>3. CASE SessionTimeout(c)
    BY <2>3 DEF SessionTimeout, Rebalance
  <2>4. CASE Rejoin(c)
    BY <2>4 DEF Rejoin, Rebalance
  <2> QED
    BY <1>2, <2>1, <2>2, <2>3, <2>4 DEF Group
<1>3. ASSUME NEW c \in Consumers, Process(c) PROVE TypeOK'
  <2>1. CASE Start(c)
    BY <2>1 DEF Start, Rebalance
  <2>2. CASE RequestShutdown(c)
    BY <2>2, FaultStep DEF RequestShutdown
  <2>3. CASE Crash(c)
    BY <2>3, FaultStep DEF Crash, ForgetProcess
  <2>4. CASE Close(c)
    <3>1. revoking' \subseteq Consumers
      BY <2>4 DEF Close, Rebalance
    <3> QED
      BY <2>4, <3>1 DEF Close, ForgetProcess
  <2>5. CASE LoopHead(c)
    <3>1. CASE ~shutdown[c]
      <4>1. pc' = [pc EXCEPT ![c] = "polling"]
        BY <2>5, <3>1 DEF LoopHead, LeaveLoop
      <4>2. UNCHANGED <<kafkaVars, storeVars, groupVars, batchVars, shutdown, draining, faults>>
        BY <2>5, <3>1 DEF LoopHead, LeaveLoop
      <4> QED
        BY <4>1, <4>2
    <3>2. CASE LeaveLoop(c)
      <4>1. UNCHANGED <<kafkaVars, storeVars, groupVars, shutdown, faults>>
        BY <2>5 DEF LoopHead
      <4> QED
        BY <3>2, <4>1, LeaveLoopType
    <3> QED
      BY <2>5, <3>1, <3>2 DEF LoopHead
  <2>6. ASSUME NEW p \in Partitions, Deliver(c, p) PROVE TypeOK'
    <3>1. position[c][p] + 1 \in 1 .. Len(log[p])
      BY <2>6 DEF Deliver
    <3>2. log[p][position[c][p] + 1] \in Message
      BY <3>1
    <3>3. acc' \in [Consumers -> Seq(Trips)]
      BY <2>6, <3>2 DEF Deliver, Message
    <3>4. position' \in [Consumers -> [Partitions -> Nat]]
      BY <2>6 DEF Deliver
    <3>5. pc' \in [Consumers -> ControlPoints]
      BY <2>6 DEF Deliver
    <3>6. UNCHANGED <<kafkaVars, storeVars, member, assigned, revoking, traded, batch, attempt, shutdown,
                      draining, faults>>
      BY <2>6 DEF Deliver
    <3> QED
      BY <3>3, <3>4, <3>5, <3>6
  <2>7. CASE PollNothing(c)
    BY <2>7 DEF PollNothing
  <2>8. CASE PollFatal(c)
    <3>1. UNCHANGED <<kafkaVars, storeVars, groupVars, shutdown>> /\ faults' \in [kinds: SUBSET FaultKinds, left: Nat]
      BY <2>8, FaultStep DEF PollFatal
    <3> QED
      BY <2>8, <3>1, LeaveLoopType DEF PollFatal
  <2>9. CASE Flush(c)
    BY <2>9 DEF Flush, YieldBatch
  <2>10. CASE NoFlush(c)
    BY <2>10 DEF NoFlush
  <2>11. CASE InsertOk(c)
    <3>1. stored' \subseteq Trips /\ viewRows' \in [Trips -> Nat]
      BY <2>11, ApplyType DEF InsertOk
    <3> QED
      BY <2>11, <3>1 DEF InsertOk
  <2>12. CASE InsertError(c)
    <3>1. stored' \subseteq Trips /\ viewRows' \in [Trips -> Nat]
      BY <2>12, ApplyType DEF InsertError
    <3>2. faults' \in [kinds: SUBSET FaultKinds, left: Nat]
      BY <2>12, FaultStep DEF InsertError
    <3>3. UNCHANGED <<kafkaVars, groupVars, acc, draining>>
      BY <2>12 DEF InsertError
    <3>4. CASE attempt[c] < MaxAttempts /\ UNCHANGED <<pc, batch, shutdown>>
                 /\ attempt' = [attempt EXCEPT ![c] = @ + 1]
      BY <3>1, <3>2, <3>3, <3>4
    <3>5. CASE GiveUp(c)
      BY <3>1, <3>2, <3>3, <3>5 DEF GiveUp, Resume
    <3> QED
      BY <2>12, <3>4, <3>5 DEF InsertError
  <2>13. CASE InsertPoison(c)
    <3>1. UNCHANGED <<kafkaVars, storeVars, groupVars, acc, draining, faults>>
      BY <2>13 DEF InsertPoison
    <3>2. CASE UNCHANGED <<pc, batch, shutdown>> /\ attempt' = [attempt EXCEPT ![c] = @ + 1]
      BY <3>1, <3>2
    <3>3. CASE GiveUp(c)
      BY <3>1, <3>3 DEF GiveUp, Resume
    <3> QED
      BY <2>13, <3>2, <3>3 DEF InsertPoison
  <2>14. CASE CommitOk(c)
    BY <2>14 DEF CommitOk, CommitPositions, Uncommitted, Resume
  <2>15. CASE CommitRejected(c)
    BY <2>15 DEF CommitRejected, GiveUp, Resume
  <2>16. CASE CommitError(c)
    <3>1. faults' \in [kinds: SUBSET FaultKinds, left: Nat]
      BY <2>16, FaultStep DEF CommitError
    <3>2. committed' \in [Partitions -> Nat]
      <4>1. CommitPositions(c) => committed' \in [Partitions -> Nat]
        BY DEF CommitPositions, Uncommitted
      <4>2. UNCHANGED committed => committed' \in [Partitions -> Nat]
        OBVIOUS
      <4> QED
        BY <2>16, <4>1, <4>2 DEF CommitError
    <3>3. GiveUp(c) /\ UNCHANGED <<log, storeVars, groupVars, acc, draining>>
      BY <2>16 DEF CommitError
    <3>4. /\ pc' \in [Consumers -> ControlPoints]
          /\ batch' \in [Consumers -> Seq(Trips)]
          /\ attempt' \in [Consumers -> Nat]
          /\ shutdown' \in [Consumers -> BOOLEAN]
      BY <3>3 DEF GiveUp, Resume
    <3>5. UNCHANGED <<log, stored, viewRows, member, assigned, position, revoking, traded, acc, draining>>
      BY <3>3
    <3> QED
      BY <3>1, <3>2, <3>4, <3>5
  <2> QED
    BY <1>3, <2>1, <2>2, <2>3, <2>4, <2>5, <2>6, <2>7, <2>8, <2>9, <2>10, <2>11,
       <2>12, <2>13, <2>14, <2>15, <2>16 DEF Process, Poll, Persist
<1>4. CASE Assign
  <2>1. UNCHANGED <<kafkaVars, storeVars, member, revoking, traded, pc, batchVars, shutdown, draining, faults>>
    BY <1>4 DEF Assign
  <2>2. PICK owner \in [Partitions -> Members] :
          /\ assigned' = [c \in Consumers |-> IF member[c] THEN Share(owner, c) ELSE assigned[c]]
          /\ position' = [c \in Consumers |-> [p \in Partitions |->
                            IF member[c] /\ owner[p] = c THEN committed[p] ELSE position[c][p]]]
    BY <1>4 DEF Assign
  <2>3. assigned' \in [Consumers -> SUBSET Partitions]
    BY <2>2 DEF Share
  <2>4. position' \in [Consumers -> [Partitions -> Nat]]
    BY <2>2
  <2> QED
    BY <2>1, <2>3, <2>4
<1>5. CASE UNCHANGED vars
  BY <1>5 DEF vars
<1> QED
  BY <1>1, <1>2, <1>3, <1>4, <1>5 DEF Next

\* Every variable keeps its type.
THEOREM TypeCorrect == Spec => []TypeOK
  BY InitTypeOK, NextTypeOK, PTL DEF Spec

-----------------------------------------------------------------------------
(* The inductive invariant.                                                *)
(*                                                                         *)
(* NoLoss is preserved by a commit only because everything between the     *)
(* committed offset and the position of the committing consumer is in the  *)
(* table; that follows from ReadAheadHeld, the accumulator being empty and *)
(* the batch being stored at the control point of the commit               *)
(* (BatchControl). Another member's commit cannot break ReadAheadHeld      *)
(* because no two members own a partition (ExclusiveOwner).                *)

Held(c) == ToSet(acc[c]) \cup ToSet(batch[c])

LEMMA InitIInv == Init => IInv
<1> SUFFICES ASSUME Init PROVE IInv
  OBVIOUS
<1>1. TypeOK
  BY InitTypeOK
<1>2. NoLoss
  BY DEF Init, NoLoss
<1>3. ReadAheadHeld /\ ExclusiveOwner
  BY DEF Init, ReadAheadHeld, MayCommit, ExclusiveOwner
<1>4. OffsetBounds
  BY DEF Init, OffsetBounds
<1>5. RowsPublished
  BY ToSetEmpty DEF Init, RowsPublished
<1>6. BatchControl
  BY DEF Init, BatchControl
<1> QED
  BY <1>1, <1>2, <1>3, <1>4, <1>5, <1>6 DEF IInv

\* A step of one process that touches neither the topic, the table nor the
\* group, and that keeps the rows it holds as long as it may still commit.
LEMMA LocalStep ==
  ASSUME IInv, TypeOK', NEW c \in Consumers,
         UNCHANGED <<log, committed, stored, member, assigned, position>>,
         \A d \in Consumers \ {c} :
           pc'[d] = pc[d] /\ acc'[d] = acc[d] /\ batch'[d] = batch[d] /\ shutdown'[d] = shutdown[d],
         Running(c)' => Running(c),
         MayCommit(c)' => MayCommit(c) /\ Held(c) \subseteq Held(c)',
         Held(c)' \subseteq Held(c),
         BatchControl'
  PROVE  IInv'
<1> USE DEF IInv
<1>1. NoLoss'
  BY DEF NoLoss
<1>2. ExclusiveOwner'
  BY DEF ExclusiveOwner
<1>3. OffsetBounds'
  BY DEF OffsetBounds, Running
<1>4. RowsPublished'
  BY DEF RowsPublished, Published, Held
<1>5. ReadAheadHeld'
  <2> SUFFICES ASSUME NEW d \in Consumers, MayCommit(d)',
                      NEW p \in assigned[d], NEW i \in 1 .. Len(log[p]),
                      committed[p] < i, i <= position[d][p]
               PROVE  log[p][i] \in Held(d)' \cup stored \cup {Junk}
    BY DEF ReadAheadHeld, Held
  <2>1. MayCommit(d) /\ Held(d) \subseteq Held(d)'
    BY DEF MayCommit, Running, Held
  <2> QED
    BY <2>1 DEF ReadAheadHeld, Held
<1> QED
  BY <1>1, <1>2, <1>3, <1>4, <1>5

\* What the accumulated rows and the batch become when the generator flushes.
LEMMA YieldFacts ==
  ASSUME TypeOK, BatchControl, NEW c \in Consumers, YieldBatch(c),
         pc[c] \notin {"insert", "commit"}
  PROVE  /\ pc'[c] = "insert" /\ acc'[c] = <<>> /\ Held(c)' = Held(c)
         /\ \A d \in Consumers \ {c} :
              pc'[d] = pc[d] /\ acc'[d] = acc[d] /\ batch'[d] = batch[d]
         /\ stored' = stored => BatchControl'
<1>1. pc'[c] = "insert" /\ acc'[c] = <<>> /\ batch'[c] = acc[c]
  BY DEF YieldBatch, TypeOK
<1>2. batch[c] = <<>>
  BY DEF BatchControl
<1>3. Held(c)' = Held(c)
  BY <1>1, <1>2, ToSetEmpty DEF Held
<1>4. \A d \in Consumers \ {c} :
        pc'[d] = pc[d] /\ acc'[d] = acc[d] /\ batch'[d] = batch[d]
  BY DEF YieldBatch, TypeOK
<1>5. ASSUME stored' = stored PROVE BatchControl'
  BY <1>1, <1>4, <1>5 DEF BatchControl
<1> QED
  BY <1>1, <1>3, <1>4, <1>5

LEMMA LeaveLoopFacts ==
  ASSUME IInv, TypeOK', NEW c \in Consumers, LeaveLoop(c), Running(c),
         pc[c] \notin {"insert", "commit"},
         member[c] => MayCommit(c) \/ acc[c] = <<>>,
         UNCHANGED <<log, committed, stored, member, assigned, position, shutdown>>
  PROVE  IInv'
<1> USE DEF IInv
<1>1. CASE acc[c] # <<>>
  <2>1. YieldBatch(c) /\ (MayCommit(c)' => MayCommit(c))
    BY <1>1 DEF LeaveLoop, MayCommit
  <2> QED
    BY <2>1, YieldFacts, LocalStep
<1>2. CASE acc[c] = <<>>
  <2>1. pc'[c] = "closing" /\ acc' = acc /\ batch' = batch
    BY <1>2 DEF LeaveLoop, batchVars, TypeOK
  <2>2. \A d \in Consumers \ {c} : pc'[d] = pc[d]
    BY <1>2 DEF LeaveLoop, TypeOK
  <2>3. Held(c)' = Held(c)
    BY <2>1 DEF Held
  <2>4. BatchControl'
    BY <2>1, <2>2 DEF BatchControl
  <2>5. ~MayCommit(c)'
    BY <2>1 DEF MayCommit, Running
  <2> QED
    BY <2>1, <2>2, <2>3, <2>4, <2>5, LocalStep
<1> QED
  BY <1>1, <1>2

\* A failed insert or commit: the process can not commit any more.
LEMMA GiveUpFacts ==
  ASSUME IInv, NEW c \in Consumers, GiveUp(c), pc[c] \in {"insert", "commit"}, acc' = acc,
         stored \subseteq stored'
  PROVE  /\ ~MayCommit(c)' /\ Held(c)' \subseteq Held(c) /\ BatchControl'
         /\ \A d \in Consumers \ {c} :
              pc'[d] = pc[d] /\ batch'[d] = batch[d] /\ shutdown'[d] = shutdown[d]
<1> USE DEF IInv
<1>1. pc'[c] \in {"closing", "loop"} /\ batch'[c] = <<>> /\ shutdown'[c] /\ acc'[c] = <<>>
  BY DEF GiveUp, Resume, TypeOK, BatchControl
<1>2. \A d \in Consumers \ {c} :
        pc'[d] = pc[d] /\ batch'[d] = batch[d] /\ shutdown'[d] = shutdown[d]
  BY DEF GiveUp, Resume, TypeOK
<1>3. ~MayCommit(c)'
  BY <1>1 DEF MayCommit, Running
<1>4. Held(c)' \subseteq Held(c)
  BY <1>1, ToSetEmpty DEF Held
<1>5. BatchControl'
  BY <1>1, <1>2 DEF BatchControl
<1> QED
  BY <1>2, <1>3, <1>4, <1>5

LEMMA LocalActions ==
  ASSUME IInv, TypeOK', NEW c \in Consumers,
         \/ RequestShutdown(c) \/ LoopHead(c) \/ PollNothing(c) \/ PollFatal(c)
         \/ Flush(c) \/ NoFlush(c) \/ InsertPoison(c) \/ CommitRejected(c)
  PROVE  IInv'
<1> USE DEF IInv, kafkaVars, storeVars, groupVars, batchVars
<1>1. CASE RequestShutdown(c)
  <2>1. UNCHANGED <<log, committed, stored, member, assigned, position, pc, acc, batch>>
    BY <1>1 DEF RequestShutdown
  <2>2. shutdown'[c] /\ \A d \in Consumers \ {c} : shutdown'[d] = shutdown[d]
    BY <1>1 DEF RequestShutdown, TypeOK
  <2>3. BatchControl' /\ Held(c)' = Held(c)
    BY <2>1 DEF BatchControl, Held
  <2>4. MayCommit(c)' => MayCommit(c)
    BY <2>1, <2>2 DEF MayCommit, Running
  <2> QED
    BY <2>1, <2>2, <2>3, <2>4, LocalStep DEF Running
<1>2. CASE LoopHead(c)
  <2>1. CASE ~shutdown[c]
    <3>1. UNCHANGED <<log, committed, stored, member, assigned, position, acc, batch, shutdown>>
      BY <1>2, <2>1 DEF LoopHead, LeaveLoop
    <3>2. pc[c] = "loop" /\ pc'[c] = "polling" /\ \A d \in Consumers \ {c} : pc'[d] = pc[d]
      BY <1>2, <2>1 DEF LoopHead, TypeOK
    <3>3. BatchControl' /\ Held(c)' = Held(c)
      BY <3>1, <3>2 DEF BatchControl, Held
    <3>4. MayCommit(c)' => MayCommit(c)
      BY <2>1, <3>1, <3>2 DEF MayCommit, Running
    <3> QED
      BY <3>1, <3>2, <3>3, <3>4, LocalStep DEF Running
  <2>2. CASE LeaveLoop(c)
    <3>1. pc[c] = "loop" /\ UNCHANGED <<log, committed, stored, member, assigned, position, shutdown>>
      BY <1>2 DEF LoopHead
    <3>2. member[c] => MayCommit(c) \/ acc[c] = <<>>
      BY <3>1 DEF MayCommit, Running
    <3> QED
      BY <2>2, <3>1, <3>2, LeaveLoopFacts DEF Running
  <2> QED
    BY <1>2, <2>1, <2>2 DEF LoopHead
<1>3. CASE PollNothing(c) \/ NoFlush(c)
  <2>1. UNCHANGED <<log, committed, stored, member, assigned, position, acc, batch, shutdown>>
    BY <1>3 DEF PollNothing, NoFlush
  <2>2. /\ pc[c] \in {"polling", "polled"} /\ pc'[c] \in {"polled", "loop"}
        /\ \A d \in Consumers \ {c} : pc'[d] = pc[d]
    BY <1>3 DEF PollNothing, NoFlush, TypeOK
  <2>3. BatchControl' /\ Held(c)' = Held(c)
    BY <2>1, <2>2 DEF BatchControl, Held
  <2>4. MayCommit(c)' => MayCommit(c)
    BY <2>1, <2>2 DEF MayCommit, Running
  <2> QED
    BY <2>1, <2>2, <2>3, <2>4, LocalStep DEF Running
<1>4. CASE PollFatal(c)
  <2>1. /\ pc[c] = "polling" /\ LeaveLoop(c)
        /\ UNCHANGED <<log, committed, stored, member, assigned, position, shutdown>>
    BY <1>4 DEF PollFatal
  <2> QED
    BY <2>1, LeaveLoopFacts DEF Running, MayCommit
<1>5. CASE Flush(c)
  <2>1. /\ pc[c] = "polled" /\ YieldBatch(c)
        /\ UNCHANGED <<log, committed, stored, member, assigned, position, shutdown>>
    BY <1>5 DEF Flush
  <2> QED
    BY <2>1, YieldFacts, LocalStep DEF Running, MayCommit
<1>6. CASE InsertPoison(c) \/ CommitRejected(c)
  <2>1. /\ pc[c] \in {"insert", "commit"}
        /\ GiveUp(c) \/ UNCHANGED <<pc, batch, shutdown>>
        /\ UNCHANGED <<log, committed, stored, member, assigned, position, acc>>
    BY <1>6 DEF InsertPoison, CommitRejected
  <2>2. CASE GiveUp(c)
    <3>1. /\ ~MayCommit(c)' /\ Held(c)' \subseteq Held(c) /\ BatchControl' /\ Running(c)
          /\ \A d \in Consumers \ {c} :
               pc'[d] = pc[d] /\ batch'[d] = batch[d] /\ shutdown'[d] = shutdown[d]
      BY <2>1, <2>2, GiveUpFacts DEF Running
    <3> QED
      BY <2>1, <3>1, LocalStep
  <2>3. CASE UNCHANGED <<pc, batch, shutdown>>
    <3>1. BatchControl' /\ Held(c)' = Held(c) /\ (MayCommit(c)' = MayCommit(c)) /\ Running(c)' = Running(c)
      BY <2>1, <2>3 DEF BatchControl, Held, MayCommit, Running
    <3> QED
      BY <2>1, <2>3, <3>1, LocalStep
  <2> QED
    BY <2>1, <2>2, <2>3
<1> QED
  BY <1>1, <1>2, <1>3, <1>4, <1>5, <1>6

\* A step that changes the group's view of one process, or its life: every
\* partition it then reads is one it read before, from the same position, or
\* a free one that it reads from the committed offset.
LEMMA GroupStep ==
  ASSUME IInv, TypeOK', NEW c \in Consumers,
         UNCHANGED <<log, committed, stored>>,
         \A d \in Consumers \ {c} :
           /\ member'[d] = member[d] /\ assigned'[d] = assigned[d] /\ position'[d] = position[d]
           /\ pc'[d] = pc[d] /\ acc'[d] = acc[d] /\ batch'[d] = batch[d]
           /\ shutdown'[d] = shutdown[d],
         \A p \in assigned'[c] : position'[c][p] <= Len(log[p]),
         \A p \in assigned'[c] : member'[c] =>
           \/ member[c] /\ p \in assigned[c]
           \/ \A d \in Consumers \ {c} : member[d] => p \notin assigned[d],
         \A p \in assigned'[c] : member'[c] /\ Running(c)' =>
           \/ position'[c][p] = committed[p]
           \/ /\ member[c] /\ Running(c) /\ p \in assigned[c]
              /\ position'[c][p] = position[c][p],
         \A p \in assigned'[c] : MayCommit(c)' =>
           \/ position'[c][p] = committed[p]
           \/ /\ MayCommit(c) /\ p \in assigned[c]
              /\ position'[c][p] = position[c][p] /\ Held(c) \subseteq Held(c)',
         Held(c)' \subseteq Held(c),
         BatchControl'
  PROVE  IInv'
<1> USE DEF IInv
<1>1. NoLoss'
  BY DEF NoLoss
<1>2. ExclusiveOwner'
  BY DEF ExclusiveOwner
<1>3. OffsetBounds'
  <2>1. \A p \in Partitions : committed'[p] <= Len(log'[p])
    BY DEF OffsetBounds
  <2>2. ASSUME NEW d \in Consumers, NEW p \in assigned'[d]
        PROVE  /\ position'[d][p] <= Len(log'[p])
               /\ member'[d] /\ Running(d)' => committed'[p] <= position'[d][p]
    <3>1. CASE d = c
      <4>1. p \in Partitions /\ committed[p] \in Nat
        BY DEF TypeOK
      <4> QED
        BY <3>1, <2>2, <4>1 DEF OffsetBounds
    <3>2. CASE d # c
      BY <3>2, <2>2 DEF OffsetBounds, Running
    <3> QED
      BY <3>1, <3>2
  <2> QED
    BY <2>1, <2>2 DEF OffsetBounds
<1>4. RowsPublished'
  BY DEF RowsPublished, Published, Held
<1>5. ReadAheadHeld'
  <2> SUFFICES ASSUME NEW d \in Consumers, MayCommit(d)',
                      NEW p \in assigned'[d], NEW i \in 1 .. Len(log[p]),
                      committed[p] < i, i <= position'[d][p]
               PROVE  log[p][i] \in Held(d)' \cup stored \cup {Junk}
    BY DEF ReadAheadHeld, Held
  <2>0. p \in Partitions /\ committed[p] \in Nat /\ i \in Int
    BY DEF TypeOK
  <2>1. MayCommit(d) /\ Held(d) \subseteq Held(d)' /\ p \in assigned[d]
          /\ position'[d][p] = position[d][p]
    <3>1. CASE d = c
      BY <2>0, <3>1
    <3>2. CASE d # c
      BY <3>2 DEF MayCommit, Running, Held
    <3> QED
      BY <3>1, <3>2
  <2> QED
    BY <2>1 DEF ReadAheadHeld, Held
<1> QED
  BY <1>1, <1>2, <1>3, <1>4, <1>5

LEMMA GroupActions ==
  ASSUME IInv, TypeOK', NEW c \in Consumers, Group(c)
  PROVE  IInv'
<1> USE DEF IInv, kafkaVars, storeVars, groupVars, batchVars
<1>1. UNCHANGED <<log, committed, stored, pc, acc, batch, shutdown>>
  BY DEF Group, Revoke, Fence, SessionTimeout, Rejoin
<1>2. Held(c)' = Held(c) /\ BatchControl' /\ Running(c)' = Running(c)
  BY <1>1 DEF Held, BatchControl, Running
<1>3. \A d \in Consumers \ {c} :
        member'[d] = member[d] /\ assigned'[d] = assigned[d] /\ position'[d] = position[d]
  BY DEF Group, Revoke, Fence, SessionTimeout, Rejoin, TypeOK
<1>4. \A p \in assigned[c] : p \in Partitions /\ position[c][p] <= Len(log[p])
  BY DEF OffsetBounds, TypeOK
<1>5. CASE Revoke(c) \/ Rejoin(c)
  <2>1. assigned'[c] = {}
    BY <1>5 DEF Revoke, Rejoin, TypeOK
  <2> QED
    BY <1>1, <1>2, <1>3, <2>1, GroupStep
<1>6. CASE Fence(c)
  <2>1. ~member'[c] /\ assigned' = assigned /\ position' = position
    BY <1>6 DEF Fence, TypeOK
  <2> QED
    BY <1>1, <1>2, <1>3, <1>4, <2>1, GroupStep DEF MayCommit
<1>7. CASE SessionTimeout(c)
  <2>1. ~member'[c] /\ assigned'[c] = {}
    BY <1>7 DEF SessionTimeout, TypeOK
  <2> QED
    BY <1>1, <1>2, <1>3, <2>1, GroupStep
<1> QED
  BY <1>5, <1>6, <1>7 DEF Group

\* What the end of a rebalance gives each member: partitions that it did not have
\* before and that nobody else gets, at the committed offsets.
LEMMA AssignFacts ==
  ASSUME TypeOK, Assign
  PROVE  /\ UNCHANGED <<log, committed, stored, viewRows, member, traded, pc, acc, batch, shutdown>>
         /\ \A c \in Consumers : member[c] =>
              /\ Running(c) /\ assigned[c] = {}
              /\ \A p \in assigned'[c] : p \in Partitions /\ position'[c][p] = committed[p]
         /\ \A c \in Consumers : ~member[c] =>
              assigned'[c] = assigned[c] /\ \A p \in Partitions : position'[c][p] = position[c][p]
         /\ \A c, d \in Consumers :
              c # d /\ member[c] /\ member[d] => assigned'[c] \cap assigned'[d] = {}
<1>1. UNCHANGED <<log, committed, stored, viewRows, member, traded, pc, acc, batch, shutdown>>
  BY DEF Assign, kafkaVars, storeVars, batchVars
<1>2. \A c \in Consumers : member[c] => Running(c) /\ assigned[c] = {}
  BY DEF Assign, Members
<1>3. PICK owner \in [Partitions -> Members] :
        /\ assigned' = [c \in Consumers |-> IF member[c] THEN Share(owner, c) ELSE assigned[c]]
        /\ position' = [c \in Consumers |-> [p \in Partitions |->
                          IF member[c] /\ owner[p] = c THEN committed[p] ELSE position[c][p]]]
  BY DEF Assign
<1>4. ASSUME NEW c \in Consumers, member[c], NEW p \in assigned'[c]
      PROVE  p \in Partitions /\ owner[p] = c /\ position'[c][p] = committed[p]
  BY <1>3, <1>4 DEF Share
<1>5. \A c \in Consumers : ~member[c] =>
        assigned'[c] = assigned[c] /\ \A p \in Partitions : position'[c][p] = position[c][p]
  BY <1>3
<1> QED
  BY <1>1, <1>2, <1>4, <1>5

\* No member has read anything of what it gets.
LEMMA AssignStep ==
  ASSUME IInv, TypeOK', Assign
  PROVE  IInv'
<1> USE DEF IInv
<1>1. /\ UNCHANGED <<log, committed, stored, member, pc, acc, batch, shutdown>>
      /\ \A c \in Consumers : member[c] =>
           \A p \in assigned'[c] : p \in Partitions /\ position'[c][p] = committed[p]
      /\ \A c \in Consumers : ~member[c] =>
           assigned'[c] = assigned[c] /\ \A p \in Partitions : position'[c][p] = position[c][p]
      /\ \A c, d \in Consumers :
           c # d /\ member[c] /\ member[d] => assigned'[c] \cap assigned'[d] = {}
  BY AssignFacts
<1>2. NoLoss' /\ ExclusiveOwner'
  BY <1>1 DEF NoLoss, ExclusiveOwner
<1>3. RowsPublished' /\ BatchControl'
  BY <1>1 DEF RowsPublished, Published, BatchControl
<1>4. OffsetBounds'
  <2>1. \A p \in Partitions : committed[p] \in Nat /\ committed[p] <= Len(log[p])
    BY DEF OffsetBounds, TypeOK
  <2>2. ASSUME NEW c \in Consumers, NEW p \in assigned'[c]
        PROVE  /\ position'[c][p] <= Len(log[p])
               /\ member[c] => committed[p] <= position'[c][p]
    <3>1. CASE member[c]
      BY <1>1, <2>1, <2>2, <3>1
    <3>2. CASE ~member[c]
      <4>1. p \in assigned[c] /\ p \in Partitions /\ position'[c][p] = position[c][p]
        BY <1>1, <2>2, <3>2 DEF TypeOK
      <4> QED
        BY <3>2, <4>1 DEF OffsetBounds
    <3> QED
      BY <3>1, <3>2
  <2> QED
    BY <1>1, <2>1, <2>2 DEF OffsetBounds
<1>5. ReadAheadHeld'
  <2> SUFFICES ASSUME NEW c \in Consumers, MayCommit(c)', NEW p \in assigned'[c],
                      NEW i \in 1 .. Len(log[p]), committed[p] < i, i <= position'[c][p]
               PROVE  FALSE
    BY <1>1 DEF ReadAheadHeld
  <2>1. member[c]
    BY <1>1 DEF MayCommit
  <2>2. p \in Partitions /\ position'[c][p] = committed[p] /\ committed[p] \in Nat
    BY <1>1, <2>1 DEF TypeOK
  <2> QED
    BY <2>2
<1> QED
  BY <1>2, <1>3, <1>4, <1>5

\* The memory of a dead process holds nothing, and its client reads nothing.
LEMMA LifeActions ==
  ASSUME IInv, TypeOK', NEW c \in Consumers, Start(c) \/ Crash(c) \/ Close(c)
  PROVE  IInv'
<1> USE DEF IInv, kafkaVars, storeVars, groupVars, batchVars
<1>1. CASE Start(c)
  <2>1. UNCHANGED <<log, committed, stored, position, acc, batch, shutdown>>
    BY <1>1 DEF Start
  <2>2. /\ pc[c] = "down" /\ pc'[c] = "loop" /\ assigned'[c] = {}
        /\ \A d \in Consumers \ {c} :
             member'[d] = member[d] /\ assigned'[d] = assigned[d] /\ pc'[d] = pc[d]
    BY <1>1 DEF Start, TypeOK
  <2>3. Held(c)' = Held(c) /\ BatchControl'
    BY <2>1, <2>2 DEF Held, BatchControl
  <2> QED
    BY <2>1, <2>2, <2>3, GroupStep
<1>2. CASE Crash(c) \/ Close(c)
  <2>1. ForgetProcess(c) /\ UNCHANGED <<log, committed, stored>>
    BY <1>2 DEF Crash, Close
  <2>2. /\ pc'[c] = "down" /\ acc'[c] = <<>> /\ batch'[c] = <<>>
        /\ position'[c] = [p \in Partitions |-> 0]
        /\ \A d \in Consumers \ {c} :
             /\ pc'[d] = pc[d] /\ acc'[d] = acc[d] /\ batch'[d] = batch[d]
             /\ shutdown'[d] = shutdown[d] /\ position'[d] = position[d]
    BY <2>1 DEF ForgetProcess, TypeOK
  <2>3. /\ \A d \in Consumers \ {c} : member'[d] = member[d] /\ assigned'[d] = assigned[d]
        /\ assigned'[c] \subseteq assigned[c] /\ (member'[c] => member[c])
    BY <1>2 DEF Crash, Close, TypeOK
  <2>4. \A p \in assigned'[c] : position'[c][p] <= Len(log[p])
    <3>1. \A p \in assigned'[c] : p \in Partitions /\ Len(log[p]) \in Nat
      BY <2>3 DEF TypeOK
    <3> QED
      BY <2>2, <3>1
  <2>5. Held(c)' = {} /\ BatchControl' /\ ~Running(c)' /\ ~MayCommit(c)'
    BY <2>1, <2>2, ToSetEmpty DEF Held, BatchControl, Running, MayCommit
  <2> QED
    BY <2>1, <2>2, <2>3, <2>4, <2>5, GroupStep
<1> QED
  BY <1>1, <1>2

\* A new message changes nothing below the end of its partition.
LEMMA ProduceStep ==
  ASSUME IInv, TypeOK', NEW p \in Partitions, NEW m \in Message, Produce(p, m)
  PROVE  IInv'
<1> USE DEF IInv, kafkaVars, storeVars, groupVars, batchVars
<1>1. UNCHANGED <<committed, stored, member, assigned, position, pc, acc, batch, shutdown>>
  BY DEF Produce
<1>2. \A q \in Partitions : /\ Len(log[q]) \in Nat /\ Len(log'[q]) \in Nat
                             /\ Len(log[q]) <= Len(log'[q])
                             /\ \A i \in 1 .. Len(log[q]) : log'[q][i] = log[q][i]
  BY DEF Produce, TypeOK
<1>3. \A q \in Partitions : committed[q] \in Nat /\ committed[q] <= Len(log[q])
  BY DEF OffsetBounds, TypeOK
<1>4. \A c \in Consumers : \A q \in assigned[c] :
        q \in Partitions /\ position[c][q] \in Nat /\ position[c][q] <= Len(log[q])
  BY DEF OffsetBounds, TypeOK
<1>5. NoLoss'
  <2> SUFFICES ASSUME NEW q \in Partitions, NEW i \in 1 .. Len(log'[q]), i <= committed[q]
               PROVE  log'[q][i] \in stored \cup {Junk}
    BY <1>1 DEF NoLoss
  <2>1. i \in 1 .. Len(log[q])
    BY <1>2, <1>3
  <2> QED
    BY <1>2, <2>1 DEF NoLoss
<1>6. ReadAheadHeld'
  <2> SUFFICES ASSUME NEW c \in Consumers, MayCommit(c), NEW q \in assigned[c],
                      NEW i \in 1 .. Len(log'[q]), committed[q] < i, i <= position[c][q]
               PROVE  log'[q][i] \in ToSet(acc[c]) \cup ToSet(batch[c]) \cup stored \cup {Junk}
    BY <1>1 DEF ReadAheadHeld, MayCommit, Running
  <2>1. i \in 1 .. Len(log[q])
    BY <1>2, <1>4
  <2> QED
    BY <1>2, <1>4, <2>1 DEF ReadAheadHeld
<1>7. ExclusiveOwner' /\ BatchControl'
  BY <1>1 DEF ExclusiveOwner, BatchControl
<1>8. OffsetBounds'
  <2>1. \A q \in Partitions : committed'[q] <= Len(log'[q])
    BY <1>1, <1>2, <1>3
  <2>2. \A c \in Consumers : \A q \in assigned'[c] : position'[c][q] <= Len(log'[q])
    BY <1>1, <1>2, <1>4
  <2>3. \A c \in Consumers : Running(c)' = Running(c)
    BY <1>1 DEF Running
  <2> QED
    BY <1>1, <2>1, <2>2, <2>3 DEF OffsetBounds
<1>9. RowsPublished'
  <2> SUFFICES ASSUME NEW t, Published(t) PROVE Published(t)'
    BY <1>1 DEF RowsPublished
  <2>0. PICK q \in Partitions : \E i \in DOMAIN log[q] : log[q][i] = t
    BY DEF Published
  <2>1. PICK i \in DOMAIN log[q] : log[q][i] = t
    BY <2>0
  <2>2. i \in 1 .. Len(log[q]) /\ DOMAIN log'[q] = 1 .. Len(log'[q])
    BY <2>1 DEF TypeOK
  <2>3. i \in DOMAIN log'[q] /\ log'[q][i] = t
    BY <1>2, <2>1, <2>2
  <2> QED
    BY <2>3 DEF Published
<1> QED
  BY <1>5, <1>6, <1>7, <1>8, <1>9

\* The message poll returns is accumulated, or is junk; the position moves
\* over exactly that message.
LEMMA DeliverStep ==
  ASSUME IInv, TypeOK', NEW c \in Consumers, NEW p \in Partitions, Deliver(c, p)
  PROVE  IInv'
<1> DEFINE m == log[p][position[c][p] + 1]
<1> USE DEF IInv, kafkaVars, storeVars, groupVars, batchVars
<1>1. /\ UNCHANGED <<log, committed, stored, member, assigned, batch, shutdown>>
      /\ pc[c] = "polling" /\ p \in assigned[c] /\ position[c][p] < Len(log[p])
  BY DEF Deliver
<1>2. pc'[c] = "polled" /\ \A d \in Consumers \ {c} : pc'[d] = pc[d]
  BY DEF Deliver, TypeOK
<1>3. /\ position'[c][p] = position[c][p] + 1
      /\ \A q \in Partitions \ {p} : position'[c][q] = position[c][q]
      /\ \A d \in Consumers \ {c} : position'[d] = position[d]
  BY DEF Deliver, TypeOK
<1>4. /\ Len(log[p]) \in Nat /\ position[c][p] \in Nat /\ m \in Message
      /\ position[c][p] + 1 \in DOMAIN log[p]
  BY <1>1 DEF TypeOK
<1>5. /\ \A d \in Consumers \ {c} : acc'[d] = acc[d]
      /\ ToSet(acc'[c]) = IF m = Junk THEN ToSet(acc[c]) ELSE ToSet(acc[c]) \cup {m}
  <2>1. CASE m = Junk
    BY <2>1 DEF Deliver
  <2>2. CASE m # Junk
    <3>1. m \in Trips /\ acc[c] \in Seq(Trips)
      BY <1>4, <2>2 DEF Message, TypeOK
    <3>2. acc' = [acc EXCEPT ![c] = Append(@, m)]
      BY <2>2 DEF Deliver
    <3>3. acc'[c] = Append(acc[c], m) /\ \A d \in Consumers \ {c} : acc'[d] = acc[d]
      BY <3>2 DEF TypeOK
    <3> QED
      BY <2>2, <3>1, <3>3, ToSetAppend
  <2> QED
    BY <2>1, <2>2
<1>6. NoLoss' /\ ExclusiveOwner'
  BY <1>1 DEF NoLoss, ExclusiveOwner
<1>7. BatchControl'
  BY <1>1, <1>2, <1>5 DEF BatchControl
<1>8. OffsetBounds'
  <2>1. ASSUME NEW d \in Consumers, NEW q \in assigned[d]
        PROVE  /\ position'[d][q] <= Len(log[q])
               /\ member[d] /\ Running(d)' => committed[q] <= position'[d][q]
    <3>1. q \in Partitions /\ committed[q] \in Nat
      BY DEF TypeOK
    <3>2. CASE d = c /\ q = p
      BY <1>1, <1>3, <1>4, <3>1, <3>2 DEF OffsetBounds, Running
    <3>3. CASE ~(d = c /\ q = p)
      BY <1>1, <1>2, <1>3, <3>1, <3>3 DEF OffsetBounds, Running
    <3> QED
      BY <3>2, <3>3
  <2> QED
    BY <1>1, <2>1 DEF OffsetBounds
<1>9. RowsPublished'
  <2>1. m # Junk => Published(m)
    BY <1>4 DEF Published
  <2> QED
    BY <1>1, <1>5, <2>1 DEF RowsPublished, Published
<1>10. ReadAheadHeld'
  <2> SUFFICES ASSUME NEW d \in Consumers, MayCommit(d)', NEW q \in assigned[d],
                      NEW i \in 1 .. Len(log[q]), committed[q] < i, i <= position'[d][q]
               PROVE  log[q][i] \in ToSet(acc'[d]) \cup ToSet(batch[d]) \cup stored \cup {Junk}
    BY <1>1 DEF ReadAheadHeld
  <2>1. q \in Partitions /\ MayCommit(d)
    BY <1>1, <1>2, <1>5 DEF MayCommit, Running, TypeOK
  <2>2. CASE i <= position[d][q]
    BY <1>5, <2>1, <2>2 DEF ReadAheadHeld
  <2>3. CASE ~(i <= position[d][q])
    <3>1. d = c /\ q = p
      BY <1>3, <2>1, <2>3
    <3>2. i = position[c][p] + 1
      BY <1>3, <1>4, <2>3, <3>1
    <3> QED
      BY <1>5, <3>1, <3>2
  <2> QED
    BY <2>2, <2>3
<1> QED
  BY <1>6, <1>7, <1>8, <1>9, <1>10

\* A step that only adds rows to the table and lets one process go from the
\* insert to where it continues.
LEMMA InsertStep ==
  ASSUME IInv, TypeOK', NEW c \in Consumers, InsertOk(c) \/ InsertError(c)
  PROVE  IInv'
<1> USE DEF IInv, kafkaVars, storeVars, groupVars, batchVars
<1>1. /\ UNCHANGED <<log, committed, member, assigned, position, acc>>
      /\ pc[c] = "insert" /\ stored \subseteq stored'
  BY DEF InsertOk, InsertError, Apply
<1>2. /\ Running(c) /\ Held(c)' \subseteq Held(c) /\ BatchControl'
      /\ MayCommit(c)' => MayCommit(c) /\ Held(c)' = Held(c)
      /\ \A d \in Consumers \ {c} :
           pc'[d] = pc[d] /\ batch'[d] = batch[d] /\ shutdown'[d] = shutdown[d]
  <2>1. CASE InsertOk(c)
    <3>1. /\ UNCHANGED <<batch, shutdown>> /\ pc'[c] = "commit" /\ ToSet(batch[c]) \subseteq stored'
          /\ \A d \in Consumers \ {c} : pc'[d] = pc[d]
      BY <2>1 DEF InsertOk, Apply, TypeOK
    <3>2. Held(c)' = Held(c) /\ Running(c)
      BY <1>1, <3>1 DEF Held, Running
    <3>3. BatchControl'
      BY <1>1, <3>1 DEF BatchControl
    <3>4. MayCommit(c)' => MayCommit(c)
      BY <1>1, <3>1 DEF MayCommit, Running
    <3> QED
      BY <3>1, <3>2, <3>3, <3>4
  <2>2. CASE InsertError(c) /\ UNCHANGED <<pc, batch, shutdown>>
    <3>1. BatchControl' /\ Held(c)' = Held(c) /\ (MayCommit(c)' = MayCommit(c)) /\ Running(c)
      BY <1>1, <2>2 DEF BatchControl, Held, MayCommit, Running
    <3> QED
      BY <2>2, <3>1
  <2>3. CASE GiveUp(c)
    BY <1>1, <2>3, GiveUpFacts DEF Running
  <2> QED
    BY <2>1, <2>2, <2>3 DEF InsertError
<1>3. NoLoss' /\ ExclusiveOwner'
  BY <1>1 DEF NoLoss, ExclusiveOwner
<1>4. OffsetBounds'
  <2>1. \A d \in Consumers : Running(d)' => Running(d)
    BY <1>2 DEF Running
  <2> QED
    BY <1>1, <2>1 DEF OffsetBounds
<1>5. RowsPublished'
  BY <1>1, <1>2 DEF RowsPublished, Published, Held
<1>6. ReadAheadHeld'
  <2> SUFFICES ASSUME NEW d \in Consumers, MayCommit(d)',
                      NEW p \in assigned[d], NEW i \in 1 .. Len(log[p]),
                      committed[p] < i, i <= position[d][p]
               PROVE  log[p][i] \in Held(d)' \cup stored' \cup {Junk}
    BY <1>1 DEF ReadAheadHeld, Held
  <2>1. MayCommit(d) /\ Held(d)' = Held(d)
    BY <1>1, <1>2 DEF MayCommit, Running, Held
  <2> QED
    BY <1>1, <2>1 DEF ReadAheadHeld, Held
<1> QED
  BY <1>2, <1>3, <1>4, <1>5, <1>6

\* What a commit may do to the committed offsets: those it moves end at the
\* position of the committing member, and everything below is in the table.
LEMMA CommitFacts ==
  ASSUME IInv, NEW c \in Consumers, member[c], pc[c] = "commit", CommitPositions(c)
  PROVE  \A p \in Partitions :
           /\ committed'[p] \in Nat
           /\ committed[p] <= committed'[p] /\ committed'[p] <= Len(log[p])
           /\ committed'[p] # committed[p] => p \in assigned[c]
           /\ \A i \in 1 .. Len(log[p]) :
                i <= committed'[p] => log[p][i] \in stored \cup {Junk}
<1> USE DEF IInv
<1> SUFFICES ASSUME NEW p \in Partitions
             PROVE  /\ committed'[p] \in Nat
                    /\ committed[p] <= committed'[p] /\ committed'[p] <= Len(log[p])
                    /\ committed'[p] # committed[p] => p \in assigned[c]
                    /\ \A i \in 1 .. Len(log[p]) :
                         i <= committed'[p] => log[p][i] \in stored \cup {Junk}
  OBVIOUS
<1>1. committed[p] \in Nat /\ position[c][p] \in Nat /\ committed[p] <= Len(log[p])
  BY DEF TypeOK, OffsetBounds
<1>2. CASE p \in Uncommitted(c)
  <2>1. committed'[p] = position[c][p] /\ p \in assigned[c] /\ committed[p] < position[c][p]
    BY <1>2 DEF CommitPositions, Uncommitted
  <2>2. position[c][p] <= Len(log[p])
    BY <2>1 DEF OffsetBounds
  <2>3. MayCommit(c)
    BY DEF MayCommit, Running
  <2>4. ASSUME NEW i \in 1 .. Len(log[p]), i <= position[c][p]
        PROVE  log[p][i] \in stored \cup {Junk}
    <3>1. CASE i <= committed[p]
      BY <3>1 DEF NoLoss
    <3>2. CASE committed[p] < i
      <4>1. log[p][i] \in ToSet(acc[c]) \cup ToSet(batch[c]) \cup stored \cup {Junk}
        BY <2>1, <2>3, <2>4, <3>2 DEF ReadAheadHeld
      <4>2. ToSet(acc[c]) = {} /\ ToSet(batch[c]) \subseteq stored
        BY ToSetEmpty DEF BatchControl
      <4> QED
        BY <4>1, <4>2
    <3> QED
      BY <1>1, <3>1, <3>2
  <2> QED
    BY <1>1, <2>1, <2>2, <2>4
<1>3. CASE p \notin Uncommitted(c)
  <2>1. committed'[p] = committed[p]
    BY <1>3 DEF CommitPositions
  <2> QED
    BY <1>1, <2>1 DEF NoLoss
<1> QED
  BY <1>2, <1>3

LEMMA CommitStep ==
  ASSUME IInv, TypeOK', NEW c \in Consumers, CommitOk(c) \/ CommitError(c)
  PROVE  IInv'
<1> USE DEF IInv, kafkaVars, storeVars, groupVars, batchVars
<1>1. /\ UNCHANGED <<log, stored, member, assigned, position, acc>>
      /\ pc[c] = "commit" /\ member[c]
  BY DEF CommitOk, CommitError
<1>2. CASE UNCHANGED committed /\ GiveUp(c)
  BY <1>1, <1>2, GiveUpFacts, LocalStep DEF Running
<1>3. CASE CommitPositions(c) /\ Resume(c)
  <2>1. \A p \in Partitions :
          /\ committed'[p] \in Nat
          /\ committed[p] <= committed'[p] /\ committed'[p] <= Len(log[p])
          /\ committed'[p] # committed[p] => p \in assigned[c]
          /\ \A i \in 1 .. Len(log[p]) :
               i <= committed'[p] => log[p][i] \in stored \cup {Junk}
    BY <1>1, <1>3, CommitFacts
  <2>2. NoLoss' /\ ExclusiveOwner'
    BY <1>1, <2>1 DEF NoLoss, ExclusiveOwner
  <2>3. /\ pc'[c] \in {"closing", "loop"} /\ batch'[c] = <<>> /\ acc'[c] = <<>>
        /\ \A d \in Consumers \ {c} : pc'[d] = pc[d] /\ batch'[d] = batch[d]
    BY <1>1, <1>3 DEF Resume, TypeOK, BatchControl
  <2>4. BatchControl'
    BY <1>1, <2>3 DEF BatchControl
  <2>5. RowsPublished'
    BY <1>1, <2>3, ToSetEmpty DEF RowsPublished, Published
  <2>6. \A p \in assigned[c] : p \in Partitions /\ position[c][p] <= committed'[p]
    BY <1>1, <1>3 DEF CommitPositions, Uncommitted, TypeOK
  <2>7. \A d \in Consumers \ {c} : member[d] =>
          \A p \in assigned[d] : p \in Partitions /\ committed'[p] = committed[p]
    BY <1>1, <2>1 DEF ExclusiveOwner, TypeOK
  <2>8. OffsetBounds'
    <3>1. \A p \in Partitions : committed'[p] <= Len(log'[p])
      BY <1>1, <2>1
    <3>2. ASSUME NEW d \in Consumers, NEW p \in assigned[d]
          PROVE  /\ position[d][p] <= Len(log[p])
                 /\ member[d] /\ Running(d)' => committed'[p] <= position[d][p]
      <4>1. p \in Partitions /\ position[d][p] \in Nat /\ committed[p] \in Nat
        BY DEF TypeOK
      <4>2. CASE d = c
        <5>1. committed'[p] = position[c][p]
          <6>1. committed[p] <= position[c][p]
            BY <1>1, <3>2, <4>2 DEF OffsetBounds, Running
          <6> QED
            BY <1>3, <3>2, <4>1, <4>2, <6>1 DEF CommitPositions, Uncommitted
        <5> QED
          BY <3>2, <4>1, <4>2, <5>1 DEF OffsetBounds
      <4>3. CASE d # c
        BY <2>3, <2>7, <3>2, <4>3 DEF OffsetBounds, Running
      <4> QED
        BY <4>2, <4>3
    <3> QED
      BY <1>1, <3>1, <3>2 DEF OffsetBounds
  <2>9. ReadAheadHeld'
    <3> SUFFICES ASSUME NEW d \in Consumers, MayCommit(d)',
                        NEW p \in assigned[d], NEW i \in 1 .. Len(log[p]),
                        committed'[p] < i, i <= position[d][p]
                 PROVE  log[p][i] \in ToSet(acc'[d]) \cup ToSet(batch'[d]) \cup stored \cup {Junk}
      BY <1>1 DEF ReadAheadHeld
    <3>1. d # c
      <4>1. \A q \in assigned[c] : position[c][q] \in Nat /\ committed'[q] \in Nat
        BY <2>1 DEF TypeOK
      <4> QED
        BY <2>6, <4>1
    <3>2. member[d] /\ committed'[p] = committed[p]
      BY <1>1, <2>7, <3>1 DEF MayCommit
    <3>3. MayCommit(d)
      <4>1. CASE shutdown'[d] = shutdown[d]
        BY <1>1, <2>3, <3>1, <4>1 DEF MayCommit, Running
      <4>2. shutdown'[d] = shutdown[d]
        BY <3>1 DEF CommitOk, CommitError, GiveUp, TypeOK
      <4> QED
        BY <4>1, <4>2
    <3> QED
      BY <1>1, <2>3, <3>1, <3>2, <3>3 DEF ReadAheadHeld
  <2> QED
    BY <2>2, <2>4, <2>5, <2>8, <2>9
<1> QED
  BY <1>2, <1>3 DEF CommitOk, CommitError, GiveUp

LEMMA NextIInv == IInv /\ [Next]_vars => IInv'
<1> SUFFICES ASSUME IInv, [Next]_vars PROVE IInv'
  OBVIOUS
<1>1. TypeOK'
  BY NextTypeOK DEF IInv
<1>2. CASE \E p \in Partitions, m \in Message : Produce(p, m)
  BY <1>1, <1>2, ProduceStep
<1>3. ASSUME NEW c \in Consumers, Group(c) PROVE IInv'
  BY <1>1, <1>3, GroupActions
<1>4. ASSUME NEW c \in Consumers, Process(c) PROVE IInv'
  <2>1. CASE Start(c) \/ Crash(c) \/ Close(c)
    BY <1>1, <2>1, LifeActions
  <2>2. CASE \E p \in Partitions : Deliver(c, p)
    BY <1>1, <2>2, DeliverStep
  <2>3. CASE InsertOk(c) \/ InsertError(c)
    BY <1>1, <2>3, InsertStep
  <2>4. CASE CommitOk(c) \/ CommitError(c)
    BY <1>1, <2>4, CommitStep
  <2>5. CASE \/ RequestShutdown(c) \/ LoopHead(c) \/ PollNothing(c) \/ PollFatal(c)
             \/ Flush(c) \/ NoFlush(c) \/ InsertPoison(c) \/ CommitRejected(c)
    BY <1>1, <2>5, LocalActions
  <2> QED
    BY <1>4, <2>1, <2>2, <2>3, <2>4, <2>5 DEF Process, Poll, Persist
<1>5. CASE Assign
  BY <1>1, <1>5, AssignStep
<1>6. CASE UNCHANGED vars
  BY <1>6 DEF vars, kafkaVars, storeVars, groupVars, batchVars, IInv, TypeOK, NoLoss,
     ReadAheadHeld, MayCommit, Running, ExclusiveOwner, OffsetBounds, RowsPublished,
     Published, BatchControl
<1> QED
  BY <1>2, <1>3, <1>4, <1>5, <1>6 DEF Next

\* The inductive invariant holds in every reachable state.
THEOREM Inductive == Spec => []IInv
  BY InitIInv, NextIInv, PTL DEF Spec

\* Every decodable message below a committed offset is in the table.
THEOREM NoTripIsLost == Spec => []NoLoss
<1>1. IInv => NoLoss
  BY DEF IInv
<1> QED
  BY <1>1, Inductive, PTL

\* A consumer that may still commit has lost no row it has read.
THEOREM ReadRowsAreHeld == Spec => []ReadAheadHeld
<1>1. IInv => ReadAheadHeld
  BY DEF IInv
<1> QED
  BY <1>1, Inductive, PTL

-----------------------------------------------------------------------------
(* The consumer group implements TripDelivery.                             *)

\* Only a commit moves committed offsets.
LEMMA OffsetSteps ==
  ASSUME IInv, NEW c \in Consumers, Process(c)
  PROVE  \/ UNCHANGED committed
         \/ (CommitOk(c) \/ CommitError(c)) /\ CommitPositions(c)
<1> USE DEF kafkaVars
<1>1. CASE Start(c) \/ RequestShutdown(c) \/ Crash(c) \/ Close(c)
  BY <1>1 DEF Start, RequestShutdown, Crash, Close
<1>2. CASE LoopHead(c) \/ Poll(c) \/ Flush(c) \/ NoFlush(c)
  BY <1>2 DEF LoopHead, Poll, Deliver, PollNothing, PollFatal, Flush, NoFlush
<1>3. CASE Persist(c)
  BY <1>3 DEF Persist, InsertOk, InsertError, InsertPoison, CommitOk, CommitRejected, CommitError
<1> QED
  BY <1>1, <1>2, <1>3 DEF Process

LEMMA MonotonicStep ==
  IInv /\ [Next]_vars => [\A p \in Partitions : committed[p] <= committed'[p]]_committed
<1> SUFFICES ASSUME IInv, [Next]_vars
             PROVE  UNCHANGED committed \/ \A p \in Partitions : committed[p] <= committed'[p]
  OBVIOUS
<1>1. CASE \E p \in Partitions, m \in Message : Produce(p, m)
  BY <1>1 DEF Produce
<1>2. ASSUME NEW c \in Consumers, Group(c) PROVE UNCHANGED committed
  BY <1>2 DEF Group, Revoke, Fence, SessionTimeout, Rejoin, kafkaVars
<1>3. ASSUME NEW c \in Consumers, Process(c)
      PROVE  UNCHANGED committed \/ \A p \in Partitions : committed[p] <= committed'[p]
  <2>1. CASE (CommitOk(c) \/ CommitError(c)) /\ CommitPositions(c)
    <3>1. member[c] /\ pc[c] = "commit"
      BY <2>1 DEF CommitOk, CommitError
    <3> QED
      BY <2>1, <3>1, CommitFacts
  <2> QED
    BY <1>3, <2>1, OffsetSteps
<1>4. CASE Assign \/ UNCHANGED vars
  BY <1>4 DEF Assign, vars, kafkaVars
<1> QED
  BY <1>1, <1>2, <1>3, <1>4 DEF Next

\* No step of any process, zombie or not, moves a committed offset back.
THEOREM OffsetsNeverGoBack == Spec => CommittedMonotonic
  BY Inductive, MonotonicStep, PTL DEF Spec, CommittedMonotonic

LEMMA DeliveryStep == IInv /\ [Next]_vars => [Delivery!Next]_(Delivery!vars)
<1> SUFFICES ASSUME IInv, [Next]_vars
             PROVE  Delivery!Next \/ UNCHANGED <<log, committed, stored>>
  BY DEF Delivery!vars
<1> USE DEF kafkaVars, storeVars
<1>1. ASSUME NEW p \in Partitions, NEW m \in Message, Produce(p, m) PROVE Delivery!Next
  <2>1. Delivery!Publish
    BY <1>1 DEF Produce, Delivery!Publish, Message
  <2> QED
    BY <2>1 DEF Delivery!Next
<1>2. ASSUME NEW c \in Consumers, Group(c) PROVE UNCHANGED <<log, committed, stored>>
  BY <1>2 DEF Group, Revoke, Fence, SessionTimeout, Rejoin
<1>3. ASSUME NEW c \in Consumers, Process(c)
      PROVE  Delivery!Next \/ UNCHANGED <<log, committed, stored>>
  <2>1. CASE InsertOk(c) \/ InsertError(c)
    <3>1. PICK S \in SUBSET ToSet(batch[c]) : stored' = stored \cup S
      BY <2>1 DEF InsertOk, InsertError, Apply
    <3>2. \A t \in ToSet(batch[c]) : t \in Trips /\ Published(t)
      BY DEF IInv, RowsPublished, TypeOK, ToSet
    <3>3. S \in SUBSET Delivery!Published
      BY <3>2 DEF Delivery!Published, Published
    <3>4. UNCHANGED <<log, committed>>
      BY <2>1 DEF InsertOk, InsertError
    <3>5. Delivery!Store
      BY <3>1, <3>3, <3>4 DEF Delivery!Store
    <3> QED
      BY <3>5 DEF Delivery!Next
  <2>2. CASE (CommitOk(c) \/ CommitError(c)) /\ CommitPositions(c)
    <3>1. member[c] /\ pc[c] = "commit" /\ UNCHANGED <<log, stored>>
      BY <2>2 DEF CommitOk, CommitError
    <3>2. \A p \in Partitions :
            /\ committed'[p] \in Nat
            /\ committed[p] <= committed'[p] /\ committed'[p] <= Len(log[p])
            /\ \A i \in 1 .. Len(log[p]) :
                 i <= committed'[p] => log[p][i] \in stored \cup {Junk}
      BY <2>2, <3>1, CommitFacts
    <3>3. committed' \in [Partitions -> Nat]
      BY <2>2, <3>2 DEF CommitPositions
    <3>4. \A p \in Partitions : \A i \in 1 .. committed'[p] : log[p][i] \in stored \cup {Junk}
      <4>1. \A p \in Partitions : Len(log[p]) \in Nat
        BY DEF IInv, TypeOK
      <4> QED
        BY <3>2, <4>1
    <3>5. Delivery!Acknowledge
      BY <3>1, <3>2, <3>3, <3>4 DEF Delivery!Acknowledge
    <3> QED
      BY <3>5 DEF Delivery!Next
  <2>3. CASE UNCHANGED committed /\ ~(InsertOk(c) \/ InsertError(c))
    <3>1. UNCHANGED <<log, stored>>
      BY <1>3, <2>3 DEF Process, Poll, Persist, Start, RequestShutdown, Crash, Close, LoopHead,
         Deliver, PollNothing, PollFatal, Flush, NoFlush, InsertPoison, CommitOk,
         CommitRejected, CommitError
    <3> QED
      BY <2>3, <3>1
  <2> QED
    BY <1>3, <2>1, <2>2, <2>3, OffsetSteps
<1>4. CASE Assign \/ UNCHANGED vars
  BY <1>4 DEF Assign, vars
<1> QED
  BY <1>1, <1>2, <1>3, <1>4 DEF Next

\* Every behaviour of the consumer group is a behaviour of TripDelivery.
THEOREM ConsumersDeliver == Spec => DeliversTrips
<1>1. Init => Delivery!Init
  BY DEF Init, Delivery!Init
<1> QED
  BY <1>1, Inductive, DeliveryStep, PTL DEF Spec, DeliversTrips, Delivery!Spec

-----------------------------------------------------------------------------
(* A trip that is counted twice has been traded. *)

(* Counting the positions of a trip in a sequence. *)

LEMMA PositionsFinite ==
  ASSUME NEW S, NEW s \in Seq(S)
  PROVE  IsFiniteSet(DOMAIN s)
<1>1. DOMAIN s = 1 .. Len(s) /\ Len(s) \in Nat
  OBVIOUS
<1> QED
  BY <1>1, FS_Interval

LEMMA CountTypes ==
  ASSUME NEW S, NEW s \in Seq(S), NEW n, NEW t
  PROVE  /\ Copies(s, t) \in Nat
         /\ CopiesUpTo(s, n, t) \in Nat
         /\ CopiesUpTo(s, n, t) <= Copies(s, t)
<1>1. {i \in DOMAIN s : i <= n /\ s[i] = t} \subseteq {i \in DOMAIN s : s[i] = t}
  OBVIOUS
<1>2. /\ IsFiniteSet({i \in DOMAIN s : s[i] = t})
      /\ IsFiniteSet({i \in DOMAIN s : i <= n /\ s[i] = t})
  BY PositionsFinite, FS_Subset
<1>3. Copies(s, t) \in Nat /\ CopiesUpTo(s, n, t) \in Nat
  BY <1>2, FS_CardinalityType DEF Copies, CopiesUpTo
<1>4. CopiesUpTo(s, n, t) <= Copies(s, t)
  BY <1>1, <1>2, FS_Subset DEF Copies, CopiesUpTo
<1> QED
  BY <1>3, <1>4

\* No position, no copy.
LEMMA CopiesNone ==
  ASSUME NEW s, NEW t, t \notin ToSet(s)
  PROVE  Copies(s, t) = 0
<1>1. {i \in DOMAIN s : s[i] = t} = {}
  BY DEF ToSet
<1> QED
  BY <1>1, FS_EmptySet DEF Copies

\* The next position is one more copy, or none.
LEMMA CountNext ==
  ASSUME NEW S, NEW s \in Seq(S), NEW t, NEW n \in Nat, n < Len(s)
  PROVE  CopiesUpTo(s, n + 1, t) = CopiesUpTo(s, n, t) + (IF s[n + 1] = t THEN 1 ELSE 0)
<1> DEFINE A == {i \in DOMAIN s : i <= n /\ s[i] = t}
           B == {i \in DOMAIN s : i <= n + 1 /\ s[i] = t}
<1>1. DOMAIN s = 1 .. Len(s) /\ Len(s) \in Nat
  OBVIOUS
<1>2. IsFiniteSet(A) /\ Cardinality(A) \in Nat
  <2>1. IsFiniteSet(A)
    BY PositionsFinite, FS_Subset
  <2> QED
    BY <2>1, FS_CardinalityType
<1>3. CASE s[n + 1] = t
  <2>1. B = A \cup {n + 1} /\ n + 1 \notin A
    BY <1>1, <1>3
  <2>2. Cardinality(B) = Cardinality(A) + 1
    BY <1>2, <2>1, FS_AddElement
  <2> QED
    BY <1>3, <2>2 DEF CopiesUpTo
<1>4. CASE s[n + 1] # t
  <2>1. B = A
    BY <1>1, <1>4
  <2>2. Cardinality(B) = Cardinality(A) + 0
    <3> HIDE DEF A, B
    <3> QED
      BY <1>2, <2>1
  <2> QED
    BY <1>4, <2>2 DEF CopiesUpTo
<1> QED
  BY <1>3, <1>4

LEMMA CopiesAppend ==
  ASSUME NEW S, NEW s \in Seq(S), NEW e \in S, NEW t
  PROVE  Copies(Append(s, e), t) = Copies(s, t) + (IF e = t THEN 1 ELSE 0)
<1> DEFINE A == {i \in DOMAIN s : s[i] = t}
           B == {i \in DOMAIN Append(s, e) : Append(s, e)[i] = t}
<1>1. /\ DOMAIN s = 1 .. Len(s) /\ Len(s) \in Nat
      /\ DOMAIN Append(s, e) = 1 .. Len(s) + 1
      /\ \A i \in 1 .. Len(s) : Append(s, e)[i] = s[i]
      /\ Append(s, e)[Len(s) + 1] = e
  OBVIOUS
<1>2. IsFiniteSet(A) /\ Cardinality(A) \in Nat
  <2>1. IsFiniteSet(A)
    BY PositionsFinite, FS_Subset
  <2> QED
    BY <2>1, FS_CardinalityType
<1>3. CASE e = t
  <2>1. B = A \cup {Len(s) + 1} /\ Len(s) + 1 \notin A
    BY <1>1, <1>3
  <2>2. Cardinality(B) = Cardinality(A) + 1
    BY <1>2, <2>1, FS_AddElement
  <2> QED
    BY <1>3, <2>2 DEF Copies
<1>4. CASE e # t
  <2>1. B = A
    BY <1>1, <1>4
  <2>2. Cardinality(B) = Cardinality(A) + 0
    <3> HIDE DEF A, B
    <3> QED
      BY <1>2, <2>1
  <2> QED
    BY <1>4, <2>2 DEF Copies
<1> QED
  BY <1>3, <1>4

\* What is appended does not change what lies before it.
LEMMA CountAppend ==
  ASSUME NEW S, NEW s \in Seq(S), NEW e \in S, NEW t, NEW n \in Nat, n <= Len(s)
  PROVE  CopiesUpTo(Append(s, e), n, t) = CopiesUpTo(s, n, t)
<1>1. /\ DOMAIN s = 1 .. Len(s) /\ Len(s) \in Nat
      /\ DOMAIN Append(s, e) = 1 .. Len(s) + 1
      /\ \A i \in 1 .. Len(s) : Append(s, e)[i] = s[i]
  OBVIOUS
<1>2. {i \in DOMAIN Append(s, e) : i <= n /\ Append(s, e)[i] = t}
        = {i \in DOMAIN s : i <= n /\ s[i] = t}
  BY <1>1
<1> QED
  BY <1>2 DEF CopiesUpTo

-----------------------------------------------------------------------------

Graceful == faults.kinds \subseteq {"sigterm"}

Counted == KeyedMessages /\ HoldsOwnRows /\ ReadCovers /\ CommittedCovers

\* The kinds of fault of a behaviour do not change, and no other kind strikes.
LEMMA FaultKept ==
  ASSUME TypeOK, NEW kind, Fault(kind)
  PROVE  faults'.kinds = faults.kinds /\ (Graceful => kind = "sigterm")
<1>1. /\ faults' = [faults EXCEPT !.left = @ - 1] /\ kind \in faults.kinds
      /\ faults \in [kinds: SUBSET FaultKinds, left: Nat]
  BY DEF Fault, TypeOK
<1> QED
  BY <1>1 DEF Graceful

LEMMA KindsKept ==
  ASSUME TypeOK, [Next]_vars
  PROVE  faults'.kinds = faults.kinds
<1>1. UNCHANGED faults \/ \E kind \in FaultKinds : Fault(kind)
  BY DEF Next, vars, Produce, Assign, Group, Revoke, Fence, SessionTimeout, Rejoin, Process,
     Start, RequestShutdown, Crash, Close, LoopHead, Poll, Deliver, PollNothing, PollFatal,
     Flush, NoFlush, Persist, InsertOk, InsertError, InsertPoison, CommitOk, CommitRejected,
     CommitError, FaultKinds
<1> QED
  BY <1>1, FaultKept

\* The actions of a behaviour whose only faults are graceful stops: rebalances
\* are among them.
LEMMA GracefulSteps ==
  ASSUME TypeOK, HoldsOwnRows, Graceful, NEW c \in Consumers, Group(c) \/ Process(c)
  PROVE  \/ Revoke(c) \/ \E p \in Partitions : Deliver(c, p)
         \/ Start(c) \/ RequestShutdown(c) \/ Close(c)
         \/ LoopHead(c) \/ PollNothing(c) \/ Flush(c) \/ NoFlush(c)
         \/ InsertOk(c) \/ InsertPoison(c) \/ CommitOk(c) \/ CommitRejected(c)
<1>1. ~Crash(c) /\ ~Fence(c) /\ ~PollFatal(c) /\ ~InsertError(c) /\ ~CommitError(c)
  BY FaultKept DEF Crash, Fence, PollFatal, InsertError, CommitError
<1>2. ~SessionTimeout(c) /\ ~Rejoin(c)
  BY DEF SessionTimeout, Rejoin, HoldsOwnRows, Running
<1> QED
  BY <1>1, <1>2 DEF Group, Process, Poll, Persist

\* The numbers that are compared are numbers.
LEMMA NumberTypes ==
  ASSUME TypeOK, NEW c \in Consumers, NEW t \in Trips
  PROVE  /\ KeyPartition[t] \in Partitions
         /\ viewRows[t] \in Nat /\ Pending(c, t) \in Nat
         /\ position[c][KeyPartition[t]] \in Nat /\ committed[KeyPartition[t]] \in Nat
         /\ log[KeyPartition[t]] \in Seq(Message)
         /\ \A n : CopiesUpTo(log[KeyPartition[t]], n, t) \in Nat
<1>1. KeyPartition[t] \in Partitions
  BY ConstantsAssumption
<1>2. log[KeyPartition[t]] \in Seq(Message) /\ acc[c] \in Seq(Trips) /\ batch[c] \in Seq(Trips)
  BY <1>1 DEF TypeOK
<1>3. Copies(acc[c], t) \in Nat /\ Copies(batch[c], t) \in Nat
  BY <1>2, CountTypes
<1>4. Pending(c, t) \in Nat
  BY <1>3 DEF Pending
<1>5. \A n : CopiesUpTo(log[KeyPartition[t]], n, t) \in Nat
  BY <1>2, CountTypes
<1> QED
  BY <1>1, <1>2, <1>4, <1>5 DEF TypeOK

LEMMA PendingTypeNext ==
  ASSUME TypeOK', NEW c \in Consumers, NEW t \in Trips
  PROVE  Pending(c, t)' \in Nat
<1>1. acc'[c] \in Seq(Trips) /\ batch'[c] \in Seq(Trips)
  BY DEF TypeOK
<1>2. Copies(acc'[c], t) \in Nat /\ Copies(batch'[c], t) \in Nat
  BY <1>1, CountTypes
<1> QED
  BY <1>2 DEF Pending

\* The consumers that a step of c does not touch.
OthersKeep(c) ==
  \A d \in Consumers \ {c} :
    /\ pc'[d] = pc[d] /\ acc'[d] = acc[d] /\ batch'[d] = batch[d]
    /\ member'[d] = member[d] /\ assigned'[d] = assigned[d] /\ position'[d] = position[d]

LEMMA OthersPending ==
  ASSUME NEW c \in Consumers, OthersKeep(c), NEW d \in Consumers \ {c}, NEW t
  PROVE  Pending(d, t)' = Pending(d, t)
BY DEF OthersKeep, Pending

\* What a running process does by itself: it holds no other rows than before,
\* has no more to insert, and leaves the commit only when its positions are
\* the committed offsets.
LEMMA OwnMove ==
  ASSUME IInv, TypeOK', Counted, NEW c \in Consumers, OthersKeep(c),
         UNCHANGED <<log, committed, viewRows, member, assigned, position, traded>>,
         pc[c] # "down", pc'[c] # "down",
         Held(c)' \subseteq Held(c),
         \A t \in Trips : Pending(c, t)' <= Pending(c, t),
         pc[c] = "commit" => \A p \in assigned[c] : committed[p] = position[c][p]
  PROVE  Counted'
<1> USE DEF IInv
<1>1. KeyedMessages'
  BY DEF Counted, KeyedMessages
<1>2. HoldsOwnRows'
  <2> SUFFICES ASSUME NEW d \in Consumers
               PROVE  /\ member'[d] <=> pc'[d] # "down"
                      /\ pc'[d] = "down" => assigned'[d] = {} /\ acc'[d] = <<>>
                      /\ \A t \in ToSet(acc'[d]) \cup ToSet(batch'[d]) :
                           KeyPartition[t] \in assigned'[d] \/ t \in traded'
    BY DEF HoldsOwnRows
  <2> QED
    BY DEF Counted, HoldsOwnRows, OthersKeep, Held
<1>3. ReadCovers'
  <2> SUFFICES ASSUME NEW d \in Consumers, NEW t \in Trips \ traded, KeyPartition[t] \in assigned[d]
               PROVE  viewRows[t] + Pending(d, t)'
                        <= CopiesUpTo(log[KeyPartition[t]], position[d][KeyPartition[t]], t)
    BY DEF ReadCovers
  <2>1. viewRows[t] + Pending(d, t)
          <= CopiesUpTo(log[KeyPartition[t]], position[d][KeyPartition[t]], t)
    BY DEF Counted, ReadCovers
  <2>2. Pending(d, t)' \in Nat /\ Pending(d, t) \in Nat /\ viewRows[t] \in Nat
    BY NumberTypes, PendingTypeNext
  <2>3. Pending(d, t)' <= Pending(d, t)
    BY <2>2, OthersPending
  <2>4. CopiesUpTo(log[KeyPartition[t]], position[d][KeyPartition[t]], t) \in Nat
    BY NumberTypes
  <2> QED
    BY <2>1, <2>2, <2>3, <2>4
<1>4. CommittedCovers'
  <2> SUFFICES ASSUME NEW t \in Trips \ traded,
                      \A d \in Consumers : KeyPartition[t] \in assigned[d] => pc'[d] # "commit"
               PROVE  viewRows[t] <= CopiesUpTo(log[KeyPartition[t]], committed[KeyPartition[t]], t)
    BY DEF CommittedCovers
  <2>1. CASE KeyPartition[t] \in assigned[c] /\ pc[c] = "commit"
    <3>1. viewRows[t] + Pending(c, t)
            <= CopiesUpTo(log[KeyPartition[t]], position[c][KeyPartition[t]], t)
      BY <2>1 DEF Counted, ReadCovers
    <3>2. committed[KeyPartition[t]] = position[c][KeyPartition[t]]
      BY <2>1
    <3>3. /\ viewRows[t] \in Nat /\ Pending(c, t) \in Nat
          /\ CopiesUpTo(log[KeyPartition[t]], position[c][KeyPartition[t]], t) \in Nat
      BY NumberTypes
    <3> QED
      BY <3>1, <3>2, <3>3
  <2>2. CASE ~(KeyPartition[t] \in assigned[c] /\ pc[c] = "commit")
    BY <2>2 DEF Counted, CommittedCovers, OthersKeep
  <2> QED
    BY <2>1, <2>2
<1> QED
  BY <1>1, <1>2, <1>3, <1>4 DEF Counted

\* A flush makes the accumulated rows the batch: none is gained or lost.
LEMMA YieldCounted ==
  ASSUME IInv, TypeOK', Counted, NEW c \in Consumers, YieldBatch(c), Running(c),
         pc[c] \notin {"insert", "commit"},
         UNCHANGED <<log, committed, stored, viewRows, member, assigned, position, traded>>
  PROVE  Counted'
<1> USE DEF IInv
<1>1. /\ pc'[c] = "insert" /\ acc'[c] = <<>> /\ batch'[c] = acc[c]
      /\ Held(c)' = Held(c) /\ OthersKeep(c)
  BY YieldFacts DEF YieldBatch, TypeOK, OthersKeep
<1>2. ASSUME NEW t \in Trips PROVE Pending(c, t)' <= Pending(c, t)
  <2>1. Copies(<<>>, t) = 0
    BY ToSetEmpty, CopiesNone
  <2>2. Pending(c, t)' = 0 + Copies(acc[c], t)
    BY <1>1, <2>1 DEF Pending
  <2>3. Pending(c, t) = Copies(acc[c], t) + 0
    BY DEF Pending
  <2>4. Copies(acc[c], t) \in Nat
    BY CopiesType DEF TypeOK
  <2> QED
    BY <2>2, <2>3, <2>4
<1> QED
  BY <1>1, <1>2, OwnMove DEF Running

\* The process goes on without touching its rows.
LEMMA QuietCounted ==
  ASSUME IInv, TypeOK', Counted, NEW c \in Consumers, NEW x \in ControlPoints \ {"down", "insert"},
         pc' = [pc EXCEPT ![c] = x], pc[c] \notin {"down", "insert", "commit"},
         UNCHANGED <<log, committed, viewRows, member, assigned, position, traded, acc, batch>>
  PROVE  Counted'
<1>1. pc'[c] = x /\ OthersKeep(c)
  BY DEF IInv, TypeOK, OthersKeep
<1>2. Held(c)' = Held(c)
  BY DEF Held
<1>3. \A t \in Trips : Pending(c, t)' = Pending(c, t)
  BY <1>1 DEF Pending
<1>4. \A t \in Trips : Pending(c, t)' <= Pending(c, t)
  BY <1>3, NumberTypes DEF IInv
<1> QED
  BY <1>1, <1>2, <1>4, OwnMove

LEMMA LocalCounted ==
  ASSUME IInv, TypeOK', Counted, NEW c \in Consumers,
         \/ RequestShutdown(c) \/ LoopHead(c) \/ PollNothing(c) \/ Flush(c) \/ NoFlush(c)
  PROVE  Counted'
<1> USE DEF IInv, kafkaVars, storeVars, groupVars, batchVars
<1>1. CASE RequestShutdown(c)
  BY <1>1 DEF RequestShutdown, Counted, KeyedMessages, HoldsOwnRows, ReadCovers, CommittedCovers, Pending
<1>2. CASE PollNothing(c) \/ NoFlush(c)
  BY <1>2, QuietCounted DEF PollNothing, NoFlush, ControlPoints
<1>3. CASE Flush(c)
  BY <1>3, YieldCounted DEF Flush, Running
<1>4. CASE LoopHead(c)
  <2>1. /\ pc[c] = "loop"
        /\ UNCHANGED <<log, committed, stored, viewRows, member, assigned, position, traded>>
        /\ \/ pc' = [pc EXCEPT ![c] = "polling"] /\ UNCHANGED <<acc, batch>>
           \/ LeaveLoop(c)
    BY <1>4 DEF LoopHead
  <2>2. CASE pc' = [pc EXCEPT ![c] = "polling"] /\ UNCHANGED <<acc, batch>>
    BY <2>1, <2>2, QuietCounted DEF ControlPoints
  <2>3. CASE LeaveLoop(c)
    <3>1. CASE acc[c] # <<>>
      BY <2>1, <2>3, <3>1, YieldCounted DEF LeaveLoop, Running
    <3>2. CASE acc[c] = <<>>
      BY <2>1, <2>3, <3>2, QuietCounted DEF LeaveLoop, ControlPoints
    <3> QED
      BY <3>1, <3>2
  <2> QED
    BY <2>1, <2>2, <2>3
<1> QED
  BY <1>1, <1>2, <1>3, <1>4

\* A batch that is given up before anything is sent, or whose commit has nothing
\* to commit: what is counted is committed.
LEMMA GiveUpCounted ==
  ASSUME IInv, TypeOK', Counted, NEW c \in Consumers, InsertPoison(c) \/ CommitRejected(c)
  PROVE  Counted'
<1> USE DEF IInv, kafkaVars, storeVars, groupVars
<1>0. pc[c] = "insert" /\ UNCHANGED <<pc, acc, batch>> => Counted'
  <2> SUFFICES ASSUME pc[c] = "insert", UNCHANGED <<pc, acc, batch>> PROVE Counted'
    OBVIOUS
  <2>1. UNCHANGED <<log, committed, viewRows, member, assigned, position, traded>>
    BY DEF InsertPoison, CommitRejected
  <2> QED
    BY <2>1 DEF Counted, KeyedMessages, HoldsOwnRows, ReadCovers, CommittedCovers, Pending
<1> SUFFICES ASSUME GiveUp(c) PROVE Counted'
  BY <1>0 DEF InsertPoison, CommitRejected
<1>1. /\ pc[c] \in {"insert", "commit"} /\ GiveUp(c)
      /\ UNCHANGED <<log, committed, stored, viewRows, member, assigned, position, traded, acc>>
  BY DEF InsertPoison, CommitRejected
<1>2. pc'[c] \in {"closing", "loop"} /\ batch'[c] = <<>> /\ acc[c] = <<>> /\ acc'[c] = <<>>
  BY <1>1 DEF GiveUp, Resume, TypeOK, BatchControl
<1>3. OthersKeep(c)
  BY <1>1, GiveUpFacts DEF OthersKeep
<1>4. Held(c)' \subseteq Held(c)
  BY <1>2, ToSetEmpty DEF Held
<1>5. ASSUME NEW t \in Trips PROVE Pending(c, t)' <= Pending(c, t)
  <2>1. Pending(c, t)' = 0
    BY <1>2, ToSetEmpty, CopiesNone DEF Pending
  <2> QED
    BY <2>1, NumberTypes
<1>6. pc[c] = "commit" => \A p \in assigned[c] : committed[p] = position[c][p]
  <2> SUFFICES ASSUME pc[c] = "commit", NEW p \in assigned[c]
               PROVE  committed[p] = position[c][p]
    OBVIOUS
  <2>1. member[c] /\ Running(c)
    BY DEF Counted, HoldsOwnRows, Running
  <2>2. ~(committed[p] < position[c][p])
    BY <2>1 DEF InsertPoison, CommitRejected, Uncommitted
  <2>3. committed[p] <= position[c][p]
    BY <2>1 DEF OffsetBounds
  <2>4. committed[p] \in Nat /\ position[c][p] \in Nat
    BY DEF TypeOK
  <2> QED
    BY <2>2, <2>3, <2>4
<1> QED
  BY <1>1, <1>2, <1>3, <1>4, <1>5, <1>6, OwnMove

\* New messages come after what has been read and committed.
LEMMA ProduceCounted ==
  ASSUME IInv, TypeOK', Counted, NEW p \in Partitions, NEW m \in Message, Produce(p, m)
  PROVE  Counted'
<1> USE DEF IInv, storeVars, groupVars, batchVars
<1>1. /\ log' = [log EXCEPT ![p] = Append(@, m)] /\ (m \in Trips => p = KeyPartition[m])
      /\ UNCHANGED <<committed, viewRows, member, assigned, position, traded, pc, acc, batch>>
  BY DEF Produce
<1>2. log[p] \in Seq(Message) /\ log'[p] = Append(log[p], m)
      /\ \A q \in Partitions : q # p => log'[q] = log[q]
  BY <1>1 DEF TypeOK
<1>3. KeyedMessages'
  <2> SUFFICES ASSUME NEW q \in Partitions, NEW i \in DOMAIN log'[q], log'[q][i] \in Trips
               PROVE  KeyPartition[log'[q][i]] = q
    BY DEF KeyedMessages
  <2>1. CASE q = p /\ i = Len(log[p]) + 1
    BY <1>1, <1>2, <2>1
  <2>2. CASE ~(q = p /\ i = Len(log[p]) + 1)
    <3>1. i \in DOMAIN log[q] /\ log'[q][i] = log[q][i]
      BY <1>2, <2>2
    <3> QED
      BY <3>1 DEF Counted, KeyedMessages
  <2> QED
    BY <2>1, <2>2
<1>4. HoldsOwnRows'
  BY <1>1 DEF Counted, HoldsOwnRows
<1>5. ASSUME NEW q \in Partitions, NEW n \in Nat, n <= Len(log[q]), NEW t
      PROVE  CopiesUpTo(log'[q], n, t) = CopiesUpTo(log[q], n, t)
  <2>1. CASE q = p
    <3>1. n <= Len(log[p])
      BY <1>5, <2>1
    <3>2. CopiesUpTo(Append(log[p], m), n, t) = CopiesUpTo(log[p], n, t)
      BY <1>2, <1>5, <3>1, CountAppend
    <3> QED
      BY <1>2, <2>1, <3>2
  <2>2. CASE q # p
    BY <1>2, <2>2
  <2> QED
    BY <2>1, <2>2
<1>6. ReadCovers'
  <2> SUFFICES ASSUME NEW d \in Consumers, NEW t \in Trips \ traded, KeyPartition[t] \in assigned[d]
               PROVE  viewRows[t] + Pending(d, t)
                        <= CopiesUpTo(log'[KeyPartition[t]], position[d][KeyPartition[t]], t)
    BY <1>1 DEF ReadCovers, Pending
  <2>1. position[d][KeyPartition[t]] <= Len(log[KeyPartition[t]])
    BY DEF OffsetBounds
  <2>2. KeyPartition[t] \in Partitions /\ position[d][KeyPartition[t]] \in Nat
    BY NumberTypes
  <2> QED
    BY <1>5, <2>1, <2>2 DEF Counted, ReadCovers
<1>7. CommittedCovers'
  <2> SUFFICES ASSUME NEW t \in Trips \ traded,
                      \A d \in Consumers : KeyPartition[t] \in assigned[d] => pc[d] # "commit"
               PROVE  viewRows[t] <= CopiesUpTo(log'[KeyPartition[t]], committed[KeyPartition[t]], t)
    BY <1>1 DEF CommittedCovers
  <2>1. KeyPartition[t] \in Partitions
    BY ConstantsAssumption
  <2>2. committed[KeyPartition[t]] <= Len(log[KeyPartition[t]]) /\ committed[KeyPartition[t]] \in Nat
    BY <2>1 DEF OffsetBounds, TypeOK
  <2> QED
    BY <1>5, <2>1, <2>2 DEF Counted, CommittedCovers
<1> QED
  BY <1>3, <1>4, <1>6, <1>7 DEF Counted

\* A member that gives up its partitions trades the rows it has accumulated.
LEMMA RevokeCounted ==
  ASSUME IInv, TypeOK', Counted, NEW c \in Consumers, Revoke(c)
  PROVE  Counted'
<1> USE DEF IInv, kafkaVars, storeVars, batchVars
<1>1. /\ UNCHANGED <<log, committed, viewRows, member, pc, acc, batch>>
      /\ traded' = traded \cup ToSet(acc[c])
      /\ pc[c] = "polling" /\ assigned'[c] = {} /\ OthersKeep(c)
  BY DEF Revoke, TypeOK, OthersKeep
<1>2. batch[c] = <<>>
  BY <1>1 DEF BatchControl
<1>3. KeyedMessages'
  BY <1>1 DEF Counted, KeyedMessages
<1>4. HoldsOwnRows'
  <2> SUFFICES ASSUME NEW d \in Consumers
               PROVE  /\ member[d] <=> pc[d] # "down"
                      /\ pc[d] = "down" => assigned'[d] = {} /\ acc[d] = <<>>
                      /\ \A t \in ToSet(acc[d]) \cup ToSet(batch[d]) :
                           KeyPartition[t] \in assigned'[d] \/ t \in traded'
    BY <1>1 DEF HoldsOwnRows
  <2>1. CASE d = c
    BY <1>1, <1>2, <2>1, ToSetEmpty DEF Counted, HoldsOwnRows
  <2>2. CASE d # c
    BY <1>1, <2>2 DEF OthersKeep, Counted, HoldsOwnRows
  <2> QED
    BY <2>1, <2>2
<1>5. ReadCovers'
  <2> SUFFICES ASSUME NEW d \in Consumers, NEW t \in Trips \ traded, KeyPartition[t] \in assigned'[d]
               PROVE  viewRows[t] + Pending(d, t)
                        <= CopiesUpTo(log[KeyPartition[t]], position'[d][KeyPartition[t]], t)
    BY <1>1 DEF ReadCovers, Pending
  <2>1. assigned'[d] = assigned[d] /\ position'[d] = position[d]
    BY <1>1 DEF OthersKeep
  <2> QED
    BY <2>1 DEF Counted, ReadCovers
<1>6. CommittedCovers'
  <2> SUFFICES ASSUME NEW t \in Trips \ traded,
                      \A d \in Consumers : KeyPartition[t] \in assigned'[d] => pc[d] # "commit"
               PROVE  viewRows[t] <= CopiesUpTo(log[KeyPartition[t]], committed[KeyPartition[t]], t)
    BY <1>1 DEF CommittedCovers
  <2>1. \A d \in Consumers : KeyPartition[t] \in assigned[d] => pc[d] # "commit"
    BY <1>1 DEF OthersKeep
  <2> QED
    BY <2>1 DEF Counted, CommittedCovers
<1> QED
  BY <1>3, <1>4, <1>5, <1>6 DEF Counted

\* When the partitions are handed out nobody has any: what is counted of a trip
\* that was not traded is committed, and nobody holds a row of it.
LEMMA AssignCounted ==
  ASSUME IInv, TypeOK', Counted, Assign
  PROVE  Counted'
<1> USE DEF IInv
<1>1. /\ UNCHANGED <<log, committed, viewRows, member, traded, pc, acc, batch>>
      /\ \A d \in Consumers : member[d] =>
           /\ assigned[d] = {}
           /\ \A p \in assigned'[d] : p \in Partitions /\ position'[d][p] = committed[p]
      /\ \A d \in Consumers : ~member[d] => assigned'[d] = assigned[d]
  BY AssignFacts
<1>2. \A d \in Consumers : assigned[d] = {} /\ (~member[d] => assigned'[d] = {} /\ pc[d] = "down")
  BY <1>1 DEF Counted, HoldsOwnRows
<1>3. KeyedMessages'
  BY <1>1 DEF Counted, KeyedMessages
<1>4. HoldsOwnRows'
  <2> SUFFICES ASSUME NEW d \in Consumers
               PROVE  /\ member[d] <=> pc[d] # "down"
                      /\ pc[d] = "down" => assigned'[d] = {} /\ acc[d] = <<>>
                      /\ \A t \in ToSet(acc[d]) \cup ToSet(batch[d]) :
                           KeyPartition[t] \in assigned'[d] \/ t \in traded
    BY <1>1 DEF HoldsOwnRows
  <2> QED
    BY <1>2 DEF Counted, HoldsOwnRows
<1>5. ASSUME NEW t \in Trips \ traded
      PROVE  viewRows[t] <= CopiesUpTo(log[KeyPartition[t]], committed[KeyPartition[t]], t)
  BY <1>2 DEF Counted, CommittedCovers
<1>6. ReadCovers'
  <2> SUFFICES ASSUME NEW d \in Consumers, NEW t \in Trips \ traded, KeyPartition[t] \in assigned'[d]
               PROVE  viewRows[t] + Pending(d, t)
                        <= CopiesUpTo(log[KeyPartition[t]], position'[d][KeyPartition[t]], t)
    BY <1>1 DEF ReadCovers, Pending
  <2>1. position'[d][KeyPartition[t]] = committed[KeyPartition[t]]
    BY <1>1, <1>2
  <2>2. t \notin ToSet(acc[d]) /\ t \notin ToSet(batch[d])
    BY <1>2 DEF Counted, HoldsOwnRows
  <2>3. Pending(d, t) = 0
    BY <2>2, CopiesNone DEF Pending
  <2>4. viewRows[t] \in Nat
    BY DEF TypeOK
  <2> QED
    BY <1>5, <2>1, <2>3, <2>4
<1>7. CommittedCovers'
  BY <1>1, <1>5 DEF CommittedCovers
<1> QED
  BY <1>3, <1>4, <1>6, <1>7 DEF Counted

\* A process starts, or closes, with no partition and no row.
LEMMA LifeCounted ==
  ASSUME IInv, TypeOK', Counted, NEW c \in Consumers, Start(c) \/ Close(c)
  PROVE  Counted'
<1> USE DEF IInv, kafkaVars, storeVars, batchVars
<1>1. /\ UNCHANGED <<log, committed, viewRows, traded>>
      /\ assigned'[c] = {} /\ acc'[c] = <<>> /\ batch'[c] = <<>>
      /\ member'[c] <=> pc'[c] # "down"
      /\ pc[c] \notin {"insert", "commit"} /\ pc'[c] # "commit"
  <2>1. CASE Start(c)
    BY <2>1 DEF Start, TypeOK, BatchControl, Counted, HoldsOwnRows
  <2>2. CASE Close(c)
    BY <2>2 DEF Close, ForgetProcess, TypeOK
  <2> QED
    BY <2>1, <2>2
<1>2. \A d \in Consumers \ {c} :
        /\ pc'[d] = pc[d] /\ acc'[d] = acc[d] /\ batch'[d] = batch[d]
        /\ member'[d] = member[d] /\ assigned'[d] = assigned[d] /\ position'[d] = position[d]
  BY DEF Start, Close, ForgetProcess, TypeOK
<1>3. OthersKeep(c)
  BY <1>2 DEF OthersKeep
<1>4. KeyedMessages'
  BY <1>1 DEF Counted, KeyedMessages
<1>5. HoldsOwnRows'
  <2> SUFFICES ASSUME NEW d \in Consumers
               PROVE  /\ member'[d] <=> pc'[d] # "down"
                      /\ pc'[d] = "down" => assigned'[d] = {} /\ acc'[d] = <<>>
                      /\ \A t \in ToSet(acc'[d]) \cup ToSet(batch'[d]) :
                           KeyPartition[t] \in assigned'[d] \/ t \in traded'
    BY DEF HoldsOwnRows
  <2>1. CASE d = c
    BY <1>1, <2>1, ToSetEmpty
  <2>2. CASE d # c
    BY <1>1, <1>2, <2>2 DEF Counted, HoldsOwnRows
  <2> QED
    BY <2>1, <2>2
<1>6. ReadCovers'
  <2> SUFFICES ASSUME NEW d \in Consumers, NEW t \in Trips \ traded, KeyPartition[t] \in assigned'[d]
               PROVE  viewRows[t] + Pending(d, t)'
                        <= CopiesUpTo(log[KeyPartition[t]], position'[d][KeyPartition[t]], t)
    BY <1>1 DEF ReadCovers
  <2>1. d # c
    BY <1>1
  <2> QED
    BY <1>2, <1>3, <2>1, OthersPending DEF Counted, ReadCovers
<1>7. CommittedCovers'
  <2> SUFFICES ASSUME NEW t \in Trips \ traded,
                      \A d \in Consumers : KeyPartition[t] \in assigned'[d] => pc'[d] # "commit"
               PROVE  viewRows[t] <= CopiesUpTo(log[KeyPartition[t]], committed[KeyPartition[t]], t)
    BY <1>1 DEF CommittedCovers
  <2>1. \A d \in Consumers : KeyPartition[t] \in assigned[d] => pc[d] # "commit"
    BY <1>1, <1>2
  <2> QED
    BY <2>1 DEF Counted, CommittedCovers
<1> QED
  BY <1>4, <1>5, <1>6, <1>7 DEF Counted

\* A message that is read is one more that may be inserted.
LEMMA DeliverCounted ==
  ASSUME IInv, TypeOK', Counted, NEW c \in Consumers, NEW p \in Partitions, Deliver(c, p)
  PROVE  Counted'
<1> USE DEF IInv, kafkaVars, storeVars, groupVars, batchVars
<1> DEFINE n == position[c][p]
           m == log[p][n + 1]
<1>1. /\ pc[c] = "polling" /\ p \in assigned[c] /\ n < Len(log[p])
      /\ acc' = IF m = Junk THEN acc ELSE [acc EXCEPT ![c] = Append(@, m)]
      /\ position' = [position EXCEPT ![c][p] = n + 1]
      /\ pc' = [pc EXCEPT ![c] = "polled"]
      /\ UNCHANGED <<log, committed, viewRows, member, assigned, traded, batch>>
  BY DEF Deliver
<1>2. n \in Nat /\ log[p] \in Seq(Message) /\ n + 1 \in DOMAIN log[p] /\ m \in Message
  <2>1. n \in Nat /\ log[p] \in Seq(Message)
    BY DEF TypeOK
  <2> QED
    BY <1>1, <2>1
<1>3. pc'[c] = "polled" /\ OthersKeep(c)
  BY <1>1 DEF TypeOK, OthersKeep
<1>4. /\ position'[c][p] = n + 1
      /\ \A q \in Partitions : q # p => position'[c][q] = position[c][q]
  BY <1>1 DEF TypeOK
<1>5. m # Junk => m \in Trips /\ KeyPartition[m] = p
  BY <1>2 DEF Counted, KeyedMessages, Message
<1>6. ToSet(acc'[c]) \subseteq ToSet(acc[c]) \cup {m} /\ (m = Junk => acc'[c] = acc[c])
  <2>1. CASE m = Junk
    BY <1>1, <2>1
  <2>2. CASE m # Junk
    <3>1. acc[c] \in Seq(Trips) /\ acc'[c] = Append(acc[c], m)
      BY <1>1, <2>2 DEF TypeOK
    <3> QED
      BY <1>5, <2>2, <3>1, ToSetAppend
  <2> QED
    BY <2>1, <2>2
<1>7. KeyedMessages'
  BY <1>1 DEF Counted, KeyedMessages
<1>8. HoldsOwnRows'
  <2> SUFFICES ASSUME NEW d \in Consumers
               PROVE  /\ member'[d] <=> pc'[d] # "down"
                      /\ pc'[d] = "down" => assigned'[d] = {} /\ acc'[d] = <<>>
                      /\ \A t \in ToSet(acc'[d]) \cup ToSet(batch'[d]) :
                           KeyPartition[t] \in assigned'[d] \/ t \in traded'
    BY DEF HoldsOwnRows
  <2>1. CASE d = c
    <3>1. member[c]
      BY <1>1 DEF Counted, HoldsOwnRows
    <3>2. \A t \in ToSet(acc[c]) \cup ToSet(batch[c]) :
            KeyPartition[t] \in assigned[c] \/ t \in traded
      BY DEF Counted, HoldsOwnRows
    <3>3. \A t \in ToSet(acc'[c]) \cup ToSet(batch[c]) :
            KeyPartition[t] \in assigned[c] \/ t \in traded
      BY <1>1, <1>5, <1>6, <3>2
    <3> QED
      BY <1>1, <1>3, <2>1, <3>1, <3>3
  <2>2. CASE d # c
    BY <1>1, <1>3, <2>2 DEF OthersKeep, Counted, HoldsOwnRows
  <2> QED
    BY <2>1, <2>2
<1>9. ReadCovers'
  <2> SUFFICES ASSUME NEW d \in Consumers, NEW t \in Trips \ traded, KeyPartition[t] \in assigned[d]
               PROVE  viewRows[t] + Pending(d, t)'
                        <= CopiesUpTo(log[KeyPartition[t]], position'[d][KeyPartition[t]], t)
    BY <1>1 DEF ReadCovers
  <2>1. viewRows[t] + Pending(d, t)
          <= CopiesUpTo(log[KeyPartition[t]], position[d][KeyPartition[t]], t)
    BY DEF Counted, ReadCovers
  <2>2. CASE d # c
    BY <1>3, <2>1, <2>2, OthersPending DEF OthersKeep
  <2>3. CASE d = c /\ KeyPartition[t] # p
    <3>1. acc'[c] = acc[c] \/ (m \in Trips /\ m # t /\ acc'[c] = Append(acc[c], m))
      BY <1>1, <1>5, <2>3 DEF TypeOK
    <3>2. Copies(acc'[c], t) = Copies(acc[c], t)
      <4>1. CASE acc'[c] = acc[c]
        BY <4>1
      <4>2. CASE m \in Trips /\ m # t /\ acc'[c] = Append(acc[c], m)
        <5>1. acc[c] \in Seq(Trips) /\ Copies(acc[c], t) \in Nat
          BY CopiesType DEF TypeOK
        <5>2. Copies(Append(acc[c], m), t) = Copies(acc[c], t) + (IF m = t THEN 1 ELSE 0)
          BY <4>2, <5>1, CopiesAppend
        <5> QED
          BY <4>2, <5>1, <5>2
      <4> QED
        BY <3>1, <4>1, <4>2
    <3>3. Pending(c, t)' = Pending(c, t)
      BY <1>1, <1>3, <3>2 DEF Pending
    <3>4. KeyPartition[t] \in Partitions
      BY ConstantsAssumption
    <3> QED
      BY <1>4, <2>1, <2>3, <3>3, <3>4
  <2>4. CASE d = c /\ KeyPartition[t] = p
    <3>1. Copies(acc[c], t) \in Nat /\ acc[c] \in Seq(Trips)
      BY CopiesType DEF TypeOK
    <3>2. Copies(acc'[c], t) = Copies(acc[c], t) + (IF m = t THEN 1 ELSE 0)
      <4>1. CASE m = Junk
        BY <1>1, <3>1, <4>1, ConstantsAssumption
      <4>2. CASE m # Junk
        <5>1. acc'[c] = Append(acc[c], m)
          BY <1>1, <4>2 DEF TypeOK
        <5> QED
          BY <1>5, <3>1, <4>2, <5>1, CopiesAppend
      <4> QED
        BY <4>1, <4>2
    <3>3. Pending(c, t) = Copies(acc[c], t) + 0 /\ Pending(c, t)' = Copies(acc'[c], t) + 0
      BY <1>1, <1>3 DEF Pending
    <3>4. CopiesUpTo(log[p], n + 1, t) = CopiesUpTo(log[p], n, t) + (IF m = t THEN 1 ELSE 0)
      BY <1>1, <1>2, CountNext
    <3>5. viewRows[t] \in Nat /\ CopiesUpTo(log[p], n, t) \in Nat
      BY <2>4, NumberTypes
    <3>6. viewRows[t] + Copies(acc[c], t) <= CopiesUpTo(log[p], n, t)
      BY <2>1, <2>4, <3>1, <3>3
    <3>7. viewRows[t] + Copies(acc'[c], t) <= CopiesUpTo(log[p], n + 1, t)
      <4> HIDE DEF n, m
      <4> QED
        BY <3>1, <3>2, <3>4, <3>5, <3>6
    <3>8. Pending(c, t)' = Copies(acc'[c], t)
      BY <3>1, <3>2, <3>3
    <3> QED
      BY <1>4, <2>4, <3>7, <3>8
  <2> QED
    BY <2>2, <2>3, <2>4
<1>10. CommittedCovers'
  <2> SUFFICES ASSUME NEW t \in Trips \ traded,
                      \A d \in Consumers : KeyPartition[t] \in assigned[d] => pc'[d] # "commit"
               PROVE  viewRows[t] <= CopiesUpTo(log[KeyPartition[t]], committed[KeyPartition[t]], t)
    BY <1>1 DEF CommittedCovers
  <2>1. \A d \in Consumers : KeyPartition[t] \in assigned[d] => pc[d] # "commit"
    BY <1>1, <1>3 DEF OthersKeep
  <2> QED
    BY <2>1 DEF Counted, CommittedCovers
<1> QED
  BY <1>7, <1>8, <1>9, <1>10 DEF Counted

\* The rows of the batch are counted instead of pending; those that were not
\* traded are of partitions that the consumer reads, and nobody else.
LEMMA InsertCounted ==
  ASSUME IInv, TypeOK', Counted, NEW c \in Consumers, InsertOk(c)
  PROVE  Counted'
<1> USE DEF IInv, kafkaVars, groupVars, batchVars
<1>1. /\ pc[c] = "insert" /\ pc' = [pc EXCEPT ![c] = "commit"]
      /\ viewRows' = [t \in Trips |->
                        AtMost(viewRows[t] + (IF t \in ToSet(batch[c]) THEN Copies(batch[c], t) ELSE 0))]
      /\ UNCHANGED <<log, committed, member, assigned, position, traded, acc, batch>>
  BY DEF InsertOk, Apply
<1>2. pc'[c] = "commit" /\ OthersKeep(c)
  BY <1>1 DEF TypeOK, OthersKeep
<1>3. ASSUME NEW t \in Trips
      PROVE  /\ viewRows'[t] <= viewRows[t] + Copies(batch[c], t)
             /\ Copies(batch[c], t) \in Nat /\ viewRows[t] \in Nat /\ viewRows'[t] \in Nat
             /\ KeyPartition[t] \notin assigned[c] /\ t \notin traded => viewRows'[t] <= viewRows[t]
  <2>1. viewRows'[t] = AtMost(viewRows[t] + (IF t \in ToSet(batch[c]) THEN Copies(batch[c], t) ELSE 0))
    BY <1>1
  <2>2. t \notin ToSet(batch[c]) => Copies(batch[c], t) = 0
    BY CopiesNone
  <2>3. Copies(batch[c], t) \in Nat /\ viewRows[t] \in Nat
    BY CopiesType, NumberTypes DEF TypeOK
  <2>4. KeyPartition[t] \notin assigned[c] /\ t \notin traded => t \notin ToSet(batch[c])
    BY DEF Counted, HoldsOwnRows
  <2>5. \A n \in Nat : AtMost(n) \in Nat /\ AtMost(n) <= n
    BY ConstantsAssumption DEF AtMost
  <2>6. viewRows'[t] \in Nat /\ viewRows'[t] <= viewRows[t] + Copies(batch[c], t)
    BY <2>1, <2>2, <2>3, <2>5
  <2>7. t \notin ToSet(batch[c]) => viewRows'[t] <= viewRows[t]
    BY <2>2, <2>3, <2>6
  <2> QED
    BY <2>3, <2>4, <2>6, <2>7
<1>4. KeyedMessages'
  BY <1>1 DEF Counted, KeyedMessages
<1>5. HoldsOwnRows'
  <2>1. \A d \in Consumers : pc'[d] = "down" <=> pc[d] = "down"
    BY <1>1, <1>2 DEF OthersKeep
  <2> QED
    BY <1>1, <2>1 DEF Counted, HoldsOwnRows
<1>6. ReadCovers'
  <2> SUFFICES ASSUME NEW d \in Consumers, NEW t \in Trips \ traded, KeyPartition[t] \in assigned[d]
               PROVE  viewRows'[t] + Pending(d, t)'
                        <= CopiesUpTo(log[KeyPartition[t]], position[d][KeyPartition[t]], t)
    BY <1>1 DEF ReadCovers
  <2>1. viewRows[t] + Pending(d, t)
          <= CopiesUpTo(log[KeyPartition[t]], position[d][KeyPartition[t]], t)
    BY DEF Counted, ReadCovers
  <2>2. CASE d = c
    <3>1. Pending(c, t) = Copies(acc[c], t) + Copies(batch[c], t)
      BY <1>1 DEF Pending
    <3>2. Pending(c, t)' = Copies(acc[c], t) + 0
      BY <1>1, <1>2 DEF Pending
    <3>3. Copies(acc[c], t) \in Nat
      BY CopiesType DEF TypeOK
    <3>4. viewRows'[t] + Pending(c, t)' <= viewRows[t] + Pending(c, t)
      BY <1>3, <3>1, <3>2, <3>3
    <3>5. viewRows'[t] + Pending(c, t)' \in Nat /\ viewRows[t] + Pending(c, t) \in Nat
      BY <1>3, <3>1, <3>2, <3>3
    <3>6. CopiesUpTo(log[KeyPartition[t]], position[c][KeyPartition[t]], t) \in Nat
      BY NumberTypes
    <3> QED
      BY <2>1, <2>2, <3>4, <3>5, <3>6
  <2>3. CASE d # c
    <3>1. member[d] /\ member[c]
      BY <1>1 DEF Counted, HoldsOwnRows
    <3>2. KeyPartition[t] \notin assigned[c]
      BY <2>3, <3>1 DEF ExclusiveOwner
    <3>3. Pending(d, t)' = Pending(d, t)
      BY <1>2, <2>3, OthersPending
    <3>4. viewRows'[t] <= viewRows[t] /\ viewRows'[t] \in Nat /\ viewRows[t] \in Nat
      BY <1>3, <3>2
    <3>5. /\ Pending(d, t) \in Nat
          /\ CopiesUpTo(log[KeyPartition[t]], position[d][KeyPartition[t]], t) \in Nat
      BY NumberTypes
    <3> QED
      BY <2>1, <3>3, <3>4, <3>5
  <2> QED
    BY <2>2, <2>3
<1>7. CommittedCovers'
  <2> SUFFICES ASSUME NEW t \in Trips \ traded,
                      \A d \in Consumers : KeyPartition[t] \in assigned[d] => pc'[d] # "commit"
               PROVE  viewRows'[t] <= CopiesUpTo(log[KeyPartition[t]], committed[KeyPartition[t]], t)
    BY <1>1 DEF CommittedCovers
  <2>1. KeyPartition[t] \notin assigned[c]
    BY <1>2
  <2>2. \A d \in Consumers : KeyPartition[t] \in assigned[d] => pc[d] # "commit"
    BY <1>2, <2>1 DEF OthersKeep
  <2>3. viewRows[t] <= CopiesUpTo(log[KeyPartition[t]], committed[KeyPartition[t]], t)
    BY <2>2 DEF Counted, CommittedCovers
  <2>4. viewRows'[t] <= viewRows[t] /\ viewRows'[t] \in Nat /\ viewRows[t] \in Nat
    BY <1>3, <2>1
  <2>5. CopiesUpTo(log[KeyPartition[t]], committed[KeyPartition[t]], t) \in Nat
    BY NumberTypes
  <2> QED
    BY <2>3, <2>4, <2>5
<1> QED
  BY <1>4, <1>5, <1>6, <1>7 DEF Counted

\* A commit covers what the consumer has read, and so what is counted of it.
LEMMA CommitCounted ==
  ASSUME IInv, TypeOK', Counted, NEW c \in Consumers, CommitOk(c)
  PROVE  Counted'
<1> USE DEF IInv, storeVars, groupVars
<1>1. /\ pc[c] = "commit" /\ member[c] /\ CommitPositions(c) /\ Resume(c)
      /\ UNCHANGED <<log, viewRows, member, assigned, position, traded, acc>>
  BY DEF CommitOk
<1>2. pc'[c] \in {"closing", "loop"} /\ batch'[c] = <<>> /\ OthersKeep(c)
  BY <1>1 DEF Resume, TypeOK, OthersKeep
<1>3. /\ \A p \in assigned[c] : p \in Partitions /\ committed'[p] = position[c][p]
      /\ \A p \in Partitions \ assigned[c] : committed'[p] = committed[p]
  <2>1. ASSUME NEW p \in assigned[c] PROVE p \in Partitions /\ committed'[p] = position[c][p]
    <3>1. committed[p] <= position[c][p]
      BY <1>1 DEF OffsetBounds, Running
    <3>2. p \in Partitions /\ committed[p] \in Nat /\ position[c][p] \in Nat
      BY DEF TypeOK
    <3> QED
      BY <1>1, <3>1, <3>2 DEF CommitPositions, Uncommitted
  <2> QED
    BY <1>1, <2>1 DEF CommitPositions, Uncommitted
<1>4. KeyedMessages'
  BY <1>1 DEF Counted, KeyedMessages
<1>5. HoldsOwnRows'
  <2> SUFFICES ASSUME NEW d \in Consumers
               PROVE  /\ member[d] <=> pc'[d] # "down"
                      /\ pc'[d] = "down" => assigned[d] = {} /\ acc[d] = <<>>
                      /\ \A t \in ToSet(acc[d]) \cup ToSet(batch'[d]) :
                           KeyPartition[t] \in assigned[d] \/ t \in traded
    BY <1>1 DEF HoldsOwnRows
  <2>1. /\ member[d] <=> pc[d] # "down"
        /\ pc[d] = "down" => assigned[d] = {} /\ acc[d] = <<>>
        /\ \A t \in ToSet(acc[d]) \cup ToSet(batch[d]) :
                           KeyPartition[t] \in assigned[d] \/ t \in traded
    BY DEF Counted, HoldsOwnRows
  <2>2. CASE d = c
    BY <1>1, <1>2, <2>1, <2>2, ToSetEmpty
  <2>3. CASE d # c
    BY <1>2, <2>1, <2>3 DEF OthersKeep
  <2> QED
    BY <2>2, <2>3
<1>6. ReadCovers'
  <2> SUFFICES ASSUME NEW d \in Consumers, NEW t \in Trips \ traded, KeyPartition[t] \in assigned[d]
               PROVE  viewRows[t] + Pending(d, t)'
                        <= CopiesUpTo(log[KeyPartition[t]], position[d][KeyPartition[t]], t)
    BY <1>1 DEF ReadCovers
  <2>1. viewRows[t] + Pending(d, t)
          <= CopiesUpTo(log[KeyPartition[t]], position[d][KeyPartition[t]], t)
    BY DEF Counted, ReadCovers
  <2>2. Pending(d, t)' = Pending(d, t)
    <3>1. CASE d = c
      <4>1. pc[c] # "insert" /\ pc'[c] # "insert"
        BY <1>1, <1>2
      <4> QED
        BY <1>1, <3>1, <4>1 DEF Pending
    <3>2. CASE d # c
      BY <1>2, <3>2, OthersPending
    <3> QED
      BY <3>1, <3>2
  <2> QED
    BY <2>1, <2>2
<1>7. CommittedCovers'
  <2> SUFFICES ASSUME NEW t \in Trips \ traded,
                      \A d \in Consumers : KeyPartition[t] \in assigned[d] => pc'[d] # "commit"
               PROVE  viewRows[t] <= CopiesUpTo(log[KeyPartition[t]], committed'[KeyPartition[t]], t)
    BY <1>1 DEF CommittedCovers
  <2>1. CASE KeyPartition[t] \in assigned[c]
    <3>1. viewRows[t] + Pending(c, t)
            <= CopiesUpTo(log[KeyPartition[t]], position[c][KeyPartition[t]], t)
      BY <2>1 DEF Counted, ReadCovers
    <3>2. /\ viewRows[t] \in Nat /\ Pending(c, t) \in Nat
          /\ CopiesUpTo(log[KeyPartition[t]], position[c][KeyPartition[t]], t) \in Nat
      BY NumberTypes
    <3>3. committed'[KeyPartition[t]] = position[c][KeyPartition[t]]
      BY <1>3, <2>1
    <3> QED
      BY <3>1, <3>2, <3>3
  <2>2. CASE KeyPartition[t] \notin assigned[c]
    <3>1. \A d \in Consumers : KeyPartition[t] \in assigned[d] => pc[d] # "commit"
      BY <1>2, <2>2 DEF OthersKeep
    <3>2. committed'[KeyPartition[t]] = committed[KeyPartition[t]]
      BY <1>3, <2>2, ConstantsAssumption
    <3> QED
      BY <3>1, <3>2 DEF Counted, CommittedCovers
  <2> QED
    BY <2>1, <2>2
<1> QED
  BY <1>4, <1>5, <1>6, <1>7 DEF Counted

LEMMA NextGracefulIInv ==
  ASSUME IInv, GracefulIInv, [Next]_vars
  PROVE  GracefulIInv'
<1>1. TypeOK /\ TypeOK'
  BY NextTypeOK DEF IInv
<1>2. Graceful' <=> Graceful
  BY <1>1, KindsKept DEF Graceful
<1> SUFFICES ASSUME Graceful, Counted PROVE Counted'
  BY <1>2 DEF GracefulIInv, Graceful, Counted
<1>3. CASE \E p \in Partitions, m \in Message : Produce(p, m)
  BY <1>1, <1>3, ProduceCounted
<1>4. ASSUME NEW c \in Consumers, Group(c) \/ Process(c) PROVE Counted'
  <2>1. \/ Revoke(c) \/ \E p \in Partitions : Deliver(c, p)
        \/ Start(c) \/ RequestShutdown(c) \/ Close(c)
        \/ LoopHead(c) \/ PollNothing(c) \/ Flush(c) \/ NoFlush(c)
        \/ InsertOk(c) \/ InsertPoison(c) \/ CommitOk(c) \/ CommitRejected(c)
    BY <1>1, <1>4, GracefulSteps DEF Counted
  <2> QED
    BY <1>1, <2>1, RevokeCounted, DeliverCounted, LifeCounted, LocalCounted, InsertCounted,
       GiveUpCounted, CommitCounted
<1>5. CASE Assign
  BY <1>1, <1>5, AssignCounted
<1>6. CASE UNCHANGED vars
  BY <1>6 DEF vars, kafkaVars, storeVars, groupVars, batchVars, Counted, KeyedMessages,
     HoldsOwnRows, ReadCovers, CommittedCovers, Pending
<1> QED
  BY <1>3, <1>4, <1>5, <1>6 DEF Next

LEMMA InitGracefulIInv == Init => GracefulIInv
<1> SUFFICES ASSUME Init PROVE Counted
  BY DEF GracefulIInv, Counted
<1>1. KeyedMessages /\ ReadCovers
  BY DEF Init, KeyedMessages, ReadCovers
<1>2. HoldsOwnRows
  BY ToSetEmpty DEF Init, HoldsOwnRows
<1>3. CommittedCovers
  <2>1. \A t \in Trips : viewRows[t] = 0 /\ CopiesUpTo(log[KeyPartition[t]], committed[KeyPartition[t]], t) \in Nat
    BY InitTypeOK, NumberTypes, ConstantsAssumption, CountTypes DEF Init, TypeOK
  <2> QED
    BY <2>1 DEF CommittedCovers
<1> QED
  BY <1>1, <1>2, <1>3 DEF Counted

\* The invariant behind the next theorem: what is counted of a trip that was not
\* traded is committed, or about to be; what is pending has been read once.
THEOREM GracefulInvariant == Spec => []GracefulIInv
<1>1. Init => IInv /\ GracefulIInv
  BY InitIInv, InitGracefulIInv
<1>2. (IInv /\ GracefulIInv) /\ [Next]_vars => (IInv /\ GracefulIInv)'
  BY NextIInv, NextGracefulIInv
<1> QED
  BY <1>1, <1>2, PTL DEF Spec

\* While consumers join and are stopped gracefully, the views count a trip more
\* often than it is on the topic only if a rebalance found a row of it in an
\* accumulator, for any number of consumers, messages and rebalances.
THEOREM GracefulTwiceOnlyIfTraded == Spec => []TwiceOnlyIfTraded
<1>1. IInv /\ GracefulIInv => TwiceOnlyIfTraded
  <2> SUFFICES ASSUME TypeOK, OffsetBounds, Counted, NEW t \in Trips \ traded
               PROVE  viewRows[t] <= Copies(log[KeyPartition[t]], t)
    BY DEF IInv, GracefulIInv, Counted, TwiceOnlyIfTraded
  <2> DEFINE p == KeyPartition[t]
  <2>1. p \in Partitions /\ log[p] \in Seq(Message) /\ viewRows[t] \in Nat
    BY ConstantsAssumption DEF TypeOK
  <2>2. ASSUME NEW n, viewRows[t] <= CopiesUpTo(log[p], n, t)
        PROVE  viewRows[t] <= Copies(log[p], t)
    <3>1. /\ CopiesUpTo(log[p], n, t) \in Nat /\ Copies(log[p], t) \in Nat
          /\ CopiesUpTo(log[p], n, t) <= Copies(log[p], t)
      BY <2>1, CountTypes
    <3> QED
      BY <2>1, <2>2, <3>1
  <2>3. CASE \A c \in Consumers : p \in assigned[c] => pc[c] # "commit"
    <3>1. viewRows[t] <= CopiesUpTo(log[p], committed[p], t)
      BY <2>3 DEF Counted, CommittedCovers
    <3> QED
      BY <2>2, <3>1
  <2>4. ASSUME NEW c \in Consumers, p \in assigned[c]
        PROVE  viewRows[t] <= Copies(log[p], t)
    <3>1. viewRows[t] + Pending(c, t) <= CopiesUpTo(log[p], position[c][p], t)
      BY <2>4 DEF Counted, ReadCovers
    <3>2. Pending(c, t) \in Nat /\ CopiesUpTo(log[p], position[c][p], t) \in Nat
      BY NumberTypes
    <3>3. viewRows[t] <= CopiesUpTo(log[p], position[c][p], t)
      BY <2>1, <3>1, <3>2
    <3> QED
      BY <2>2, <3>3
  <2> QED
    BY <2>3, <2>4
<1> QED
  BY <1>1, Inductive, GracefulInvariant, PTL

-----------------------------------------------------------------------------
(* How a process ends. *)

\* What a step does to the control state of a consumer, whosever step it is.
Stays(c) ==
  /\ pc'[c] = pc[c] /\ attempt'[c] = attempt[c] /\ draining'[c] = draining[c]
  /\ shutdown'[c] = shutdown[c] \/ (shutdown'[c] /\ pc[c] # "down")

Dies(c) == pc'[c] = "down" /\ ~draining'[c] /\ ~shutdown'[c]

Goes(c, from, to) ==
  /\ pc[c] \in from /\ pc'[c] = to
  /\ draining'[c] = draining[c]

Leaves(c) ==
  /\ pc[c] \in {"loop", "polling"} /\ draining'[c]
  /\ shutdown'[c] = shutdown[c]
  /\ pc'[c] = "closing" \/ (pc'[c] = "insert" /\ attempt'[c] = 1)

Moves(c) ==
  \/ Stays(c) \/ Dies(c) \/ Leaves(c)
  \/ /\ shutdown'[c] = shutdown[c]
     /\ \/ Goes(c, {"down"}, "loop")
        \/ Goes(c, {"loop"}, "polling") /\ ~shutdown[c]
        \/ Goes(c, {"polling"}, "polled")
        \/ Goes(c, {"polled"}, "insert") /\ attempt'[c] = 1
        \/ Goes(c, {"polled"}, "loop")
        \/ Goes(c, {"insert"}, "commit")
        \/ Goes(c, {"insert"}, "insert") /\ attempt[c] < MaxAttempts /\ attempt'[c] = attempt[c] + 1
  \/ /\ shutdown'[c] = shutdown[c] \/ shutdown'[c]
     /\ Goes(c, {"insert", "commit"}, IF draining[c] THEN "closing" ELSE "loop")

LEMMA MoveDescends ==
  ASSUME TypeOK, DescentIInv, NEW c \in Consumers, Moves(c)
  PROVE  /\ pc'[c] = "insert" => attempt'[c] \in 1 .. MaxAttempts
         /\ draining'[c] => pc'[c] \in {"insert", "commit", "closing"}
         /\ shutdown'[c] => pc'[c] # "down"
         /\ StepsLeft(c)' \in 0 .. 2 * MaxAttempts + 6
         /\ shutdown[c] =>
              /\ shutdown'[c] \/ pc'[c] = "down"
              /\ StepsLeft(c)' <= StepsLeft(c)
              /\ pc'[c] # pc[c] \/ attempt'[c] # attempt[c] => StepsLeft(c)' < StepsLeft(c)
<1>1. /\ pc[c] \in ControlPoints /\ attempt[c] \in Nat /\ MaxAttempts \in Nat \ {0}
      /\ draining[c] \in BOOLEAN /\ shutdown[c] \in BOOLEAN
  BY ConstantsAssumption DEF TypeOK
<1>2. /\ pc[c] = "insert" => attempt[c] \in 1 .. MaxAttempts
      /\ draining[c] => pc[c] \in {"insert", "commit", "closing"}
      /\ shutdown[c] => pc[c] # "down"
  BY DEF DescentIInv
<1> USE DEF ControlPoints, StepsLeft, AfterBatch
<1>3. CASE Stays(c)
  BY <1>1, <1>2, <1>3 DEF Stays
<1>4. CASE Dies(c)
  BY <1>1, <1>2, <1>4 DEF Dies
<1>5. CASE Leaves(c)
  BY <1>1, <1>2, <1>5 DEF Leaves
<1>6. CASE shutdown'[c] = shutdown[c] /\ Goes(c, {"down"}, "loop")
  BY <1>1, <1>2, <1>6 DEF Goes
<1>7. CASE shutdown'[c] = shutdown[c] /\ Goes(c, {"loop"}, "polling") /\ ~shutdown[c]
  BY <1>1, <1>2, <1>7 DEF Goes
<1>8. CASE shutdown'[c] = shutdown[c] /\ Goes(c, {"polling"}, "polled")
  BY <1>1, <1>2, <1>8 DEF Goes
<1>9. CASE shutdown'[c] = shutdown[c] /\ Goes(c, {"polled"}, "insert") /\ attempt'[c] = 1
  BY <1>1, <1>2, <1>9 DEF Goes
<1>10. CASE shutdown'[c] = shutdown[c] /\ Goes(c, {"polled"}, "loop")
  BY <1>1, <1>2, <1>10 DEF Goes
<1>11. CASE shutdown'[c] = shutdown[c] /\ Goes(c, {"insert"}, "commit")
  BY <1>1, <1>2, <1>11 DEF Goes
<1>12. CASE /\ shutdown'[c] = shutdown[c] /\ Goes(c, {"insert"}, "insert")
            /\ attempt[c] < MaxAttempts /\ attempt'[c] = attempt[c] + 1
  BY <1>1, <1>2, <1>12 DEF Goes
<1>13. CASE /\ shutdown'[c] = shutdown[c] \/ shutdown'[c]
            /\ Goes(c, {"insert", "commit"}, IF draining[c] THEN "closing" ELSE "loop")
  BY <1>1, <1>2, <1>13 DEF Goes
<1> HIDE DEF StepsLeft, AfterBatch
<1> QED
  BY <1>3, <1>4, <1>5, <1>6, <1>7, <1>8, <1>9, <1>10, <1>11, <1>12, <1>13 DEF Moves

\* Another consumer's step changes none of this.
LEMMA OthersStay ==
  ASSUME TypeOK, NEW c \in Consumers, NEW d \in Consumers, d # c, Process(d)
  PROVE  Stays(c)
<1> USE DEF TypeOK, Stays, ForgetProcess
<1>1. CASE Start(d) \/ RequestShutdown(d) \/ Crash(d) \/ Close(d)
  BY <1>1 DEF Start, RequestShutdown, Crash, Close, batchVars
<1>2. CASE LoopHead(d) \/ PollFatal(d)
  BY <1>2 DEF LoopHead, PollFatal, LeaveLoop, YieldBatch, batchVars
<1>3. ASSUME NEW p \in Partitions, Deliver(d, p) PROVE Stays(c)
  BY <1>3 DEF Deliver
<1>4. CASE PollNothing(d) \/ Flush(d) \/ NoFlush(d)
  BY <1>4 DEF PollNothing, Flush, NoFlush, YieldBatch, batchVars
<1>5. CASE InsertOk(d) \/ InsertError(d) \/ InsertPoison(d)
  BY <1>5 DEF InsertOk, InsertError, InsertPoison, GiveUp, Resume, batchVars
<1>6. CASE CommitOk(d) \/ CommitRejected(d) \/ CommitError(d)
  BY <1>6 DEF CommitOk, CommitRejected, CommitError, GiveUp, Resume
<1> QED
  BY <1>1, <1>2, <1>3, <1>4, <1>5, <1>6 DEF Process, Poll, Persist

LEMMA OwnProcessMoves ==
  ASSUME TypeOK, NEW c \in Consumers, Process(c)
  PROVE  Moves(c)
<1> USE DEF TypeOK, Moves, Goes
<1>1. CASE Crash(c) \/ Close(c)
  BY <1>1 DEF Crash, Close, ForgetProcess, Dies
<1>2. CASE Start(c)
  BY <1>2 DEF Start
<1>3. CASE RequestShutdown(c)
  BY <1>3 DEF RequestShutdown, Running, Stays, batchVars
<1>4. ASSUME LeaveLoop(c), pc[c] \in {"loop", "polling"}, UNCHANGED shutdown PROVE Leaves(c)
  BY <1>4 DEF LeaveLoop, YieldBatch, Leaves
<1>5. CASE LoopHead(c)
  BY <1>4, <1>5 DEF LoopHead
<1>6. CASE PollFatal(c)
  BY <1>4, <1>6 DEF PollFatal
<1>7. ASSUME NEW p \in Partitions, Deliver(c, p) PROVE Moves(c)
  BY <1>7 DEF Deliver
<1>8. CASE PollNothing(c)
  BY <1>8 DEF PollNothing
<1>9. CASE Flush(c)
  BY <1>9 DEF Flush, YieldBatch
<1>10. CASE NoFlush(c)
  BY <1>10 DEF NoFlush
<1>11. CASE InsertOk(c)
  BY <1>11 DEF InsertOk
<1>12. ASSUME GiveUp(c) \/ (Resume(c) /\ UNCHANGED shutdown), pc[c] \in {"insert", "commit"},
              UNCHANGED draining
       PROVE  /\ shutdown'[c] = shutdown[c] \/ shutdown'[c]
              /\ Goes(c, {"insert", "commit"}, IF draining[c] THEN "closing" ELSE "loop")
  BY <1>12 DEF GiveUp, Resume
<1>13. CASE InsertError(c)
  BY <1>12, <1>13 DEF InsertError
<1>14. CASE InsertPoison(c)
  BY <1>12, <1>14 DEF InsertPoison
<1>15. CASE CommitOk(c) \/ CommitRejected(c) \/ CommitError(c)
  BY <1>12, <1>15 DEF CommitOk, CommitRejected, CommitError
<1> QED
  BY <1>1, <1>2, <1>3, <1>5, <1>6, <1>7, <1>8, <1>9, <1>10, <1>11, <1>13, <1>14, <1>15
  DEF Process, Poll, Persist

LEMMA EveryStepMoves ==
  ASSUME TypeOK, [Next]_vars, NEW c \in Consumers
  PROVE  Moves(c)
<1>1. CASE UNCHANGED vars
  BY <1>1 DEF vars, batchVars, Moves, Stays
<1>2. ASSUME NEW p \in Partitions, NEW m \in Message, Produce(p, m) PROVE Moves(c)
  BY <1>2 DEF Produce, batchVars, Moves, Stays
<1>3. ASSUME NEW d \in Consumers, Group(d) PROVE Moves(c)
  BY <1>3 DEF Group, Revoke, Fence, SessionTimeout, Rejoin, batchVars, Moves, Stays
<1>4. ASSUME NEW d \in Consumers, Process(d) PROVE Moves(c)
  BY <1>4, OthersStay, OwnProcessMoves DEF Moves
<1>5. CASE Assign
  BY <1>5 DEF Assign, batchVars, Moves, Stays
<1> QED
  BY <1>1, <1>2, <1>3, <1>4, <1>5 DEF Next

LEMMA NextDescent ==
  TypeOK /\ DescentIInv /\ [Next]_vars =>
    /\ DescentIInv'
    /\ \A c \in Consumers : shutdown[c] =>
         /\ shutdown'[c] \/ pc'[c] = "down"
         /\ StepsLeft(c)' <= StepsLeft(c)
         /\ pc'[c] # pc[c] \/ attempt'[c] # attempt[c] => StepsLeft(c)' < StepsLeft(c)
<1> SUFFICES ASSUME TypeOK, DescentIInv, [Next]_vars, NEW c \in Consumers
             PROVE  /\ pc'[c] = "insert" => attempt'[c] \in 1 .. MaxAttempts
                    /\ draining'[c] => pc'[c] \in {"insert", "commit", "closing"}
                    /\ shutdown'[c] => pc'[c] # "down"
                    /\ StepsLeft(c)' \in 0 .. 2 * MaxAttempts + 6
                    /\ shutdown[c] =>
                         /\ shutdown'[c] \/ pc'[c] = "down"
                         /\ StepsLeft(c)' <= StepsLeft(c)
                         /\ pc'[c] # pc[c] \/ attempt'[c] # attempt[c] => StepsLeft(c)' < StepsLeft(c)
  BY DEF DescentIInv
<1> QED
  BY EveryStepMoves, MoveDescends

\* A process that has been asked to stop has 2 * MaxAttempts + 6 steps left at most.
THEOREM DescentInvariant == Spec => []DescentIInv
<1>1. Init => TypeOK /\ DescentIInv
  <2> SUFFICES ASSUME Init, NEW c \in Consumers
               PROVE  /\ pc[c] = "down" /\ ~draining[c] /\ ~shutdown[c]
                      /\ StepsLeft(c) \in 0 .. 2 * MaxAttempts + 6
    BY InitTypeOK DEF DescentIInv
  <2>1. pc[c] = "down" /\ ~draining[c] /\ ~shutdown[c]
    BY DEF Init
  <2>2. StepsLeft(c) = 0
    BY <2>1 DEF StepsLeft
  <2> QED
    BY <2>1, <2>2, ConstantsAssumption
<1>2. (TypeOK /\ DescentIInv) /\ [Next]_vars => (TypeOK /\ DescentIInv)'
  BY NextTypeOK, NextDescent
<1> QED
  BY <1>1, <1>2, PTL DEF Spec

\* The three invariants of the group, together.
THEOREM ConsumerInvariant == Spec => []ConsumerIInv
<1>1. IInv /\ GracefulIInv /\ DescentIInv => ConsumerIInv
  BY DEF ConsumerIInv
<1> QED
  BY <1>1, Inductive, GracefulInvariant, DescentInvariant, PTL

\* No step of anybody takes it further from its end: each of its own takes it
\* nearer, for any batch size and any number of attempts, partitions and peers.
THEOREM ShutdownIsBounded == Spec => ShutdownDescends
<1> DEFINE Descends == \A c \in Consumers : shutdown[c] =>
                         /\ shutdown'[c] \/ pc'[c] = "down"
                         /\ StepsLeft(c)' <= StepsLeft(c)
                         /\ pc'[c] # pc[c] \/ attempt'[c] # attempt[c]
                              => StepsLeft(c)' < StepsLeft(c)
<1>1. TypeOK /\ DescentIInv /\ [Next]_vars => [Descends]_vars
  BY NextDescent
<1> QED
  BY <1>1, TypeCorrect, DescentInvariant, PTL DEF Spec, ShutdownDescends
=============================================================================
