--------------------------- MODULE Deployment_proofs ---------------------------
(***************************************************************************)
(* Proofs about TopicManager and Deployment for any processes, images,     *)
(* topics, views and trips.                                                *)
(***************************************************************************)
EXTENDS Deployment, SchemaManager_proofs

-----------------------------------------------------------------------------
(* TopicManager: the broker has what a producer no longer waits for. *)

LEMMA StartProducerTopicIInv ==
  ASSUME TopicIInv, NEW p \in Producers, StartProducer(p)
  PROVE  TopicIInv'
<1>1. TopicTypeOK'
  BY DEF StartProducer, TopicIInv, TopicTypeOK, Answers
<1>2. TopicsReady' /\ RaceHarmless'
  BY DEF StartProducer, TopicIInv, TopicTypeOK, TopicsReady, RaceHarmless
<1>3. AnswersTrue' /\ Awaited'
  BY DEF StartProducer, TopicIInv, TopicTypeOK, AnswersTrue, Awaited
<1> QED
  BY <1>1, <1>2, <1>3 DEF TopicIInv

\* What is not asked for is there.
LEMMA ListTopicsTopicIInv ==
  ASSUME TopicIInv, NEW p \in Producers, ListTopics(p)
  PROVE  TopicIInv'
<1>1. TopicTypeOK'
  BY TopicAssumption DEF ListTopics, TopicIInv, TopicTypeOK
<1>2. TopicsReady' /\ RaceHarmless'
  BY DEF ListTopics, TopicIInv, TopicTypeOK, TopicsReady, RaceHarmless
<1>3. AnswersTrue' /\ Awaited'
  BY DEF ListTopics, TopicIInv, TopicTypeOK, AnswersTrue, Awaited
<1> QED
  BY <1>1, <1>2, <1>3 DEF TopicIInv

LEMMA ListFailsTopicIInv ==
  ASSUME TopicIInv, NEW p \in Producers, ListFails(p)
  PROVE  TopicIInv'
<1>1. TopicTypeOK'
  BY TopicAssumption DEF ListFails, TopicFault, TopicIInv, TopicTypeOK
<1>2. TopicsReady' /\ RaceHarmless'
  BY DEF ListFails, TopicFault, TopicIInv, TopicTypeOK, TopicsReady, RaceHarmless
<1>3. AnswersTrue' /\ Awaited'
  BY DEF ListFails, TopicFault, TopicIInv, TopicTypeOK, AnswersTrue, Awaited
<1> QED
  BY <1>1, <1>2, <1>3 DEF TopicIInv

\* The broker has answered.
LEMMA BrokerTopicIInv ==
  ASSUME TopicIInv, NEW p \in Producers, NEW t \in Topics,
         BrokerCreates(p, t) \/ BrokerFails(p, t)
  PROVE  TopicIInv'
<1>1. /\ \E a \in {"created", "exists", "error"} :
           /\ answers' = [answers EXCEPT ![p][t] = a]
           /\ a \in {"created", "exists"} => t \in topics'
           /\ a = "error" => topicFaults' > 0
      /\ topics \subseteq topics' /\ topics' \subseteq topics \cup {t}
      /\ topicFaults' \in {topicFaults, topicFaults + 1} /\ topicFaults' \in 0 .. MaxTopicFaults
      /\ UNCHANGED <<step, pending>>
  BY TopicAssumption DEF BrokerCreates, BrokerFails, TopicFault, TopicIInv, TopicTypeOK
<1>2. PICK a \in {"created", "exists", "error"} :
        /\ answers' = [answers EXCEPT ![p][t] = a]
        /\ a \in {"created", "exists"} => t \in topics'
        /\ a = "error" => topicFaults' > 0
  BY <1>1
<1>3. answers \in [Producers -> [Topics -> Answers]] /\ topicFaults \in Nat
  BY DEF TopicIInv, TopicTypeOK
<1>4. answers' \in [Producers -> [Topics -> Answers]]
  BY <1>2, <1>3 DEF Answers
<1>5. TopicTypeOK'
  BY <1>1, <1>4 DEF TopicIInv, TopicTypeOK
<1>6. TopicsReady' /\ RaceHarmless' /\ Awaited'
  BY <1>1, <1>3 DEF TopicIInv, TopicsReady, RaceHarmless, Awaited
<1>7. AnswersTrue'
  <2> SUFFICES ASSUME NEW q \in Producers, NEW u \in Topics
               PROVE  /\ answers'[q][u] \in {"created", "exists"} => u \in topics'
                      /\ answers'[q][u] = "error" => topicFaults' > 0
    BY DEF AnswersTrue
  <2>1. CASE q = p /\ u = t
    BY <1>2, <1>3, <2>1
  <2>2. CASE ~(q = p /\ u = t)
    <3>1. answers'[q][u] = answers[q][u]
      BY <1>2, <1>3, <2>2
    <3> QED
      BY <1>1, <1>3, <3>1 DEF TopicIInv, AnswersTrue
  <2> QED
    BY <2>1, <2>2
<1> QED
  BY <1>5, <1>6, <1>7 DEF TopicIInv

\* A topic whose answer is tolerated exists.
LEMMA AwaitTopicTopicIInv ==
  ASSUME TopicIInv, NEW p \in Producers, NEW t \in Topics, AwaitTopic(p, t)
  PROVE  TopicIInv'
<1>1. TopicTypeOK'
  BY DEF AwaitTopic, TopicIInv, TopicTypeOK
<1>2. TopicsReady' /\ RaceHarmless' /\ AnswersTrue'
  BY DEF AwaitTopic, TopicIInv, TopicsReady, RaceHarmless, AnswersTrue
<1>3. t \in topics
  BY DEF AwaitTopic, Tolerated, TopicIInv, AnswersTrue
<1>4. Awaited'
  BY <1>3 DEF AwaitTopic, TopicIInv, TopicTypeOK, Awaited
<1> QED
  BY <1>1, <1>2, <1>4 DEF TopicIInv

LEMMA AwaitEndsTopicIInv ==
  ASSUME TopicIInv, NEW p \in Producers,
         (\E t \in Topics : AwaitRaises(p, t)) \/ TopicsEnsured(p)
  PROVE  TopicIInv'
<1>1. CASE TopicsEnsured(p)
  BY <1>1 DEF TopicsEnsured, TopicIInv, TopicTypeOK, TopicsReady, RaceHarmless, AnswersTrue, Awaited
<1>2. ASSUME NEW t \in Topics, AwaitRaises(p, t) PROVE TopicIInv'
  <2>1. answers[p][t] = "error"
    BY <1>2 DEF AwaitRaises, Tolerated, TopicIInv, TopicTypeOK, Answers
  <2>2. topicFaults > 0
    BY <2>1 DEF TopicIInv, AnswersTrue
  <2> QED
    BY <1>2, <2>2 DEF AwaitRaises, TopicIInv, TopicTypeOK, TopicsReady, RaceHarmless, AnswersTrue, Awaited
<1> QED
  BY <1>1, <1>2

LEMMA ProducerTopicIInv ==
  ASSUME TopicIInv, NEW p \in Producers, StartProducer(p) \/ ProducerStep(p)
  PROVE  TopicIInv'
BY StartProducerTopicIInv, ListTopicsTopicIInv, ListFailsTopicIInv, BrokerTopicIInv,
   AwaitTopicTopicIInv, AwaitEndsTopicIInv DEF ProducerStep

-----------------------------------------------------------------------------
(* The composition. *)

\* A recorded file's views exist.
LEMMA ScriptObjects ==
  ASSUME NEW f \in Contents, Built(f), NEW o \in ToSet(Script[f])
  PROVE  Exists(o)
BY DEF Built, ToSet

LEMMA InitDeploymentIInv == Init => DeploymentIInv
<1> SUFFICES ASSUME Init PROVE DeploymentIInv
  OBVIOUS
<1>1. SchemaIInv
  BY InitSchemaIInv DEF Init
<1>2. TopicIInv
  <2>1. TopicTypeOK
    BY TopicAssumption DEF Init, TopicInit, TopicTypeOK, Answers
  <2> QED
    BY <2>1 DEF Init, TopicInit, TopicIInv, TopicsReady, RaceHarmless, AnswersTrue, Awaited
<1>3. FlowOk
  BY DEF Init, FlowOk
<1>4. CalmIInv /\ NoSilentDrift
  BY InitCalmIInv DEF Init
<1> QED
  BY <1>1, <1>2, <1>3, <1>4 DEF DeploymentIInv

\* Objects stay, so what is due stays due.
LEMMA SchemaGrows ==
  ASSUME SchemaIInv, [SchemaNext]_schemaVars
  PROVE  \A o \in Objects : Exists(o) => Exists(o)'
<1>1. ServerOk
  BY Parts
<1>2. ASSUME NEW r \in Runners, StartRun(r) \/ RunStep(r) \/ KillRun(r)
      PROVE  UNCHANGED serverVars \/ Effect(r)
  BY <1>2 DEF StartRun, RunStep, KillRun, Execute, ExecuteError, StatementRejected,
     NextFile, SkipFile, LastFile
<1>3. UNCHANGED serverVars \/ \E r \in Runners : Effect(r)
  BY <1>2 DEF SchemaNext, schemaVars
<1>4. ServerGrows
  BY <1>1, <1>3, SameServer, EffectFacts
<1> QED
  BY <1>4 DEF ServerGrows, Exists

LEMMA SchemaProcessIInv ==
  ASSUME DeploymentIInv, NEW r \in Runners, SchemaProcess(r)
  PROVE  DeploymentIInv'
<1>1. SchemaNext /\ UNCHANGED <<topicVars, flowVars>>
  BY DEF SchemaProcess, SchemaNext
<1>2. SchemaIInv' /\ CalmIInv' /\ NoSilentDrift'
  BY <1>1, NextSchemaIInv, NextCalmIInv DEF DeploymentIInv
<1>3. TopicIInv'
  BY <1>1 DEF DeploymentIInv, topicVars, TopicIInv, TopicTypeOK, TopicsReady, RaceHarmless,
     AnswersTrue, Awaited
<1>4. \A o \in Objects : Exists(o) => Exists(o)'
  BY <1>1, SchemaGrows DEF DeploymentIInv
<1>5. FlowOk'
  BY <1>1, <1>4, DeploymentAssumption DEF DeploymentIInv, FlowOk, flowVars
<1> QED
  BY <1>2, <1>3, <1>5 DEF DeploymentIInv

LEMMA SchemaUnchanged ==
  ASSUME DeploymentIInv, UNCHANGED schemaVars
  PROVE  /\ SchemaIInv' /\ CalmIInv' /\ NoSilentDrift'
         /\ \A o \in Objects : Exists(o) <=> Exists(o)'
<1>1. SchemaIInv' /\ CalmIInv' /\ NoSilentDrift'
  BY StutterSchemaIInv, NextCalmIInv DEF DeploymentIInv
<1> QED
  BY <1>1 DEF schemaVars, serverVars, Exists

LEMMA TopicUnchanged ==
  ASSUME TopicIInv, UNCHANGED topicVars
  PROVE  TopicIInv'
BY DEF topicVars, TopicIInv, TopicTypeOK, TopicsReady, RaceHarmless, AnswersTrue, Awaited

LEMMA ProducerProcessIInv ==
  ASSUME DeploymentIInv, NEW p \in Producers, ProducerProcess(p)
  PROVE  DeploymentIInv'
<1>1. TopicIInv'
  BY ProducerTopicIInv DEF DeploymentIInv, ProducerProcess
<1>2. SchemaIInv' /\ CalmIInv' /\ NoSilentDrift' /\ \A o \in Objects : Exists(o) <=> Exists(o)'
  BY SchemaUnchanged DEF DeploymentIInv, ProducerProcess
<1>3. FlowOk'
  BY <1>2, DeploymentAssumption DEF DeploymentIInv, FlowOk, ProducerProcess, flowVars
<1> QED
  BY <1>1, <1>2, <1>3 DEF DeploymentIInv

\* The files that a run with exit code 0 has not warned of are there.
LEMMA BootstrapConsumerIInv ==
  ASSUME DeploymentIInv, NEW r \in Runners, BootstrapConsumer(r)
  PROVE  DeploymentIInv'
<1>1. TopicIInv' /\ SchemaIInv' /\ CalmIInv' /\ NoSilentDrift' /\ \A o \in Objects : Exists(o) <=> Exists(o)'
  BY TopicUnchanged, SchemaUnchanged DEF DeploymentIInv, BootstrapConsumer
<1>2. \A o \in AppliedViews(r) : Exists(o)
  <2> SUFFICES ASSUME NEW o \in Views, NEW v \in DOMAIN FilesOf[r],
                      o \in ToSet(Script[FilesOf[r][v]]),
                      warned[r] => recorded[v] = FilesOf[r][v]
               PROVE  Exists(o)
    BY DEF AppliedViews
  <2>1. FilesOf[r][v] \in Contents /\ v \in Versions
    BY FileFacts DEF Versions
  <2>2. CASE ~warned[r]
    <3>1. SuccessMeansSchema
      BY SchemaIsThere DEF DeploymentIInv
    <3>2. Built(FilesOf[r][v])
      BY <2>2, <3>1 DEF SuccessMeansSchema, BootstrapConsumer
    <3> QED
      BY <2>1, <3>2, ScriptObjects
  <2>3. CASE warned[r]
    <3>1. recorded[v] # None
      BY <2>1, <2>3, SchemaAssumption
    <3>2. Built(FilesOf[r][v])
      BY <2>1, <2>3, <3>1 DEF DeploymentIInv, SchemaIInv, RecordedIsComplete
    <3> QED
      BY <2>1, <3>2, ScriptObjects
  <2> QED
    BY <2>2, <2>3
<1>3. FlowOk'
  BY <1>1, <1>2, DeploymentAssumption DEF DeploymentIInv, FlowOk, BootstrapConsumer, AppliedViews
<1> QED
  BY <1>1, <1>3 DEF DeploymentIInv

LEMMA InsertIInv ==
  ASSUME DeploymentIInv, NEW t \in Trips, Insert(t)
  PROVE  DeploymentIInv'
<1>1. TopicIInv' /\ SchemaIInv' /\ CalmIInv' /\ NoSilentDrift' /\ \A o \in Objects : Exists(o) <=> Exists(o)'
  BY TopicUnchanged, SchemaUnchanged DEF DeploymentIInv, Insert
<1>2. FlowOk'
  BY <1>1, DeploymentAssumption DEF DeploymentIInv, FlowOk, Insert
<1> QED
  BY <1>1, <1>2 DEF DeploymentIInv

LEMMA NextDeploymentIInv == DeploymentIInv /\ [Next]_vars => DeploymentIInv'
<1> SUFFICES ASSUME DeploymentIInv, [Next]_vars PROVE DeploymentIInv'
  OBVIOUS
<1>1. CASE UNCHANGED vars
  <2>1. TopicIInv' /\ SchemaIInv' /\ CalmIInv' /\ NoSilentDrift' /\ \A o \in Objects : Exists(o) <=> Exists(o)'
    BY <1>1, TopicUnchanged, SchemaUnchanged DEF DeploymentIInv, vars
  <2>2. FlowOk'
    BY <1>1, <2>1, DeploymentAssumption DEF DeploymentIInv, FlowOk, vars, flowVars
  <2> QED
    BY <2>1, <2>2 DEF DeploymentIInv
<1>2. ASSUME NEW r \in Runners, SchemaProcess(r) \/ ProducerProcess(r) \/ BootstrapConsumer(r)
      PROVE  DeploymentIInv'
  BY <1>2, SchemaProcessIInv, ProducerProcessIInv, BootstrapConsumerIInv, DeploymentAssumption
<1>3. ASSUME NEW t \in Trips, Insert(t) PROVE DeploymentIInv'
  BY <1>3, InsertIInv
<1> QED
  BY <1>1, <1>2, <1>3 DEF Next

\* The inductive invariant of schema runs, producers and the rows that flow.
THEOREM DeploymentInvariant == Spec => []DeploymentIInv
<1>1. Init => DeploymentIInv
  BY InitDeploymentIInv
<1>2. DeploymentIInv /\ [Next]_vars => DeploymentIInv'
  BY NextDeploymentIInv
<1> QED
  BY <1>1, <1>2, PTL DEF Spec

\* The inductive invariant of the topics, for any producers that race.
THEOREM TopicInvariant == Spec => []TopicIInv
<1>1. DeploymentIInv => TopicIInv
  BY DEF DeploymentIInv
<1> QED
  BY <1>1, DeploymentInvariant, PTL

\* A producer that goes on to publish finds every default topic.
THEOREM TopicsAreReady == Spec => []TopicsReady
<1>1. TopicIInv => TopicsReady
  BY DEF TopicIInv
<1> QED
  BY <1>1, TopicInvariant, PTL

\* Losing the race to create a topic is no failure.
THEOREM RaceIsHarmless == Spec => []RaceHarmless
<1>1. TopicIInv => RaceHarmless
  BY DEF TopicIInv
<1> QED
  BY <1>1, TopicInvariant, PTL

\* In the order of bootstrap.sh the views of the files that the run has not
\* warned of miss no trip from then on.
THEOREM BootstrapCounts == Spec => []BootstrapCountsAll
<1>1. DeploymentIInv => BootstrapCountsAll
  BY DEF DeploymentIInv, FlowOk, BootstrapCountsAll
<1> QED
  BY <1>1, DeploymentInvariant, PTL

\* A trip that is inserted is counted by every view of the recorded versions.
THEOREM ViewsAreFed == Spec => RecordedViewsFed
<1> DEFINE Fed == \A t \in inserted' \ inserted, v \in Versions :
                    recorded[v] # None =>
                      \A o \in Views \cap ToSet(Script[recorded[v]]) : t \in counted'[o]
<1>1. DeploymentIInv /\ [Next]_vars => [Fed]_flowVars
  <2> SUFFICES ASSUME DeploymentIInv, [Next]_vars,
                      NEW t \in inserted' \ inserted, NEW v \in Versions, recorded[v] # None,
                      NEW o \in Views \cap ToSet(Script[recorded[v]])
               PROVE  t \in counted'[o]
    BY DEF flowVars
  <2>1. Insert(t)
    <3>1. \A r \in Runners : ~(SchemaProcess(r) \/ ProducerProcess(r) \/ BootstrapConsumer(r))
      BY DEF SchemaProcess, ProducerProcess, BootstrapConsumer, flowVars
    <3>2. ~UNCHANGED vars
      BY DEF vars, flowVars
    <3>3. PICK u \in Trips : Insert(u)
      BY <3>1, <3>2 DEF Next
    <3> QED
      BY <3>3 DEF Insert
  <2>2. recorded[v] \in Contents /\ Built(recorded[v])
    BY DEF DeploymentIInv, SchemaIInv, SchemaTypeOK, RecordedIsComplete
  <2>3. Exists(o)
    BY <2>2, ScriptObjects
  <2> QED
    BY <2>1, <2>3 DEF Insert
<1> QED
  BY <1>1, DeploymentInvariant, PTL DEF Spec, RecordedViewsFed

\* A deployment is schema runs and steps they do not see: whatever the producers
\* and the consumer do meanwhile, SchemaManager's specification holds of it.
THEOREM DeploymentRunsSchema == Spec => SchemaSpec
<1>1. Init => SchemaInit
  BY DEF Init
<1>2. [Next]_vars => [SchemaNext]_schemaVars
  BY DEF Next, vars, SchemaProcess, SchemaNext, ProducerProcess, BootstrapConsumer, Insert
<1> QED
  BY <1>1, <1>2, PTL DEF Spec, SchemaSpec

\* Hence what holds of the schema runs holds of them in a deployment: the
\* tracking table is truthful,
THEOREM DeploymentRecords == Spec => []RecordedIsComplete
BY DeploymentRunsSchema, RecordedComplete, PTL

\* an exit code 0 without a warning means that the schema is there,
THEOREM DeploymentSucceeds == Spec => []SuccessMeansSchema
BY DeploymentRunsSchema, SuccessIsSchema, PTL

\* no object drifts from the recorded file while all is calm,
THEOREM DeploymentNoDrift == Spec => []NoSilentDrift
BY DeploymentRunsSchema, NoDrift, PTL

\* and the versions have the history of SchemaHistory.
THEOREM DeploymentHistory == Spec => KeepsHistory
BY DeploymentRunsSchema, SchemaHistoryKept, PTL
=============================================================================
