------------------------------- MODULE Deployment -------------------------------
(***************************************************************************)
(* Bringing the pipeline up: runs of SchemaManager and producers that run  *)
(* TopicManager, in any order and at the same time, and the consumer that  *)
(* inserts what the topic holds while the schema is still being built.     *)
(*                                                                         *)
(* A materialized view counts the rows that are inserted after it has been *)
(* created and never looks back. scripts/bootstrap.sh therefore starts the *)
(* processes after the schema has been applied; nothing in the processes   *)
(* checks it.                                                              *)
(***************************************************************************)
EXTENDS SchemaManager, TopicManager, SequencesExt

CONSTANTS
  Roles,       \* bound of the model: who runs which program in a behaviour
  Trips,       \* trips that are published
  TripsTopic,  \* settings.kafka.topic
  TripsTable,  \* taxi.trips
  Views        \* the materialized views among the objects

ASSUME DeploymentAssumption ==
  /\ Runners = Producers
  /\ Roles \subseteq [Runners -> {"schema", "producer", "off"}]
  /\ TripsTable \in Objects /\ Views \subseteq Objects

VARIABLES
  role,      \* the program of each process
  inserted,  \* the trips of the table
  counted,   \* the trips each view has counted
  before,    \* history: the trips of the table when the consumer was last started
  due        \* history: the views that start was to wait for

flowVars == <<inserted, counted, before, due>>
vars == <<schemaVars, topicVars, role, flowVars>>

\* Without a producer among the processes, create_topics.sh has run.
Init ==
  /\ SchemaInit
  /\ TopicInit
  /\ role \in Roles
  /\ (\A p \in Producers : role[p] # "producer") => topics = DefaultTopics
  /\ inserted = {}
  /\ counted = [o \in Views |-> {}]
  /\ before = {}
  /\ due = {}

\* The views of the image's files, but of those that differ from what is
\* recorded when the run has warned: it has passed these over.
AppliedViews(r) ==
  {o \in Views : \E v \in DOMAIN FilesOf[r] :
     /\ o \in ToSet(Script[FilesOf[r][v]])
     /\ warned[r] => recorded[v] = FilesOf[r][v]}

\* bootstrap.sh: the processes are started, for the first time or again, after
\* a run that ended with exit code 0, warnings or not. Without this step
\* nothing orders the consumer after the schema.
BootstrapConsumer(r) ==
  /\ role[r] = "schema" /\ pc[r] = "done"
  /\ before' = inserted
  /\ due' = AppliedViews(r)
  /\ UNCHANGED <<schemaVars, topicVars, role, inserted, counted>>

\* The consumer inserts a batch. Without the table the insert raises and the
\* consumer ends and is run again (TripConsumer): nothing changes here.
Insert(t) ==
  /\ TripsTopic \in topics
  /\ Exists(TripsTable)
  /\ t \notin inserted
  /\ inserted' = inserted \cup {t}
  /\ counted' = [o \in Views |-> IF Exists(o) THEN counted[o] \cup {t} ELSE counted[o]]
  /\ UNCHANGED <<schemaVars, topicVars, role, before, due>>

SchemaProcess(r) ==
  /\ role[r] = "schema"
  /\ StartRun(r) \/ RunStep(r) \/ KillRun(r)
  /\ UNCHANGED <<topicVars, role, flowVars>>

ProducerProcess(p) ==
  /\ role[p] = "producer"
  /\ StartProducer(p) \/ ProducerStep(p)
  /\ UNCHANGED <<schemaVars, role, flowVars>>

Next ==
  \/ \E r \in Runners : SchemaProcess(r) \/ ProducerProcess(r) \/ BootstrapConsumer(r)
  \/ \E t \in Trips : Insert(t)

Spec == Init /\ [][Next]_vars

\* A run that is up takes its next step; one that has failed is run again (a
\* Job that retries, an operator).
RunAgain(r) ==
  /\ role[r] = "schema"
  /\ StartRun(r) \/ RunStep(r)
  /\ UNCHANGED <<topicVars, role, flowVars>>

Fairness == \A r \in Runners : WF_vars(RunAgain(r))

FairSpec == Spec /\ Fairness

-----------------------------------------------------------------------------
(* Properties. *)

\* A row is counted by every view of every version that is recorded when it
\* is inserted. (A row that is inserted between the table and the views is
\* not, and a later run does not count it either.)
RecordedViewsFed ==
  [][\A t \in inserted' \ inserted, v \in Versions :
       recorded[v] # None =>
         \A o \in Views \cap ToSet(Script[recorded[v]]) : t \in counted'[o]]_flowVars

\* Started in the order of bootstrap.sh, the dashboards miss nothing of what is
\* inserted from then on: it is counted by every view of the image's schema. A
\* run that warns of an edited file ends with exit code 0 as well, and the
\* script looks at nothing else: the views of that file are not promised, those
\* of the image's other files are.
BootstrapCountsAll == \A o \in due : inserted \ before \subseteq counted[o]

\* The inductive invariant of the composition: those of the schema runs, also
\* while all is calm, and of the producers; and that what is due exists and has
\* counted every trip since.
FlowOk ==
  /\ due \subseteq Views
  /\ counted \in [Views -> SUBSET Trips]
  /\ \A o \in due : Exists(o) /\ inserted \ before \subseteq counted[o]

DeploymentIInv ==
  /\ SchemaIInv
  /\ CalmIInv
  /\ NoSilentDrift
  /\ TopicIInv
  /\ FlowOk

\* Every version of an image that is run until it succeeds is recorded in the
\* end, whatever it raced with, unless the deployment has not created what the
\* migrations rest on (the database of docker-compose).
MigrationsComplete ==
  (\A o \in Objects : Needs[o] = {} => Exists(o))
    ~> \A r \in Runners : role[r] = "schema" => \A v \in DOMAIN FilesOf[r] : recorded[v] # None
=============================================================================
