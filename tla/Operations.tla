------------------------------- MODULE Operations -------------------------------
(***************************************************************************)
(* What is there to watch the pipeline: a consumer process with its lag    *)
(* monitor (ConsumerProcess) and the health server (HealthServer), over    *)
(* the same topic and consumer group.                                      *)
(***************************************************************************)
EXTENDS ConsumerProcess, HealthServer

CONSTANT
  Scenes    \* bound of the model: who takes part in a behaviour

ASSUME OperationsAssumption == Scenes \subseteq SUBSET {"process", "topic", "health"}

VARIABLE scene

vars == <<processVars, healthVars, scene>>

\* Only the health server is asked about the services.
Init ==
  /\ ProcessInit /\ HealthInit
  /\ scene \in Scenes
  /\ "health" \in scene \/ up = Services

Process(step) ==
  /\ "process" \in scene
  /\ step
  /\ UNCHANGED <<healthVars, scene>>

Topic ==
  /\ "topic" \in scene
  /\ TopicStep
  /\ UNCHANGED <<mainVars, faults, healthVars, scene>>

Health(step) ==
  /\ "health" \in scene
  /\ step
  /\ UNCHANGED <<processVars, scene>>

Next ==
  \/ Process(StartProcess \/ Signal \/ ProcessFault)
  \/ Process(MainStep)
  \/ Process(LagThread)
  \/ Topic
  \/ Health(ServiceStep)
  \/ \E q \in Requests : Health(Arrive(q)) \/ Health(RequestStep(q))

Spec == Init /\ [][Next]_vars

\* Main and the thread take their next step, and so does a request: every call
\* they make has a timeout.
Fairness ==
  /\ WF_vars(Process(MainStep))
  /\ WF_vars(Process(LagThread))
  /\ \A q \in Requests : WF_vars(Health(RequestStep(q)))

FairSpec == Spec /\ Fairness

\* The inductive invariants of the two, of which neither disturbs the other's.
OperationsIInv == ProcessIInv /\ HealthIInv
=============================================================================
