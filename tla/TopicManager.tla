------------------------------ MODULE TopicManager ------------------------------
(***************************************************************************)
(* TopicManager.ensure_topics_exist, which a producer process calls before *)
(* it publishes: list the topics, ask for those that are absent, wait for  *)
(* the answers one by one, in an order that makes no difference here.      *)
(* Several producers may do so at the same time.                           *)
(*                                                                         *)
(* The broker is external: it handles each topic of a request by itself,   *)
(* and an attempt that fails may have created the topic (a timeout).       *)
(***************************************************************************)
EXTENDS Naturals

CONSTANTS
  Producers,       \* the producer processes
  Topics,          \* names of topics
  DefaultTopics,   \* DEFAULT_TOPICS
  MaxTopicFaults   \* bound of the model: failed requests

ASSUME TopicAssumption ==
  /\ DefaultTopics \subseteq Topics
  /\ MaxTopicFaults \in Nat

VARIABLES
  topics,       \* the topics of the broker
  step,         \* where the producer process is
  pending,      \* to_create: the topics it still waits for
  answers,      \* what the broker has answered, per topic it was asked for
  topicFaults   \* failed requests so far

topicVars == <<topics, step, pending, answers, topicFaults>>

Answers == {"none", "created", "exists", "error"}

TopicFault ==
  /\ topicFaults < MaxTopicFaults
  /\ topicFaults' = topicFaults + 1

TopicInit ==
  /\ topics \in SUBSET DefaultTopics
  /\ step = [p \in Producers |-> "down"]
  /\ pending = [p \in Producers |-> {}]
  /\ answers = [p \in Producers |-> [t \in Topics |-> "none"]]
  /\ topicFaults = 0

\* main(): startup() is over; the manager is next. The process may run again.
StartProducer(p) ==
  /\ step[p] \in {"down", "failed"}
  /\ step' = [step EXCEPT ![p] = "list"]
  /\ pending' = [pending EXCEPT ![p] = {}]
  /\ answers' = [answers EXCEPT ![p] = [t \in Topics |-> "none"]]
  /\ UNCHANGED <<topics, topicFaults>>

\* Mutant: an existing DLQ topic is taken for both.
MutantListTopics(p) ==
  /\ step[p] = "list"
  /\ pending' = [pending EXCEPT ![p] = {t \in DefaultTopics : topics = {}}]
  /\ step' = [step EXCEPT ![p] = IF pending'[p] = {} THEN "ready" ELSE "await"]
  /\ UNCHANGED <<topics, answers, topicFaults>>

\* list_topics(), and create_topics() with those that are absent; no request
\* if none is.
ListTopics(p) ==
  /\ step[p] = "list"
  /\ pending' = [pending EXCEPT ![p] = DefaultTopics \ topics]
  /\ step' = [step EXCEPT ![p] = IF DefaultTopics \subseteq topics THEN "ready" ELSE "await"]
  /\ UNCHANGED <<topics, answers, topicFaults>>

\* list_topics(timeout=10) raises.
ListFails(p) ==
  /\ TopicFault
  /\ step[p] = "list"
  /\ step' = [step EXCEPT ![p] = "failed"]
  /\ UNCHANGED <<topics, pending, answers>>

Unanswered(p, t) ==
  /\ step[p] = "await" /\ t \in pending[p]
  /\ answers[p][t] = "none"

BrokerCreates(p, t) ==
  /\ Unanswered(p, t)
  /\ answers' = [answers EXCEPT ![p][t] = IF t \in topics THEN "exists" ELSE "created"]
  /\ topics' = topics \cup {t}
  /\ UNCHANGED <<step, pending, topicFaults>>

BrokerFails(p, t) ==
  /\ TopicFault
  /\ Unanswered(p, t)
  /\ answers' = [answers EXCEPT ![p][t] = "error"]
  /\ topics' \in {topics, topics \cup {t}}
  /\ UNCHANGED <<step, pending>>

\* Mutant: TOPIC_ALREADY_EXISTS raises like any other error.
MutantTolerated == {"created"}
\* Mutant: an error is logged, and the producer goes on.
MutantToleratedAll == {"created", "exists", "error"}

\* future.result() returns, or raises TOPIC_ALREADY_EXISTS: another instance
\* may have created the topic between list and create.
Tolerated == {"created", "exists"}

AwaitTopic(p, t) ==
  /\ step[p] = "await" /\ t \in pending[p]
  /\ answers[p][t] \in Tolerated
  /\ pending' = [pending EXCEPT ![p] = @ \ {t}]
  /\ UNCHANGED <<topics, step, answers, topicFaults>>

\* Any other error leaves ensure_topics_exist and main() with exit code 1;
\* the answers that come later are not looked at.
AwaitRaises(p, t) ==
  /\ step[p] = "await" /\ t \in pending[p]
  /\ answers[p][t] \notin Tolerated \cup {"none"}
  /\ step' = [step EXCEPT ![p] = "failed"]
  /\ UNCHANGED <<topics, pending, answers, topicFaults>>

TopicsEnsured(p) ==
  /\ step[p] = "await" /\ pending[p] = {}
  /\ step' = [step EXCEPT ![p] = "ready"]
  /\ UNCHANGED <<topics, pending, answers, topicFaults>>

ProducerStep(p) ==
  \/ ListTopics(p) \/ ListFails(p)
  \/ \E t \in Topics : BrokerCreates(p, t) \/ BrokerFails(p, t)
  \/ \E t \in Topics : AwaitTopic(p, t) \/ AwaitRaises(p, t)
  \/ TopicsEnsured(p)

-----------------------------------------------------------------------------
(* Properties. *)

TopicTypeOK ==
  /\ topics \subseteq Topics
  /\ step \in [Producers -> {"down", "list", "await", "ready", "failed"}]
  /\ pending \in [Producers -> SUBSET Topics]
  /\ answers \in [Producers -> [Topics -> Answers]]
  /\ topicFaults \in 0 .. MaxTopicFaults

\* A producer that goes on to publish finds every default topic on a broker
\* that does not create topics by itself, although it never saw the answers
\* to another producer's request nor all the answers to a failed one.
TopicsReady == \A p \in Producers : step[p] = "ready" => DefaultTopics \subseteq topics

\* Losing the race to create a topic is no failure: a producer gives up in
\* ensure_topics_exist only if a request failed.
RaceHarmless == topicFaults = 0 => \A p \in Producers : step[p] # "failed"

\* The inductive invariant: a topic a producer no longer waits for exists, and
\* an answer other than created or exists is a fault.
AnswersTrue ==
  \A p \in Producers, t \in Topics :
    /\ answers[p][t] \in {"created", "exists"} => t \in topics
    /\ answers[p][t] = "error" => topicFaults > 0

Awaited == \A p \in Producers : step[p] = "await" => DefaultTopics \subseteq topics \cup pending[p]

TopicIInv ==
  /\ TopicTypeOK
  /\ TopicsReady
  /\ RaceHarmless
  /\ AnswersTrue
  /\ Awaited
=============================================================================
