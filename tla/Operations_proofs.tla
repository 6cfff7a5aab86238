---------------------------- MODULE Operations_proofs ----------------------------
(***************************************************************************)
(* Proofs about HealthServer and Operations for any requests, partitions,  *)
(* attempts and numbers of outages and faults.                             *)
(***************************************************************************)
EXTENDS Operations, ConsumerProcess_proofs

USE DEF Services, Statuses, serviceVars, requestVars, connectionVars, historyVars

Places == {"idle", "create", "use", "ping", "pinging", "kafka", "answered"}

\* An attempt that fails is counted, up to the last one.
LEMMA RetryPingType ==
  ASSUME HealthTypeOK, NEW q \in Requests, RetryPing(q)
  PROVE  /\ tries' \in [Requests -> 1 .. MaxPings] /\ at' \in [Requests -> Places]
         /\ clickhouse' \in [Requests -> Statuses]
<1>1. CASE tries[q] < MaxPings /\ tries' = [tries EXCEPT ![q] = @ + 1]
           /\ at' = [at EXCEPT ![q] = "ping"] /\ UNCHANGED clickhouse
  BY <1>1, HealthAssumption DEF HealthTypeOK, Places
<1>2. CASE at' = [at EXCEPT ![q] = "kafka"] /\ UNCHANGED tries
           /\ clickhouse' = [clickhouse EXCEPT ![q] = "down"]
  BY <1>2 DEF HealthTypeOK, Places
<1> QED
  BY <1>1, <1>2 DEF RetryPing

-----------------------------------------------------------------------------
(* The actions. *)

\* A service goes down: it was down since every request arrived.
LEMMA ServiceFailsIInv ==
  ASSUME HealthIInv, NEW s \in Services, ServiceFails(s)
  PROVE  HealthIInv'
<1>1. HealthTypeOK'
  BY HealthAssumption DEF HealthIInv, HealthTypeOK, ServiceFails
<1>2. ComponentsTrue'
  BY HealthAssumption DEF HealthIInv, HealthTypeOK, ComponentsTrue, ServiceFails
<1>3. CheckerMade' /\ HasClient'
  BY HealthAssumption DEF HealthIInv, HealthTypeOK, CheckerMade, HasClient, ServiceFails
<1>4. QueriesKnown'
  BY HealthAssumption DEF HealthIInv, HealthTypeOK, HasClient, QueriesKnown, ServiceFails
<1>5. CutsCollided'
  BY HealthAssumption DEF HealthIInv, HealthTypeOK, HasClient, QueriesKnown, CutsCollided, ServiceFails
<1>6. \A p \in Requests : FoundTrue(p)'
  BY HealthAssumption DEF HealthIInv, HealthTypeOK, FoundTrue, HasClient, QueriesKnown, CutsCollided, ServiceFails
<1> QED
  BY <1>1, <1>2, <1>3, <1>4, <1>5, <1>6 DEF HealthIInv

\* A service comes back.
LEMMA ServiceReturnsIInv ==
  ASSUME HealthIInv, NEW s \in Services, ServiceReturns(s)
  PROVE  HealthIInv'
<1>1. HealthTypeOK'
  BY HealthAssumption DEF HealthIInv, HealthTypeOK, ServiceReturns
<1>2. ComponentsTrue'
  BY HealthAssumption DEF HealthIInv, HealthTypeOK, ComponentsTrue, ServiceReturns
<1>3. CheckerMade' /\ HasClient'
  BY HealthAssumption DEF HealthIInv, HealthTypeOK, CheckerMade, HasClient, ServiceReturns
<1>4. QueriesKnown'
  BY HealthAssumption DEF HealthIInv, HealthTypeOK, HasClient, QueriesKnown, ServiceReturns
<1>5. CutsCollided'
  BY HealthAssumption DEF HealthIInv, HealthTypeOK, HasClient, QueriesKnown, CutsCollided, ServiceReturns
<1>6. \A p \in Requests : FoundTrue(p)'
  BY HealthAssumption DEF HealthIInv, HealthTypeOK, FoundTrue, HasClient, QueriesKnown, CutsCollided, ServiceReturns
<1> QED
  BY <1>1, <1>2, <1>3, <1>4, <1>5, <1>6 DEF HealthIInv

\* A request starts with no attempt made and no collision.
LEMMA ArriveIInv ==
  ASSUME HealthIInv, NEW q \in Requests, Arrive(q)
  PROVE  HealthIInv'
<1>1. HealthTypeOK'
  BY HealthAssumption DEF HealthIInv, HealthTypeOK, Arrive
<1>2. ComponentsTrue'
  BY HealthAssumption DEF HealthIInv, HealthTypeOK, ComponentsTrue, Arrive
<1>3. CheckerMade' /\ HasClient'
  BY HealthAssumption DEF HealthIInv, HealthTypeOK, CheckerMade, HasClient, Arrive
<1>4. QueriesKnown'
  BY HealthAssumption DEF HealthIInv, HealthTypeOK, HasClient, QueriesKnown, Arrive
<1>5. CutsCollided'
  BY HealthAssumption DEF HealthIInv, HealthTypeOK, HasClient, QueriesKnown, CutsCollided, Arrive
<1>6. \A p \in Requests : FoundTrue(p)'
  BY HealthAssumption DEF HealthIInv, HealthTypeOK, FoundTrue, HasClient, QueriesKnown, CutsCollided, Arrive
<1> QED
  BY <1>1, <1>2, <1>3, <1>4, <1>5, <1>6 DEF HealthIInv

\* From here on there is a checker.
LEMMA CreateCheckerIInv ==
  ASSUME HealthIInv, NEW q \in Requests, CreateChecker(q)
  PROVE  HealthIInv'
<1>1. HealthTypeOK'
  BY HealthAssumption DEF HealthIInv, HealthTypeOK, CreateChecker
<1>2. ComponentsTrue'
  BY HealthAssumption DEF HealthIInv, HealthTypeOK, ComponentsTrue, CreateChecker
<1>3. CheckerMade' /\ HasClient'
  BY HealthAssumption DEF HealthIInv, HealthTypeOK, CheckerMade, HasClient, CreateChecker
<1>4. QueriesKnown'
  BY HealthAssumption DEF HealthIInv, HealthTypeOK, HasClient, QueriesKnown, CreateChecker
<1>5. CutsCollided'
  BY HealthAssumption DEF HealthIInv, HealthTypeOK, HasClient, QueriesKnown, CutsCollided, CreateChecker
<1>6. \A p \in Requests : FoundTrue(p)'
  BY HealthAssumption DEF HealthIInv, HealthTypeOK, FoundTrue, HasClient, QueriesKnown, CutsCollided, CreateChecker
<1> QED
  BY <1>1, <1>2, <1>3, <1>4, <1>5, <1>6 DEF HealthIInv

\* The checker a request uses has a client, or is known to have none.
LEMMA GetCheckerIInv ==
  ASSUME HealthIInv, NEW q \in Requests, GetChecker(q)
  PROVE  HealthIInv'
<1>1. HealthTypeOK'
  BY HealthAssumption DEF HealthIInv, HealthTypeOK, GetChecker
<1>2. ComponentsTrue'
  BY HealthAssumption DEF HealthIInv, HealthTypeOK, ComponentsTrue, GetChecker
<1>3. CheckerMade' /\ HasClient'
  BY HealthAssumption DEF HealthIInv, HealthTypeOK, CheckerMade, HasClient, GetChecker
<1>4. QueriesKnown'
  BY HealthAssumption DEF HealthIInv, HealthTypeOK, HasClient, QueriesKnown, GetChecker
<1>5. CutsCollided'
  BY HealthAssumption DEF HealthIInv, HealthTypeOK, HasClient, QueriesKnown, CutsCollided, GetChecker
<1>6. \A p \in Requests : FoundTrue(p)'
  BY HealthAssumption DEF HealthIInv, HealthTypeOK, FoundTrue, HasClient, QueriesKnown, CutsCollided, GetChecker
<1> QED
  BY <1>1, <1>2, <1>3, <1>4, <1>5, <1>6 DEF HealthIInv

\* The connection is free: nothing can have cut it.
LEMMA StartPingIInv ==
  ASSUME HealthIInv, NEW q \in Requests, StartPing(q)
  PROVE  HealthIInv'
<1>1. HealthTypeOK'
  BY HealthAssumption DEF HealthIInv, HealthTypeOK, StartPing
<1>2. ComponentsTrue'
  BY HealthAssumption DEF HealthIInv, HealthTypeOK, ComponentsTrue, StartPing
<1>3. CheckerMade' /\ HasClient'
  BY HealthAssumption DEF HealthIInv, HealthTypeOK, CheckerMade, HasClient, StartPing
<1>4. QueriesKnown'
  BY HealthAssumption DEF HealthIInv, HealthTypeOK, HasClient, QueriesKnown, StartPing
<1>5. CutsCollided'
  BY HealthAssumption DEF HealthIInv, HealthTypeOK, HasClient, QueriesKnown, CutsCollided, StartPing
<1>6. \A p \in Requests : FoundTrue(p)'
  BY HealthAssumption DEF HealthIInv, HealthTypeOK, FoundTrue, HasClient, QueriesKnown, CutsCollided, StartPing
<1> QED
  BY <1>1, <1>2, <1>3, <1>4, <1>5, <1>6 DEF HealthIInv

\* The service is up now.
LEMMA PingOkIInv ==
  ASSUME HealthIInv, NEW q \in Requests, PingOk(q)
  PROVE  HealthIInv'
<1>1. HealthTypeOK'
  BY HealthAssumption DEF HealthIInv, HealthTypeOK, PingOk
<1>2. ComponentsTrue'
  BY HealthAssumption DEF HealthIInv, HealthTypeOK, ComponentsTrue, PingOk
<1>3. CheckerMade' /\ HasClient'
  BY HealthAssumption DEF HealthIInv, HealthTypeOK, CheckerMade, HasClient, PingOk
<1>4. QueriesKnown'
  BY HealthAssumption DEF HealthIInv, HealthTypeOK, HasClient, QueriesKnown, PingOk
<1>5. CutsCollided'
  BY HealthAssumption DEF HealthIInv, HealthTypeOK, HasClient, QueriesKnown, CutsCollided, PingOk
<1>6. \A p \in Requests : FoundTrue(p)'
  BY HealthAssumption DEF HealthIInv, HealthTypeOK, FoundTrue, HasClient, QueriesKnown, CutsCollided, PingOk
<1> QED
  BY <1>1, <1>2, <1>3, <1>4, <1>5, <1>6 DEF HealthIInv

\* The service is down now, or the query was cut by a collision.
LEMMA PingErrorIInv ==
  ASSUME HealthIInv, NEW q \in Requests, PingError(q)
  PROVE  HealthIInv'
<1>1. HealthTypeOK'
  <2>1. tries' \in [Requests -> 1 .. MaxPings] /\ at' \in [Requests -> Places]
        /\ clickhouse' \in [Requests -> Statuses]
    BY RetryPingType DEF HealthIInv, PingError
  <2>2. cut' \subseteq Requests /\ collided' \subseteq Requests
        /\ querying' \in [Requests -> Requests \cup {Nobody}]
    BY DEF HealthIInv, HealthTypeOK, HasClient, PingError
  <2> QED
    BY <2>1, <2>2 DEF HealthIInv, HealthTypeOK, PingError, Places
<1>2. ComponentsTrue'
  BY HealthAssumption DEF HealthIInv, HealthTypeOK, ComponentsTrue, PingError, RetryPing
<1>3. CheckerMade' /\ HasClient'
  BY HealthAssumption DEF HealthIInv, HealthTypeOK, CheckerMade, HasClient, PingError, RetryPing
<1>4. QueriesKnown'
  BY HealthAssumption DEF HealthIInv, HealthTypeOK, HasClient, QueriesKnown, PingError, RetryPing
<1>5. CutsCollided'
  BY HealthAssumption DEF HealthIInv, HealthTypeOK, HasClient, QueriesKnown, CutsCollided, PingError, RetryPing
<1>6. \A p \in Requests : FoundTrue(p)'
  BY HealthAssumption DEF HealthIInv, HealthTypeOK, FoundTrue, HasClient, QueriesKnown, CutsCollided, PingError, RetryPing
<1> QED
  BY <1>1, <1>2, <1>3, <1>4, <1>5, <1>6 DEF HealthIInv

\* The query was cut by a collision.
LEMMA PingCutIInv ==
  ASSUME HealthIInv, NEW q \in Requests, PingCut(q)
  PROVE  HealthIInv'
<1>1. HealthTypeOK'
  BY HealthAssumption DEF HealthIInv, HealthTypeOK, PingCut
<1>2. ComponentsTrue'
  BY HealthAssumption DEF HealthIInv, HealthTypeOK, ComponentsTrue, PingCut
<1>3. CheckerMade' /\ HasClient'
  BY HealthAssumption DEF HealthIInv, HealthTypeOK, CheckerMade, HasClient, PingCut
<1>4. QueriesKnown'
  BY HealthAssumption DEF HealthIInv, HealthTypeOK, HasClient, QueriesKnown, PingCut
<1>5. CutsCollided'
  BY HealthAssumption DEF HealthIInv, HealthTypeOK, HasClient, QueriesKnown, CutsCollided, PingCut
<1>6. \A p \in Requests : FoundTrue(p)'
  BY HealthAssumption DEF HealthIInv, HealthTypeOK, FoundTrue, HasClient, QueriesKnown, CutsCollided, PingCut
<1> QED
  BY <1>1, <1>2, <1>3, <1>4, <1>5, <1>6 DEF HealthIInv

\* The two requests have collided.
LEMMA CollideIInv ==
  ASSUME HealthIInv, NEW q \in Requests, Collide(q)
  PROVE  HealthIInv'
<1>1. HealthTypeOK'
  <2>1. tries' \in [Requests -> 1 .. MaxPings] /\ at' \in [Requests -> Places]
        /\ clickhouse' \in [Requests -> Statuses]
    BY RetryPingType DEF HealthIInv, Collide
  <2>2. cut' \subseteq Requests /\ collided' \subseteq Requests
        /\ querying' \in [Requests -> Requests \cup {Nobody}]
    BY DEF HealthIInv, HealthTypeOK, HasClient, Collide
  <2> QED
    BY <2>1, <2>2 DEF HealthIInv, HealthTypeOK, Collide, Places
<1>2. ComponentsTrue'
  BY HealthAssumption DEF HealthIInv, HealthTypeOK, ComponentsTrue, Collide, RetryPing
<1>3. CheckerMade' /\ HasClient'
  BY HealthAssumption DEF HealthIInv, HealthTypeOK, CheckerMade, HasClient, Collide, RetryPing
<1>4. QueriesKnown'
  BY HealthAssumption DEF HealthIInv, HealthTypeOK, HasClient, QueriesKnown, Collide, RetryPing
<1>5. CutsCollided'
  BY HealthAssumption DEF HealthIInv, HealthTypeOK, HasClient, QueriesKnown, CutsCollided, Collide, RetryPing
<1>6. \A p \in Requests : FoundTrue(p)'
  BY HealthAssumption DEF HealthIInv, HealthTypeOK, FoundTrue, HasClient, QueriesKnown, CutsCollided, Collide, RetryPing
<1> QED
  BY <1>1, <1>2, <1>3, <1>4, <1>5, <1>6 DEF HealthIInv

\* The broker is asked now.
LEMMA ListTopicsIInv ==
  ASSUME HealthIInv, NEW q \in Requests, ListTopics(q)
  PROVE  HealthIInv'
<1>1. HealthTypeOK'
  BY HealthAssumption DEF HealthIInv, HealthTypeOK, ListTopics
<1>2. ComponentsTrue'
  BY HealthAssumption DEF HealthIInv, HealthTypeOK, ComponentsTrue, ListTopics, FoundTrue
<1>3. CheckerMade' /\ HasClient'
  BY HealthAssumption DEF HealthIInv, HealthTypeOK, CheckerMade, HasClient, ListTopics
<1>4. QueriesKnown'
  BY HealthAssumption DEF HealthIInv, HealthTypeOK, HasClient, QueriesKnown, ListTopics
<1>5. CutsCollided'
  BY HealthAssumption DEF HealthIInv, HealthTypeOK, HasClient, QueriesKnown, CutsCollided, ListTopics
<1>6. \A p \in Requests : FoundTrue(p)'
  BY HealthAssumption DEF HealthIInv, HealthTypeOK, FoundTrue, HasClient, QueriesKnown, CutsCollided, ListTopics
<1> QED
  BY <1>1, <1>2, <1>3, <1>4, <1>5, <1>6 DEF HealthIInv

\* The answer is over.
LEMMA RespondIInv ==
  ASSUME HealthIInv, NEW q \in Requests, Respond(q)
  PROVE  HealthIInv'
<1>1. HealthTypeOK'
  BY HealthAssumption DEF HealthIInv, HealthTypeOK, Respond
<1>2. ComponentsTrue'
  BY HealthAssumption DEF HealthIInv, HealthTypeOK, ComponentsTrue, Respond
<1>3. CheckerMade' /\ HasClient'
  BY HealthAssumption DEF HealthIInv, HealthTypeOK, CheckerMade, HasClient, Respond
<1>4. QueriesKnown'
  BY HealthAssumption DEF HealthIInv, HealthTypeOK, HasClient, QueriesKnown, Respond
<1>5. CutsCollided'
  BY HealthAssumption DEF HealthIInv, HealthTypeOK, HasClient, QueriesKnown, CutsCollided, Respond
<1>6. \A p \in Requests : FoundTrue(p)'
  BY HealthAssumption DEF HealthIInv, HealthTypeOK, FoundTrue, HasClient, QueriesKnown, CutsCollided, Respond
<1> QED
  BY <1>1, <1>2, <1>3, <1>4, <1>5, <1>6 DEF HealthIInv

-----------------------------------------------------------------------------
(* The specification. *)

LEMMA InitHealthIInv == HealthInit => HealthIInv
BY HealthAssumption DEF HealthInit, HealthIInv, HealthTypeOK, ComponentsTrue,
   CheckerMade, HasClient, QueriesKnown, CutsCollided, FoundTrue

LEMMA NextHealthIInv == HealthIInv /\ [HealthNext]_healthVars => HealthIInv'
<1> SUFFICES ASSUME HealthIInv, [HealthNext]_healthVars PROVE HealthIInv'
  OBVIOUS
<1>1. CASE UNCHANGED healthVars
  BY <1>1 DEF healthVars, HealthIInv, HealthTypeOK, ComponentsTrue,
     CheckerMade, HasClient, QueriesKnown, CutsCollided, FoundTrue
<1>2. CASE ServiceStep
  BY <1>2, ServiceFailsIInv, ServiceReturnsIInv DEF ServiceStep
<1>3. ASSUME NEW q \in Requests, Arrive(q) PROVE HealthIInv'
  BY <1>3, ArriveIInv
<1>4. ASSUME NEW q \in Requests, RequestStep(q) PROVE HealthIInv'
  BY <1>4, CreateCheckerIInv, GetCheckerIInv, StartPingIInv, PingOkIInv, PingErrorIInv,
     PingCutIInv, CollideIInv, ListTopicsIInv, RespondIInv DEF RequestStep
<1> QED
  BY <1>1, <1>2, <1>3, <1>4 DEF HealthNext

\* The inductive invariant of the health server, for any number of requests.
THEOREM HealthInvariant == HealthSpec => []HealthIInv
<1>1. HealthInit => HealthIInv
  BY InitHealthIInv
<1>2. HealthIInv /\ [HealthNext]_healthVars => HealthIInv'
  BY NextHealthIInv
<1> QED
  BY <1>1, <1>2, PTL DEF HealthSpec

\* A component is reported up or down only if it was so since the request
\* arrived, or two requests met on the shared connection.
THEOREM AnswersTrue == HealthSpec => []AnswerTruthful
<1>1. HealthIInv => AnswerTruthful
  <2> SUFFICES ASSUME HealthIInv, NEW q \in Requests, at[q] = "answered"
               PROVE  /\ HttpStatus(q) = 200 => Services \subseteq wasUp[q]
                      /\ HttpStatus(q) = 503 => wasDown[q] # {} \/ q \in collided
    BY DEF HealthIInv, AnswerTruthful
  <2>1. clickhouse[q] \in Statuses /\ kafka[q] \in Statuses
    BY DEF HealthIInv, HealthTypeOK
  <2>2. /\ clickhouse[q] = "ok" => "clickhouse" \in wasUp[q]
        /\ clickhouse[q] = "down" => "clickhouse" \in wasDown[q] \/ q \in collided
        /\ kafka[q] = "ok" => "kafka" \in wasUp[q]
        /\ kafka[q] = "down" => "kafka" \in wasDown[q]
    BY DEF HealthIInv, ComponentsTrue
  <2>3. CASE clickhouse[q] = "down" \/ kafka[q] = "down"
    <3>1. Overall(q) = "down"
      BY <2>3 DEF Overall
    <3>2. HttpStatus(q) = 503
      BY <3>1 DEF HttpStatus
    <3> QED
      BY <2>2, <2>3, <3>2
  <2>4. CASE clickhouse[q] = "ok" /\ kafka[q] = "ok"
    <3>1. Overall(q) = "ok"
      BY <2>4 DEF Overall
    <3>2. HttpStatus(q) = 200
      BY <3>1 DEF HttpStatus
    <3> QED
      BY <2>2, <2>4, <3>2
  <2>5. CASE clickhouse[q] # "down" /\ kafka[q] # "down" /\ ~(clickhouse[q] = "ok" /\ kafka[q] = "ok")
    <3>1. Overall(q) = "degraded"
      BY <2>1, <2>5 DEF Overall
    <3>2. HttpStatus(q) = 207
      BY <3>1 DEF HttpStatus
    <3> QED
      BY <3>2
  <2> QED
    BY <2>3, <2>4, <2>5
<1> QED
  BY <1>1, HealthInvariant, PTL

\* A request has at most 2 * MaxPings + 4 steps to its answer, and each of its own
\* steps brings it nearer, whatever the services and the other requests do.
LEMMA OwnStepDescends ==
  ASSUME HealthTypeOK, NEW q \in Requests, RequestStep(q)
  PROVE  /\ StepsToAnswer(q)' < StepsToAnswer(q)
         /\ \A p \in Requests : p # q => at'[p] = at[p] /\ tries'[p] = tries[p]
<1>1. /\ at \in [Requests -> Places] /\ tries \in [Requests -> 1 .. MaxPings]
      /\ MaxPings \in Nat
  BY HealthAssumption DEF HealthTypeOK, Places
<1>2. tries[q] \in Nat /\ 1 <= tries[q] /\ tries[q] <= MaxPings
  BY <1>1
<1>3. \A p \in Requests : p # q => at'[p] = at[p] /\ tries'[p] = tries[p]
  BY <1>1 DEF RequestStep, CreateChecker, GetChecker, StartPing, PingOk, PingError, PingCut,
              Collide, RetryPing, ListTopics, Respond
<1>4. CASE CreateChecker(q)
  BY <1>1, <1>2, <1>3, <1>4 DEF CreateChecker, StepsToAnswer
<1>5. CASE GetChecker(q)
  BY <1>1, <1>2, <1>3, <1>5 DEF GetChecker, StepsToAnswer
<1>6. CASE StartPing(q)
  BY <1>1, <1>2, <1>3, <1>6 DEF StartPing, StepsToAnswer
<1>7. CASE PingOk(q) \/ PingCut(q)
  BY <1>1, <1>2, <1>3, <1>7 DEF PingOk, PingCut, StepsToAnswer
<1>8. ASSUME RetryPing(q), at[q] = "ping" \/ at[q] = "pinging"
      PROVE  StepsToAnswer(q)' < StepsToAnswer(q)
  <2>1. StepsToAnswer(q) >= 2 * (MaxPings - tries[q]) + 3
    <3>1. CASE at[q] = "ping"
      BY <1>2, <1>1, <3>1 DEF StepsToAnswer
    <3>2. CASE at[q] = "pinging"
      BY <1>2, <1>1, <3>2 DEF StepsToAnswer
    <3> QED
      BY <1>8, <3>1, <3>2
  <2>2. StepsToAnswer(q) \in Int
    BY <1>1, <1>2, <1>8 DEF StepsToAnswer
  <2>3. CASE tries'[q] = tries[q] + 1 /\ at'[q] = "ping"
    <3>1. StepsToAnswer(q)' = 2 * (MaxPings - (tries[q] + 1)) + 4
      BY <2>3 DEF StepsToAnswer
    <3> QED
      BY <1>1, <1>2, <2>1, <2>2, <3>1
  <2>4. CASE at'[q] = "kafka"
    <3>1. StepsToAnswer(q)' = 2
      BY <2>4 DEF StepsToAnswer
    <3> QED
      BY <1>1, <1>2, <2>1, <2>2, <3>1
  <2> QED
    BY <1>1, <1>8, <2>3, <2>4 DEF RetryPing
<1>9. CASE PingError(q) \/ Collide(q)
  <2>1. RetryPing(q) /\ (at[q] = "ping" \/ at[q] = "pinging")
    BY <1>9 DEF PingError, Collide
  <2> QED
    BY <1>3, <1>8, <2>1
<1>10. CASE ListTopics(q) \/ Respond(q)
  BY <1>1, <1>3, <1>10 DEF ListTopics, Respond, StepsToAnswer
<1> QED
  BY <1>3, <1>4, <1>5, <1>6, <1>7, <1>9, <1>10 DEF RequestStep

THEOREM RequestsAreBounded == HealthSpec => RequestDescends
<1> DEFINE Descends == \A q \in Requests : at[q] # "idle" =>
                         /\ StepsToAnswer(q)' <= StepsToAnswer(q)
                         /\ at'[q] # at[q] \/ tries'[q] # tries[q]
                              => StepsToAnswer(q)' < StepsToAnswer(q)
<1>1. HealthIInv /\ [HealthNext]_healthVars => [Descends]_healthVars
  <2> SUFFICES ASSUME HealthIInv, [HealthNext]_healthVars, NEW q \in Requests, at[q] # "idle"
               PROVE  /\ StepsToAnswer(q)' <= StepsToAnswer(q)
                      /\ at'[q] # at[q] \/ tries'[q] # tries[q]
                           => StepsToAnswer(q)' < StepsToAnswer(q)
    OBVIOUS
  <2>1. StepsToAnswer(q) \in Int
    <3>1. at[q] \in Places /\ tries[q] \in Int /\ MaxPings \in Int
      BY HealthAssumption DEF HealthIInv, HealthTypeOK, Places
    <3> QED
      BY <3>1 DEF Places, StepsToAnswer
  <2>2. CASE at'[q] = at[q] /\ tries'[q] = tries[q]
    <3>1. StepsToAnswer(q)' = StepsToAnswer(q)
      BY <2>2 DEF StepsToAnswer
    <3> QED
      BY <2>1, <2>2, <3>1
  <2>3. CASE UNCHANGED healthVars
    BY <2>2, <2>3 DEF healthVars
  <2>4. CASE ServiceStep
    BY <2>2, <2>4 DEF ServiceStep, ServiceFails, ServiceReturns
  <2>5. ASSUME NEW p \in Requests, Arrive(p) PROVE at'[q] = at[q] /\ tries'[q] = tries[q]
    BY <2>5 DEF Arrive, HealthIInv, HealthTypeOK
  <2>6. ASSUME NEW p \in Requests, RequestStep(p)
        PROVE  \/ at'[q] = at[q] /\ tries'[q] = tries[q]
               \/ StepsToAnswer(q)' < StepsToAnswer(q) /\ StepsToAnswer(q)' \in Int
    <3>1. HealthTypeOK /\ HealthTypeOK'
      BY NextHealthIInv DEF HealthIInv
    <3>2. StepsToAnswer(q)' \in Int
      <4>1. at'[q] \in Places /\ tries'[q] \in Int /\ MaxPings \in Int
        BY <3>1, HealthAssumption DEF HealthTypeOK, Places
      <4> QED
        BY <4>1 DEF Places, StepsToAnswer
    <3> QED
      BY <2>6, <3>1, <3>2, OwnStepDescends
  <2>7. CASE StepsToAnswer(q)' < StepsToAnswer(q) /\ StepsToAnswer(q)' \in Int
    BY <2>1, <2>7
  <2> QED
    BY <2>2, <2>3, <2>4, <2>5, <2>6, <2>7 DEF HealthNext
<1> QED
  BY <1>1, HealthInvariant, PTL DEF HealthSpec, RequestDescends

-----------------------------------------------------------------------------
(* The consumer process and the health server beside each other. *)

\* Whatever the health server and the rest of the group do, the consumer process
\* and its monitor behave as ConsumerProcess says.
THEOREM OperationsRunProcess == Spec => ProcessSpec
<1>1. Init => ProcessInit
  BY DEF Init
<1>2. [Next]_vars => [ProcessNext]_processVars
  <2> SUFFICES ASSUME [Next]_vars PROVE [ProcessNext]_processVars
    OBVIOUS
  <2>1. CASE Process(StartProcess \/ Signal \/ ProcessFault) \/ Process(MainStep) \/ Process(LagThread)
    BY <2>1 DEF Process, ProcessNext
  <2>2. CASE Topic
    BY <2>2 DEF Topic, ProcessNext
  <2>3. CASE Health(ServiceStep) \/ \E q \in Requests : Health(Arrive(q)) \/ Health(RequestStep(q))
    BY <2>3 DEF Health
  <2>4. CASE UNCHANGED vars
    BY <2>4 DEF vars
  <2> QED
    BY <2>1, <2>2, <2>3, <2>4 DEF Next
<1> QED
  BY <1>1, <1>2, PTL DEF Spec, ProcessSpec

\* And the health server as HealthServer says.
THEOREM OperationsRunHealth == Spec => HealthSpec
<1>1. Init => HealthInit
  BY DEF Init
<1>2. [Next]_vars => [HealthNext]_healthVars
  <2> SUFFICES ASSUME [Next]_vars PROVE [HealthNext]_healthVars
    OBVIOUS
  <2>1. CASE Process(StartProcess \/ Signal \/ ProcessFault) \/ Process(MainStep) \/ Process(LagThread)
    BY <2>1 DEF Process
  <2>2. CASE Topic
    BY <2>2 DEF Topic
  <2>3. CASE Health(ServiceStep) \/ \E q \in Requests : Health(Arrive(q)) \/ Health(RequestStep(q))
    BY <2>3 DEF Health, HealthNext
  <2>4. CASE UNCHANGED vars
    BY <2>4 DEF vars
  <2> QED
    BY <2>1, <2>2, <2>3, <2>4 DEF Next
<1> QED
  BY <1>1, <1>2, PTL DEF Spec, HealthSpec

\* Hence both invariants hold in the composition,
THEOREM OperationsInvariant == Spec => []OperationsIInv
<1>1. ProcessIInv /\ HealthIInv => OperationsIInv
  BY DEF OperationsIInv
<1> QED
  BY <1>1, OperationsRunProcess, OperationsRunHealth, ProcessInvariant, HealthInvariant, PTL

\* the gauge brackets the backlog of a topic that anybody moves,
THEOREM OperationsGauge == Spec => []GaugeBracketed
BY OperationsRunProcess, GaugeBrackets, PTL

\* what startup() has opened is closed,
THEOREM OperationsClosed == Spec => []ClosedWhenDone
BY OperationsRunProcess, ResourcesClosed, PTL

\* the monitor is not closed under a poll that the join has not outlasted,
THEOREM OperationsThread == Spec => []ThreadOutlives
BY OperationsRunProcess, ThreadIsJoined, PTL

\* the health server's answers are true,
THEOREM OperationsAnswers == Spec => []AnswerTruthful
BY OperationsRunHealth, AnswersTrue, PTL

\* and no step of the process, of the topic or of another request delays an answer.
THEOREM OperationsRequests == Spec => RequestDescends
BY OperationsRunHealth, RequestsAreBounded, PTL
================================================================================
