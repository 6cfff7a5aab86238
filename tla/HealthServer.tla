------------------------------ MODULE HealthServer ------------------------------
(***************************************************************************)
(* The health server: GET /health runs in a thread pool. The first         *)
(* requests create the module's HealthChecker, without a lock; all of them *)
(* share its ClickHouse client, and each makes a Kafka client of its own.  *)
(*                                                                         *)
(* External: the services, and the ClickHouse driver, whose connection     *)
(* serves one query at a time. A second query on it raises, and whatever   *)
(* raises closes the connection under the query that is running.           *)
(***************************************************************************)
EXTENDS Naturals

CONSTANTS
  Requests,    \* requests that may be answered at the same time
  None,        \* no checker yet
  NoClient,    \* a checker whose ClickHouse client could not be created
  Nobody,      \* no query is running
  MaxPings,    \* RetryConfig.HEALTH_CHECK max_attempts
  MaxOutages   \* bound of the model

ASSUME HealthAssumption ==
  /\ None \notin Requests \cup {NoClient} /\ NoClient \notin Requests /\ Nobody \notin Requests
  /\ MaxPings \in Nat \ {0} /\ MaxOutages \in Nat

VARIABLES
  up,         \* the services that are reachable
  outages,    \* outages so far
  checker,    \* _checker: None, or its client, named after the request that made it
  at,         \* where the request is
  client,     \* the client of the checker it uses
  tries,      \* the attempt of its ping (retry decorator)
  clickhouse, \* the status it has found, per component
  kafka,
  querying,   \* per client, the request whose query runs on its connection
  cut,        \* the clients whose running query has lost its connection
  wasUp,      \* the services that were up at some time since it arrived (history)
  wasDown,    \* the same for down (history)
  collided    \* the requests that met another one on a connection (history)

serviceVars == <<up, outages>>
requestVars == <<at, client, tries, clickhouse, kafka>>
connectionVars == <<querying, cut>>
historyVars == <<wasUp, wasDown, collided>>
healthVars == <<serviceVars, checker, requestVars, connectionVars, historyVars>>

Services == {"clickhouse", "kafka"}
Statuses == {"ok", "degraded", "down"}

HealthInit ==
  /\ up \in SUBSET Services /\ outages = 0
  /\ checker = None
  /\ at = [q \in Requests |-> "idle"]
  /\ client = [q \in Requests |-> None]
  /\ tries = [q \in Requests |-> 1]
  /\ clickhouse = [q \in Requests |-> "down"] /\ kafka = [q \in Requests |-> "down"]
  /\ querying = [c \in Requests |-> Nobody] /\ cut = {}
  /\ wasUp = [q \in Requests |-> {}] /\ wasDown = [q \in Requests |-> {}]
  /\ collided = {}

ServiceFails(s) ==
  /\ s \in up /\ outages < MaxOutages
  /\ up' = up \ {s} /\ outages' = outages + 1
  /\ wasDown' = [q \in Requests |-> wasDown[q] \cup {s}]
  /\ UNCHANGED <<checker, requestVars, connectionVars, wasUp, collided>>

ServiceReturns(s) ==
  /\ s \in Services \ up
  /\ up' = up \cup {s}
  /\ wasUp' = [q \in Requests |-> wasUp[q] \cup {s}]
  /\ UNCHANGED <<outages, checker, requestVars, connectionVars, wasDown, collided>>

-----------------------------------------------------------------------------
(* health() and _get_checker(). *)

Arrive(q) ==
  /\ at[q] = "idle"
  /\ at' = [at EXCEPT ![q] = IF checker = None THEN "create" ELSE "use"]
  /\ client' = [client EXCEPT ![q] = None]
  /\ tries' = [tries EXCEPT ![q] = 1]
  /\ clickhouse' = [clickhouse EXCEPT ![q] = "down"] /\ kafka' = [kafka EXCEPT ![q] = "down"]
  /\ wasUp' = [wasUp EXCEPT ![q] = up]
  /\ wasDown' = [wasDown EXCEPT ![q] = Services \ up]
  /\ collided' = collided \ {q}
  /\ UNCHANGED <<serviceVars, checker, connectionVars>>

\* Mutant: a client that could not be created is tried again by the next request.
MutantCreateChecker(q) ==
  /\ at[q] = "create"
  /\ checker' \in {checker, q}
  /\ at' = [at EXCEPT ![q] = "use"]
  /\ UNCHANGED <<serviceVars, client, tries, clickhouse, kafka, connectionVars, historyVars>>

\* The request saw no checker. Another one may have set it in the meantime: it is
\* replaced.
CreateChecker(q) ==
  /\ at[q] = "create"
  /\ checker' \in {q, NoClient}
  /\ at' = [at EXCEPT ![q] = "use"]
  /\ UNCHANGED <<serviceVars, client, tries, clickhouse, kafka, connectionVars, historyVars>>

\* return _checker: the one that is set now.
GetChecker(q) ==
  /\ at[q] = "use"
  /\ client' = [client EXCEPT ![q] = checker]
  /\ at' = [at EXCEPT ![q] = IF checker = NoClient THEN "kafka" ELSE "ping"]
  /\ clickhouse' = [clickhouse EXCEPT ![q] = IF checker = NoClient THEN "degraded" ELSE @]
  /\ UNCHANGED <<serviceVars, checker, tries, kafka, connectionVars, historyVars>>

-----------------------------------------------------------------------------
(* _check_clickhouse(): client.ping() with its retry decorator. *)

StartPing(q) ==
  /\ at[q] = "ping" /\ querying[client[q]] = Nobody
  /\ querying' = [querying EXCEPT ![client[q]] = q]
  /\ at' = [at EXCEPT ![q] = "pinging"]
  /\ UNCHANGED <<serviceVars, checker, client, tries, clickhouse, kafka, cut, historyVars>>

PingOk(q) ==
  /\ at[q] = "pinging" /\ "clickhouse" \in up /\ client[q] \notin cut
  /\ clickhouse' = [clickhouse EXCEPT ![q] = "ok"]
  /\ at' = [at EXCEPT ![q] = "kafka"]
  /\ querying' = [querying EXCEPT ![client[q]] = Nobody]
  /\ UNCHANGED <<serviceVars, checker, client, tries, kafka, cut, historyVars>>

\* Mutant: attempts are not counted.
MutantRetryPing(q) ==
  /\ at' = [at EXCEPT ![q] = "ping"]
  /\ UNCHANGED <<tries, clickhouse>>

\* The last attempt is reported as DOWN.
RetryPing(q) ==
  \/ /\ tries[q] < MaxPings
     /\ tries' = [tries EXCEPT ![q] = @ + 1]
     /\ at' = [at EXCEPT ![q] = "ping"]
     /\ UNCHANGED clickhouse
  \/ /\ tries[q] = MaxPings
     /\ at' = [at EXCEPT ![q] = "kafka"]
     /\ clickhouse' = [clickhouse EXCEPT ![q] = "down"]
     /\ UNCHANGED tries

\* The service does not answer, or another request has closed the connection.
PingError(q) ==
  /\ at[q] = "pinging" /\ ("clickhouse" \notin up \/ client[q] \in cut)
  /\ RetryPing(q)
  /\ querying' = [querying EXCEPT ![client[q]] = Nobody]
  /\ cut' = cut \ {client[q]}
  /\ UNCHANGED <<serviceVars, checker, client, kafka, historyVars>>

\* What the driver raises in a read that was cut off is not always an error the
\* decorator retries (EOFError): check() reports it as DOWN.
PingCut(q) ==
  /\ at[q] = "pinging" /\ client[q] \in cut
  /\ at' = [at EXCEPT ![q] = "kafka"]
  /\ clickhouse' = [clickhouse EXCEPT ![q] = "down"]
  /\ querying' = [querying EXCEPT ![client[q]] = Nobody]
  /\ cut' = cut \ {client[q]}
  /\ UNCHANGED <<serviceVars, checker, client, tries, kafka, historyVars>>

\* The connection is busy with the query of another request: both suffer.
Collide(q) ==
  /\ at[q] = "ping" /\ querying[client[q]] # Nobody
  /\ cut' = cut \cup {client[q]}
  /\ collided' = collided \cup {q, querying[client[q]]}
  /\ RetryPing(q)
  /\ UNCHANGED <<serviceVars, checker, client, kafka, querying, wasUp, wasDown>>

-----------------------------------------------------------------------------
(* _check_kafka() and the response. *)

\* Mutant: a report that is down already is not completed.
MutantListTopics(q) ==
  /\ at[q] = "kafka"
  /\ kafka' = [kafka EXCEPT ![q] = IF "kafka" \in up /\ clickhouse[q] # "down" THEN "ok" ELSE "down"]
  /\ at' = [at EXCEPT ![q] = "answered"]
  /\ UNCHANGED <<serviceVars, checker, client, tries, clickhouse, connectionVars, historyVars>>

ListTopics(q) ==
  /\ at[q] = "kafka"
  /\ kafka' = [kafka EXCEPT ![q] = IF "kafka" \in up THEN "ok" ELSE "down"]
  /\ at' = [at EXCEPT ![q] = "answered"]
  /\ UNCHANGED <<serviceVars, checker, client, tries, clickhouse, connectionVars, historyVars>>

\* HealthReport.overall, and the HTTP status health() maps it to.
Overall(q) ==
  LET statuses == {clickhouse[q], kafka[q]}
  IN CASE "down" \in statuses -> "down"
       [] "down" \notin statuses /\ "degraded" \in statuses -> "degraded"
       [] OTHER -> "ok"

HttpStatus(q) == [ok |-> 200, degraded |-> 207, down |-> 503][Overall(q)]

Respond(q) ==
  /\ at[q] = "answered"
  /\ at' = [at EXCEPT ![q] = "idle"]
  /\ UNCHANGED <<serviceVars, checker, client, tries, clickhouse, kafka, connectionVars, historyVars>>

RequestStep(q) ==
  \/ CreateChecker(q) \/ GetChecker(q)
  \/ StartPing(q) \/ PingOk(q) \/ PingError(q) \/ PingCut(q) \/ Collide(q)
  \/ ListTopics(q) \/ Respond(q)

ServiceStep == \E s \in Services : ServiceFails(s) \/ ServiceReturns(s)

HealthNext == ServiceStep \/ \E q \in Requests : Arrive(q) \/ RequestStep(q)

HealthSpec == HealthInit /\ [][HealthNext]_healthVars

HealthFairness == \A q \in Requests : WF_healthVars(RequestStep(q))

-----------------------------------------------------------------------------
(* Properties. *)

HealthTypeOK ==
  /\ up \subseteq Services /\ outages \in 0 .. MaxOutages
  /\ checker \in Requests \cup {None, NoClient}
  /\ at \in [Requests -> {"idle", "create", "use", "ping", "pinging", "kafka", "answered"}]
  /\ client \in [Requests -> Requests \cup {None, NoClient}]
  /\ tries \in [Requests -> 1 .. MaxPings]
  /\ clickhouse \in [Requests -> Statuses] /\ kafka \in [Requests -> Statuses]
  /\ querying \in [Requests -> Requests \cup {Nobody}] /\ cut \subseteq Requests
  /\ wasUp \in [Requests -> SUBSET Services] /\ wasDown \in [Requests -> SUBSET Services]
  /\ collided \subseteq Requests

\* An answer is about the services at the time of the request: a component is
\* reported up, or down, only if it was at some time since the request arrived,
\* whatever the other component does and however old the client is. The one
\* false alarm is that of requests that met on the shared connection. So is the
\* HTTP status: 200 means that both were up, 503 that one was down.
ComponentsTrue ==
  \A q \in Requests : at[q] = "answered" =>
    /\ clickhouse[q] = "ok" => "clickhouse" \in wasUp[q]
    /\ clickhouse[q] = "down" => "clickhouse" \in wasDown[q] \/ q \in collided
    /\ kafka[q] = "ok" => "kafka" \in wasUp[q]
    /\ kafka[q] = "down" => "kafka" \in wasDown[q]

AnswerTruthful ==
  /\ ComponentsTrue
  /\ \A q \in Requests : at[q] = "answered" =>
       /\ HttpStatus(q) = 200 => Services \subseteq wasUp[q]
       /\ HttpStatus(q) = 503 => wasDown[q] # {} \/ q \in collided

\* The inductive invariant: a request that goes on to ping has a client, the
\* query on a connection is that of a request that waits for it, and what a
\* request has found so far is true.
CheckerMade == checker = None => \A q \in Requests : at[q] \in {"idle", "create"}
HasClient == \A q \in Requests : at[q] \in {"ping", "pinging"} => client[q] \in Requests
QueriesKnown == \A q, c \in Requests : querying[c] = q <=> at[q] = "pinging" /\ client[q] = c
CutsCollided == \A c \in cut : querying[c] \in collided

FoundTrue(q) ==
  at[q] # "idle" =>
    /\ up \subseteq wasUp[q] /\ Services \ up \subseteq wasDown[q]
    /\ at[q] \in {"kafka", "answered"} =>
         /\ clickhouse[q] = "ok" => "clickhouse" \in wasUp[q]
         /\ clickhouse[q] = "down" => "clickhouse" \in wasDown[q] \/ q \in collided
    /\ tries[q] > 1 => "clickhouse" \in wasDown[q] \/ q \in collided

HealthIInv ==
  /\ HealthTypeOK
  /\ ComponentsTrue
  /\ CheckerMade /\ HasClient
  /\ QueriesKnown /\ CutsCollided
  /\ \A q \in Requests : FoundTrue(q)

\* Every request is answered, services down and connections cut or not.
RequestsAnswered == \A q \in Requests : at[q] # "idle" ~> at[q] = "answered"

\* Why it is: a request has a bounded number of steps left, of which each of its
\* own leaves fewer; requests it meets on the connection cost it an attempt, not
\* a step more.
StepsToAnswer(q) ==
  CASE at[q] = "idle"     -> 0
    [] at[q] = "answered" -> 1
    [] at[q] = "kafka"    -> 2
    [] at[q] = "pinging"  -> 2 * (MaxPings - tries[q]) + 3
    [] at[q] = "ping"     -> 2 * (MaxPings - tries[q]) + 4
    [] at[q] = "use"      -> 2 * MaxPings + 3
    [] at[q] = "create"   -> 2 * MaxPings + 4

RequestDescends ==
  [][\A q \in Requests : at[q] # "idle" =>
       /\ StepsToAnswer(q)' <= StepsToAnswer(q)
       /\ at'[q] # at[q] \/ tries'[q] # tries[q]
            => StepsToAnswer(q)' < StepsToAnswer(q)]_healthVars
=============================================================================
