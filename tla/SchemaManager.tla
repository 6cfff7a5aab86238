----------------------------- MODULE SchemaManager -----------------------------
(***************************************************************************)
(* The schema_apply process (etl/entrypoints/schema_apply.py) and its      *)
(* SchemaManager.apply_all: several runs, one after the other or at the    *)
(* same time, of images that carry their own migration files, against one  *)
(* ClickHouse server.                                                      *)
(*                                                                         *)
(* The server is external. It runs one statement at a time; every DDL      *)
(* statement of the migrations is IF NOT EXISTS, so it creates what is     *)
(* absent and leaves alone what is there, however it was defined; it fails *)
(* if what it refers to is absent. DDL is not transactional: what ran      *)
(* before a failure stays.                                                 *)
(***************************************************************************)
EXTENDS Naturals, Sequences

CONSTANTS
  Runners,      \* the schema_apply processes
  FilesOf,      \* the migration files of each runner's image, sorted by name
  Contents,     \* the contents of migration files: a checksum tells them apart
  Script,       \* per content, the objects its statements create, in order
  Objects,      \* databases, tables and materialized views
  Needs,        \* what the statement that creates an object refers to
  Tracking,     \* the table taxi.schema_migrations
  None,         \* absent, or not recorded
  Elsewhere,    \* created outside the migration files
  MaxAttempts,  \* RetryConfig.CLICKHOUSE_INSERT max_attempts
  MaxFaults     \* bound of the model: failed attempts and crashes

\* A version is the place of its file in the sorted directory. (The code's is
\* the file's stem. The two agree while images add files at the end only, as
\* the numbered names ask for; a file inserted between two others is outside
\* the model.)
Versions == UNION {DOMAIN FilesOf[r] : r \in Runners}

ASSUME SchemaAssumption ==
  /\ \A r \in Runners : FilesOf[r] \in Seq(Contents)
  /\ Script \in [Contents -> Seq(Objects)]
  /\ Needs \in [Objects -> SUBSET Objects]
  /\ Tracking \in Objects
  /\ None \notin Contents \cup {Elsewhere}
  /\ MaxAttempts \in Nat \ {0}
  /\ MaxFaults \in Nat

ObjectsOf(f) == {Script[f][i] : i \in DOMAIN Script[f]}

\* Files of different versions define different objects, as 001 and 002 do.
ASSUME VersionsApart ==
  \A r, q \in Runners : \A u \in DOMAIN FilesOf[r], v \in DOMAIN FilesOf[q] :
    u # v => ObjectsOf(FilesOf[r][u]) \cap ObjectsOf(FilesOf[q][v]) = {}

VARIABLES
  made,      \* per object, the content whose statement created it
  recorded,  \* SELECT version, checksum FROM taxi.schema_migrations FINAL
  pc,        \* the statement the runner executes next
  applied,   \* the versions the runner has read
  file,      \* the version it is at
  stmt,      \* the statement of that file it is at
  attempt,   \* the attempt number (retry decorator)
  warned,    \* it has logged a checksum mismatch
  calm,      \* no failure so far, and no two runs at the same time
  failures   \* failed attempts and crashes so far

serverVars == <<made, recorded>>
runnerVars == <<pc, applied, file, stmt, attempt, warned>>
schemaVars == <<serverVars, runnerVars, calm, failures>>

Exists(o) == made[o] # None

RunnerPoints == {"ping", "track", "read", "file", "statement", "record", "report", "done", "failed"}

Idle(r) == pc[r] \in {"done", "failed"}

NothingApplied == [v \in Versions |-> None]

\* docker-compose creates the database (CLICKHOUSE_DB); a server without it
\* has nothing.
SchemaInit ==
  /\ \E S \in SUBSET {o \in Objects : Needs[o] = {}} :
       made = [o \in Objects |-> IF o \in S THEN Elsewhere ELSE None]
  /\ recorded = NothingApplied
  /\ pc = [r \in Runners |-> "failed"]
  /\ applied = [r \in Runners |-> NothingApplied]
  /\ file = [r \in Runners |-> 1]
  /\ stmt = [r \in Runners |-> 1]
  /\ attempt = [r \in Runners |-> 1]
  /\ warned = [r \in Runners |-> FALSE]
  /\ calm = TRUE
  /\ failures = 0

\* What a process starts with, and what is left of one that has failed.
Fresh(r) ==
  /\ applied' = [applied EXCEPT ![r] = NothingApplied]
  /\ file' = [file EXCEPT ![r] = 1]
  /\ stmt' = [stmt EXCEPT ![r] = 1]
  /\ attempt' = [attempt EXCEPT ![r] = 1]
  /\ warned' = [warned EXCEPT ![r] = FALSE]

\* The process is run, or run again (a Job that retries, an operator, CI).
StartRun(r) ==
  /\ Idle(r)
  /\ pc' = [pc EXCEPT ![r] = "ping"]
  /\ Fresh(r)
  /\ calm' = (calm /\ \A q \in Runners \ {r} : Idle(q))
  /\ UNCHANGED <<serverVars, failures>>

-----------------------------------------------------------------------------
(* What the statements do on the server. *)

Current(r) == FilesOf[r][file[r]]

\* CREATE ... IF NOT EXISTS.
CreateObject(o, f) ==
  /\ Needs[o] \subseteq {n \in Objects : Exists(n)}
  /\ made' = [made EXCEPT ![o] = IF @ = None THEN f ELSE @]
  /\ UNCHANGED recorded

\* What the statement of the runner's control point changes.
Effect(r) ==
  CASE pc[r] = "track"     -> CreateObject(Tracking, Elsewhere)
    [] pc[r] = "statement" -> CreateObject(Script[Current(r)][stmt[r]], Current(r))
    [] pc[r] = "record"    -> /\ recorded' = [recorded EXCEPT ![file[r]] = Current(r)]
                              /\ UNCHANGED made
    [] OTHER               -> UNCHANGED serverVars

-----------------------------------------------------------------------------
(* apply_all() and _apply_migration(). *)

\* Where the runner is after the statement has succeeded: main() pings, the
\* manager ensures the tracking table and reads the applied versions, the
\* statements of a file run in order, its version is recorded after the last
\* one, and main() logs the applied versions.
Advance(r) ==
  \/ /\ pc[r] = "ping" /\ pc' = [pc EXCEPT ![r] = "track"]
     /\ UNCHANGED <<applied, file, stmt>>
  \/ /\ pc[r] = "track" /\ pc' = [pc EXCEPT ![r] = "read"]
     /\ UNCHANGED <<applied, file, stmt>>
  \/ /\ pc[r] = "read" /\ pc' = [pc EXCEPT ![r] = "file"]
     /\ applied' = [applied EXCEPT ![r] = recorded]
     /\ UNCHANGED <<file, stmt>>
  \/ /\ pc[r] = "statement" /\ stmt[r] < Len(Script[Current(r)])
     /\ stmt' = [stmt EXCEPT ![r] = @ + 1]
     /\ UNCHANGED <<pc, applied, file>>
  \/ /\ pc[r] = "statement" /\ stmt[r] = Len(Script[Current(r)])
     /\ pc' = [pc EXCEPT ![r] = "record"]
     /\ UNCHANGED <<applied, file, stmt>>
  \/ /\ pc[r] = "record" /\ pc' = [pc EXCEPT ![r] = "file"]
     /\ file' = [file EXCEPT ![r] = @ + 1]
     /\ UNCHANGED <<applied, stmt>>
  \/ /\ pc[r] = "report" /\ pc' = [pc EXCEPT ![r] = "done"]
     /\ UNCHANGED <<applied, file, stmt>>

\* client.execute() returns.
Execute(r) ==
  /\ Effect(r)
  /\ Advance(r)
  /\ attempt' = [attempt EXCEPT ![r] = 1]
  /\ UNCHANGED <<warned, calm, failures>>

\* The exception of the last attempt leaves main() with exit code 1.
Raise(r) ==
  /\ pc' = [pc EXCEPT ![r] = "failed"]
  /\ Fresh(r)

\* Mutant: a statement that fails for good is logged and passed over.
MutantPassOver(r) ==
  /\ Advance(r)
  /\ attempt' = [attempt EXCEPT ![r] = 1]
  /\ UNCHANGED warned

\* Mutant: a file that fails is left for the next run, the next one is applied.
MutantNextOnError(r) ==
  /\ pc' = [pc EXCEPT ![r] = IF @ \in {"statement", "record"} THEN "file" ELSE "failed"]
  /\ file' = [file EXCEPT ![r] = IF pc[r] \in {"statement", "record"} THEN @ + 1 ELSE @]
  /\ attempt' = [attempt EXCEPT ![r] = 1]
  /\ UNCHANGED <<applied, stmt, warned>>

\* The retry decorator around client.execute() and client.ping().
RetryOrRaise(r) ==
  \/ /\ attempt[r] < MaxAttempts
     /\ attempt' = [attempt EXCEPT ![r] = @ + 1]
     /\ UNCHANGED <<pc, applied, file, stmt, warned>>
  \/ /\ attempt[r] = MaxAttempts
     /\ Raise(r)

\* An attempt fails, before or after the server has done what it asked for.
ExecuteError(r) ==
  /\ pc[r] \notin {"file", "done", "failed"}
  /\ failures < MaxFaults
  /\ failures' = failures + 1
  /\ calm' = FALSE
  /\ Effect(r) \/ UNCHANGED serverVars
  /\ RetryOrRaise(r)

\* The server rejects a statement that refers to what is not there.
StatementRejected(r) ==
  /\ \/ /\ pc[r] = "track"
        /\ \E n \in Needs[Tracking] : ~Exists(n)
     \/ /\ pc[r] = "statement"
        /\ \E n \in Needs[Script[Current(r)][stmt[r]]] : ~Exists(n)
  /\ RetryOrRaise(r)
  /\ calm' = FALSE
  /\ UNCHANGED <<serverVars, failures>>

\* Mutant: a mismatch is settled by recording the new checksum.
MutantNextFile(r) ==
  /\ pc[r] = "file" /\ file[r] \in DOMAIN FilesOf[r]
  /\ pc' = [pc EXCEPT ![r] =
              IF applied[r][file[r]] # None THEN "record" ELSE "statement"]
  /\ stmt' = [stmt EXCEPT ![r] = 1]
  /\ UNCHANGED <<serverVars, applied, file, attempt, warned, calm, failures>>

\* A version that is not recorded is applied from its first statement on.
NextFile(r) ==
  /\ pc[r] = "file" /\ file[r] \in DOMAIN FilesOf[r]
  /\ applied[r][file[r]] = None
  /\ pc' = [pc EXCEPT ![r] = IF Script[Current(r)] = <<>> THEN "record" ELSE "statement"]
  /\ stmt' = [stmt EXCEPT ![r] = 1]
  /\ UNCHANGED <<serverVars, applied, file, attempt, warned, calm, failures>>

\* Mutant: nothing is said of a mismatch.
MutantSkipFile(r) ==
  /\ pc[r] = "file" /\ file[r] \in DOMAIN FilesOf[r]
  /\ applied[r][file[r]] # None
  /\ file' = [file EXCEPT ![r] = @ + 1]
  /\ UNCHANGED <<serverVars, pc, applied, stmt, attempt, warned, calm, failures>>

\* Mutant: a mismatch ends the run.
MutantSkipOrRaise(r) ==
  /\ pc[r] = "file" /\ file[r] \in DOMAIN FilesOf[r]
  /\ applied[r][file[r]] # None
  /\ \/ /\ applied[r][file[r]] = Current(r)
        /\ file' = [file EXCEPT ![r] = @ + 1]
        /\ UNCHANGED pc
     \/ /\ applied[r][file[r]] # Current(r)
        /\ pc' = [pc EXCEPT ![r] = "failed"]
        /\ UNCHANGED file
  /\ UNCHANGED <<serverVars, applied, stmt, attempt, warned, calm, failures>>

\* A recorded version is skipped; another checksum is worth a warning.
SkipFile(r) ==
  /\ pc[r] = "file" /\ file[r] \in DOMAIN FilesOf[r]
  /\ applied[r][file[r]] # None
  /\ warned' = [warned EXCEPT ![r] = @ \/ applied[r][file[r]] # Current(r)]
  /\ file' = [file EXCEPT ![r] = @ + 1]
  /\ UNCHANGED <<serverVars, pc, applied, stmt, attempt, calm, failures>>

LastFile(r) ==
  /\ pc[r] = "file" /\ file[r] \notin DOMAIN FilesOf[r]
  /\ pc' = [pc EXCEPT ![r] = "report"]
  /\ UNCHANGED <<serverVars, applied, file, stmt, attempt, warned, calm, failures>>

\* The process is killed.
KillRun(r) ==
  /\ ~Idle(r)
  /\ failures < MaxFaults
  /\ failures' = failures + 1
  /\ calm' = FALSE
  /\ Raise(r)
  /\ UNCHANGED serverVars

RunStep(r) ==
  \/ Execute(r) \/ ExecuteError(r) \/ StatementRejected(r)
  \/ NextFile(r) \/ SkipFile(r) \/ LastFile(r)

SchemaNext == \E r \in Runners : StartRun(r) \/ RunStep(r) \/ KillRun(r)

SchemaSpec == SchemaInit /\ [][SchemaNext]_schemaVars

-----------------------------------------------------------------------------
(* Properties. *)

SchemaTypeOK ==
  /\ made \in [Objects -> Contents \cup {None, Elsewhere}]
  /\ recorded \in [Versions -> Contents \cup {None}]
  /\ pc \in [Runners -> RunnerPoints]
  /\ applied \in [Runners -> [Versions -> Contents \cup {None}]]
  /\ file \in [Runners -> Nat \ {0}]
  /\ stmt \in [Runners -> Nat \ {0}]
  /\ attempt \in [Runners -> 1 .. MaxAttempts]
  /\ warned \in [Runners -> BOOLEAN]
  /\ calm \in BOOLEAN
  /\ failures \in 0 .. MaxFaults

Built(f) == \A i \in DOMAIN Script[f] : Exists(Script[f][i])

\* A recorded version is complete, whatever run was killed half way through a
\* file, failed, or applied the same file at the same time: the tracking table
\* never says of a migration that it is applied when an object is missing.
RecordedIsComplete == \A v \in Versions : recorded[v] # None => Built(recorded[v])

\* An exit code 0 without a warning means that the whole schema of the image
\* is there, although the run skips what others have recorded.
SuccessMeansSchema ==
  \A r \in Runners :
    pc[r] = "done" /\ ~warned[r] => \A v \in DOMAIN FilesOf[r] : Built(FilesOf[r][v])

\* The inductive invariant: the above, and what they rest on. What a runner has
\* read or passed is recorded; what it has executed of the file it is at is
\* there; and a run is over only after its last file.
RecordedInOrder ==
  \A u, v \in Versions : u < v /\ recorded[v] # None => recorded[u] # None

SnapshotHolds ==
  \A r \in Runners, v \in Versions : applied[r][v] # None =>
    recorded[v] # None /\ Built(applied[r][v])

PassedHolds ==
  \A r \in Runners : \A v \in DOMAIN FilesOf[r] : v < file[r] =>
    recorded[v] # None /\ (~warned[r] => Built(FilesOf[r][v]))

StatementsHold ==
  \A r \in Runners :
    /\ pc[r] = "statement" => /\ file[r] \in DOMAIN FilesOf[r]
                              /\ stmt[r] \in DOMAIN Script[Current(r)]
                              /\ \A i \in 1 .. stmt[r] - 1 : Exists(Script[Current(r)][i])
    /\ pc[r] = "record" => file[r] \in DOMAIN FilesOf[r] /\ Built(Current(r))
    /\ pc[r] \in {"report", "done"} => file[r] \notin DOMAIN FilesOf[r]

SchemaIInv ==
  /\ SchemaTypeOK
  /\ RecordedIsComplete
  /\ RecordedInOrder
  /\ SnapshotHolds
  /\ PassedHolds
  /\ StatementsHold

\* An object that a recorded file defines was created from that file (or was
\* there before any migration), as long as no run failed or overlapped with
\* another. (A file that is edited after it was half applied, or two images
\* at the same time, leave an object as the other file defined it.)
NoSilentDrift ==
  calm => \A v \in Versions : recorded[v] # None =>
            \A i \in DOMAIN Script[recorded[v]] :
              made[Script[recorded[v]][i]] \in {recorded[v], Elsewhere}

\* What it rests on while all is calm: one run at a time, which has read what is
\* recorded; and the objects of a version that is not recorded are those that
\* the run has created from the file it is at.
Applying(r) == pc[r] \in {"statement", "record"}

OneRun == \A r, q \in Runners : r # q => Idle(r) \/ Idle(q)

SnapshotIsCurrent ==
  \A r \in Runners :
    /\ pc[r] = "file" \/ Applying(r) =>
         \A v \in Versions : v >= file[r] => applied[r][v] = recorded[v]
    /\ Applying(r) => recorded[file[r]] = None

MadeBy(o, v) == made[o] = None \/ made[o] = Elsewhere
                \/ \E r \in Runners : Applying(r) /\ file[r] = v /\ made[o] = Current(r)

UnrecordedUntouched ==
  \A q \in Runners : \A v \in DOMAIN FilesOf[q] :
    recorded[v] = None => \A o \in ObjectsOf(FilesOf[q][v]) : MadeBy(o, v)

CalmIInv == calm => OneRun /\ SnapshotIsCurrent /\ UnrecordedUntouched

\* The tracking table and the objects, seen without the runs, are a history
\* of versions that are applied in order and recorded when complete.
History == INSTANCE SchemaHistory WITH exists <- {o \in Objects : Exists(o)}
KeepsHistory == History!Spec
=============================================================================
