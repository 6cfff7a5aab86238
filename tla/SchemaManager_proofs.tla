-------------------------- MODULE SchemaManager_proofs --------------------------
(***************************************************************************)
(* Proofs about SchemaManager for any runners, images, scripts and number  *)
(* of attempts and faults.                                                 *)
(***************************************************************************)
EXTENDS SchemaManager, TLAPS

\* The invariant, runner by runner.
RunnerHolds(r) ==
  /\ \A v \in Versions : applied[r][v] # None => recorded[v] # None /\ Built(applied[r][v])
  /\ \A v \in DOMAIN FilesOf[r] : v < file[r] =>
       recorded[v] # None /\ (~warned[r] => Built(FilesOf[r][v]))
  /\ pc[r] = "statement" => /\ file[r] \in DOMAIN FilesOf[r]
                            /\ stmt[r] \in DOMAIN Script[Current(r)]
                            /\ \A i \in 1 .. stmt[r] - 1 : Exists(Script[Current(r)][i])
  /\ pc[r] = "record" => file[r] \in DOMAIN FilesOf[r] /\ Built(Current(r))
  /\ pc[r] \in {"report", "done"} => file[r] \notin DOMAIN FilesOf[r]

LEMMA RunnerByRunner ==
  SnapshotHolds /\ PassedHolds /\ StatementsHold <=> \A r \in Runners : RunnerHolds(r)
BY DEF SnapshotHolds, PassedHolds, StatementsHold, RunnerHolds

LEMMA RunnerByRunnerNext ==
  (SnapshotHolds /\ PassedHolds /\ StatementsHold)' <=> \A r \in Runners : RunnerHolds(r)'
BY DEF SnapshotHolds, PassedHolds, StatementsHold, RunnerHolds

\* What the statements of any runner do to the server: objects and records are
\* added, never taken away.
ServerGrows ==
  /\ \A o \in Objects : made[o] # None => made'[o] # None
  /\ \A v \in Versions : recorded[v] # None => recorded'[v] # None

ServerOk ==
  /\ made \in [Objects -> Contents \cup {None, Elsewhere}]
  /\ recorded \in [Versions -> Contents \cup {None}]
  /\ RecordedIsComplete
  /\ RecordedInOrder

RunnerTypeOK ==
  /\ pc \in [Runners -> RunnerPoints]
  /\ applied \in [Runners -> [Versions -> Contents \cup {None}]]
  /\ file \in [Runners -> Nat \ {0}]
  /\ stmt \in [Runners -> Nat \ {0}]
  /\ attempt \in [Runners -> 1 .. MaxAttempts]
  /\ warned \in [Runners -> BOOLEAN]
  /\ calm \in BOOLEAN
  /\ failures \in 0 .. MaxFaults

LEMMA Parts ==
  SchemaIInv <=> ServerOk /\ RunnerTypeOK /\ \A r \in Runners : RunnerHolds(r)
BY RunnerByRunner DEF SchemaIInv, SchemaTypeOK, ServerOk, RunnerTypeOK

LEMMA PartsNext ==
  SchemaIInv' <=> ServerOk' /\ RunnerTypeOK' /\ \A r \in Runners : RunnerHolds(r)'
BY RunnerByRunnerNext DEF SchemaIInv, SchemaTypeOK, ServerOk, RunnerTypeOK

-----------------------------------------------------------------------------
(* Facts about the images. *)

LEMMA FileFacts ==
  ASSUME NEW r \in Runners, NEW v \in DOMAIN FilesOf[r]
  PROVE  /\ v \in Nat \ {0} /\ v \in Versions
         /\ FilesOf[r][v] \in Contents
         /\ Script[FilesOf[r][v]] \in Seq(Objects)
         /\ \A u \in Nat \ {0} : u < v => u \in DOMAIN FilesOf[r]
<1>1. FilesOf[r] \in Seq(Contents) /\ Script \in [Contents -> Seq(Objects)]
  BY SchemaAssumption
<1>2. DOMAIN FilesOf[r] = 1 .. Len(FilesOf[r]) /\ Len(FilesOf[r]) \in Nat
  BY <1>1
<1>3. FilesOf[r][v] \in Contents
  BY <1>1
<1> QED
  BY <1>1, <1>2, <1>3 DEF Versions

LEMMA VersionIsNat ==
  ASSUME NEW v \in Versions
  PROVE  v \in Nat \ {0}
<1>1. PICK r \in Runners : v \in DOMAIN FilesOf[r]
  BY DEF Versions
<1> QED
  BY <1>1, FileFacts

\* The objects of a content stay built.
BuiltNext(f) == \A i \in DOMAIN Script[f] : made'[Script[f][i]] # None

LEMMA BuiltStays ==
  ASSUME NEW f \in Contents, Built(f), ServerGrows
  PROVE  BuiltNext(f)
<1>1. Script[f] \in Seq(Objects)
  BY SchemaAssumption
<1> QED
  BY <1>1 DEF Built, BuiltNext, Exists, ServerGrows

\* A runner whose place and snapshot do not change is none the worse for what
\* happens on the server.
LEMMA RunnerKept ==
  ASSUME NEW r \in Runners, RunnerTypeOK, RunnerHolds(r), ServerGrows,
         pc'[r] = pc[r], applied'[r] = applied[r], file'[r] = file[r],
         stmt'[r] = stmt[r], warned'[r] = warned[r]
  PROVE  RunnerHolds(r)'
<1>1. \A v \in Versions : applied[r][v] # None => recorded'[v] # None /\ BuiltNext(applied[r][v])
  BY BuiltStays DEF RunnerHolds, ServerGrows, RunnerTypeOK
<1>2. \A v \in DOMAIN FilesOf[r] : v < file[r] =>
        recorded'[v] # None /\ (~warned[r] => BuiltNext(FilesOf[r][v]))
  BY BuiltStays, FileFacts DEF RunnerHolds, ServerGrows
<1>3. pc[r] = "statement" =>
        \A i \in 1 .. stmt[r] - 1 : Exists(Script[Current(r)][i])'
  <2> SUFFICES ASSUME pc[r] = "statement", NEW i \in 1 .. stmt[r] - 1
               PROVE  Exists(Script[Current(r)][i])'
    OBVIOUS
  <2>1. file[r] \in DOMAIN FilesOf[r] /\ stmt[r] \in DOMAIN Script[Current(r)]
    BY DEF RunnerHolds
  <2>2. Script[Current(r)] \in Seq(Objects)
    BY <2>1, FileFacts DEF Current
  <2>3. Script[Current(r)][i] \in Objects
    BY <2>1, <2>2
  <2> QED
    BY <2>3 DEF RunnerHolds, Exists, ServerGrows, Current
<1>4. pc[r] = "record" => BuiltNext(Current(r))
  BY BuiltStays, FileFacts DEF RunnerHolds, Current
<1> QED
  BY <1>1, <1>2, <1>3, <1>4 DEF RunnerHolds, Current, Built, BuiltNext, Exists

-----------------------------------------------------------------------------
(* The server. *)

LEMMA CreateFacts ==
  ASSUME ServerOk, NEW o \in Objects, NEW f \in Contents \cup {Elsewhere}, CreateObject(o, f)
  PROVE  ServerOk' /\ ServerGrows /\ made'[o] # None
<1>1. f # None
  BY SchemaAssumption
<1>2. made' \in [Objects -> Contents \cup {None, Elsewhere}] /\ recorded' = recorded
  BY DEF CreateObject, ServerOk
<1>3. ServerGrows /\ made'[o] # None
  BY <1>1, <1>2 DEF CreateObject, ServerOk, ServerGrows
<1>4. RecordedIsComplete'
  <2> SUFFICES ASSUME NEW v \in Versions, recorded'[v] # None
               PROVE  BuiltNext(recorded'[v])
    BY DEF RecordedIsComplete, Built, BuiltNext, Exists
  <2> QED
    BY <1>2, <1>3, BuiltStays DEF ServerOk, RecordedIsComplete
<1>5. RecordedInOrder'
  BY <1>2 DEF ServerOk, RecordedInOrder
<1> QED
  BY <1>2, <1>3, <1>4, <1>5 DEF ServerOk

\* A version is recorded when its objects are built and the versions before it
\* are recorded, which the runner knows from its way through the files.
LEMMA RecordFacts ==
  ASSUME ServerOk, RunnerTypeOK, NEW r \in Runners, RunnerHolds(r), pc[r] = "record", Effect(r)
  PROVE  ServerOk' /\ ServerGrows /\ recorded'[file[r]] # None
<1>1. /\ recorded' = [recorded EXCEPT ![file[r]] = Current(r)] /\ made' = made
      /\ file[r] \in DOMAIN FilesOf[r] /\ Built(Current(r))
  BY DEF Effect, RunnerHolds
<1>2. file[r] \in Versions /\ Current(r) \in Contents /\ Current(r) # None
  BY <1>1, FileFacts, SchemaAssumption DEF Current
<1>3. recorded' \in [Versions -> Contents \cup {None}] /\ ServerGrows /\ recorded'[file[r]] # None
  BY <1>1, <1>2 DEF ServerOk, ServerGrows
<1>4. RecordedIsComplete'
  <2> SUFFICES ASSUME NEW v \in Versions, recorded'[v] # None
               PROVE  BuiltNext(recorded'[v])
    BY DEF RecordedIsComplete, Built, BuiltNext, Exists
  <2>1. CASE v = file[r]
    BY <1>1, <1>2, <1>3, <2>1, BuiltStays DEF ServerOk
  <2>2. CASE v # file[r]
    BY <1>1, <1>3, <2>2, BuiltStays DEF ServerOk, RecordedIsComplete
  <2> QED
    BY <2>1, <2>2
<1>5. RecordedInOrder'
  <2> SUFFICES ASSUME NEW u \in Versions, NEW v \in Versions, u < v, recorded'[v] # None
               PROVE  recorded'[u] # None
    BY DEF RecordedInOrder
  <2>1. CASE v = file[r]
    <3>1. u \in DOMAIN FilesOf[r]
      BY <1>1, <2>1, FileFacts, VersionIsNat
    <3> QED
      BY <1>3, <2>1, <3>1 DEF RunnerHolds, ServerGrows
  <2>2. CASE v # file[r]
    BY <1>1, <1>3, <2>2 DEF ServerOk, ServerGrows, RecordedInOrder
  <2> QED
    BY <2>1, <2>2
<1> QED
  BY <1>1, <1>3, <1>4, <1>5 DEF ServerOk

LEMMA SameServer ==
  ASSUME ServerOk, UNCHANGED serverVars
  PROVE  ServerOk' /\ ServerGrows
BY DEF ServerOk, serverVars, ServerGrows, RecordedIsComplete, RecordedInOrder, Built, Exists

LEMMA StatementType ==
  ASSUME NEW r \in Runners, RunnerHolds(r), pc[r] = "statement"
  PROVE  /\ file[r] \in DOMAIN FilesOf[r] /\ Current(r) \in Contents
         /\ Script[Current(r)] \in Seq(Objects)
         /\ Script[Current(r)][stmt[r]] \in Objects
<1>1. file[r] \in DOMAIN FilesOf[r] /\ stmt[r] \in DOMAIN Script[Current(r)]
  BY DEF RunnerHolds
<1>2. Current(r) \in Contents /\ Script[Current(r)] \in Seq(Objects)
  BY <1>1, FileFacts DEF Current
<1> QED
  BY <1>1, <1>2

LEMMA EffectFacts ==
  ASSUME SchemaIInv, NEW r \in Runners, Effect(r)
  PROVE  /\ ServerOk' /\ ServerGrows
         /\ pc[r] = "statement" => made'[Script[Current(r)][stmt[r]]] # None
         /\ pc[r] = "record" => recorded'[file[r]] # None
<1>1. ServerOk /\ RunnerTypeOK /\ RunnerHolds(r)
  BY Parts
<1>2. CASE pc[r] = "track"
  <2>1. CreateObject(Tracking, Elsewhere)
    BY <1>2 DEF Effect
  <2> QED
    BY <1>1, <1>2, <2>1, CreateFacts, SchemaAssumption
<1>3. CASE pc[r] = "statement"
  <2>1. CreateObject(Script[Current(r)][stmt[r]], Current(r))
    BY <1>3 DEF Effect
  <2> QED
    BY <1>1, <1>3, <2>1, StatementType, CreateFacts
<1>4. CASE pc[r] = "record"
  BY <1>1, <1>4, RecordFacts
<1>5. CASE pc[r] \notin {"track", "statement", "record"}
  <2>1. UNCHANGED serverVars
    BY <1>5 DEF Effect
  <2> QED
    BY <1>1, <1>5, <2>1, SameServer
<1> QED
  BY <1>2, <1>3, <1>4, <1>5

-----------------------------------------------------------------------------
(* The runner that moves. *)

\* The types of what a runner's move changes, and the runners that do not move.
MoveTypeOK ==
  /\ pc' \in [Runners -> RunnerPoints]
  /\ applied' \in [Runners -> [Versions -> Contents \cup {None}]]
  /\ file' \in [Runners -> Nat \ {0}]
  /\ stmt' \in [Runners -> Nat \ {0}]
  /\ attempt' \in [Runners -> 1 .. MaxAttempts]
  /\ warned' \in [Runners -> BOOLEAN]

OthersStay(r) ==
  \A q \in Runners \ {r} :
    /\ pc'[q] = pc[q] /\ applied'[q] = applied[q] /\ file'[q] = file[q]
    /\ stmt'[q] = stmt[q] /\ warned'[q] = warned[q]

\* A move of one runner and what it does on the server keep the invariant when
\* they keep that runner's part.
LEMMA MoveKeeps ==
  ASSUME SchemaIInv, NEW r \in Runners, ServerOk', ServerGrows,
         MoveTypeOK, calm' \in BOOLEAN, failures' \in 0 .. MaxFaults,
         OthersStay(r), RunnerHolds(r)'
  PROVE  SchemaIInv'
<1>1. \A q \in Runners : RunnerHolds(q)'
  <2> SUFFICES ASSUME NEW q \in Runners, q # r
               PROVE  RunnerHolds(q)'
    OBVIOUS
  <2>1. RunnerTypeOK /\ RunnerHolds(q)
    BY Parts
  <2> QED
    BY <2>1, RunnerKept DEF OthersStay
<1>2. RunnerTypeOK'
  BY DEF RunnerTypeOK, MoveTypeOK
<1> QED
  BY <1>1, <1>2, PartsNext

\* Parts of a runner's invariant after a step on the server.
LEMMA SnapshotStays ==
  ASSUME NEW r \in Runners, RunnerTypeOK, RunnerHolds(r), ServerGrows, applied'[r] = applied[r]
  PROVE  \A v \in Versions : applied'[r][v] # None =>
           recorded'[v] # None /\ BuiltNext(applied'[r][v])
BY BuiltStays DEF RunnerHolds, ServerGrows, RunnerTypeOK

LEMMA PassedStays ==
  ASSUME NEW r \in Runners, RunnerHolds(r), ServerGrows,
         file'[r] = file[r], warned'[r] = warned[r]
  PROVE  \A v \in DOMAIN FilesOf[r] : v < file'[r] =>
           recorded'[v] # None /\ (~warned'[r] => BuiltNext(FilesOf[r][v]))
BY BuiltStays, FileFacts DEF RunnerHolds, ServerGrows

\* A runner that goes on to a point where nothing more is asked of it.
LEMMA MovedOn ==
  ASSUME NEW r \in Runners, RunnerTypeOK, RunnerHolds(r), ServerGrows,
         UNCHANGED <<applied, file, warned>>,
         pc'[r] \notin {"statement", "record"},
         pc'[r] \in {"report", "done"} => file[r] \notin DOMAIN FilesOf[r]
  PROVE  RunnerHolds(r)'
BY SnapshotStays, PassedStays DEF RunnerHolds, Built, BuiltNext, Exists

\* A runner that is at a statement of a file.
LEMMA Statement ==
  ASSUME NEW r \in Runners, RunnerTypeOK, RunnerHolds(r), ServerGrows,
         UNCHANGED <<applied, file, warned>>,
         pc'[r] = "statement", file[r] \in DOMAIN FilesOf[r],
         stmt'[r] \in DOMAIN Script[Current(r)],
         \A i \in 1 .. stmt'[r] - 1 : made'[Script[Current(r)][i]] # None
  PROVE  RunnerHolds(r)'
BY SnapshotStays, PassedStays DEF RunnerHolds, Built, BuiltNext, Exists, Current

\* A runner that records a file.
LEMMA Recording ==
  ASSUME NEW r \in Runners, RunnerTypeOK, RunnerHolds(r), ServerGrows,
         UNCHANGED <<applied, file, warned>>,
         pc'[r] = "record", file[r] \in DOMAIN FilesOf[r], BuiltNext(Current(r))
  PROVE  RunnerHolds(r)'
BY SnapshotStays, PassedStays DEF RunnerHolds, Built, BuiltNext, Exists, Current

\* A process that starts over has read and passed nothing.
LEMMA FreshHolds ==
  ASSUME RunnerTypeOK, NEW r \in Runners, NEW p \in {"ping", "failed"},
         pc' = [pc EXCEPT ![r] = p], Fresh(r)
  PROVE  MoveTypeOK /\ OthersStay(r) /\ RunnerHolds(r)'
<1>1. NothingApplied \in [Versions -> Contents \cup {None}]
  BY DEF NothingApplied
<1>2. MoveTypeOK
  BY <1>1, SchemaAssumption DEF RunnerTypeOK, MoveTypeOK, Fresh, RunnerPoints
<1>3. /\ pc'[r] = p /\ applied'[r] = NothingApplied /\ file'[r] = 1
  BY DEF RunnerTypeOK, Fresh
<1>4. OthersStay(r)
  BY DEF RunnerTypeOK, Fresh, OthersStay
<1>5. \A v \in DOMAIN FilesOf[r] : ~(v < 1)
  BY FileFacts
<1> QED
  BY <1>2, <1>3, <1>4, <1>5 DEF RunnerHolds, NothingApplied

\* The statement has succeeded.
LEMMA AdvanceHolds ==
  ASSUME SchemaIInv, NEW r \in Runners, Effect(r), Advance(r),
         attempt' = [attempt EXCEPT ![r] = 1], UNCHANGED warned
  PROVE  MoveTypeOK /\ OthersStay(r) /\ RunnerHolds(r)'
<1>1. ServerOk /\ RunnerTypeOK /\ RunnerHolds(r)
  BY Parts
<1>2. /\ ServerOk' /\ ServerGrows
      /\ pc[r] = "statement" => made'[Script[Current(r)][stmt[r]]] # None
      /\ pc[r] = "record" => recorded'[file[r]] # None
  BY EffectFacts
<1>3. attempt' \in [Runners -> 1 .. MaxAttempts] /\ warned' \in [Runners -> BOOLEAN]
  BY <1>1, SchemaAssumption DEF RunnerTypeOK
<1>4. CASE pc[r] = "ping" \/ pc[r] = "track"
  <2>1. /\ UNCHANGED <<applied, file, stmt>>
        /\ \E p \in {"track", "read"} : pc' = [pc EXCEPT ![r] = p]
    BY <1>4 DEF Advance
  <2>2. MoveTypeOK /\ OthersStay(r)
    BY <1>1, <1>3, <2>1 DEF RunnerTypeOK, MoveTypeOK, OthersStay, RunnerPoints
  <2>3. pc'[r] \in {"track", "read"}
    BY <1>1, <2>1 DEF RunnerTypeOK
  <2> QED
    BY <1>1, <1>2, <2>1, <2>2, <2>3, MovedOn
<1>5. CASE pc[r] = "read"
  <2>1. /\ pc' = [pc EXCEPT ![r] = "file"] /\ applied' = [applied EXCEPT ![r] = recorded]
        /\ UNCHANGED <<file, stmt>> /\ UNCHANGED serverVars
    BY <1>5 DEF Advance, Effect
  <2>2. MoveTypeOK /\ OthersStay(r)
    BY <1>1, <1>3, <2>1 DEF RunnerTypeOK, MoveTypeOK, OthersStay, RunnerPoints, ServerOk
  <2>3. pc'[r] = "file" /\ applied'[r] = recorded /\ made' = made /\ recorded' = recorded
    BY <1>1, <2>1 DEF RunnerTypeOK, serverVars
  <2>4. \A v \in Versions : applied'[r][v] # None => recorded'[v] # None /\ BuiltNext(applied'[r][v])
    BY <1>1, <2>3 DEF ServerOk, RecordedIsComplete, Built, BuiltNext, Exists
  <2>5. \A v \in DOMAIN FilesOf[r] : v < file'[r] =>
          recorded'[v] # None /\ (~warned'[r] => BuiltNext(FilesOf[r][v]))
    BY <1>1, <2>1, <2>3 DEF RunnerHolds, Built, BuiltNext, Exists
  <2> QED
    BY <2>2, <2>3, <2>4, <2>5 DEF RunnerHolds, Built, BuiltNext, Exists
<1>6. CASE pc[r] = "statement" /\ stmt[r] < Len(Script[Current(r)])
  <2>1. stmt' = [stmt EXCEPT ![r] = @ + 1] /\ UNCHANGED <<pc, applied, file>>
    BY <1>6 DEF Advance
  <2>2. MoveTypeOK /\ OthersStay(r)
    BY <1>1, <1>3, <2>1 DEF RunnerTypeOK, MoveTypeOK, OthersStay
  <2>3. stmt'[r] = stmt[r] + 1 /\ stmt[r] \in Nat \ {0}
    BY <1>1, <2>1 DEF RunnerTypeOK
  <2>4. file[r] \in DOMAIN FilesOf[r] /\ Script[Current(r)] \in Seq(Objects)
    BY <1>1, <1>6, StatementType
  <2>5. stmt'[r] \in DOMAIN Script[Current(r)]
    BY <1>6, <2>3, <2>4
  <2>6. \A i \in 1 .. stmt'[r] - 1 : made'[Script[Current(r)][i]] # None
    <3> SUFFICES ASSUME NEW i \in 1 .. stmt'[r] - 1
                 PROVE  made'[Script[Current(r)][i]] # None
      OBVIOUS
    <3>1. i = stmt[r] \/ i \in 1 .. stmt[r] - 1
      BY <2>3
    <3>2. Script[Current(r)][i] \in Objects
      BY <1>6, <2>3, <2>4
    <3> QED
      BY <1>1, <1>2, <1>6, <3>1, <3>2 DEF RunnerHolds, Exists, ServerGrows
  <2> QED
    BY <1>1, <1>2, <1>6, <2>1, <2>2, <2>4, <2>5, <2>6, Statement
<1>7. CASE pc[r] = "statement" /\ stmt[r] = Len(Script[Current(r)])
  <2>1. pc' = [pc EXCEPT ![r] = "record"] /\ UNCHANGED <<applied, file, stmt>>
    BY <1>7 DEF Advance
  <2>2. MoveTypeOK /\ OthersStay(r)
    BY <1>1, <1>3, <2>1 DEF RunnerTypeOK, MoveTypeOK, OthersStay, RunnerPoints
  <2>3. file[r] \in DOMAIN FilesOf[r] /\ Script[Current(r)] \in Seq(Objects)
    BY <1>1, <1>7, StatementType
  <2>4. BuiltNext(Current(r))
    <3> SUFFICES ASSUME NEW i \in DOMAIN Script[Current(r)]
                 PROVE  made'[Script[Current(r)][i]] # None
      BY DEF BuiltNext
    <3>1. i = stmt[r] \/ i \in 1 .. stmt[r] - 1
      BY <1>7, <2>3
    <3>2. Script[Current(r)][i] \in Objects
      BY <2>3
    <3> QED
      BY <1>1, <1>2, <1>7, <3>1, <3>2 DEF RunnerHolds, Exists, ServerGrows
  <2>5. pc'[r] = "record"
    BY <1>1, <2>1 DEF RunnerTypeOK
  <2> QED
    BY <1>1, <1>2, <2>1, <2>2, <2>3, <2>4, <2>5, Recording
<1>8. CASE pc[r] = "record"
  <2>1. /\ pc' = [pc EXCEPT ![r] = "file"] /\ file' = [file EXCEPT ![r] = @ + 1]
        /\ UNCHANGED <<applied, stmt>>
    BY <1>8 DEF Advance
  <2>2. MoveTypeOK /\ OthersStay(r)
    BY <1>1, <1>3, <2>1 DEF RunnerTypeOK, MoveTypeOK, OthersStay, RunnerPoints
  <2>3. /\ pc'[r] = "file" /\ file'[r] = file[r] + 1 /\ file[r] \in Nat \ {0}
        /\ applied'[r] = applied[r] /\ warned'[r] = warned[r]
    BY <1>1, <2>1 DEF RunnerTypeOK
  <2>4. file[r] \in DOMAIN FilesOf[r] /\ Built(Current(r))
    BY <1>1, <1>8 DEF RunnerHolds
  <2>5. BuiltNext(Current(r))
    BY <1>2, <2>4, FileFacts, BuiltStays DEF Current
  <2>6. \A v \in DOMAIN FilesOf[r] : v < file'[r] =>
          recorded'[v] # None /\ (~warned'[r] => BuiltNext(FilesOf[r][v]))
    <3> SUFFICES ASSUME NEW v \in DOMAIN FilesOf[r], v < file'[r]
                 PROVE  recorded'[v] # None /\ (~warned'[r] => BuiltNext(FilesOf[r][v]))
      OBVIOUS
    <3>1. v = file[r] \/ v < file[r]
      BY <2>3, FileFacts
    <3>2. CASE v = file[r]
      BY <1>2, <1>8, <2>5, <3>2 DEF Current
    <3>3. CASE v < file[r]
      BY <1>1, <1>2, <2>3, <3>3, FileFacts, BuiltStays DEF RunnerHolds, ServerGrows
    <3> QED
      BY <3>1, <3>2, <3>3
  <2>7. \A v \in Versions : applied'[r][v] # None => recorded'[v] # None /\ BuiltNext(applied'[r][v])
    BY <1>1, <1>2, <2>3, SnapshotStays
  <2> QED
    BY <2>2, <2>3, <2>6, <2>7 DEF RunnerHolds, Built, BuiltNext, Exists
<1>9. CASE pc[r] = "report"
  <2>1. pc' = [pc EXCEPT ![r] = "done"] /\ UNCHANGED <<applied, file, stmt>>
    BY <1>9 DEF Advance
  <2>2. MoveTypeOK /\ OthersStay(r)
    BY <1>1, <1>3, <2>1 DEF RunnerTypeOK, MoveTypeOK, OthersStay, RunnerPoints
  <2>3. pc'[r] = "done" /\ file[r] \notin DOMAIN FilesOf[r]
    BY <1>1, <1>9, <2>1 DEF RunnerTypeOK, RunnerHolds
  <2> QED
    BY <1>1, <1>2, <2>1, <2>2, <2>3, MovedOn
<1> QED
  BY <1>4, <1>5, <1>6, <1>7, <1>8, <1>9 DEF Advance

-----------------------------------------------------------------------------
(* The actions. *)

LEMMA StartRunIInv ==
  ASSUME SchemaIInv, NEW r \in Runners, StartRun(r)
  PROVE  SchemaIInv'
<1>1. ServerOk /\ RunnerTypeOK
  BY Parts
<1>2. ServerOk' /\ ServerGrows
  BY <1>1, SameServer DEF StartRun
<1>3. MoveTypeOK /\ OthersStay(r) /\ RunnerHolds(r)'
  BY <1>1, FreshHolds DEF StartRun
<1>4. calm' \in BOOLEAN
  BY DEF StartRun
<1>5. failures' \in 0 .. MaxFaults
  BY <1>1 DEF StartRun, RunnerTypeOK
<1> QED
  BY <1>2, <1>3, <1>4, <1>5, MoveKeeps

LEMMA ExecuteIInv ==
  ASSUME SchemaIInv, NEW r \in Runners, Execute(r)
  PROVE  SchemaIInv'
<1>1. MoveTypeOK /\ OthersStay(r) /\ RunnerHolds(r)'
  BY AdvanceHolds DEF Execute
<1>2. ServerOk' /\ ServerGrows
  BY EffectFacts DEF Execute
<1>3. calm' \in BOOLEAN /\ failures' \in 0 .. MaxFaults
  BY Parts DEF Execute, RunnerTypeOK
<1> QED
  BY <1>1, <1>2, <1>3, MoveKeeps

\* An attempt that fails: the runner stays where it is, or starts over.
LEMMA RetryHolds ==
  ASSUME SchemaIInv, NEW r \in Runners, ServerGrows, RetryOrRaise(r)
  PROVE  MoveTypeOK /\ OthersStay(r) /\ RunnerHolds(r)'
<1>1. RunnerTypeOK /\ RunnerHolds(r)
  BY Parts
<1>2. CASE attempt[r] < MaxAttempts /\ attempt' = [attempt EXCEPT ![r] = @ + 1]
           /\ UNCHANGED <<pc, applied, file, stmt, warned>>
  <2>1. attempt' \in [Runners -> 1 .. MaxAttempts]
    BY <1>1, <1>2, SchemaAssumption DEF RunnerTypeOK
  <2>2. MoveTypeOK /\ OthersStay(r)
    BY <1>1, <1>2, <2>1 DEF RunnerTypeOK, MoveTypeOK, OthersStay
  <2>3. RunnerHolds(r)'
    BY <1>1, <1>2, RunnerKept
  <2> QED
    BY <2>2, <2>3
<1>3. CASE Raise(r)
  BY <1>1, <1>3, FreshHolds DEF Raise
<1> QED
  BY <1>2, <1>3 DEF RetryOrRaise

LEMMA ExecuteErrorIInv ==
  ASSUME SchemaIInv, NEW r \in Runners, ExecuteError(r)
  PROVE  SchemaIInv'
<1>1. ServerOk' /\ ServerGrows
  BY Parts, EffectFacts, SameServer DEF ExecuteError
<1>2. MoveTypeOK /\ OthersStay(r) /\ RunnerHolds(r)'
  BY <1>1, RetryHolds DEF ExecuteError
<1>3. calm' \in BOOLEAN
  BY DEF ExecuteError
<1>4. failures' \in 0 .. MaxFaults
  BY Parts, SchemaAssumption DEF ExecuteError, RunnerTypeOK
<1> QED
  BY <1>1, <1>2, <1>3, <1>4, MoveKeeps

LEMMA StatementRejectedIInv ==
  ASSUME SchemaIInv, NEW r \in Runners, StatementRejected(r)
  PROVE  SchemaIInv'
<1>1. UNCHANGED serverVars /\ RetryOrRaise(r) /\ calm' = FALSE /\ failures' = failures
  BY DEF StatementRejected
<1>2. ServerOk' /\ ServerGrows
  BY <1>1, Parts, SameServer
<1>3. MoveTypeOK /\ OthersStay(r) /\ RunnerHolds(r)'
  BY <1>1, <1>2, RetryHolds
<1>4. calm' \in BOOLEAN
  BY <1>1
<1>5. failures' \in 0 .. MaxFaults
  BY <1>1, Parts DEF RunnerTypeOK
<1> QED
  BY <1>2, <1>3, <1>4, <1>5, MoveKeeps

LEMMA NextFileIInv ==
  ASSUME SchemaIInv, NEW r \in Runners, NextFile(r)
  PROVE  SchemaIInv'
<1>1. ServerOk /\ RunnerTypeOK /\ RunnerHolds(r)
  BY Parts
<1>2. /\ file[r] \in DOMAIN FilesOf[r] /\ stmt' = [stmt EXCEPT ![r] = 1]
      /\ pc' = [pc EXCEPT ![r] = IF Script[Current(r)] = <<>> THEN "record" ELSE "statement"]
      /\ UNCHANGED <<applied, file, attempt, warned, calm, failures>>
      /\ UNCHANGED serverVars
  BY DEF NextFile
<1>3. ServerOk' /\ ServerGrows
  BY <1>1, <1>2, SameServer
<1>4. MoveTypeOK /\ OthersStay(r)
  BY <1>1, <1>2 DEF RunnerTypeOK, MoveTypeOK, OthersStay, RunnerPoints
<1>5. Script[Current(r)] \in Seq(Objects)
  BY <1>2, FileFacts DEF Current
<1>6. RunnerHolds(r)'
  <2>1. CASE Script[Current(r)] = <<>>
    <3>1. pc'[r] = "record"
      BY <1>1, <1>2, <2>1 DEF RunnerTypeOK
    <3>2. BuiltNext(Current(r))
      BY <2>1 DEF BuiltNext
    <3> QED
      BY <1>1, <1>2, <1>3, <3>1, <3>2, Recording
  <2>2. CASE Script[Current(r)] # <<>>
    <3>1. pc'[r] = "statement" /\ stmt'[r] = 1
      BY <1>1, <1>2, <2>2 DEF RunnerTypeOK
    <3>2. 1 \in DOMAIN Script[Current(r)]
      BY <1>5, <2>2
    <3>3. \A i \in 1 .. stmt'[r] - 1 : made'[Script[Current(r)][i]] # None
      BY <3>1
    <3> QED
      BY <1>1, <1>2, <1>3, <3>1, <3>2, <3>3, Statement
  <2> QED
    BY <2>1, <2>2
<1>7. calm' \in BOOLEAN /\ failures' \in 0 .. MaxFaults
  BY <1>1, <1>2 DEF RunnerTypeOK
<1> QED
  BY <1>3, <1>4, <1>6, <1>7, MoveKeeps

\* A file that is skipped is one that the runner has read as recorded: with
\* the same content, or it warns.
LEMMA SkipFileIInv ==
  ASSUME SchemaIInv, NEW r \in Runners, SkipFile(r)
  PROVE  SchemaIInv'
<1>1. ServerOk /\ RunnerTypeOK /\ RunnerHolds(r)
  BY Parts
<1>2. /\ pc[r] = "file" /\ file[r] \in DOMAIN FilesOf[r] /\ applied[r][file[r]] # None
      /\ warned' = [warned EXCEPT ![r] = @ \/ applied[r][file[r]] # Current(r)]
      /\ file' = [file EXCEPT ![r] = @ + 1]
      /\ UNCHANGED <<pc, applied, stmt, attempt, calm, failures>>
      /\ UNCHANGED serverVars
  BY DEF SkipFile
<1>3. ServerOk' /\ ServerGrows
  BY <1>1, <1>2, SameServer
<1>4. file[r] \in Nat \ {0} /\ warned[r] \in BOOLEAN
  BY <1>1 DEF RunnerTypeOK
<1>5. /\ warned' \in [Runners -> BOOLEAN]
      /\ warned'[r] <=> (warned[r] \/ applied[r][file[r]] # Current(r))
  <2>1. (warned[r] \/ applied[r][file[r]] # Current(r)) \in BOOLEAN
    OBVIOUS
  <2>2. warned \in [Runners -> BOOLEAN]
    BY <1>1 DEF RunnerTypeOK
  <2> QED
    BY <1>2, <2>1, <2>2
<1>6. MoveTypeOK
  BY <1>1, <1>2, <1>5 DEF RunnerTypeOK, MoveTypeOK
<1>7. OthersStay(r)
  BY <1>1, <1>2 DEF RunnerTypeOK, OthersStay
<1>8. /\ pc'[r] = "file" /\ file'[r] = file[r] + 1
      /\ applied'[r] = applied[r] /\ made' = made /\ recorded' = recorded
  BY <1>1, <1>2 DEF RunnerTypeOK, serverVars
<1>9. file[r] \in Versions
  BY <1>2, FileFacts
<1>10. recorded[file[r]] # None /\ Built(applied[r][file[r]])
  BY <1>1, <1>2, <1>9 DEF RunnerHolds
<1>11. \A v \in DOMAIN FilesOf[r] : v < file'[r] =>
          recorded'[v] # None /\ (~warned'[r] => BuiltNext(FilesOf[r][v]))
  <2> SUFFICES ASSUME NEW v \in DOMAIN FilesOf[r], v < file'[r]
               PROVE  recorded[v] # None /\ (~warned'[r] => Built(FilesOf[r][v]))
    BY <1>8 DEF Built, BuiltNext, Exists
  <2>1. v = file[r] \/ v < file[r]
    BY <1>4, <1>8, FileFacts
  <2>2. CASE v = file[r]
    BY <1>5, <1>10, <2>2 DEF Current
  <2>3. CASE v < file[r]
    BY <1>1, <1>5, <2>3 DEF RunnerHolds
  <2> QED
    BY <2>1, <2>2, <2>3
<1>12. \A v \in Versions : applied'[r][v] # None => recorded'[v] # None /\ BuiltNext(applied'[r][v])
  BY <1>1, <1>3, <1>8, SnapshotStays
<1>13. RunnerHolds(r)'
  BY <1>8, <1>11, <1>12 DEF RunnerHolds, Built, BuiltNext, Exists
<1>14. calm' \in BOOLEAN /\ failures' \in 0 .. MaxFaults
  BY <1>1, <1>2 DEF RunnerTypeOK
<1> QED
  BY <1>3, <1>6, <1>7, <1>13, <1>14, MoveKeeps

LEMMA LastFileIInv ==
  ASSUME SchemaIInv, NEW r \in Runners, LastFile(r)
  PROVE  SchemaIInv'
<1>1. ServerOk /\ RunnerTypeOK /\ RunnerHolds(r)
  BY Parts
<1>2. /\ file[r] \notin DOMAIN FilesOf[r] /\ pc' = [pc EXCEPT ![r] = "report"]
      /\ UNCHANGED <<applied, file, stmt, attempt, warned, calm, failures>>
      /\ UNCHANGED serverVars
  BY DEF LastFile
<1>3. ServerOk' /\ ServerGrows
  BY <1>1, <1>2, SameServer
<1>4. MoveTypeOK /\ OthersStay(r)
  BY <1>1, <1>2 DEF RunnerTypeOK, MoveTypeOK, OthersStay, RunnerPoints
<1>5. pc'[r] = "report"
  BY <1>1, <1>2 DEF RunnerTypeOK
<1>6. RunnerHolds(r)'
  BY <1>1, <1>2, <1>3, <1>5, MovedOn
<1>7. calm' \in BOOLEAN /\ failures' \in 0 .. MaxFaults
  BY <1>1, <1>2 DEF RunnerTypeOK
<1> QED
  BY <1>3, <1>4, <1>6, <1>7, MoveKeeps

LEMMA KillRunIInv ==
  ASSUME SchemaIInv, NEW r \in Runners, KillRun(r)
  PROVE  SchemaIInv'
<1>1. ServerOk /\ RunnerTypeOK
  BY Parts
<1>2. ServerOk' /\ ServerGrows
  BY <1>1, SameServer DEF KillRun
<1>3. MoveTypeOK /\ OthersStay(r) /\ RunnerHolds(r)'
  BY <1>1, FreshHolds DEF KillRun, Raise
<1>4. calm' \in BOOLEAN
  BY DEF KillRun
<1>5. failures' \in 0 .. MaxFaults
  BY <1>1, SchemaAssumption DEF KillRun, RunnerTypeOK
<1> QED
  BY <1>2, <1>3, <1>4, <1>5, MoveKeeps

-----------------------------------------------------------------------------
(* The specification. *)

LEMMA InitSchemaIInv == SchemaInit => SchemaIInv
<1> SUFFICES ASSUME SchemaInit PROVE SchemaIInv
  OBVIOUS
<1>1. /\ made \in [Objects -> Contents \cup {None, Elsewhere}]
      /\ recorded \in [Versions -> Contents \cup {None}]
  BY DEF SchemaInit, NothingApplied
<1>2. \A v \in Versions : recorded[v] = None
  BY DEF SchemaInit, NothingApplied
<1>3. ServerOk
  BY <1>1, <1>2 DEF ServerOk, RecordedIsComplete, RecordedInOrder
<1>4. RunnerTypeOK
  BY SchemaAssumption DEF SchemaInit, RunnerTypeOK, NothingApplied, RunnerPoints
<1>5. \A r \in Runners : RunnerHolds(r)
  <2> SUFFICES ASSUME NEW r \in Runners PROVE RunnerHolds(r)
    OBVIOUS
  <2>1. /\ pc[r] = "failed" /\ file[r] = 1
        /\ \A v \in Versions : applied[r][v] = None
    BY DEF SchemaInit, NothingApplied
  <2>2. \A v \in DOMAIN FilesOf[r] : ~(v < 1)
    BY FileFacts
  <2> QED
    BY <2>1, <2>2 DEF RunnerHolds
<1> QED
  BY <1>3, <1>4, <1>5, Parts

LEMMA StutterSchemaIInv == SchemaIInv /\ UNCHANGED schemaVars => SchemaIInv'
<1> SUFFICES ASSUME SchemaIInv, UNCHANGED schemaVars PROVE SchemaIInv'
  OBVIOUS
<1>1. ServerOk /\ RunnerTypeOK /\ \A r \in Runners : RunnerHolds(r)
  BY Parts
<1>2. ServerOk' /\ ServerGrows
  BY <1>1, SameServer DEF schemaVars
<1>3. RunnerTypeOK'
  BY <1>1 DEF RunnerTypeOK, schemaVars, runnerVars
<1>4. \A r \in Runners : RunnerHolds(r)'
  BY <1>1, <1>2, RunnerKept DEF schemaVars, runnerVars
<1> QED
  BY <1>2, <1>3, <1>4, PartsNext

LEMMA NextSchemaIInv == SchemaIInv /\ [SchemaNext]_schemaVars => SchemaIInv'
<1> SUFFICES ASSUME SchemaIInv, [SchemaNext]_schemaVars PROVE SchemaIInv'
  OBVIOUS
<1>1. CASE UNCHANGED schemaVars
  BY <1>1, StutterSchemaIInv
<1>2. ASSUME NEW r \in Runners, StartRun(r) PROVE SchemaIInv'
  BY <1>2, StartRunIInv
<1>3. ASSUME NEW r \in Runners, RunStep(r) PROVE SchemaIInv'
  BY <1>3, ExecuteIInv, ExecuteErrorIInv, StatementRejectedIInv,
     NextFileIInv, SkipFileIInv, LastFileIInv DEF RunStep
<1>4. ASSUME NEW r \in Runners, KillRun(r) PROVE SchemaIInv'
  BY <1>4, KillRunIInv
<1> QED
  BY <1>1, <1>2, <1>3, <1>4 DEF SchemaNext

\* The inductive invariant of the schema runs, for any images, interleavings,
\* failures and crashes.
THEOREM SchemaInvariant == SchemaSpec => []SchemaIInv
<1>1. SchemaInit => SchemaIInv
  BY InitSchemaIInv
<1>2. SchemaIInv /\ [SchemaNext]_schemaVars => SchemaIInv'
  BY NextSchemaIInv
<1> QED
  BY <1>1, <1>2, PTL DEF SchemaSpec

\* A version in the tracking table has every object of the file that was
\* recorded for it, whatever runs were killed, failed or ran at the same time.
THEOREM RecordedComplete == SchemaSpec => []RecordedIsComplete
<1>1. SchemaIInv => RecordedIsComplete
  BY DEF SchemaIInv
<1> QED
  BY <1>1, SchemaInvariant, PTL

\* A run that is over has passed every file.
LEMMA SchemaIsThere == SchemaIInv => SuccessMeansSchema
<1> SUFFICES ASSUME SchemaIInv, NEW r \in Runners, pc[r] = "done", ~warned[r],
                    NEW v \in DOMAIN FilesOf[r]
             PROVE  Built(FilesOf[r][v])
  BY DEF SuccessMeansSchema
<1>1. file[r] \notin DOMAIN FilesOf[r] /\ file[r] \in Nat \ {0}
  BY DEF SchemaIInv, StatementsHold, SchemaTypeOK
<1>2. v < file[r]
  BY <1>1, FileFacts
<1> QED
  BY <1>2 DEF SchemaIInv, PassedHolds

\* Exit code 0 without a warning means that the schema of the image is there.
THEOREM SuccessIsSchema == SchemaSpec => []SuccessMeansSchema
<1>1. SchemaIInv => SuccessMeansSchema
  BY SchemaIsThere
<1> QED
  BY <1>1, SchemaInvariant, PTL

-----------------------------------------------------------------------------
(* The history of versions. *)

\* What a statement does to the server is one step of the history, or none.
LEMMA EffectIsHistory ==
  ASSUME SchemaIInv, NEW r \in Runners, Effect(r)
  PROVE  [History!Next]_<<{o \in Objects : Exists(o)}, recorded>>
<1>1. ServerOk /\ RunnerTypeOK /\ RunnerHolds(r)
  BY Parts
<1>2. ASSUME NEW o \in Objects, NEW f \in Contents \cup {Elsewhere}, CreateObject(o, f)
      PROVE  History!Create
  <2>1. f # None /\ recorded' = recorded
    BY <1>2, SchemaAssumption DEF CreateObject
  <2>2. {n \in Objects : Exists(n)}' = {n \in Objects : Exists(n)} \cup {o}
    BY <1>1, <1>2, <2>1 DEF CreateObject, ServerOk, Exists
  <2> QED
    BY <1>2, <2>1, <2>2 DEF CreateObject, History!Create
<1>3. CASE pc[r] = "track"
  <2>1. CreateObject(Tracking, Elsewhere)
    BY <1>3 DEF Effect
  <2> QED
    BY <1>2, <2>1, SchemaAssumption DEF History!Next
<1>4. CASE pc[r] = "statement"
  <2>1. CreateObject(Script[Current(r)][stmt[r]], Current(r))
    BY <1>4 DEF Effect
  <2> QED
    BY <1>1, <1>2, <1>4, <2>1, StatementType DEF History!Next
<1>5. CASE pc[r] = "record"
  <2>1. /\ recorded' = [recorded EXCEPT ![file[r]] = Current(r)] /\ made' = made
        /\ file[r] \in DOMAIN FilesOf[r] /\ Built(Current(r))
    BY <1>1, <1>5 DEF Effect, RunnerHolds
  <2>2. file[r] \in Versions /\ Current(r) \in Contents /\ Script[Current(r)] \in Seq(Objects)
    BY <2>1, FileFacts DEF Current
  <2>3. \A i \in DOMAIN Script[Current(r)] : Script[Current(r)][i] \in {o \in Objects : Exists(o)}
    BY <2>1, <2>2 DEF Built
  <2>4. \A u \in Versions : u < file[r] => recorded[u] # None
    BY <1>1, <2>1, FileFacts, VersionIsNat DEF RunnerHolds
  <2>5. {o \in Objects : Exists(o)}' = {o \in Objects : Exists(o)}
    BY <2>1 DEF Exists
  <2> QED
    BY <2>1, <2>2, <2>3, <2>4, <2>5 DEF History!Next, History!Record
<1>6. CASE pc[r] \notin {"track", "statement", "record"}
  BY <1>6 DEF Effect, serverVars, Exists
<1> QED
  BY <1>3, <1>4, <1>5, <1>6

LEMMA StepIsHistory ==
  ASSUME SchemaIInv, [SchemaNext]_schemaVars
  PROVE  [History!Next]_<<{o \in Objects : Exists(o)}, recorded>>
<1>1. CASE UNCHANGED serverVars
  BY <1>1 DEF serverVars, Exists
<1>2. CASE \E r \in Runners : Effect(r)
  BY <1>2, EffectIsHistory
<1>3. UNCHANGED schemaVars => UNCHANGED serverVars
  BY DEF schemaVars
<1>4. ASSUME NEW r \in Runners, StartRun(r) \/ RunStep(r) \/ KillRun(r)
      PROVE  UNCHANGED serverVars \/ Effect(r)
  BY <1>4 DEF StartRun, RunStep, KillRun, Execute, ExecuteError, StatementRejected,
     NextFile, SkipFile, LastFile
<1> QED
  BY <1>1, <1>2, <1>3, <1>4 DEF SchemaNext

\* The runs implement the history: objects after what they need, versions in
\* order, each when it is complete.
THEOREM SchemaHistoryKept == SchemaSpec => KeepsHistory
<1>1. SchemaInit => History!Init
  BY DEF SchemaInit, History!Init, NothingApplied
<1>2. SchemaIInv /\ [SchemaNext]_schemaVars
        => [History!Next]_<<{o \in Objects : Exists(o)}, recorded>>
  BY StepIsHistory
<1> QED
  BY <1>1, <1>2, SchemaInvariant, PTL DEF SchemaSpec, KeepsHistory, History!Spec

-----------------------------------------------------------------------------
(* No drift while all is calm. *)

Alone(r) == \A q \in Runners \ {r} : Idle(q)

\* No state in which something went wrong becomes calm again, and the steps of
\* a calm behaviour are those of the one run there is.
LEMMA CalmSteps ==
  ASSUME SchemaIInv, CalmIInv, NEW r \in Runners,
         StartRun(r) \/ RunStep(r) \/ KillRun(r), calm'
  PROVE  /\ calm
         /\ Alone(r)
         /\ StartRun(r) \/ Execute(r) \/ NextFile(r) \/ SkipFile(r) \/ LastFile(r)
<1>1. ~ExecuteError(r) /\ ~StatementRejected(r) /\ ~KillRun(r)
  BY DEF ExecuteError, StatementRejected, KillRun
<1>2. StartRun(r) \/ Execute(r) \/ NextFile(r) \/ SkipFile(r) \/ LastFile(r)
  BY <1>1 DEF RunStep
<1>3. CASE StartRun(r)
  BY <1>3 DEF StartRun, Alone
<1>4. CASE ~StartRun(r)
  <2>1. calm /\ ~Idle(r)
    BY <1>2, <1>4 DEF Execute, Advance, NextFile, SkipFile, LastFile, Idle
  <2> QED
    BY <1>2, <2>1 DEF CalmIInv, OneRun, Alone
<1> QED
  BY <1>2, <1>3, <1>4

\* The others do not come into it: what is left to show is about the run that
\* moves and about the server.
LEMMA CalmMove ==
  ASSUME SchemaIInv, NEW r \in Runners, Alone(r), OthersStay(r),
         pc'[r] = "file" \/ Applying(r)' =>
           \A v \in Versions : v >= file'[r] => applied'[r][v] = recorded'[v],
         Applying(r)' => recorded'[file'[r]] = None,
         UnrecordedUntouched'
  PROVE  CalmIInv'
<1>1. \A q \in Runners \ {r} : Idle(q)' /\ ~(pc'[q] = "file" \/ Applying(q)')
  BY DEF Alone, OthersStay, Idle, Applying
<1>2. OneRun'
  BY <1>1 DEF OneRun, Idle
<1>3. SnapshotIsCurrent'
  BY <1>1 DEF SnapshotIsCurrent, Applying
<1> QED
  BY <1>2, <1>3 DEF CalmIInv

\* Nothing happens on the server, and the run keeps what it has begun.
LEMMA CalmServer ==
  ASSUME UNCHANGED serverVars, UnrecordedUntouched, NoSilentDrift, calm,
         \A q \in Runners : Applying(q) => Applying(q)' /\ file'[q] = file[q]
  PROVE  UnrecordedUntouched' /\ NoSilentDrift'
<1>1. made' = made /\ recorded' = recorded
  BY DEF serverVars
<1>2. \A o \in Objects, v \in Versions : MadeBy(o, v) => MadeBy(o, v)'
  BY <1>1 DEF MadeBy, Current
<1>3. UnrecordedUntouched'
  <2> SUFFICES ASSUME NEW q \in Runners, NEW v \in DOMAIN FilesOf[q], recorded[v] = None,
                      NEW o \in ObjectsOf(FilesOf[q][v])
               PROVE  MadeBy(o, v)'
    BY <1>1 DEF UnrecordedUntouched
  <2>1. MadeBy(o, v)
    BY DEF UnrecordedUntouched
  <2>2. o \in Objects /\ v \in Versions
    BY FileFacts DEF ObjectsOf
  <2> QED
    BY <1>2, <2>1, <2>2
<1>4. NoSilentDrift'
  BY <1>1 DEF NoSilentDrift
<1> QED
  BY <1>3, <1>4

LEMMA CalmStartRun ==
  ASSUME SchemaIInv, calm, CalmIInv, NoSilentDrift, NEW r \in Runners, Alone(r), StartRun(r)
  PROVE  CalmIInv' /\ NoSilentDrift'
<1>1. RunnerTypeOK
  BY Parts
<1>2. OthersStay(r) /\ pc'[r] = "ping"
  BY <1>1, FreshHolds DEF StartRun, RunnerTypeOK
<1>3. \A q \in Runners : ~Applying(q)
  BY DEF StartRun, Alone, Applying, Idle
<1>4. UnrecordedUntouched' /\ NoSilentDrift'
  BY <1>3, CalmServer DEF StartRun, CalmIInv
<1> QED
  BY <1>2, <1>4, CalmMove DEF Applying

\* The run that moves is at a file, and its snapshot says what is recorded.
LEMMA CalmFiles ==
  ASSUME SchemaIInv, calm, CalmIInv, NoSilentDrift, NEW r \in Runners, Alone(r),
         NextFile(r) \/ SkipFile(r) \/ LastFile(r)
  PROVE  CalmIInv' /\ NoSilentDrift'
<1>1. RunnerTypeOK /\ ServerOk /\ pc[r] = "file"
  BY Parts DEF NextFile, SkipFile, LastFile
<1>2. OthersStay(r)
  BY <1>1 DEF RunnerTypeOK, OthersStay, NextFile, SkipFile, LastFile
<1>3. \A q \in Runners : ~Applying(q)
  BY <1>1 DEF Alone, Applying, Idle
<1>4. /\ UNCHANGED serverVars
      /\ applied' = applied /\ file'[r] \in {file[r], file[r] + 1}
  BY <1>1 DEF NextFile, SkipFile, LastFile, RunnerTypeOK
<1>5. UnrecordedUntouched' /\ NoSilentDrift'
  BY <1>3, <1>4, CalmServer DEF CalmIInv
<1>6. \A v \in Versions : v >= file'[r] => applied'[r][v] = recorded'[v]
  <2>1. \A v \in Versions : v >= file[r] => applied[r][v] = recorded[v]
    BY <1>1 DEF CalmIInv, SnapshotIsCurrent
  <2>2. recorded' = recorded /\ file[r] \in Nat
    BY <1>1, <1>4 DEF serverVars, RunnerTypeOK
  <2> QED
    BY <1>4, <2>1, <2>2, VersionIsNat
<1>7. Applying(r)' => recorded'[file'[r]] = None
  <2> SUFFICES ASSUME Applying(r)'
               PROVE  recorded'[file'[r]] = None
    OBVIOUS
  <2>1. NextFile(r)
    BY <1>1 DEF Applying, SkipFile, LastFile, RunnerTypeOK
  <2>2. applied[r][file[r]] = None /\ file' = file /\ file[r] \in Versions
    BY <2>1, FileFacts DEF NextFile
  <2>3. file[r] \in Nat
    BY <1>1 DEF RunnerTypeOK
  <2> QED
    BY <1>4, <1>6, <2>2, <2>3
<1> QED
  BY <1>2, <1>5, <1>6, <1>7, CalmMove

\* A statement of the run creates an object of its version; it was not there, so
\* no version that is recorded has it.
LEMMA CalmCreates ==
  ASSUME SchemaIInv, calm, CalmIInv, NoSilentDrift, NEW r \in Runners,
         NEW o \in Objects, NEW f \in Contents \cup {Elsewhere}, CreateObject(o, f),
         \/ f = Elsewhere
         \/ /\ Applying(r) /\ file[r] \in DOMAIN FilesOf[r]
            /\ f = Current(r) /\ o \in ObjectsOf(Current(r)),
         \A q \in Runners : Applying(q) => Applying(q)' /\ file'[q] = file[q]
  PROVE  UnrecordedUntouched' /\ NoSilentDrift'
<1>1. /\ made \in [Objects -> Contents \cup {None, Elsewhere}] /\ RecordedIsComplete
      /\ recorded \in [Versions -> Contents \cup {None}]
  BY Parts DEF ServerOk
<1>2. /\ recorded' = recorded
      /\ \A p \in Objects : made'[p] # made[p] => p = o /\ made[p] = None /\ made'[p] = f
  BY <1>1 DEF CreateObject
<1>3. UnrecordedUntouched'
  <2> SUFFICES ASSUME NEW q \in Runners, NEW v \in DOMAIN FilesOf[q], recorded[v] = None,
                      NEW p \in ObjectsOf(FilesOf[q][v])
               PROVE  MadeBy(p, v)'
    BY <1>2 DEF UnrecordedUntouched
  <2>1. MadeBy(p, v) /\ p \in Objects
    <3>1. MadeBy(p, v)
      BY DEF CalmIInv, UnrecordedUntouched
    <3>2. p \in Objects
      BY FileFacts DEF ObjectsOf
    <3> QED
      BY <3>1, <3>2
  <2>2. CASE made'[p] = made[p]
    BY <2>1, <2>2 DEF MadeBy, Current
  <2>3. CASE made'[p] # made[p] /\ f = Elsewhere
    BY <1>2, <2>1, <2>3 DEF MadeBy
  <2>4. CASE made'[p] # made[p] /\ f # Elsewhere
    <3>1. made'[p] = Current(r) /\ p \in ObjectsOf(FilesOf[r][file[r]])
          /\ Applying(r) /\ file[r] \in DOMAIN FilesOf[r]
      BY <1>2, <2>1, <2>4 DEF Current
    <3>2. file[r] = v
      BY <3>1, VersionsApart
    <3> QED
      BY <3>1, <3>2 DEF MadeBy, Current
  <2> QED
    BY <2>2, <2>3, <2>4
<1>4. NoSilentDrift'
  <2> SUFFICES ASSUME NEW v \in Versions, recorded[v] # None, NEW i \in DOMAIN Script[recorded[v]]
               PROVE  made'[Script[recorded[v]][i]] \in {recorded[v], Elsewhere}
    BY <1>2 DEF NoSilentDrift
  <2>1. recorded[v] \in Contents /\ Script[recorded[v]] \in Seq(Objects)
    BY <1>1, SchemaAssumption
  <2>2. Script[recorded[v]][i] \in Objects /\ made[Script[recorded[v]][i]] # None
    BY <1>1, <2>1 DEF RecordedIsComplete, Built, Exists
  <2>3. made[Script[recorded[v]][i]] \in {recorded[v], Elsewhere}
    BY DEF NoSilentDrift
  <2> QED
    BY <1>2, <2>2, <2>3
<1> QED
  BY <1>3, <1>4

\* The version is recorded: its objects are there, and who made them was the run.
LEMMA CalmRecords ==
  ASSUME SchemaIInv, calm, CalmIInv, NoSilentDrift, NEW r \in Runners, Alone(r),
         pc[r] = "record", Effect(r)
  PROVE  UnrecordedUntouched' /\ NoSilentDrift'
<1>1. /\ recorded' = [recorded EXCEPT ![file[r]] = Current(r)] /\ made' = made
      /\ file[r] \in DOMAIN FilesOf[r] /\ Built(Current(r)) /\ recorded[file[r]] = None
  BY Parts DEF Effect, RunnerHolds, CalmIInv, SnapshotIsCurrent, Applying
<1>2. file[r] \in Versions /\ Current(r) \in Contents /\ Current(r) # None
  BY <1>1, FileFacts, SchemaAssumption DEF Current
<1>3. recorded \in [Versions -> Contents \cup {None}]
  BY Parts DEF ServerOk
<1>4. \A q \in Runners : Applying(q) => q = r
  BY DEF Alone, Applying, Idle
<1>5. UnrecordedUntouched'
  <2> SUFFICES ASSUME NEW q \in Runners, NEW v \in DOMAIN FilesOf[q], recorded'[v] = None,
                      NEW o \in ObjectsOf(FilesOf[q][v])
               PROVE  made'[o] \in {None, Elsewhere}
    BY DEF UnrecordedUntouched, MadeBy
  <2>1. v \in Versions
    BY FileFacts
  <2>2. v # file[r] /\ recorded[v] = None
    BY <1>1, <1>2, <1>3, <2>1
  <2>3. MadeBy(o, v)
    BY <2>2 DEF CalmIInv, UnrecordedUntouched
  <2> QED
    BY <1>1, <1>4, <2>2, <2>3 DEF MadeBy
<1>6. NoSilentDrift'
  <2> SUFFICES ASSUME NEW v \in Versions, recorded'[v] # None, NEW i \in DOMAIN Script[recorded'[v]]
               PROVE  made'[Script[recorded'[v]][i]] \in {recorded'[v], Elsewhere}
    BY DEF NoSilentDrift
  <2>1. CASE v = file[r]
    <3>1. recorded'[v] = Current(r)
      BY <1>1, <1>2, <1>3, <2>1
    <3>2. Script[Current(r)][i] \in ObjectsOf(FilesOf[r][file[r]])
      BY <3>1 DEF ObjectsOf, Current
    <3>3. MadeBy(Script[Current(r)][i], file[r])
      BY <1>1, <3>2 DEF CalmIInv, UnrecordedUntouched
    <3>4. made[Script[Current(r)][i]] # None
      BY <1>1, <3>1 DEF Built, Exists
    <3> QED
      BY <1>1, <1>4, <3>1, <3>3, <3>4 DEF MadeBy
  <2>2. CASE v # file[r]
    <3>1. recorded'[v] = recorded[v]
      BY <1>1, <1>3, <2>2
    <3> QED
      BY <1>1, <3>1 DEF NoSilentDrift
  <2> QED
    BY <2>1, <2>2
<1> QED
  BY <1>5, <1>6

LEMMA CalmExecute ==
  ASSUME SchemaIInv, calm, CalmIInv, NoSilentDrift, NEW r \in Runners, Alone(r), Execute(r)
  PROVE  CalmIInv' /\ NoSilentDrift'
<1>1. ServerOk /\ RunnerTypeOK /\ RunnerHolds(r) /\ Effect(r) /\ Advance(r)
  BY Parts DEF Execute
<1>2. OthersStay(r)
  BY AdvanceHolds DEF Execute
<1>3. \A q \in Runners \ {r} : ~Applying(q)
  BY DEF Alone, Applying, Idle
<1>4. CASE pc[r] \in {"ping", "track", "report"}
  <2>1. ~Applying(r) /\ pc'[r] \in {"track", "read", "done"}
    BY <1>1, <1>4 DEF Applying, Advance, RunnerTypeOK
  <2>2. UnrecordedUntouched' /\ NoSilentDrift'
    <3>1. CASE pc[r] = "track"
      <4>1. CreateObject(Tracking, Elsewhere)
        BY <1>1, <3>1 DEF Effect
      <4> QED
        BY <1>3, <2>1, <4>1, CalmCreates, SchemaAssumption
    <3>2. CASE pc[r] # "track"
      <4>1. UNCHANGED serverVars
        BY <1>1, <1>4, <3>2 DEF Effect
      <4> QED
        BY <1>3, <2>1, <4>1, CalmServer DEF CalmIInv
    <3> QED
      BY <3>1, <3>2
  <2> QED
    BY <1>2, <2>1, <2>2, CalmMove DEF Applying
<1>5. CASE pc[r] = "read"
  <2>1. /\ pc' = [pc EXCEPT ![r] = "file"] /\ applied' = [applied EXCEPT ![r] = recorded]
        /\ UNCHANGED serverVars
    BY <1>1, <1>5 DEF Advance, Effect
  <2>2. pc'[r] = "file" /\ applied'[r] = recorded /\ recorded' = recorded /\ ~Applying(r)
    BY <1>1, <1>5, <2>1 DEF RunnerTypeOK, serverVars, Applying
  <2>3. UnrecordedUntouched' /\ NoSilentDrift'
    BY <1>3, <2>1, <2>2, CalmServer DEF CalmIInv
  <2> QED
    BY <1>2, <2>2, <2>3, CalmMove DEF Applying
<1>6. CASE pc[r] = "statement"
  <2>1. CreateObject(Script[Current(r)][stmt[r]], Current(r))
    BY <1>1, <1>6 DEF Effect
  <2>2. /\ file[r] \in DOMAIN FilesOf[r] /\ Current(r) \in Contents
        /\ Script[Current(r)][stmt[r]] \in Objects
        /\ Script[Current(r)][stmt[r]] \in ObjectsOf(Current(r))
    BY <1>1, <1>6, StatementType DEF RunnerHolds, ObjectsOf
  <2>3. UNCHANGED <<applied, file>> /\ pc'[r] \in {"statement", "record"}
    BY <1>1, <1>6 DEF Advance, RunnerTypeOK
  <2>4. Applying(r) /\ Applying(r)' /\ recorded' = recorded
    BY <1>6, <2>1, <2>3 DEF Applying, CreateObject
  <2>5. UnrecordedUntouched' /\ NoSilentDrift'
    BY <1>3, <2>1, <2>2, <2>3, <2>4, CalmCreates
  <2>6. /\ \A v \in Versions : v >= file[r] => applied[r][v] = recorded[v]
        /\ recorded[file[r]] = None
    BY <2>4 DEF CalmIInv, SnapshotIsCurrent
  <2> QED
    BY <1>2, <2>3, <2>4, <2>5, <2>6, CalmMove
<1>7. CASE pc[r] = "record"
  <2>1. UnrecordedUntouched' /\ NoSilentDrift'
    BY <1>1, <1>7, CalmRecords
  <2>2. /\ pc'[r] = "file" /\ file'[r] = file[r] + 1 /\ applied' = applied
        /\ recorded' = [recorded EXCEPT ![file[r]] = Current(r)]
    BY <1>1, <1>7 DEF Advance, Effect, RunnerTypeOK
  <2>3. \A v \in Versions : v >= file[r] => applied[r][v] = recorded[v]
    BY <1>7 DEF CalmIInv, SnapshotIsCurrent, Applying
  <2>4. \A v \in Versions : v >= file'[r] => applied'[r][v] = recorded'[v]
    <3> SUFFICES ASSUME NEW v \in Versions, v >= file[r] + 1
                 PROVE  applied[r][v] = recorded'[v]
      BY <2>2
    <3>1. v >= file[r] /\ v # file[r]
      BY <1>1, VersionIsNat DEF RunnerTypeOK
    <3> QED
      BY <1>1, <2>2, <2>3, <3>1 DEF ServerOk
  <2> QED
    BY <1>2, <2>1, <2>2, <2>4, CalmMove DEF Applying
<1> QED
  BY <1>1, <1>4, <1>5, <1>6, <1>7 DEF Advance

LEMMA NextCalmIInv ==
  ASSUME SchemaIInv, CalmIInv, NoSilentDrift, [SchemaNext]_schemaVars
  PROVE  CalmIInv' /\ NoSilentDrift'
<1>1. CASE UNCHANGED schemaVars
  <2>1. CalmIInv'
    BY <1>1 DEF schemaVars, serverVars, runnerVars, CalmIInv, OneRun, SnapshotIsCurrent,
       UnrecordedUntouched, MadeBy, Applying, Idle, Current
  <2>2. NoSilentDrift'
    BY <1>1 DEF schemaVars, serverVars, NoSilentDrift
  <2> QED
    BY <2>1, <2>2
<1>2. CASE ~calm'
  BY <1>2 DEF CalmIInv, NoSilentDrift
<1>3. ASSUME NEW r \in Runners, StartRun(r) \/ RunStep(r) \/ KillRun(r), calm'
      PROVE  CalmIInv' /\ NoSilentDrift'
  <2>1. /\ calm /\ Alone(r)
        /\ StartRun(r) \/ Execute(r) \/ NextFile(r) \/ SkipFile(r) \/ LastFile(r)
    BY <1>3, CalmSteps
  <2> QED
    BY <2>1, CalmStartRun, CalmExecute, CalmFiles
<1> QED
  BY <1>1, <1>2, <1>3 DEF SchemaNext

LEMMA InitCalmIInv == SchemaInit => CalmIInv /\ NoSilentDrift
<1> SUFFICES ASSUME SchemaInit PROVE CalmIInv /\ NoSilentDrift
  OBVIOUS
<1>1. /\ \A r \in Runners : Idle(r) /\ ~Applying(r) /\ pc[r] # "file"
      /\ \A v \in Versions : recorded[v] = None
      /\ \A o \in Objects : made[o] \in {None, Elsewhere}
  BY DEF SchemaInit, NothingApplied, Idle, Applying
<1>2. UnrecordedUntouched
  <2> SUFFICES ASSUME NEW q \in Runners, NEW v \in DOMAIN FilesOf[q],
                      NEW o \in ObjectsOf(FilesOf[q][v])
               PROVE  MadeBy(o, v)
    BY DEF UnrecordedUntouched
  <2>1. o \in Objects
    BY FileFacts DEF ObjectsOf
  <2> QED
    BY <1>1, <2>1 DEF MadeBy
<1>3. OneRun /\ SnapshotIsCurrent /\ NoSilentDrift
  BY <1>1 DEF OneRun, SnapshotIsCurrent, NoSilentDrift
<1> QED
  BY <1>2, <1>3 DEF CalmIInv

\* What makes drift impossible while all is calm: the one run there is has read
\* what is recorded, and the objects of an unrecorded version are its own.
THEOREM CalmInvariant == SchemaSpec => [](CalmIInv /\ NoSilentDrift)
<1> DEFINE Inv == SchemaIInv /\ CalmIInv /\ NoSilentDrift
<1>1. SchemaInit => Inv
  BY InitSchemaIInv, InitCalmIInv
<1>2. Inv /\ [SchemaNext]_schemaVars => Inv'
  BY NextSchemaIInv, NextCalmIInv
<1> QED
  BY <1>1, <1>2, PTL DEF SchemaSpec

\* Without failures and without runs at the same time, no recorded file's object
\* is as another file defined it.
THEOREM NoDrift == SchemaSpec => []NoSilentDrift
BY CalmInvariant, PTL
=============================================================================
