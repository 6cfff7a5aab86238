----------------------------- MODULE SchemaHistory -----------------------------
(***************************************************************************)
(* What taxi.schema_migrations promises: an object is created after what   *)
(* it refers to, and a version is recorded when every object of the file   *)
(* that is recorded for it exists and every earlier version is recorded.   *)
(* Nothing is said of processes, attempts, crashes or re-runs.             *)
(***************************************************************************)
EXTENDS Naturals, Sequences

CONSTANTS Objects, Contents, Versions, Script, Needs, None

VARIABLES exists, recorded

Init ==
  /\ exists \in SUBSET Objects
  /\ recorded = [v \in Versions |-> None]

Create ==
  /\ \E o \in Objects : Needs[o] \subseteq exists /\ exists' = exists \cup {o}
  /\ UNCHANGED recorded

Record ==
  /\ \E v \in Versions, f \in Contents :
       /\ \A i \in DOMAIN Script[f] : Script[f][i] \in exists
       /\ \A u \in Versions : u < v => recorded[u] # None
       /\ recorded' = [recorded EXCEPT ![v] = f]
  /\ UNCHANGED exists

Next == Create \/ Record

Spec == Init /\ [][Next]_<<exists, recorded>>
=============================================================================
