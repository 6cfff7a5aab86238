---------------------------- MODULE MCTripConsumer ----------------------------
(* Small instances of TripConsumer for TLC. *)
EXTENDS TripConsumer

CONSTANTS c1, c2, p1, p2, t1, t2, t3

TwoConsumers  == {c1, c2}
OneConsumer   == {c1}
OnePartition  == {p1}
TwoPartitions == {p1, p2}
OneTrip       == {t1}
TwoTrips      == {t1, t2}
ThreeTrips    == {t1, t2, t3}
PoisonTrip    == {t3}
NoTrips       == {}

\* Every trip of the one-partition instances has the same key partition.
SameKey  == [t \in Trips |-> p1]
\* In the two-partition instances the poison row has a partition of its own.
PoisonKey == [t \in Trips |-> IF t \in Poison THEN p2 ELSE p1]

\* Every kind of fault, or graceful stops only; every kind but a fence.
AnyOrGraceful == {[kinds |-> FaultKinds, left |-> 3], [kinds |-> {"sigterm"}, left |-> 2]}
NoFenceOnce   == {[kinds |-> FaultKinds \ {"fence"}, left |-> 1]}
NoFaults      == {[kinds |-> {}, left |-> 0]}

\* The consumers run the same program.
ConsumerSymmetry == Permutations(Consumers)
\* ... and t1 and t2 differ in nothing.
Symmetry == ConsumerSymmetry \cup Permutations({t1, t2})

\* What the views have counted and what was traded are histories: no step looks
\* at them, and nothing is said of them but for graceful behaviours.
HistoryIfGraceful ==
  <<kafkaVars, stored, member, assigned, position, revoking, pc, batchVars, shutdown, draining, faults,
    IF faults.kinds \subseteq {"sigterm"} THEN <<viewRows, traded>> ELSE <<>> >>
=============================================================================
