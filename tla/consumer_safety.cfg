\* Two consumers, two partitions, up to three faults of any kind or two graceful
\* stops; one row that cannot be inserted, alone on its partition.
SPECIFICATION Spec
CONSTANTS
  c1 = c1
  c2 = c2
  p1 = p1
  p2 = p2
  t1 = t1
  t2 = t2
  t3 = t3
  Consumers <- TwoConsumers
  Partitions <- TwoPartitions
  Trips <- ThreeTrips
  Poison <- PoisonTrip
  Junk = Junk
  KeyPartition <- PoisonKey
  BatchSize = 2
  MaxAttempts = 2
  MaxLog = 2
  MaxRows = 3
  FaultBudgets <- AnyOrGraceful
VIEW HistoryIfGraceful
SYMMETRY Symmetry
INVARIANTS NoLoss ReadAheadHeld ConsumerIInv TwiceOnlyIfTraded
PROPERTIES CommittedMonotonic DeliversTrips

