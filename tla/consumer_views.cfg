\* A second consumer is started while the first one runs; every trip is published
\* once, and no fault strikes.
SPECIFICATION Spec
CONSTANTS
  c1 = c1
  c2 = c2
  p1 = p1
  p2 = p2
  t1 = t1
  t2 = t2
  t3 = t3
  Consumers <- TwoConsumers
  Partitions <- OnePartition
  Trips <- OneTrip
  Poison <- NoTrips
  Junk = Junk
  KeyPartition <- SameKey
  BatchSize = 2
  MaxAttempts = 2
  MaxLog = 1
  MaxRows = 2
  FaultBudgets <- NoFaults
INVARIANT ViewsDeduplicated
