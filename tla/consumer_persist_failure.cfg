\* One consumer, two partitions; the row on one of them cannot be inserted.
SPECIFICATION FairSpec
CONSTANTS
  c1 = c1
  c2 = c2
  p1 = p1
  p2 = p2
  t1 = t1
  t2 = t2
  t3 = t3
  Consumers <- OneConsumer
  Partitions <- TwoPartitions
  Trips <- TwoTrips
  Poison <- OneTrip
  Junk = Junk
  KeyPartition <- PoisonKey
  BatchSize = 2
  MaxAttempts = 2
  MaxLog = 2
  MaxRows = 3
  FaultBudgets <- NoFaults
PROPERTY PersistFailureIsIsolated
