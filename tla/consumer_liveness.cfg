\* Liveness: two consumers that start, stop and rebalance, two trips and junk, one
\* fault of any kind but a fence.
SPECIFICATION FairSpec
CONSTANTS
  c1 = c1
  c2 = c2
  p1 = p1
  p2 = p2
  t1 = t1
  t2 = t2
  t3 = t3
  Consumers <- TwoConsumers
  Partitions <- OnePartition
  Trips <- TwoTrips
  Poison <- NoTrips
  Junk = Junk
  KeyPartition <- SameKey
  BatchSize = 2
  MaxAttempts = 2
  MaxLog = 2
  MaxRows = 3
  FaultBudgets <- NoFenceOnce
VIEW HistoryIfGraceful
PROPERTIES EventuallyStored ShutdownCompletes ShutdownDescends
