SPECIFICATION FairSpec
CONSTANTS
  v1 = v1
  v2 = v2
  v3 = v3
  s1 = s1
  d1 = d1
  n1 = n1
  t1 = t1
  t2 = t2
  Rows <- MCRows
  Trips <- MCTrips
  Files <- BothFiles
  Kind <- MCKind
  TripOf <- MCTripOf
  QueueMax = 2
  MaxAttempts = 2
  Faults <- AllFaults
  MaxFaults = 2
INVARIANTS RowsAccounted CleanExit ProducerIInv
PROPERTIES RunEnds RunDescends FileIngested
