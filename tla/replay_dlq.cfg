SPECIFICATION FairSpec
CONSTANTS
  Null = Null
  Text = Text
  Unknown = Unknown
  VendorA = VendorA
  b1 = b1
  VendorMap <- MCVendorMap
  MinDate = 1
  MaxDuration = 4
  Tolerance = 1
  MaxPassengers = 2
  MaxUInt8 = 4
  MaxUInt16 = 3
  MaxUInt32 = 4
  MaxAmount = 3
  RawRows <- MCRawRows
  Batches <- OneBatch
  SameDirs <- Either
  MaxRows = 2
  MinNow = 2
  MaxNow = 3
  MaxRetry = 1
  Faults <- AllFaults
  MaxFaults = 1
INVARIANTS ReplayIInv OwnIdentity Answered PoisonIsUnbounded
PROPERTIES StaysValid ReplayDescends ReplayEnds
