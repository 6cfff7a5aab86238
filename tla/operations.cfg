SPECIFICATION FairSpec
CONSTANTS
  q1 = q1
  q2 = q2
  Partitions <- MCPartitions
  MaxMessages = 2
  MaxExpired = 1
  MaxFaults = 1
  Requests <- MCRequests
  None = None
  NoClient = NoClient
  Nobody = Nobody
  MaxPings = 2
  MaxOutages = 1
  Scenes <- Apart
INVARIANTS GaugeBracketed ClosedWhenDone ThreadOutlives AnswerTruthful OperationsIInv
PROPERTIES LagReported ProcessEnds RequestsAnswered
