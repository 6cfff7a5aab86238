\* Two processes of four: runs of the same or of different images, producers.
\* Producers that are ready and a consumer that has inserted everything may stop.
SPECIFICATION FairSpec
CONSTANTS
  r1 = r1
  r2 = r2
  r3 = r3
  m1 = m1
  m2 = m2
  m2edited = m2edited
  m3 = m3
  db = db
  tracking = tracking
  trips = trips
  target = target
  view = view
  newview = newview
  lateview = lateview
  main = main
  dlq = dlq
  t1 = t1
  Runners <- MCRunners
  Producers <- MCRunners
  FilesOf <- MCFilesOf
  Contents <- MCContents
  Script <- MCScript
  Objects <- MCObjects
  Needs <- MCNeeds
  Tracking = tracking
  None = None
  Elsewhere = Elsewhere
  MaxAttempts = 2
  MaxFaults = 2
  Topics <- MCTopics
  DefaultTopics <- MCDefaultTopics
  MaxTopicFaults = 1
  Roles <- MCRoles
  Trips <- MCTrips
  TripsTopic = main
  TripsTable = trips
  Views <- MCViews
INVARIANTS RecordedIsComplete SuccessMeansSchema NoSilentDrift TopicsReady RaceHarmless BootstrapCountsAll DeploymentIInv
PROPERTIES KeepsHistory RecordedViewsFed MigrationsComplete
CHECK_DEADLOCK FALSE
