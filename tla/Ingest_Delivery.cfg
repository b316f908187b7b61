SPECIFICATION FairSpec
CONSTANTS
  w1 = w1
  w2 = w2
  None = None
  Workers = {w1, w2}
  Consumers <- MCConsumers
  Families <- MCFamilies
  MaxEvents = 4
  MaxRuns = 2
  MaxAttempts = 2
  MaxFaults = 2
INVARIANTS
  TypeOK
  HandledOnce
  PublishedMeansHandled
  OneLoader
  FactsAnnounced
PROPERTIES
  Settles
  RunsEnd
CHECK_DEADLOCK FALSE
