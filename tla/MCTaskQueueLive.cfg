\* A synchronisation and a delivery on one worker, every failure; no handler is fair.
CONSTANTS
  Tasks = {"traffic", "delivery"}
  Keys = {k1}
  Workers = {w1}
  Kind <- MCMixed
  MaxAttempts <- MCMaxAttempts
  Backoff <- MCBackoff
  ChanCap = 1
  Retries = 2
  JobTimeout = 2
  StaleItem = 3
  StaleTask = 4
  MaxReleases = 1
  LockDelay = 1
  SweeperSeesQueue = TRUE
  MaxCrashes = 1
  MaxRetries = 1
  MaxLost = 0
SPECIFICATION FairQueueSpec
PROPERTIES
  EveryTaskEnds
  WorkersComeBack
  TablesAsSpecified
