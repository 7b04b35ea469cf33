\* The sweeper runs on a service that does not know the queue: the wiring of main.go.
CONSTANTS
  Tasks = {t1}
  Keys = {k1, k2}
  Workers = {w1}
  Kind <- MCAllTraffic
  MaxAttempts <- MCMaxAttempts
  Backoff <- MCBackoff
  ChanCap = 1
  Retries = 2
  JobTimeout = 2
  StaleItem = 3
  StaleTask = 4
  MaxReleases = 1
  LockDelay = 1
  SweeperSeesQueue = FALSE
  MaxCrashes = 0
  MaxRetries = 1
  MaxLost = 0
SPECIFICATION QueueSpec
SYMMETRY MCSymmetry
PROPERTIES SweepSparesHeldItems
