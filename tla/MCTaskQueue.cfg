\* One synchronisation of two nodes on two workers, every failure.
CONSTANTS
  Tasks = {t1}
  Keys = {k1, k2}
  Workers = {w1, w2}
  Kind <- MCAllTraffic
  MaxAttempts <- MCMaxAttempts
  Backoff <- MCBackoff
  ChanCap = 1
  Retries = 2
  JobTimeout = 3
  StaleItem = 4
  StaleTask = 6
  MaxReleases = 2
  LockDelay = 1
  SweeperSeesQueue = FALSE
  MaxCrashes = 1
  MaxRetries = 2
  MaxLost = 1
SPECIFICATION QueueSpec
SYMMETRY MCSymmetry
INVARIANTS
  QueueTypeOK
  CountersExact
  OpenItemHasJob
  TerminalIsSettled
  OpenTaskHasWork
  AttemptsWithinBudget
PROPERTIES
  SuccessSticks
  ReopensWhole
  LifecycleSpec
