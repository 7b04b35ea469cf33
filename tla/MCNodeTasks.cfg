CONSTANTS
  Tasks = {"init", "sync", "cleanup"}
  Users = {1, 2}
  NodeKey = 0
  Keys = {0, 1, 2}
  MaxAttempts <- MCMaxAttempts
  StaleTask = 1
  StaleItem = 1
  Workers = {"w1", "w2"}
  BatchSize = 1
  Leftover = {1}
  Wishes = {TRUE}
  MaxEvents = 2
SPECIFICATION NodeTasksSpec
INVARIANTS
  SuccessMeansServed
  CleanedUp
  LastWish
CHECK_DEADLOCK FALSE
