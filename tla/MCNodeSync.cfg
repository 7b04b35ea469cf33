\* Two users, two changes of either kind, and any one fault.
CONSTANTS
  Users = {u1, u2}
  u1 = u1
  u2 = u2
  MaxDiff = 1
  SameSecond = TRUE
  Outlives = FALSE
  MaxChanges = 2
  MaxBumps = 5
  MaxFaults = 1
SPECIFICATION FairSyncSpec
INVARIANTS
  SyncTypeOK
  EtagTellsContent
  BumpsAreEarned
PROPERTIES
  FileCatchesUp
  StructureRuns
