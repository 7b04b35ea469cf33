\* One panel, one kernel; from a limit just reached or a month just over, one more
\* change of the standing and one failure, two workers at a time.
CONSTANTS
  Panels = {"panel"}
  Kernels = {"kernel"}
  MaxAtWork = 2
  MaxChanges = 1
  MaxFaults = 1
SPECIFICATION FairBansSpec
INVARIANTS
  BansTypeOK
  ResetOnce
PROPERTIES
  CutOff
  Restored
