\* One command, two connections, a long poll, and any two faults, under fairness.
CONSTANTS
  Commands = {1}
  Conns = {1, 2}
  Polls = {"poll"}
  BatchSize = 5
  MaxFaults = 2
SPECIFICATION FairCommandsSpec
INVARIANTS
  CommandsTypeOK
  HeldOnce
  RegistryHoldsLink
PROPERTIES
  ChannelSpec
  PendingIsTaken
  TakenIsSettled
  FlagSettles
CHECK_DEADLOCK FALSE
