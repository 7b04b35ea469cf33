\* A node of either kind; the round and the button, or two connections.
CONSTANTS
  Pollers = {"round", "button"}
  Cached = {"round"}
  Conns = {"conn1", "conn2"}
  Num = 3
  Den = 2
  MaxBytes = 3
  MaxResets = 1
  MaxFaults = 1
SPECIFICATION FairTrafficSpec
INVARIANTS
  TrafficTypeOK
  BilledOnce
PROPERTIES
  PolledIsSettled
