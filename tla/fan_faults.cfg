SPECIFICATION Spec
CONSTANTS
  c1 = c1
  c2 = c2
  c3 = c3
  Clients = {c1, c2}
  NoClient = NoClient
  Mid <- MidOne
  MaxModule = 2
  ModuleNumber = 1
  MaxMsgs = 2
  Temps = {95}
  AttachPrios = {4}
  Faults = {"sigint", "crash", "eintr", "badprio", "stop"}
  Timers = {t1}
  t1 = t1
INVARIANTS TypeOK DetachLast QueueOwned CountNeverExceeds
CHECK_DEADLOCK FALSE
