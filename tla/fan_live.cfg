SPECIFICATION FairSpec
CONSTANTS
  c1 = c1
  c2 = c2
  c3 = c3
  Clients = {c1, c2}
  NoClient = NoClient
  Mid <- MidTwo
  MaxModule = 2
  ModuleNumber = 2
  MaxMsgs = 2
  Temps = {95}
  AttachPrios = {0, 4}
  Faults = {"sigint", "crash"}
  Timers = {}
  t1 = t1
INVARIANTS CountExact DescriptorsOwned
PROPERTIES UrgentServed ClientTerminates
CHECK_DEADLOCK FALSE
