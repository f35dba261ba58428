SPECIFICATION FairSpec
CONSTANTS
  c1 = c1
  c2 = c2
  c3 = c3
  Clients = {c1, c2}
  NoClient = NoClient
  Mid <- MidTwo
  MaxModule = 2
  ModuleNumber = 2
  MaxMsgs = 1
  Temps = {30}
  AttachPrios = {4}
  Faults = {"crash"}
  Timers = {t1}
  t1 = t1
PROPERTIES HeartbeatReaches
