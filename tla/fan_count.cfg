SPECIFICATION Spec
CONSTANTS
  c1 = c1
  c2 = c2
  c3 = c3
  Clients = {c1, c2, c3}
  NoClient = NoClient
  Mid <- MidRestart
  MaxModule = 2
  ModuleNumber = 2
  MaxMsgs = 2
  Temps = {95}
  AttachPrios = {4}
  Faults = {"sigint"}
  Timers = {}
  t1 = t1
INVARIANTS ZeroMeansNone
CHECK_DEADLOCK FALSE
