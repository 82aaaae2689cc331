SPECIFICATION FairSpec
CONSTANTS
  None = None
  Callers = {c1}
  Providers = {p1}
  Hosts = {h1}
  MuxDevices = {p1}
  ActionIds = {a1}
  Failers = {f1}
  Cap = 1
  IdleSweep = TRUE
  MaxReqs = 2
INVARIANTS
  TypeOK
  OneFinalResponse
  SessionNotAnswered
  NoLostRequest
PROPERTIES
  EveryRequestAnswered
  DepartureEndsRequests
