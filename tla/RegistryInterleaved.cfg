SPECIFICATION FairSpec
CONSTANTS
  None = None
  c1 = c1
  c2 = c2
  c3 = c3
  c4 = c4
  uds = uds
  ws = ws
  p1 = p1
  p2 = p2
  d1 = d1
  d2 = d2
  a1 = a1
  a2 = a2
  Plugins = {p1, p2}
  Conns = {c1, c2}
  Actions = {a1}
  Devices = {d1}
  Manifest <- AllDeclareA1
  DeviceOf <- OneDevice
  Router = router
  DiscLoops = {uds, ws}
  LoopOf <- TwoLoops
  Stoppers = {stopper}
  Bridges = {}
  BridgeConns = {}
  Serial = FALSE
  InboxCap = 2
  MaxSends = 1
  MaxStops = 1
INVARIANTS
  TypeOK
  OwnershipConsistent
PROPERTIES
  NoTakeover
  RejectOnlyIfLive
  DisconnectFreesId
