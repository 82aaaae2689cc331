SPECIFICATION Spec
CONSTANTS
  None = None
  c1 = c1
  c2 = c2
  c3 = c3
  c4 = c4
  uds = uds
  ws = ws
  p1 = p1
  p2 = p2
  d1 = d1
  d2 = d2
  a1 = a1
  a2 = a2
  Plugins = {p1, p2}
  Conns = {c1, c2, c4}
  Actions = {a1, a2}
  Devices = {d1, d2}
  Manifest <- MixedManifest
  DeviceOf <- TwoDevices
  Router = router
  DiscLoops = {uds, ws}
  LoopOf <- TwoLoops
  Stoppers = {}
  Bridges = {bridge}
  BridgeConns = {c4}
  Serial = TRUE
  InboxCap = 1
  MaxSends = 2
  MaxStops = 1
INVARIANTS
  IndexExact
  DeviceExact
