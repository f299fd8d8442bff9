\* Two connections, a handler that broadcasts, a buffer of one event.
SPECIFICATION FairSpec
CONSTANTS
  c1 = c1
  c2 = c2
  b1 = b1
  none = none
  Clients = {c1, c2}
  Broadcasters = {b1}
  Capacity = 1
  MaxEvents = 2
  NoClient = none
INVARIANTS NothingSkipped RegistryIsExact
PROPERTIES BroadcastEnds ShutdownLetsGo
CHECK_DEADLOCK FALSE
