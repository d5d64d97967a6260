SPECIFICATION FairSpec
CONSTANTS
  k1 = k1  k2 = k2  p1 = p1
  Key = {k1, k2}
  Port = {p1}
  Daemon = {d1, d2}
  Conn = {x1}
  Null = Null
  Unbound = Unbound
  Module <- Modules
  Needs <- NeedsOf
  Preloads <- PreloadsOf
  Broken = {"broken"}
  Factory = {"line", "mq", "half"}
  Settings <- Files
  MaxQueue = 2
CHECK_DEADLOCK FALSE
INVARIANTS TypeOK ModprobeRight OwnConfig RoutedOnce RoutesCurrent
PROPERTIES ConfigReaches Handled
