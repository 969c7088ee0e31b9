SPECIFICATION Spec
CONSTANTS
  p = p
  q = q
  r = r
  group = group
  k1 = k1
  k2 = k2
  temp = temp
  NoNode = NoNode
  NoKey = NoKey
  NoName = NoName
  Clear = Clear
  Absent = Absent
  Nodes = {p, q, r, group}
  Groups = {group}
  Keys = {k1, k2}
  Names = {temp}
  MaxPeerKeyEntries = 2
  MaxFibInit = 1
  Documents <- SmallDocuments
  RadioPeers = 2
  AutoSensor = TRUE
  PerfBuild = TRUE
INVARIANTS TypeOK DeafUnlessReady NobodyInClear SentIsAuthentic LegacyAsSeparated
PROPERTY TicksAreServed
