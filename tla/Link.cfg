SPECIFICATION Spec
CONSTANTS
  a = a
  b = b
  c = c
  d = d
  key = key
  other = other
  NoNode = NoNode
  NoKey = NoKey
  Keys = {key, other}
  Payloads = {x, y}
  Nodes = {a, b, c, d}
  Links <- ChainLinks
  HmacEnabled = {a, b}
  GlobalKey <- ChainGlobal
  Configured <- ChainConfigured
  MayReboot = {c}
  MaxPeers = 2
  CounterModulus = 4
  MaxSends <- ChainSends
INVARIANTS TypeOK CountersTakenOnce AcceptedIsPrefix NothingPastAGap
PROPERTY PeersKept
SYMMETRY PayloadSymmetry
CHECK_DEADLOCK FALSE
