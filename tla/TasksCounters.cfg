SPECIFICATION Spec
CONSTANTS
  a = a
  b = b
  c = c
  d = d
  key = key
  NoNode = NoNode
  NoKey = NoKey
  NoContent = NoContent
  Nodes = {a, b, c, d}
  Keys = {key}
  MaxPeers = 3
  CounterModulus = 8
  Names = {temp}
  Contents = {reading}
  Configured <- MCConfigured
  NextHops <- MCNextHops
  MainTargets = {a}
  Askers = {a, c}
  Producers = {b}
  SensorName = temp
  SensorContent = reading
  MaxArrivals = 3
  MaxCommands = 2
INVARIANT CountersDiffer
CHECK_DEADLOCK FALSE
