SPECIFICATION NetworkSpec
CONSTANTS
  temp = temp
  a = a
  b = b
  r = r
  u = u
  NoKey = NoKey
  NoValue = {}
  NoContent = NoContent
  Keys = {temp}
  Contents = {c1}
  Neighbours = {a, b, r, u}
  MaxSize = 1
  Values <- RequesterSets
  Removable <- Names
  RequestersPerEntry = 2
  Hash <- AnyHash
  CsEntries = 1
  HopLimit = 5
  HopModulus = 8
  MaxTxAddresses = 4
  Links <- CycleLinks
  NextHopsOf <- CycleHops
  Requests <- CycleRequests
  Sensors <- SensorAtR
  Lossy <- Shortcut
  MaxRequests = 3
INVARIANTS NetworkTypeOK NobodyWaitsForStored
PROPERTIES TrafficEnds RequestsAreAnswered
