SPECIFICATION SpecAsked
CONSTANTS
  temp = temp
  humid = humid
  light = light
  n1 = n1
  n2 = n2
  NoKey = NoKey
  NoValue = {}
  NoContent = NoContent
  Keys = {temp, humid}
  Contents = {c1}
  Neighbours = {n1, n2}
  MaxSize = 2
  Values <- RequesterSets
  Removable <- Names
  RequestersPerEntry = 2
  Hash <- HashCollide
  CsEntries = 2
  HopLimit = 2
  HopModulus = 2
  MaxTxAddresses = 2
  NextHops <- MCNextHops
PROPERTY DropsOnlyUnasked
