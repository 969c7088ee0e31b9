SPECIFICATION RoutingSpec
CONSTANTS
  iot = iot
  bldg = bldg
  room = room
  temp = temp
  hall = hall
  lab = lab
  ContentNames <- MCNames
  Hops = {h1, h2}
  FibEntries = 5
  HopsPerEntry = 2
  HopsPerNode = 2
  RibEntries = 4
  MaxVirtualDepth = 2
  Routes <- MCNames
  Asked <- MCNames
  Removable = {}
PROPERTY LookUpKeepsAnswers
