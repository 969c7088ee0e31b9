SPECIFICATION RoutingSpec
CONSTANTS
  iot = iot
  bldg = bldg
  room = room
  temp = temp
  hall = hall
  lab = lab
  ContentNames <- AllNames
  Hops = {h1, h2}
  FibEntries = 6
  HopsPerEntry = 2
  HopsPerNode = 2
  RibEntries = 4
  MaxVirtualDepth = 2
  Routes <- AllRoutes
  Asked <- AllButBuilding
  Removable <- Lab
INVARIANTS RoutingTypeOK LpmExact
