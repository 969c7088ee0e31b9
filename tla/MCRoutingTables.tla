--------------------------- MODULE MCRoutingTables ---------------------------
(* Small instances of RoutingTables: names of depth 1 to 4 with             *)
(* MaxVirtualDepth 2, two of them below one prefix of depth 2 that is also  *)
(* a route, and two below another that is none.                             *)
EXTENDS RoutingTables, TLC

CONSTANTS iot, bldg, room, temp, hall, lab

Top == <<iot>>
Building == <<iot, bldg>>
Room == <<iot, bldg, room>>
Reading == <<iot, bldg, room, temp>>
Hall == <<iot, bldg, hall>>
Other == <<iot, hall>>

MCNames == {Top, Building, Room, Reading, Hall, Other}

Bench == <<lab, room, temp>>
Shelf == <<lab, room, hall>>
Lab == {Bench, Shelf}

AllRoutes == MCNames \cup Lab
AllNames == AllRoutes \cup {<<lab>>, <<lab, room>>}

AllButBuilding == MCNames \ {Building}
=============================================================================
