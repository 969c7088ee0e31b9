-------------------------- MODULE ForwarderHistory --------------------------
(***************************************************************************)
(* Forwarder with a history of who asked for what and is still to have it, *)
(* whatever the node itself remembers.                                     *)
(***************************************************************************)
EXTENDS Forwarder

VARIABLE asked   \* <<m, n>>: an Interest of m for n was let in, missed the store, and waits

AskedVars == <<vars, asked>>

InitAsked == Init /\ asked = {}

\* An Interest is let in to wait; Data is told apart by where it comes from: a hit in
\* the store answers the Interest at hand, Data received answers those who wait.
NextAsked ==
  \/ \E m \in Neighbours, n \in Names, h \in HopCounts :
       /\ ReceiveInterest(m, n, h)
       /\ asked' = IF h + 1 < HopLimit /\ cs[n] = NoContent
                   THEN asked \cup {<<m, n>>} ELSE asked
  \/ \E n \in Names, h \in HopCounts, c \in Contents, memory \in BOOLEAN :
       /\ ReceiveData(n, h, c, memory)
       /\ asked' = asked \ {<<p.to, p.name>> : p \in sent'}
  \/ /\ \/ \E n \in Names, c \in Contents, memory \in BOOLEAN : ReadSensor(n, c, memory)
        \/ \E m \in Neighbours, n \in Names : SendInterest(m, n)
        \/ ClearCS
     /\ UNCHANGED asked
  \/ ClearPIT /\ asked' = {}

SpecAsked == InitAsked /\ [][NextAsked]_AskedVars

-----------------------------------------------------------------------------
(* Properties.                                                             *)

\* Data received is passed on only to neighbours who asked for the name and have not had
\* it since: nobody gets the Data twice for one Interest.
OnlyAskedAnswered ==
  [][call'[1] = "DATA" =>
       \A p \in sent' : <<p.to, p.name>> \in asked]_AskedVars

\* Data is dropped only if no neighbour waits for it ("there is no corresponding
\* INTEREST").
DropsOnlyUnasked ==
  [][call'[1] = "DATA" /\ sent' = {} =>
       \A m \in Neighbours : <<m, call'[2]>> \notin asked]_AskedVars
=============================================================================
