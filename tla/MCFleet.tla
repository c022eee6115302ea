------------------------------ MODULE MCFleet ------------------------------
(***************************************************************************)
(* Routes for the instances of Fleet.                                      *)
(***************************************************************************)
EXTENDS Fleet

CONSTANTS n1, n2, b1

NoOverride == [n \in Nodes |-> Nothing]

NoFallback == [n \in Nodes |-> Nothing]

\* One node dials a box of its own for what has no route.
OneFallback == [n \in Nodes |-> IF n = n1 THEN b1 ELSE Nothing]

\* The other is pinned to that box, whatever it is assigned.
OneOverride == [n \in Nodes |-> IF n = n2 THEN b1 ELSE Nothing]
=============================================================================
