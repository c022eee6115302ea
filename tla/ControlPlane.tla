---------------------------- MODULE ControlPlane ----------------------------
(***************************************************************************)
(* What the control plane promises, without polls, boxes or failures: an   *)
(* assignment goes to one node and is never given out again; a node learns *)
(* its assignment at some later time, and runs only what it has learned,   *)
(* so what it was told to leave it does not take up again.                 *)
(***************************************************************************)
EXTENDS Naturals

CONSTANTS
    Nodes,
    MaxAssignments  \* bound: assignments ever given out

VARIABLES
    issued,   \* assignments ever given out; their ids are 1, 2, ...
    wanted,   \* the assignment of each node, 0 if it has none
    told,     \* the assignment each node has learned last
    runs      \* the assignment each node runs, 0 if none

vars == <<issued, wanted, told, runs>>

Init ==
    /\ issued = 0
    /\ wanted = [n \in Nodes |-> 0]
    /\ told = [n \in Nodes |-> 0]
    /\ runs = [n \in Nodes |-> 0]

Assign(n) ==
    /\ wanted[n] = 0
    /\ issued < MaxAssignments
    /\ issued' = issued + 1
    /\ wanted' = [wanted EXCEPT ![n] = issued + 1]
    /\ UNCHANGED <<told, runs>>

Release(n) ==
    /\ wanted' = [wanted EXCEPT ![n] = 0]
    /\ UNCHANGED <<issued, told, runs>>

\* A node learns of its assignment, whatever it still runs.
Tell(n) ==
    /\ told' = [told EXCEPT ![n] = wanted[n]]
    /\ UNCHANGED <<issued, wanted, runs>>

Take(n) ==
    /\ told[n] # 0
    /\ runs[n] = 0
    /\ runs' = [runs EXCEPT ![n] = told[n]]
    /\ UNCHANGED <<issued, wanted, told>>

Leave(n) ==
    /\ runs' = [runs EXCEPT ![n] = 0]
    /\ UNCHANGED <<issued, wanted, told>>

\* A node that starts over knows nothing.
Forget(n) ==
    /\ runs' = [runs EXCEPT ![n] = 0]
    /\ told' = [told EXCEPT ![n] = 0]
    /\ UNCHANGED <<issued, wanted>>

Next ==
    \E n \in Nodes : Assign(n) \/ Release(n) \/ Tell(n) \/ Take(n) \/ Leave(n) \/ Forget(n)

Spec == Init /\ [][Next]_vars

=============================================================================
