---------------------------- MODULE Coordinator ----------------------------
(***************************************************************************)
(* The coordinator's state (coordinator/state.py): paired nodes, GPU boxes *)
(* by name, and what each node is assigned.  Every method holds one lock   *)
(* and persists before it lets go, so each is one step and a restart keeps *)
(* all of it.  A handler that calls two methods takes two steps: the node  *)
(* of a recording is resolved before it is assigned.                       *)
(***************************************************************************)
EXTENDS Naturals, FiniteSets

CONSTANTS
    Nodes,           \* ids pairing hands out; an id is never handed out twice
    Boxes,           \* box ids; a box's id also stands for the address it advertises
    Names,           \* names a box may register under
    Nothing,         \* the absent name, box or address
    MaxAssignments   \* bound: sessions and recordings ever started

ASSUME CoordinatorAssumption ==
    /\ Nothing \notin Names \cup Boxes
    /\ MaxAssignments \in Nat

Ids == 1 .. MaxAssignments

Unassigned == [id |-> 0, kind |-> "none", gpu |-> Nothing, address |-> Nothing]

InferenceSession(i, g, b) ==
    [id |-> i, kind |-> "inference_session", gpu |-> g, address |-> b]

\* A recording carries no route.
TeleopRecording(i) ==
    [id |-> i, kind |-> "teleop_recording", gpu |-> Nothing, address |-> Nothing]

AnyAssignment ==
    {Unassigned} \cup {InferenceSession(i, g, b) : i \in Ids, g \in Names, b \in Boxes}
                 \cup {TeleopRecording(i) : i \in Ids}

VARIABLES
    up,         \* the coordinator's process runs
    nodes,      \* paired nodes, whose tokens are valid
    removed,    \* nodes removed by the operator; their tokens are revoked
    gpus,       \* the box registered under each name, or Nothing
    sessions,   \* what each node is assigned
    issued,     \* sessions and recordings started so far
    resolved    \* nodes a create-recording handler has resolved, but not assigned

coordinatorVars == <<up, nodes, removed, gpus, sessions, issued, resolved>>

CoordinatorTypeOK ==
    /\ up \in BOOLEAN
    /\ nodes \subseteq Nodes
    /\ removed \subseteq Nodes \ nodes
    /\ gpus \in [Names -> Boxes \cup {Nothing}]
    /\ sessions \in [Nodes -> AnyAssignment]
    /\ issued \in 0 .. MaxAssignments
    /\ resolved \subseteq Nodes

CoordinatorInit ==
    /\ up = TRUE
    /\ nodes = {}
    /\ removed = {}
    /\ gpus = [g \in Names |-> Nothing]
    /\ sessions = [n \in Nodes |-> Unassigned]
    /\ issued = 0
    /\ resolved = {}

-----------------------------------------------------------------------------
(* Nodes.                                                                   *)

Pair(n) ==
    /\ up
    /\ n \notin nodes \cup removed
    /\ nodes' = nodes \cup {n}
    /\ UNCHANGED <<up, removed, gpus, sessions, issued, resolved>>

\* The assignment goes with the node; whoever waits for it is not woken.
RemoveNode(n) ==
    /\ up
    /\ n \in nodes
    /\ nodes' = nodes \ {n}
    /\ removed' = removed \cup {n}
    /\ sessions' = [sessions EXCEPT ![n] = Unassigned]
    /\ UNCHANGED <<up, gpus, issued, resolved>>

-----------------------------------------------------------------------------
(* Boxes.                                                                   *)

NamesOf(b) == {g \in Names : gpus[g] = b}

\* A box registers again at every start.  It gives up its old name, and takes
\* the new one even from another box.
RegisterBox(b, g) ==
    /\ up
    /\ gpus' = [h \in Names |->
                  IF h = g THEN b ELSE IF gpus[h] = b THEN Nothing ELSE gpus[h]]
    /\ UNCHANGED <<up, nodes, removed, sessions, issued, resolved>>

RemoveGpu(g) ==
    /\ up
    /\ gpus[g] # Nothing
    /\ gpus' = [gpus EXCEPT ![g] = Nothing]
    /\ UNCHANGED <<up, nodes, removed, sessions, issued, resolved>>

-----------------------------------------------------------------------------
(* Sessions and recordings.                                                 *)

Idle(n) == sessions[n] = Unassigned

\* Mutant: only the box's own row is looked at, never who is served.
BusyIgnored(g) == gpus[g] # Nothing

Free(g) == gpus[g] # Nothing /\ \A n \in Nodes : sessions[n].gpu # g

\* The policy a box is warm for only makes it refuse more, until the operator
\* confirms the switch.
StartSession(n, g) ==
    /\ up
    /\ issued < MaxAssignments
    /\ n \in nodes
    /\ Idle(n)
    /\ Free(g)
    /\ issued' = issued + 1
    /\ sessions' = [sessions EXCEPT ![n] = InferenceSession(issued + 1, g, gpus[g])]
    /\ UNCHANGED <<up, nodes, removed, gpus, resolved>>

\* Unassign, never kill.
StopSession(n) ==
    /\ up
    /\ ~Idle(n)
    /\ sessions' = [sessions EXCEPT ![n] = Unassigned]
    /\ UNCHANGED <<up, nodes, removed, gpus, issued, resolved>>

ResolveNode(n) ==
    /\ up
    /\ n \in nodes
    /\ resolved' = resolved \cup {n}
    /\ UNCHANGED <<up, nodes, removed, gpus, sessions, issued>>

\* By now the node may be gone.
CreateRecording(n) ==
    /\ up
    /\ issued < MaxAssignments
    /\ n \in resolved
    /\ Idle(n)
    /\ issued' = issued + 1
    /\ sessions' = [sessions EXCEPT ![n] = TeleopRecording(issued + 1)]
    /\ resolved' = resolved \ {n}
    /\ UNCHANGED <<up, nodes, removed, gpus>>

RefuseRecording(n) ==
    /\ up
    /\ n \in resolved
    /\ ~Idle(n)
    /\ resolved' = resolved \ {n}
    /\ UNCHANGED <<up, nodes, removed, gpus, sessions, issued>>

-----------------------------------------------------------------------------
(* The process.                                                             *)

\* Mutant: a restart begins with no assignments.
Forgotten == [n \in Nodes |-> Unassigned]

Reloaded == sessions

StopsRunning ==
    /\ up
    /\ up' = FALSE
    /\ resolved' = {}
    /\ UNCHANGED <<nodes, removed, gpus, sessions, issued>>

StartsRunning ==
    /\ ~up
    /\ up' = TRUE
    /\ sessions' = Reloaded
    /\ UNCHANGED <<nodes, removed, gpus, issued, resolved>>

=============================================================================
