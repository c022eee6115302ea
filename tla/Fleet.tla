------------------------------- MODULE Fleet -------------------------------
(***************************************************************************)
(* The control plane as a whole: one coordinator, the daemons of its nodes *)
(* and the GPU boxes they dial, with the commands an operator gives and    *)
(* the ways each process may stop.                                         *)
(***************************************************************************)
EXTENDS NodeDaemon

VARIABLES
    downing,   \* `interlatent down --force`: "no", "waiting" or "done"
    toStop     \* sessions it has yet to unassign

vars == <<coordinatorVars, daemonVars, boxVars, faults, downing, toStop>>

FleetTypeOK ==
    /\ CoordinatorTypeOK
    /\ DaemonTypeOK
    /\ downing \in {"no", "waiting", "done"}
    /\ toStop \subseteq Ids

Init ==
    /\ CoordinatorInit
    /\ DaemonInit
    /\ downing = "no"
    /\ toStop = {}

othersVars == <<daemonVars, boxVars, downing, toStop>>

-----------------------------------------------------------------------------
(* Commands to the coordinator.                                             *)

Command ==
    /\ \/ \E n \in Nodes : Pair(n)
       \/ \E n \in Nodes, g \in Names : StartSession(n, g)
       \/ \E n \in Nodes : StopSession(n)
       \/ \E n \in Nodes : ResolveNode(n)
       \/ \E n \in Nodes : CreateRecording(n)
       \/ \E n \in Nodes : RefuseRecording(n)
    /\ UNCHANGED <<othersVars, faults>>

Removal ==
    /\ \/ \E n \in Nodes : RemoveNode(n)
       \/ \E g \in Names : RemoveGpu(g)
    /\ Fault
    /\ UNCHANGED othersVars

-----------------------------------------------------------------------------
(* The coordinator's process.                                               *)

CoordinatorCrash ==
    /\ StopsRunning
    /\ Fault
    /\ downing' = "no"
    /\ toStop' = {}
    /\ UNCHANGED <<daemonVars, boxVars>>

CoordinatorStart ==
    /\ StartsRunning
    /\ downing' = "no"
    /\ UNCHANGED <<daemonVars, boxVars, faults, toStop>>

Active == {n \in Nodes : ~Idle(n)}

\* Without --force, `down` goes on only when nothing is assigned.
ForceDown ==
    /\ up
    /\ downing = "no"
    /\ Fault
    /\ downing' = "waiting"
    /\ toStop' = {sessions[n].id : n \in Active}
    /\ UNCHANGED <<coordinatorVars, daemonVars, boxVars>>

\* One DELETE after the other; a session that is gone by then answers 404.
Unassign(i) ==
    /\ downing = "waiting"
    /\ i \in toStop
    /\ toStop' = toStop \ {i}
    /\ \/ \E n \in Nodes : sessions[n].id = i /\ StopSession(n)
       \/ (\A n \in Nodes : sessions[n].id # i) /\ UNCHANGED coordinatorVars
    /\ UNCHANGED <<daemonVars, boxVars, faults, downing>>

\* The wait is over when the coordinator lists no session, or after the grace.
Terminate ==
    /\ downing = "waiting"
    /\ toStop = {}
    /\ StopsRunning
    /\ downing' = "done"
    /\ UNCHANGED <<daemonVars, boxVars, faults, toStop>>

-----------------------------------------------------------------------------
(* The boxes.                                                               *)

\* interlatent-serve registers before it serves, and exits if it cannot.
BoxStarts(b) ==
    /\ b \notin boxUp
    /\ \E g \in Names : RegisterBox(b, g)
    /\ boxUp' = boxUp \cup {b}
    /\ UNCHANGED <<daemonVars, open, verdict, faults, downing, toStop>>

BoxStops(b) ==
    /\ b \in boxUp
    /\ Fault
    /\ boxUp' = boxUp \ {b}
    /\ open' = [open EXCEPT ![b] = {}]
    /\ verdict' = [verdict EXCEPT ![b] = [n \in Nodes |-> "unknown"]]
    /\ UNCHANGED <<coordinatorVars, daemonVars, downing, toStop>>

\* Calls of the session's loop reach the box and count as activity.
Heard(b, i) ==
    \E n \in running : loop[n] = i /\ endpoint[n] = b /\ verdict[b][n] # "refused"

\* A silent session is collected, and its recording with it uploaded.
IdleGc(b, i) ==
    /\ b \in boxUp
    /\ i \in open[b]
    /\ ~Heard(b, i)
    /\ open' = [open EXCEPT ![b] = @ \ {i}]
    /\ UNCHANGED <<coordinatorVars, daemonVars, boxUp, verdict, faults, downing, toStop>>

-----------------------------------------------------------------------------
DaemonStep(n) ==
    /\ \/ StartDaemon(n)
       \/ Answer(n)
       \/ PollIsLost(n)
       \/ StopPrior(n)
       \/ BecomesIdle(n)
       \/ RefuseForDisk(n)
       \/ StartSilently(n)
       \/ StartLoop(n)
       \/ StartFails(n)
       \/ LoopEnds(n)
       \/ ExitDaemon(n)
       \/ CrashDaemon(n)
    /\ UNCHANGED <<downing, toStop>>

ValidatorStep(b, n) ==
    /\ Probe(b, n)
    /\ UNCHANGED <<downing, toStop>>

Next ==
    \/ Command
    \/ Removal
    \/ CoordinatorCrash
    \/ CoordinatorStart
    \/ ForceDown
    \/ \E i \in Ids : Unassign(i)
    \/ Terminate
    \/ \E b \in Boxes : BoxStarts(b) \/ BoxStops(b)
    \/ \E b \in Boxes, i \in Ids : IdleGc(b, i)
    \/ \E n \in Nodes : DaemonStep(n)
    \/ \E b \in Boxes, n \in Nodes : ValidatorStep(b, n)

\* The daemon's loop of polls and convergences, and the box's validator
\* and collector, run on their own; commands and faults need not come.
Fairness ==
    /\ \A n \in Nodes :
          /\ WF_vars(Answer(n) /\ UNCHANGED <<downing, toStop>>)
          /\ SF_vars(( \/ StopPrior(n) \/ BecomesIdle(n) \/ RefuseForDisk(n)
                       \/ StartSilently(n) \/ StartLoop(n) \/ StartFails(n))
                     /\ UNCHANGED <<downing, toStop>>)
    /\ \A b \in Boxes, n \in Nodes :
          SF_vars(ValidatorStep(b, n))
    /\ \A b \in Boxes, i \in Ids : WF_vars(IdleGc(b, i))

Spec == Init /\ [][Next]_vars /\ Fairness

-----------------------------------------------------------------------------
(* Properties.                                                              *)

\* Whatever the order of starts, stops, recordings, removals, renames and
\* restarts: an assignment belongs to one node, a GPU's name to one session,
\* and only a paired node is sent to a GPU (start_session checks the three
\* under one lock; create_teleop_recording resolves its node before it takes it).
AssignmentsAreConsistent ==
    /\ \A n \in Nodes : sessions[n].id <= issued
    /\ \A m, n \in Nodes :
          m # n => /\ sessions[m].id = sessions[n].id => Idle(m) /\ Idle(n)
                   /\ sessions[m].gpu = sessions[n].gpu => sessions[m].gpu = Nothing
    /\ \A n \in Nodes : sessions[n].kind = "inference_session" => n \in nodes
    /\ \A g, h \in Names : g # h /\ gpus[g] = gpus[h] => gpus[g] = Nothing

\* The session a daemon reports in its poll is the one its loop was started
\* for, so that a session that failed to start or was stopped is handed out
\* again; only a session without any route is known and not run (_converge).
KnownIsHonest ==
    \A n \in Nodes :
        link[n] # "converging" =>
            \/ known[n] = loop[n]
            \/ loop[n] = 0 /\ Override[n] = Nothing /\ Fallback[n] = Nothing

Plane == INSTANCE ControlPlane
    WITH wanted <- [n \in Nodes |-> sessions[n].id],
         told <- [n \in Nodes |-> answer[n].id],
         runs <- loop

\* Polls that answer late or twice, restarts of the coordinator and retries of
\* a failed start never make a node run what it was not assigned, nor what it
\* was already told to leave.
ImplementsControlPlane == Plane!Spec

\* A daemon that stays up runs its assignment, or nothing when it has none,
\* once the coordinator stays up, its box serves, and no command comes any
\* more (_poll_loop, _converge).  A recording without a route is the exception.
Settled(n) ==
    /\ up
    /\ n \in alive \cap nodes
    /\ \A b \in Boxes : RouteOf(n, sessions[n]) = b => b \in boxUp /\ NamesOf(b) # {}

Converged(n) ==
    loop[n] = IF RouteOf(n, sessions[n]) = Nothing THEN 0 ELSE sessions[n].id

Converges == \A n \in Nodes : <>[]Settled(n) => <>[]Converged(n)

\* A session no node is assigned any more does not stay open on a box for ever
\* while the coordinator is up: its loop is stopped, or refused once its node's
\* token is revoked, and a silent session is collected (remove_node, authz,
\* _idle_gc_loop).  A removed node with the operator's key is the exception.
Orphaned(i) ==
    /\ up
    /\ \E b \in Boxes : b \in boxUp /\ i \in open[b]
    /\ \A n \in Nodes : sessions[n].id # i
    /\ \A n \in removed \cap OperatorKeyed : loop[n] # i

StoppedSessionsClose == \A i \in Ids : []<>~Orphaned(i)

\* docs/coordinator-protocol.md:160-161: "--force unassigns and waits for
\* teardown before exiting".
DownLeavesNoLoop == downing = "done" => running = {}

\* docs/coordinator-protocol.md:152-155: "A running session therefore survives
\* the coordinator's absence".
SessionSurvivesAbsence ==
    \A b \in Boxes : \A n \in running \cap nodes :
        b \in boxUp /\ endpoint[n] = b /\ NamesOf(b) # {} => verdict[b][n] # "refused"

=============================================================================
