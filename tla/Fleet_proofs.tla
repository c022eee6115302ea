---------------------------- MODULE Fleet_proofs ----------------------------
(***************************************************************************)
(* Proofs about Fleet, for any nodes, boxes, names, routes and bounds.     *)
(* The coordinator's state is consistent on its own; the daemons' needs    *)
(* only that assignments have their shape.                                 *)
(***************************************************************************)
EXTENDS Fleet, TLAPS

LEMMA Shape ==
    ASSUME NEW a \in AnyAssignment
    PROVE  /\ a.id \in 0 .. MaxAssignments
           /\ a.id = 0 <=> a = Unassigned
           /\ a.gpu \in Names \cup {Nothing}
           /\ a.address \in Boxes \cup {Nothing}
           /\ a.gpu # Nothing => a.kind = "inference_session"
BY CoordinatorAssumption DEF AnyAssignment, Unassigned, InferenceSession, TeleopRecording, Ids

LEMMA InferenceShape ==
    ASSUME NEW i \in Ids, NEW g \in Names, NEW b \in Boxes
    PROVE  /\ InferenceSession(i, g, b) \in AnyAssignment
           /\ InferenceSession(i, g, b).id = i
           /\ InferenceSession(i, g, b).gpu = g
           /\ InferenceSession(i, g, b) # Unassigned
BY CoordinatorAssumption DEF AnyAssignment, Unassigned, InferenceSession, Ids

LEMMA RecordingShape ==
    ASSUME NEW i \in Ids
    PROVE  /\ TeleopRecording(i) \in AnyAssignment
           /\ TeleopRecording(i).id = i
           /\ TeleopRecording(i).gpu = Nothing
           /\ TeleopRecording(i).kind # "inference_session"
           /\ TeleopRecording(i) # Unassigned
BY CoordinatorAssumption DEF AnyAssignment, Unassigned, TeleopRecording, Ids

LEMMA UnassignedShape ==
    /\ Unassigned \in AnyAssignment
    /\ Unassigned.id = 0
    /\ Unassigned.gpu = Nothing
    /\ Unassigned.kind # "inference_session"
BY DEF AnyAssignment, Unassigned

-----------------------------------------------------------------------------
(* The coordinator.                                                         *)

CInv == CoordinatorTypeOK /\ AssignmentsAreConsistent

CoordinatorMoves ==
    \/ \E n \in Nodes : \/ Pair(n) \/ RemoveNode(n) \/ StopSession(n) \/ ResolveNode(n)
                        \/ CreateRecording(n) \/ RefuseRecording(n)
    \/ \E n \in Nodes, g \in Names : StartSession(n, g)
    \/ \E b \in Boxes, g \in Names : RegisterBox(b, g)
    \/ \E g \in Names : RemoveGpu(g)
    \/ StopsRunning
    \/ StartsRunning

LEMMA InitCInv == Init => CInv
BY CoordinatorAssumption, UnassignedShape
   DEF Init, CoordinatorInit, CInv, CoordinatorTypeOK, AssignmentsAreConsistent, Idle

\* A new assignment of an idle node keeps the assignments apart.
LEMMA Assigned ==
    ASSUME CInv, NEW n \in Nodes, NEW a \in AnyAssignment, issued < MaxAssignments,
           Idle(n), a.id = issued + 1,
           a.kind = "inference_session" => n \in nodes,
           \A m \in Nodes : a.gpu # Nothing => sessions[m].gpu # a.gpu,
           issued' = issued + 1,
           sessions' = [sessions EXCEPT ![n] = a],
           nodes' = nodes, gpus' = gpus, up' = up, removed' = removed,
           resolved' \subseteq resolved
    PROVE  CInv'
<1>1. issued' \in 0 .. MaxAssignments /\ sessions' \in [Nodes -> AnyAssignment]
  BY CoordinatorAssumption DEF CInv, CoordinatorTypeOK
<1>2. CoordinatorTypeOK'
  BY <1>1 DEF CInv, CoordinatorTypeOK
<1>3. \A m \in Nodes : sessions'[m] = IF m = n THEN a ELSE sessions[m]
  BY DEF CInv, CoordinatorTypeOK
<1>4. \A m \in Nodes : sessions[m].id \in Nat /\ sessions[m].id <= issued
  BY Shape, CoordinatorAssumption DEF CInv, CoordinatorTypeOK, AssignmentsAreConsistent
<1>5. issued \in Nat
  BY DEF CInv, CoordinatorTypeOK
<1>6. \A m \in Nodes : sessions'[m].id <= issued'
  BY <1>3, <1>4, <1>5
<1>7. \A m \in Nodes : m # n => sessions'[m].id # a.id
  BY <1>3, <1>4, <1>5
<1>8. \A m \in Nodes : m # n /\ sessions'[m].gpu = a.gpu => a.gpu = Nothing
  BY <1>3
<1>9. \A l, m \in Nodes :
         l # m => /\ sessions'[l].id = sessions'[m].id => sessions'[l] = Unassigned /\ sessions'[m] = Unassigned
                  /\ sessions'[l].gpu = sessions'[m].gpu => sessions'[l].gpu = Nothing
  BY <1>3, <1>7, <1>8 DEF CInv, AssignmentsAreConsistent, Idle
<1>10. \A m \in Nodes : sessions'[m].kind = "inference_session" => m \in nodes'
  BY <1>3 DEF CInv, AssignmentsAreConsistent
<1> QED
  BY <1>2, <1>6, <1>9, <1>10 DEF CInv, AssignmentsAreConsistent, Idle

LEMMA Released ==
    ASSUME CInv, NEW n \in Nodes, sessions' = [sessions EXCEPT ![n] = Unassigned],
           nodes \ {n} \subseteq nodes', nodes' \subseteq nodes,
           removed' \subseteq Nodes \ nodes',
           gpus' = gpus, up' = up, issued' = issued, resolved' = resolved
    PROVE  CInv'
<1>1. CoordinatorTypeOK'
  BY UnassignedShape DEF CInv, CoordinatorTypeOK
<1>2. \A m \in Nodes : sessions'[m] = IF m = n THEN Unassigned ELSE sessions[m]
  BY DEF CInv, CoordinatorTypeOK
<1>3. \A m \in Nodes : sessions[m].id = 0 <=> sessions[m] = Unassigned
  BY Shape DEF CInv, CoordinatorTypeOK
<1>4. issued \in Nat
  BY DEF CInv, CoordinatorTypeOK
<1>5. \A m \in Nodes : sessions'[m].id <= issued'
  BY <1>2, <1>4, UnassignedShape DEF CInv, AssignmentsAreConsistent
<1>6. \A l, m \in Nodes :
         l # m => /\ sessions'[l].id = sessions'[m].id => sessions'[l] = Unassigned /\ sessions'[m] = Unassigned
                  /\ sessions'[l].gpu = sessions'[m].gpu => sessions'[l].gpu = Nothing
  BY <1>2, <1>3, UnassignedShape DEF CInv, AssignmentsAreConsistent, Idle
<1>7. \A m \in Nodes : sessions'[m].kind = "inference_session" => m \in nodes'
  BY <1>2, UnassignedShape DEF CInv, AssignmentsAreConsistent
<1> QED
  BY <1>1, <1>5, <1>6, <1>7 DEF CInv, AssignmentsAreConsistent, Idle

LEMMA CoordinatorKeeps ==
    ASSUME CInv, CoordinatorMoves \/ UNCHANGED coordinatorVars
    PROVE  CInv'
<1>1. ASSUME NEW n \in Nodes, Pair(n) PROVE CInv'
  BY <1>1 DEF Pair, CInv, CoordinatorTypeOK, AssignmentsAreConsistent, Idle
<1>2. ASSUME NEW n \in Nodes, RemoveNode(n) PROVE CInv'
  BY <1>2, Released DEF RemoveNode, CInv, CoordinatorTypeOK
<1>3. ASSUME NEW n \in Nodes, StopSession(n) PROVE CInv'
  BY <1>3, Released DEF StopSession, CInv, CoordinatorTypeOK
<1>4. ASSUME NEW n \in Nodes, ResolveNode(n) PROVE CInv'
  BY <1>4 DEF ResolveNode, CInv, CoordinatorTypeOK, AssignmentsAreConsistent, Idle
<1>5. ASSUME NEW n \in Nodes, CreateRecording(n) PROVE CInv'
  <2>1. issued + 1 \in Ids
    BY <1>5, CoordinatorAssumption DEF CreateRecording, CInv, CoordinatorTypeOK, Ids
  <2> QED
    BY <1>5, <2>1, RecordingShape, Assigned DEF CreateRecording
<1>6. ASSUME NEW n \in Nodes, RefuseRecording(n) PROVE CInv'
  BY <1>6 DEF RefuseRecording, CInv, CoordinatorTypeOK, AssignmentsAreConsistent, Idle
<1>7. ASSUME NEW n \in Nodes, NEW g \in Names, StartSession(n, g) PROVE CInv'
  <2>1. issued + 1 \in Ids
    BY <1>7, CoordinatorAssumption DEF StartSession, CInv, CoordinatorTypeOK, Ids
  <2>2. gpus[g] \in Boxes
    BY <1>7 DEF StartSession, Free, CInv, CoordinatorTypeOK
  <2>3. \A m \in Nodes : sessions[m].gpu # g
    BY <1>7 DEF StartSession, Free
  <2> DEFINE a == InferenceSession(issued + 1, g, gpus[g])
  <2>4. a \in AnyAssignment /\ a.id = issued + 1 /\ a.gpu = g
    BY <2>1, <2>2, InferenceShape
  <2>5. \A m \in Nodes : sessions[m].gpu # a.gpu
    BY <2>3, <2>4
  <2>6. /\ issued < MaxAssignments /\ n \in nodes /\ Idle(n) /\ issued' = issued + 1
        /\ sessions' = [sessions EXCEPT ![n] = a]
        /\ UNCHANGED <<up, nodes, removed, gpus, resolved>>
    BY <1>7 DEF StartSession
  <2> HIDE DEF a
  <2> QED
    BY <2>4, <2>5, <2>6, Assigned
<1>8. ASSUME NEW b \in Boxes, NEW g \in Names, RegisterBox(b, g) PROVE CInv'
  <2>1. gpus' \in [Names -> Boxes \cup {Nothing}]
    BY <1>8 DEF RegisterBox, CInv, CoordinatorTypeOK
  <2>2. \A h \in Names : gpus'[h] = IF h = g THEN b ELSE IF gpus[h] = b THEN Nothing ELSE gpus[h]
    BY <1>8 DEF RegisterBox
  <2>3. \A h, k \in Names : h # k /\ gpus'[h] = gpus'[k] => gpus'[h] = Nothing
    BY <2>2, CoordinatorAssumption DEF CInv, AssignmentsAreConsistent
  <2> QED
    BY <1>8, <2>1, <2>3 DEF RegisterBox, CInv, CoordinatorTypeOK, AssignmentsAreConsistent, Idle
<1>9. ASSUME NEW g \in Names, RemoveGpu(g) PROVE CInv'
  BY <1>9 DEF RemoveGpu, CInv, CoordinatorTypeOK, AssignmentsAreConsistent, Idle
<1>10. CASE StopsRunning
  BY <1>10 DEF StopsRunning, CInv, CoordinatorTypeOK, AssignmentsAreConsistent, Idle
<1>11. CASE StartsRunning
  BY <1>11 DEF StartsRunning, Reloaded, CInv, CoordinatorTypeOK, AssignmentsAreConsistent, Idle
<1>12. CASE UNCHANGED coordinatorVars
  BY <1>12 DEF coordinatorVars, CInv, CoordinatorTypeOK, AssignmentsAreConsistent, Idle
<1> QED
  BY <1>1, <1>2, <1>3, <1>4, <1>5, <1>6, <1>7, <1>8, <1>9, <1>10, <1>11, <1>12
     DEF CoordinatorMoves

\* Every step of the system is a step of the coordinator or leaves it alone.
LEMMA StepsOfCoordinator == [Next]_vars => CoordinatorMoves \/ UNCHANGED coordinatorVars
<1> SUFFICES ASSUME [Next]_vars PROVE CoordinatorMoves \/ UNCHANGED coordinatorVars
  OBVIOUS
<1>1. ASSUME Command \/ Removal PROVE CoordinatorMoves
  BY <1>1 DEF Command, Removal, CoordinatorMoves
<1>2. ASSUME CoordinatorCrash \/ CoordinatorStart \/ Terminate PROVE CoordinatorMoves
  BY <1>2 DEF CoordinatorCrash, CoordinatorStart, Terminate, CoordinatorMoves
<1>3. ASSUME ForceDown PROVE UNCHANGED coordinatorVars
  BY <1>3 DEF ForceDown
<1>4. ASSUME NEW i \in Ids, Unassign(i) PROVE CoordinatorMoves \/ UNCHANGED coordinatorVars
  BY <1>4 DEF Unassign, CoordinatorMoves
<1>5. ASSUME NEW b \in Boxes, BoxStarts(b) PROVE CoordinatorMoves
  BY <1>5 DEF BoxStarts, CoordinatorMoves
<1>6. ASSUME NEW b \in Boxes, BoxStops(b) PROVE UNCHANGED coordinatorVars
  BY <1>6 DEF BoxStops
<1>7. ASSUME NEW b \in Boxes, NEW i \in Ids, IdleGc(b, i) PROVE UNCHANGED coordinatorVars
  BY <1>7 DEF IdleGc
<1>8. ASSUME NEW n \in Nodes, DaemonStep(n) PROVE UNCHANGED coordinatorVars
  <2> USE DEF coordinatorVars
  <2>1. CASE StartDaemon(n) \/ Answer(n) \/ PollIsLost(n) \/ StopPrior(n)
    BY <2>1 DEF StartDaemon, Answer, PollIsLost, StopPrior
  <2>2. CASE BecomesIdle(n) \/ RefuseForDisk(n) \/ StartSilently(n) \/ StartFails(n)
    BY <2>2 DEF BecomesIdle, RefuseForDisk, StartSilently, StartFails, NoLoop
  <2>3. CASE StartLoop(n) \/ LoopEnds(n) \/ ExitDaemon(n) \/ CrashDaemon(n)
    BY <2>3 DEF StartLoop, LoopEnds, ExitDaemon, CrashDaemon, DaemonGone
  <2> QED
    BY <1>8, <2>1, <2>2, <2>3 DEF DaemonStep
<1>9. ASSUME NEW b \in Boxes, NEW n \in Nodes, ValidatorStep(b, n) PROVE UNCHANGED coordinatorVars
  BY <1>9 DEF ValidatorStep, Probe
<1>10. CASE UNCHANGED vars
  BY <1>10 DEF vars, coordinatorVars
<1> QED
  BY <1>1, <1>2, <1>3, <1>4, <1>5, <1>6, <1>7, <1>8, <1>9, <1>10 DEF Next

\* Assignments stay consistent (state.py: every method under one lock, and the
\* second half of a recording's handler after the lock was given up).
THEOREM Consistency == Spec => []AssignmentsAreConsistent
<1>1. CInv /\ [Next]_vars => CInv'
  BY CoordinatorKeeps, StepsOfCoordinator
<1>2. CInv => AssignmentsAreConsistent
  BY DEF CInv
<1> QED
  BY InitCInv, <1>1, <1>2, PTL DEF Spec

-----------------------------------------------------------------------------
(* The daemons.                                                             *)

DInv == DaemonTypeOK /\ KnownIsHonest /\ downing \in {"no", "waiting", "done"} /\ toStop \subseteq Ids

LEMMA InitDInv == Init => DInv
BY CoordinatorAssumption, NodeDaemonAssumption, UnassignedShape
   DEF Init, DaemonInit, DInv, DaemonTypeOK, KnownIsHonest, Links, Verdicts

\* What a close of a session may change keeps its type.
LEMMA CloseKeepsTypes ==
    ASSUME DaemonTypeOK, NEW n \in Nodes, CloseSession(n) \/ UNCHANGED <<open, faults>>
    PROVE  open' \in [Boxes -> SUBSET Ids] /\ faults' \in 0 .. MaxFaults
BY NodeDaemonAssumption DEF CloseSession, Fault, DaemonTypeOK

LEMMA FaultIsCounted ==
    ASSUME DaemonTypeOK, Fault \/ UNCHANGED faults
    PROVE  faults' \in 0 .. MaxFaults
BY NodeDaemonAssumption DEF Fault, DaemonTypeOK

\* A convergence that ends without a loop leaves the daemon honest.
LEMMA NoLoopKeeps ==
    ASSUME DInv, NEW n \in Nodes, NEW i \in 0 .. MaxAssignments, loop[n] = 0, NoLoop(n, i),
           i = 0 \/ (Override[n] = Nothing /\ Fallback[n] = Nothing),
           open' \in [Boxes -> SUBSET Ids], faults' \in 0 .. MaxFaults,
           UNCHANGED <<downing, toStop>>
    PROVE  DInv'
<1>1. DaemonTypeOK'
  BY DEF NoLoop, DInv, DaemonTypeOK, Links
<1>2. KnownIsHonest'
  BY DEF NoLoop, DInv, DaemonTypeOK, KnownIsHonest
<1> QED
  BY <1>1, <1>2 DEF DInv

LEMMA DaemonKeeps ==
    ASSUME DInv, CoordinatorTypeOK, [Next]_vars
    PROVE  DInv'
<1> USE DEF DInv, DaemonTypeOK, KnownIsHonest, Links
<1>1. ASSUME Command \/ CoordinatorCrash \/ CoordinatorStart \/ Terminate \/ Removal PROVE DInv'
  <2>1. UNCHANGED <<daemonVars, boxVars>> /\ downing' \in {"no", "waiting", "done"}
        /\ toStop' \subseteq Ids /\ (Fault \/ UNCHANGED faults)
    BY <1>1 DEF Command, CoordinatorCrash, CoordinatorStart, Terminate, Removal, othersVars
  <2>2. faults' \in 0 .. MaxFaults
    BY <2>1, FaultIsCounted
  <2> QED
    BY <2>1, <2>2 DEF daemonVars, boxVars
<1>2. ASSUME ForceDown PROVE DInv'
  <2>1. \A n \in Active : sessions[n].id \in Ids
    BY Shape, CoordinatorAssumption DEF Active, Idle, CoordinatorTypeOK, Ids
  <2>2. faults' \in 0 .. MaxFaults
    BY <1>2, FaultIsCounted DEF ForceDown
  <2> QED
    BY <1>2, <2>1, <2>2 DEF ForceDown, daemonVars, boxVars
<1>3. ASSUME NEW i \in Ids, Unassign(i) PROVE DInv'
  BY <1>3 DEF Unassign, daemonVars, boxVars
<1>4. ASSUME NEW b \in Boxes, BoxStarts(b) PROVE DInv'
  BY <1>4 DEF BoxStarts, daemonVars
<1>5. ASSUME NEW b \in Boxes, BoxStops(b) PROVE DInv'
  <2>1. faults' \in 0 .. MaxFaults
    BY <1>5, FaultIsCounted DEF BoxStops
  <2> QED
    BY <1>5, <2>1 DEF BoxStops, daemonVars, Verdicts
<1>6. ASSUME NEW b \in Boxes, NEW i \in Ids, IdleGc(b, i) PROVE DInv'
  BY <1>6 DEF IdleGc, daemonVars
<1>7. ASSUME NEW b \in Boxes, NEW n \in Nodes, ValidatorStep(b, n) PROVE DInv'
  BY <1>7 DEF ValidatorStep, Probe, Verdict, Verdicts, daemonVars
<1>8. ASSUME NEW n \in Nodes, DaemonStep(n) PROVE DInv'
  <2> USE DEF DaemonStep
  <2>1. CASE StartDaemon(n)
    BY <1>8, <2>1 DEF StartDaemon, boxVars
  <2>2. CASE Answer(n)
    BY <1>8, <2>2 DEF Answer, boxVars, CoordinatorTypeOK
  <2>3. CASE PollIsLost(n)
    <3>1. faults' \in 0 .. MaxFaults
      BY <2>3, FaultIsCounted DEF PollIsLost
    <3> QED
      BY <1>8, <2>3, <3>1 DEF PollIsLost, boxVars
  <2>4. CASE StopPrior(n)
    <3>1. open' \in [Boxes -> SUBSET Ids] /\ faults' \in 0 .. MaxFaults
      BY <2>4, CloseKeepsTypes DEF StopPrior, StopActiveLoop
    <3>2. DaemonTypeOK'
      BY <2>4, <3>1, CoordinatorAssumption DEF StopPrior, StopActiveLoop
    <3>3. KnownIsHonest'
      BY <2>4 DEF StopPrior, StopActiveLoop
    <3> QED
      BY <1>8, <3>2, <3>3
  <2>5. CASE BecomesIdle(n)
    BY <1>8, <2>5, NoLoopKeeps, CoordinatorAssumption DEF BecomesIdle
  <2>6. CASE RefuseForDisk(n)
    <3>1. faults' \in 0 .. MaxFaults
      BY <2>6, FaultIsCounted DEF RefuseForDisk
    <3> QED
      BY <1>8, <2>6, <3>1, NoLoopKeeps, CoordinatorAssumption DEF RefuseForDisk, ToStart
  <2>7. CASE StartSilently(n)
    <3>1. answer[n].id \in 0 .. MaxAssignments
      BY Shape
    <3>2. Override[n] = Nothing /\ Fallback[n] = Nothing
      BY <2>7, CoordinatorAssumption DEF StartSilently, RouteOf
    <3> QED
      BY <1>8, <2>7, <3>1, <3>2, NoLoopKeeps DEF StartSilently, ToStart
  <2>8. CASE StartLoop(n)
    <3>1. answer[n].id \in 0 .. MaxAssignments /\ answer[n].id # 0
      BY <2>8, Shape DEF StartLoop, ToStart
    <3>2. answer[n].id \in Ids
      BY <3>1, CoordinatorAssumption DEF Ids
    <3>3. open' \in [Boxes -> SUBSET Ids] /\ endpoint' \in [Nodes -> Boxes \cup {Nothing}]
      BY <2>8, <3>2 DEF StartLoop
    <3>4. DaemonTypeOK'
      BY <2>8, <3>1, <3>3 DEF StartLoop
    <3>5. KnownIsHonest'
      BY <2>8 DEF StartLoop
    <3> QED
      BY <1>8, <3>4, <3>5
  <2>9. CASE StartFails(n)
    <3>1. answer[n].id \in Ids
      BY <2>9, Shape, CoordinatorAssumption DEF StartFails, ToStart, Ids
    <3>2. open' \in [Boxes -> SUBSET Ids] /\ (Fault \/ UNCHANGED faults)
      BY <2>9, <3>1 DEF StartFails
    <3>3. faults' \in 0 .. MaxFaults
      BY <3>2, FaultIsCounted
    <3> QED
      BY <1>8, <2>9, <3>2, <3>3, NoLoopKeeps, CoordinatorAssumption
         DEF StartFails, ToStart, KnownAfterFailure
  <2>10. CASE LoopEnds(n)
    <3>1. open' \in [Boxes -> SUBSET Ids] /\ faults' \in 0 .. MaxFaults
      BY <2>10, CloseKeepsTypes DEF LoopEnds
    <3> QED
      BY <1>8, <2>10, <3>1 DEF LoopEnds
  <2>11. CASE ExitDaemon(n)
    <3>1. open' \in [Boxes -> SUBSET Ids] /\ faults' \in 0 .. MaxFaults
      BY <2>11, CloseKeepsTypes DEF ExitDaemon
    <3>2. DaemonTypeOK'
      BY <2>11, <3>1, UnassignedShape, CoordinatorAssumption DEF ExitDaemon, DaemonGone
    <3>3. KnownIsHonest'
      BY <2>11 DEF ExitDaemon, DaemonGone
    <3> QED
      BY <1>8, <3>2, <3>3
  <2>12. CASE CrashDaemon(n)
    <3>1. open' \in [Boxes -> SUBSET Ids] /\ faults' \in 0 .. MaxFaults
      BY <2>12, FaultIsCounted DEF CrashDaemon
    <3>2. DaemonTypeOK'
      BY <2>12, <3>1, UnassignedShape, CoordinatorAssumption DEF CrashDaemon, DaemonGone
    <3>3. KnownIsHonest'
      BY <2>12 DEF CrashDaemon, DaemonGone
    <3> QED
      BY <1>8, <3>2, <3>3
  <2> QED
    BY <1>8, <2>1, <2>2, <2>3, <2>4, <2>5, <2>6, <2>7, <2>8, <2>9, <2>10, <2>11, <2>12
<1>9. CASE UNCHANGED vars
  BY <1>9 DEF vars, daemonVars, boxVars
<1> QED
  BY <1>1, <1>2, <1>3, <1>4, <1>5, <1>6, <1>7, <1>8, <1>9 DEF Next

IInv == CInv /\ DInv

LEMMA InitIInv == Init => IInv
BY InitCInv, InitDInv DEF IInv

LEMMA NextIInv == IInv /\ [Next]_vars => IInv'
BY CoordinatorKeeps, StepsOfCoordinator, DaemonKeeps DEF IInv, CInv

\* Types, for every number of nodes, boxes, names, assignments and faults.
THEOREM TypeCorrectness == Spec => []FleetTypeOK
<1>1. IInv => FleetTypeOK
  BY DEF IInv, CInv, DInv, FleetTypeOK
<1> QED
  BY InitIInv, NextIInv, <1>1, PTL DEF Spec

\* What a daemon tells the coordinator it runs is what its loop was started for
\* (daemon.py, _converge).
THEOREM HonestReports == Spec => []KnownIsHonest
<1>1. IInv => KnownIsHonest
  BY DEF IInv, DInv
<1> QED
  BY InitIInv, NextIInv, <1>1, PTL DEF Spec

-----------------------------------------------------------------------------
(* The control plane's promise.                                             *)

wantedBar == [n \in Nodes |-> sessions[n].id]
toldBar == [n \in Nodes |-> answer[n].id]

\* The abstract step of each kind of change, from the facts of the change.
LEMMA MapCoordinator ==
    ASSUME IInv, CoordinatorMoves, UNCHANGED <<loop, answer>>
    PROVE  [Plane!Next]_(Plane!vars)
<1> USE DEF IInv, CInv, CoordinatorTypeOK
<1>1. ASSUME UNCHANGED <<sessions, issued>> PROVE UNCHANGED Plane!vars
  BY <1>1 DEF Plane!vars
<1>2. ASSUME NEW n \in Nodes, sessions' = [sessions EXCEPT ![n] = Unassigned], issued' = issued
      PROVE  Plane!Next
  <2>1. wantedBar' = [wantedBar EXCEPT ![n] = 0]
    BY <1>2, UnassignedShape DEF wantedBar
  <2>2. Plane!Release(n)
    BY <1>2, <2>1 DEF Plane!Release, wantedBar
  <2> QED
    BY <2>2 DEF Plane!Next
<1>3. ASSUME NEW n \in Nodes, NEW a \in AnyAssignment, a.id = issued + 1, Idle(n),
             issued < MaxAssignments, issued' = issued + 1,
             sessions' = [sessions EXCEPT ![n] = a]
      PROVE  Plane!Next
  <2>1. wantedBar' = [wantedBar EXCEPT ![n] = issued + 1]
    BY <1>3 DEF wantedBar
  <2>2. wantedBar[n] = 0
    BY <1>3, UnassignedShape DEF wantedBar, Idle
  <2>3. Plane!Assign(n)
    BY <1>3, <2>1, <2>2 DEF Plane!Assign, wantedBar
  <2> QED
    BY <2>3 DEF Plane!Next
<1>4. ASSUME NEW n \in Nodes, Pair(n) \/ ResolveNode(n) \/ RefuseRecording(n)
      PROVE  UNCHANGED Plane!vars
  BY <1>1, <1>4 DEF Pair, ResolveNode, RefuseRecording
<1>5. ASSUME NEW n \in Nodes, RemoveNode(n) \/ StopSession(n) PROVE Plane!Next
  BY <1>2, <1>5 DEF RemoveNode, StopSession
<1>6. ASSUME NEW n \in Nodes, CreateRecording(n) PROVE Plane!Next
  <2>1. issued + 1 \in Ids
    BY <1>6, CoordinatorAssumption DEF CreateRecording, Ids
  <2> QED
    BY <1>3, <1>6, <2>1, RecordingShape DEF CreateRecording
<1>7. ASSUME NEW n \in Nodes, NEW g \in Names, StartSession(n, g) PROVE Plane!Next
  <2>1. issued + 1 \in Ids
    BY <1>7, CoordinatorAssumption DEF StartSession, Ids
  <2>2. gpus[g] \in Boxes
    BY <1>7 DEF StartSession, Free
  <2> QED
    BY <1>3, <1>7, <2>1, <2>2, InferenceShape DEF StartSession
<1>8. ASSUME NEW b \in Boxes, NEW g \in Names, RegisterBox(b, g)
      PROVE  UNCHANGED Plane!vars
  BY <1>1, <1>8 DEF RegisterBox
<1>9. ASSUME StopsRunning \/ StartsRunning PROVE UNCHANGED Plane!vars
  BY <1>1, <1>9 DEF StopsRunning, StartsRunning, Reloaded
<1>10. ASSUME NEW n \in Nodes,
              \/ Pair(n) \/ RemoveNode(n) \/ StopSession(n) \/ ResolveNode(n)
              \/ CreateRecording(n) \/ RefuseRecording(n)
       PROVE  Plane!Next \/ UNCHANGED Plane!vars
  BY <1>4, <1>5, <1>6, <1>10
<1>11. Plane!Next \/ UNCHANGED Plane!vars
  <2> HIDE DEF IInv, CInv, CoordinatorTypeOK
  <2>1. CASE \E n \in Nodes : \/ Pair(n) \/ RemoveNode(n) \/ StopSession(n) \/ ResolveNode(n)
                             \/ CreateRecording(n) \/ RefuseRecording(n)
    BY <2>1, <1>10
  <2>2. CASE \E n \in Nodes, g \in Names : StartSession(n, g)
    BY <2>2, <1>7
  <2>3. CASE \E b \in Boxes, g \in Names : RegisterBox(b, g)
    BY <2>3, <1>8
  <2>4. CASE \E g \in Names : RemoveGpu(g)
    <3>1. PICK g \in Names : RemoveGpu(g)
      BY <2>4
    <3> QED
      BY <1>1, <3>1 DEF RemoveGpu
  <2>5. CASE StopsRunning \/ StartsRunning
    BY <2>5, <1>9
  <2> QED
    BY <2>1, <2>2, <2>3, <2>4, <2>5 DEF CoordinatorMoves
<1> QED
  BY <1>11

LEMMA MapDaemon ==
    ASSUME IInv, NEW n \in Nodes, DaemonStep(n)
    PROVE  [Plane!Next]_(Plane!vars)
<1> USE DEF IInv, CInv, CoordinatorTypeOK, DInv, DaemonTypeOK
<1>0. UNCHANGED coordinatorVars => UNCHANGED <<issued, wantedBar>>
  BY DEF coordinatorVars, wantedBar
<1>1. CASE StartDaemon(n) \/ PollIsLost(n) \/ LoopEnds(n)
  <2>1. UNCHANGED <<coordinatorVars, answer, loop>>
    BY <1>1 DEF StartDaemon, PollIsLost, LoopEnds
  <2> QED
    BY <2>1 DEF coordinatorVars, Plane!vars
<1>2. CASE BecomesIdle(n) \/ RefuseForDisk(n) \/ StartSilently(n) \/ StartFails(n)
  <2>1. UNCHANGED <<coordinatorVars, answer, loop>>
    BY <1>2 DEF BecomesIdle, RefuseForDisk, StartSilently, StartFails, NoLoop
  <2> QED
    BY <2>1 DEF coordinatorVars, Plane!vars
<1>3. CASE Answer(n)
  <2>1. toldBar' = [toldBar EXCEPT ![n] = wantedBar[n]]
    BY <1>3 DEF Answer, toldBar, wantedBar
  <2>2. Plane!Tell(n)
    BY <1>0, <1>3, <2>1 DEF Answer, Plane!Tell, toldBar, wantedBar
  <2> QED
    BY <2>2 DEF Plane!Next
<1>4. CASE StopPrior(n)
  <2>1. Plane!Leave(n)
    BY <1>0, <1>4 DEF StopPrior, StopActiveLoop, Plane!Leave, wantedBar
  <2> QED
    BY <2>1 DEF Plane!Next
<1>5. CASE StartLoop(n)
  <2>1. answer[n].id # 0
    BY <1>5, Shape DEF StartLoop, ToStart
  <2>2. loop[n] = 0 /\ loop' = [loop EXCEPT ![n] = toldBar[n]] /\ toldBar[n] # 0
    BY <1>5, <2>1 DEF StartLoop, ToStart, toldBar
  <2>3. UNCHANGED <<coordinatorVars, answer>>
    BY <1>5 DEF StartLoop
  <2>4. Plane!Take(n)
    BY <1>0, <2>2, <2>3 DEF Plane!Take, toldBar, wantedBar
  <2> QED
    BY <2>4 DEF Plane!Next
<1>6. CASE ExitDaemon(n) \/ CrashDaemon(n)
  <2>1. DaemonGone(n)
    BY <1>6 DEF ExitDaemon, CrashDaemon
  <2>2. toldBar' = [toldBar EXCEPT ![n] = 0]
    BY <2>1, UnassignedShape DEF DaemonGone, toldBar
  <2>3. Plane!Forget(n)
    BY <1>0, <2>1, <2>2 DEF DaemonGone, Plane!Forget, toldBar, wantedBar
  <2> QED
    BY <2>3 DEF Plane!Next
<1> QED
  BY <1>1, <1>2, <1>3, <1>4, <1>5, <1>6 DEF DaemonStep

LEMMA MapNext == IInv /\ [Next]_vars => [Plane!Next]_(Plane!vars)
<1> SUFFICES ASSUME IInv, [Next]_vars PROVE [Plane!Next]_(Plane!vars)
  OBVIOUS
<1>1. CASE \E n \in Nodes : DaemonStep(n)
  BY <1>1, MapDaemon
<1>2. CASE ~ \E n \in Nodes : DaemonStep(n)
  <2>1. UNCHANGED <<loop, answer>>
    BY <1>2 DEF Next, Command, Removal, CoordinatorCrash, CoordinatorStart, ForceDown, Unassign,
       Terminate, BoxStarts, BoxStops, IdleGc, ValidatorStep, Probe, othersVars, daemonVars, vars
  <2>2. CASE CoordinatorMoves
    BY <2>1, <2>2, MapCoordinator
  <2>3. CASE UNCHANGED coordinatorVars
    BY <2>1, <2>3 DEF coordinatorVars, Plane!vars
  <2> QED
    BY <2>2, <2>3, StepsOfCoordinator
<1> QED
  BY <1>1, <1>2

\* A node runs only what it was assigned and told last, whatever polls are
\* lost, whichever process restarts and however a removal or a stop interleaves.
THEOREM Refinement == Spec => ImplementsControlPlane
<1>1. Init => Plane!Init
  BY UnassignedShape DEF Init, CoordinatorInit, DaemonInit, Plane!Init
<1> QED
  BY <1>1, InitIInv, NextIInv, MapNext, PTL DEF Spec, ImplementsControlPlane, Plane!Spec

=============================================================================
