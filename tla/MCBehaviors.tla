---------------------------- MODULE MCBehaviors ----------------------------
(***************************************************************************)
(* Behaviors for TLC: two processes, a joint in position mode and a        *)
(* gripper, caps of 100 a tick, two behaviours.                     *)
(***************************************************************************)
EXTENDS Behaviors

MCJoints == {"lift", "gripper"}
MCLow == [j \in MCJoints |-> 0]
MCHigh == [j \in MCJoints |-> 400]
MCCap == [j \in MCJoints |-> 100]
MCPid == [first |-> 1, second |-> 2]
MCComfort == <<7, 10>>
MCSpeeds == {<<4, 3>>}

\* home: automatic; wave: keyframes, close to the cap.
MCLibrary == {
    [kind |-> "pose", targets |-> [lift |-> 400], duration |-> 0, interpolation |-> "linear"],
    [kind |-> "trajectory", interpolation |-> "trapezoidal",
     keyframes |-> << [t |-> 0, targets |-> [lift |-> 60, gripper |-> 50]],
                      [t |-> 5, targets |-> [lift |-> 180]] >>] }
=============================================================================
