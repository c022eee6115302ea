------------------------------- MODULE Robots -------------------------------
(***************************************************************************)
(* The robot behind --robot: one episode on a Nori or on one of the robots *)
(* driven through their own SDK.  The kind is chosen once; the adapters    *)
(* share no state.                                                         *)
(***************************************************************************)
EXTENDS Nori, NativeRobots

robotVars == <<vars, nativeVars>>

RobotsInit ==
    /\ Init
    /\ NativeInit
    /\ ~IsNative => ~manual

OnNori(A) == kind = "nori" /\ A /\ UNCHANGED nativeVars
OnNative(A) == NativeNext /\ A /\ UNCHANGED vars

RobotsNext == OnNori(Next) \/ OnNative(TRUE)

\* Fairness: threads run, time passes, a running Nori daemon reports its status
\* and takes the next client.
RobotsSpec ==
    /\ RobotsInit /\ [][RobotsNext]_robotVars
    /\ WF_robotVars(OnNori(LoopSteps))
    /\ WF_robotVars(OnNori(Collected))
    /\ WF_robotVars(OnNori(Pumps /\ UNCHANGED loopVars))
    /\ WF_robotVars(OnNori(ReaderSteps /\ UNCHANGED loopVars))
    /\ WF_robotVars(OnNori(Telemetry(TRUE) /\ UNCHANGED loopVars))
    /\ WF_robotVars(OnNori(ServesNext /\ UNCHANGED loopVars))
    /\ WF_robotVars(OnNori(Tick))
=============================================================================
