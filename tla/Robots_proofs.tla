---------------------------- MODULE Robots_proofs ----------------------------
(***************************************************************************)
(* For any joint range, step, time-out and number of faults: the clamp of  *)
(* the native adapters bounds every command by what the arm received last, *)
(* the teardown lets go of every device, and a Nori whose loop is silent   *)
(* stops.                                                                  *)
(***************************************************************************)
EXTENDS Robots, TLAPS

(* What an adapter remembers of an arm is at most one step for each command *)
(* computed since away from the command the arm received last.              *)
WithinMissedSteps ==
    \A a \in Arms : got[a] # None =>
        /\ last[a] # None
        /\ last[a] - got[a] =< MaxStep * missed[a]
        /\ got[a] - last[a] =< MaxStep * missed[a]

MotionTypeOK ==
    /\ last \in [Arms -> Int \cup {None}]
    /\ got \in [Arms -> Int \cup {None}]
    /\ missed \in [Arms -> Nat]

MotionInv == MotionTypeOK /\ WithinMissedSteps

(* The farthest a command may be from the last one received.                *)
InReach ==
    \A a \in Arms : got[a] # None =>
        got'[a] \in got[a] - MaxStep * (missed[a] + 1) .. got[a] + MaxStep * (missed[a] + 1)

(* No arm has been commanded before connect() is through.                   *)
NothingSent == phase = "connect" => \A a \in Arms : got[a] = None

LEMMA NativeStep == [RobotsNext]_robotVars => [NativeNext]_nativeVars
BY DEF RobotsNext, OnNori, OnNative, robotVars

(* One step of the clamp, and none of the first command.                    *)
LEMMA ClampBounds ==
    ASSUME MotionTypeOK, NEW a \in Arms, NEW t \in Int
    PROVE  /\ Clamped(a, t) \in Int
           /\ last[a] # None =>
                 Clamped(a, t) - last[a] =< MaxStep /\ last[a] - Clamped(a, t) =< MaxStep
<1>1. MaxStep \in Nat /\ None \notin Int
  BY NativeAssumption
<1>2. last[a] \in Int \cup {None}
  BY DEF MotionTypeOK
<1> QED BY <1>1, <1>2 DEF Clamped

LEMMA SendsStep ==
    ASSUME MotionInv, NEW targets \in [Arms -> Poses], NEW reached, Sends(targets, reached)
    PROVE  MotionInv' /\ InReach
<1>0. MaxStep \in Nat /\ None \notin Int /\ \A a \in Arms : targets[a] \in Int
  BY NativeAssumption DEF Poses
<1>1. \A a \in Arms : /\ last'[a] = Clamped(a, targets[a])
                      /\ got'[a] = IF a \in reached THEN Clamped(a, targets[a]) ELSE got[a]
                      /\ missed'[a] = IF a \in reached THEN 0 ELSE missed[a] + 1
  BY DEF Sends, Remembered
<1>2. MotionTypeOK'
  <2>1. \A a \in Arms : Clamped(a, targets[a]) \in Int
    BY <1>0, ClampBounds DEF MotionInv
  <2> QED BY <2>1 DEF MotionInv, MotionTypeOK, Sends, Remembered
<1>3. ASSUME NEW a \in Arms
      PROVE  /\ got'[a] # None => /\ last'[a] # None
                                  /\ last'[a] - got'[a] =< MaxStep * missed'[a]
                                  /\ got'[a] - last'[a] =< MaxStep * missed'[a]
             /\ got[a] # None => got'[a] \in got[a] - MaxStep * (missed[a] + 1)
                                               .. got[a] + MaxStep * (missed[a] + 1)
  <2> DEFINE new == Clamped(a, targets[a])
             most == MaxStep * missed[a]
  <2>1. /\ new \in Int
        /\ last[a] # None => new - last[a] =< MaxStep /\ last[a] - new =< MaxStep
    BY <1>0, ClampBounds DEF MotionInv
  <2>2. /\ missed[a] \in Nat /\ last[a] \in Int \cup {None} /\ got[a] \in Int \cup {None}
        /\ got[a] # None => /\ last[a] # None
                            /\ last[a] - got[a] =< most
                            /\ got[a] - last[a] =< most
    BY DEF MotionInv, MotionTypeOK, WithinMissedSteps
  <2>3. most \in Nat /\ MaxStep * (missed[a] + 1) = most + MaxStep /\ MaxStep * 0 = 0
    BY <1>0, <2>2
  <2>4. got[a] # None => new - got[a] =< most + MaxStep /\ got[a] - new =< most + MaxStep
    <3> HIDE DEF new, most
    <3> QED BY <1>0, <2>1, <2>2, <2>3
  <2>5. CASE a \in reached
    <3>1. got'[a] = new /\ last'[a] = new /\ missed'[a] = 0
      BY <1>1, <2>5
    <3> HIDE DEF new, most
    <3> QED BY <1>0, <2>1, <2>2, <2>3, <2>4, <3>1
  <2>6. CASE a \notin reached
    <3>1. got'[a] = got[a] /\ last'[a] = new /\ missed'[a] = missed[a] + 1
      BY <1>1, <2>6
    <3> HIDE DEF new, most
    <3> QED BY <1>0, <2>1, <2>2, <2>3, <2>4, <3>1
  <2> QED BY <2>5, <2>6
<1> QED BY <1>2, <1>3 DEF MotionInv, WithinMissedSteps, InReach

(* Only a send moves; homing starts both from the same pose.                *)
LEMMA MotionStep ==
    ASSUME MotionInv, NothingSent, [NativeNext]_nativeVars
    PROVE  MotionInv' /\ (UNCHANGED got \/ InReach \/ \A a \in Arms : got[a] = None)
<1>0. None \notin Int /\ MaxStep \in Nat
  BY NativeAssumption
<1>1. CASE UNCHANGED motion
  BY <1>1 DEF MotionInv, MotionTypeOK, WithinMissedSteps, motion
<1>2. ASSUME NEW targets \in [Arms -> Poses], NEW reached, Sends(targets, reached)
      PROVE  MotionInv' /\ InReach
  BY <1>2, SendsStep
<1>3. ASSUME NEW next, Reached(next) PROVE MotionInv' /\ InReach
  <2>1. \E targets \in [Arms -> Poses] : \E reached : Sends(targets, reached)
    BY <1>3 DEF Reached
  <2> QED BY <1>2, <2>1
<1>4. ASSUME SendRaises PROVE MotionInv' /\ InReach
  <2>1. \E targets \in [Arms -> Poses] : \E reached : Sends(targets, reached)
    BY <1>4 DEF SendRaises
  <2> QED BY <1>2, <2>1
<1>5. CASE Drives
  BY <1>1, <1>3, <1>4, <1>5 DEF Drives
<1>6. CASE SettleSteps
  BY <1>1, <1>3, <1>4, <1>6 DEF SettleSteps
<1>7. CASE Starts
  <2>1. CASE last' = [a \in Arms |-> HomePose] /\ got' = last' /\ UNCHANGED missed
    <3>1. \A a \in Arms : last'[a] = 0 /\ got'[a] = 0 /\ missed'[a] \in Nat
      BY <2>1 DEF HomePose, MotionInv, MotionTypeOK
    <3>2. \A a \in Arms : MaxStep * missed'[a] \in Nat
      BY <1>0, <3>1
    <3>3. MotionTypeOK'
      BY <2>1 DEF HomePose, MotionInv, MotionTypeOK
    <3>4. WithinMissedSteps'
      BY <1>0, <3>1, <3>2 DEF WithinMissedSteps
    <3>5. phase = "connect"
      BY <1>7 DEF Starts
    <3> QED BY <3>3, <3>4, <3>5 DEF MotionInv, NothingSent
  <2> QED BY <1>1, <1>7, <2>1 DEF Starts
<1>8. CASE UNCHANGED nativeVars
  BY <1>1, <1>8 DEF nativeVars, motion
<1> QED
  BY <1>1, <1>5, <1>6, <1>7, <1>8
     DEF NativeNext, DriverSteps, OpensNext, ConnectRaises, Verifies, ClosesNext, Disconnected,
     ReadsJoints, ReadRaises, Guards, Settled, TimesOut, Stops, Calls, JointStateArrives,
     FrameArrives, ReaderDies, TimePasses

LEMMA ConnectStep ==
    ASSUME NothingSent, [NativeNext]_nativeVars
    PROVE  NothingSent'
<1>1. CASE phase' # "connect"
  BY <1>1 DEF NothingSent
<1>2. CASE phase' = "connect"
  <2>1. phase = "connect" /\ UNCHANGED got
    BY <1>2
       DEF NativeNext, DriverSteps, OpensNext, ConnectRaises, Verifies, Starts, ClosesNext,
       Disconnected, ReadsJoints, ReadRaises, Guards, Drives, Reached, SendRaises, Raised,
       Settled, TimesOut, SettleSteps, Stops, Calls, JointStateArrives, FrameArrives,
       ReaderDies, TimePasses, AfterCloseRaised, nativeVars, motion
  <2> QED BY <2>1 DEF NothingSent
<1> QED BY <1>1, <1>2

(* Every arm's command stays within its reach, in every step.               *)
THEOREM ClampIsRespected == RobotsSpec => CommandsAreClamped
<1> DEFINE I == MotionInv /\ NothingSent
<1>1. RobotsInit => I
  BY DEF RobotsInit, NativeInit, MotionInv, MotionTypeOK, WithinMissedSteps, NothingSent
<1>2. I /\ [RobotsNext]_robotVars => I'
  BY NativeStep, MotionStep, ConnectStep
<1>3. I /\ [RobotsNext]_robotVars =>
        [\A a \in Arms : got[a] # None =>
            LET most == MaxStep * (missed[a] + 1)
            IN got'[a] \in got[a] - most .. got[a] + most]_nativeVars
  <2> SUFFICES ASSUME I, [RobotsNext]_robotVars, NEW a \in Arms, got[a] # None
               PROVE  got'[a] \in got[a] - MaxStep * (missed[a] + 1)
                                  .. got[a] + MaxStep * (missed[a] + 1)
    OBVIOUS
  <2>1. UNCHANGED got \/ InReach
    BY NativeStep, MotionStep
  <2>2. CASE InReach
    BY <2>2 DEF InReach
  <2>3. CASE UNCHANGED got
    <3>1. got[a] \in Int /\ missed[a] \in Nat /\ MaxStep \in Nat
      BY NativeAssumption DEF MotionInv, MotionTypeOK
    <3>2. MaxStep * (missed[a] + 1) \in Nat
      BY <3>1
    <3> DEFINE most == MaxStep * (missed[a] + 1)
    <3> HIDE DEF most
    <3>3. got[a] \in got[a] - most .. got[a] + most
      BY <3>1, <3>2 DEF most
    <3> QED BY <2>3, <3>3 DEF most
  <2> QED BY <2>1, <2>2, <2>3
<1> QED BY <1>1, <1>2, <1>3, PTL DEF RobotsSpec, CommandsAreClamped

-----------------------------------------------------------------------------

(* What a robot that was let go of still holds: nothing.                    *)
LEMMA TeardownStep ==
    ASSUME TeardownReleases, [NativeNext]_nativeVars
    PROVE  TeardownReleases'
<1> USE DEF TeardownReleases
<1>1. CASE ConnectRaises \/ Verifies
  BY <1>1 DEF ConnectRaises, Verifies, LeftByFailure
<1>2. CASE OpensNext \/ Starts \/ ClosesNext \/ Disconnected
  BY <1>2 DEF OpensNext, Starts, ClosesNext, Disconnected, AfterCloseRaised
<1>3. CASE phase' \notin {"ended", "failed"}
  BY <1>3
<1>4. CASE UNCHANGED <<phase, owed, kind>>
  BY <1>4
<1> QED
  BY <1>1, <1>2, <1>3, <1>4
     DEF NativeNext, DriverSteps, ReadsJoints, ReadRaises, Guards, Drives, Reached, SendRaises,
     Raised, Settled, TimesOut, SettleSteps, Stops, Calls, JointStateArrives, FrameArrives,
     ReaderDies, TimePasses, nativeVars

(* Every device is let go of, however many of them fail to close.           *)
THEOREM TeardownIsComplete == RobotsSpec => []TeardownReleases
<1>1. RobotsInit => TeardownReleases
  BY DEF RobotsInit, NativeInit, TeardownReleases
<1>2. TeardownReleases /\ [RobotsNext]_robotVars => TeardownReleases'
  BY NativeStep, TeardownStep
<1> QED BY <1>1, <1>2, PTL DEF RobotsSpec

-----------------------------------------------------------------------------

(* The proof of life is at least as old as the loop's last step, a frame    *)
(* the pump waits to send was decided on in time, and a robot that moves    *)
(* was fed, less than t_stop ago, by a loop or a pump that was in time.     *)
IdleInv ==
    /\ {idle, alive, fed} \subseteq Nat
    /\ pump = [at |-> pump.at, conn |-> pump.conn]
    /\ alive > Window \/ idle =< alive
    /\ pump.at = "send" => idle =< Window
    /\ pump.at = "late" => idle =< Window + 1
    /\ safety = "ok" => fed =< Stop /\ idle =< fed + Window + 1

LEMMA InitIdle == Init => IdleInv
BY SessionAssumption DEF Init, SessionInit, IdleInv

(* The keep-alive proves nothing by itself: it sends only while the loop's  *)
(* proof of life is young.                                                  *)
LEMMA PumpIdle == ASSUME IdleInv, Pumps, UNCHANGED loopVars PROVE IdleInv'
<1> USE SessionAssumption DEF IdleInv, clientVars, daemonVars, loopVars
<1>1. CASE PumpSkips
  BY <1>1 DEF PumpSkips
<1>2. CASE PumpWakes
  BY <1>2 DEF PumpWakes, LoopIsAlive
<1>3. CASE PumpSends
  BY <1>3 DEF PumpSends, ControlFrame, WriteFails, Disconnects
<1>4. CASE PumpExits
  BY <1>4 DEF PumpExits
<1> QED BY <1>1, <1>2, <1>3, <1>4 DEF Pumps

(* The loop's own frames and its proof of life come with a step of its own. *)
LEMMA LoopIdle ==
    ASSUME IdleInv, LoopSteps \/ StopsAsked \/ Press \/ TripsOnSite \/ Collected
    PROVE  IdleInv'
<1> USE SessionAssumption DEF IdleInv, clientVars, daemonVars, sessionVars, loopVars, LoopStep
<1>1. CASE Observes
  BY <1>1 DEF Observes
<1>2. CASE Forwards
  BY <1>2 DEF Forwards, EstopFrame, WriteFails, Disconnects
<1>3. CASE Moves \/ MoveRaises
  BY <1>3 DEF Moves, MoveRaises, ControlFrame, WriteFails, Disconnects
<1>4. CASE HoldsStill \/ Closes \/ JoinsThreads \/ StopsAsked
  BY <1>4 DEF HoldsStill, Closes, JoinsThreads, StopsAsked
<1>5. CASE Press \/ TripsOnSite \/ Collected
  BY <1>5 DEF Press, TripsOnSite, Collected
<1> QED BY <1>1, <1>2, <1>3, <1>4, <1>5 DEF LoopSteps

LEMMA TickIdle == ASSUME IdleInv, Tick PROVE IdleInv'
<1>1. /\ Window \in Nat /\ Stop \in Nat /\ Deadline = Window + 1 + Stop
  BY SessionAssumption DEF Deadline
<1>2. /\ alive' = Older(alive, Window) /\ fed' = Older(fed, Stop)
      /\ idle' = Older(idle, Deadline)
      /\ safety' = IF fed' > Stop /\ safety = "ok" THEN "safe_hold" ELSE safety
  BY DEF Tick, Ages
<1>3. /\ pump' = [at |-> pump'.at, conn |-> pump'.conn]
      /\ pump'.at # "send"
      /\ pump'.at = "late" => pump.at = "send"
  BY DEF Tick, Ages, IdleInv
<1> QED BY <1>1, <1>2, <1>3 DEF IdleInv, Older

(* The reader and the daemon feed nothing, and the pump stays what it was.  *)
LEMMA OthersIdle ==
    ASSUME IdleInv, ReaderSteps \/ DaemonSteps, UNCHANGED loopVars
    PROVE  IdleInv'
<1> USE DEF IdleInv, loopVars, clientVars, daemonVars
<1>1. CASE ReaderSteps
  BY <1>1 DEF ReaderSteps, Telemetry, FatalError, LinkLost, ReaderExits, BeginsReconnect,
              WindowIsOver, Dials, Acknowledged, Rejected, Reset, Disconnects, Dies, ReaderGoes
<1>2. CASE DaemonSteps
  BY <1>2, SessionAssumption DEF DaemonSteps, ServesNext, RivalConnects, Restarts, DropsClient
<1> QED BY <1>1, <1>2

LEMMA NextIdle == IdleInv /\ [RobotsNext]_robotVars => IdleInv'
<1> SUFFICES ASSUME IdleInv, [RobotsNext]_robotVars PROVE IdleInv'
  OBVIOUS
<1>1. CASE UNCHANGED vars
  BY <1>1 DEF vars, sessionVars, clientVars, daemonVars, loopVars, IdleInv
<1>2. CASE Next
  BY <1>2, PumpIdle, LoopIdle, TickIdle, OthersIdle DEF Next, SessionSteps
<1> QED BY <1>1, <1>2 DEF RobotsNext, OnNori, OnNative, robotVars

(* A robot whose loop has been silent for the pump's window, one period and *)
(* t_stop is stopped, for any of the three.                                 *)
THEOREM SilentLoopStops == RobotsSpec => []DeadBrainStops
<1>1. RobotsInit => IdleInv
  BY InitIdle DEF RobotsInit
<1>2. IdleInv => DeadBrainStops
  BY SessionAssumption DEF IdleInv, DeadBrainStops, Deadline
<1> QED BY <1>1, <1>2, NextIdle, PTL DEF RobotsSpec

=============================================================================
