---------------------------- MODULE NativeRobots ----------------------------
(***************************************************************************)
(* The robots driven through their own SDK: YAM arms on CAN, Axol through  *)
(* an event loop, a dimos stack over its bus (adapters/yam, axol, dimos).  *)
(* One robot from connect() to disconnect(): driven by the control loop    *)
(* (node/looprunner.py) or by manual action() calls (adapters/base.py).    *)
(* A pose is one joint of each arm; grippers are exempt from the clamp and *)
(* left out.                                                               *)
(***************************************************************************)
EXTENDS Integers, FiniteSets, Sequences, DimosStack

CONSTANTS
    Kinds,       \* the robots considered
    MaxPose,     \* a joint's positions are 0..MaxPose
    MaxStep,     \* max_step_rad
    StaleAfter,  \* staleness_ms and stale_after_s
    Timeout,     \* the timeout of an action()
    MaxTrouble,  \* bound: reads, commands, opens and closes that raise
    MaxMissed,   \* bound: commands in a row that do not reach an arm
    None         \* no command yet

ASSUME NativeAssumption ==
    /\ {MaxPose, MaxStep, Timeout} \subseteq Nat \ {0}
    /\ {StaleAfter, MaxTrouble, MaxMissed} \subseteq Nat
    /\ None \notin Int

VARIABLES
    kind,      \* robot_kind
    manual,    \* driven by action() calls, not by the control loop
    phase,     \* where the thread that drives the robot stands
    owed,      \* what connect() opened and disconnect() has not yet let go of
    last,      \* _last, per arm
    got,       \* history: the newest command each arm received
    missed,    \* history: commands computed for each arm since
    joints,    \* age of the newest joint state
    obs,       \* age of the joints the tick holds, 0 between ticks
    frame,     \* age of the camera's newest frame, StaleAfter + 2 if its reader died
    left,      \* time left to the deadline of the action()
    commanded, \* last_commanded is not None
    stack,     \* the tasks of the dimos stack just verified, else empty
    trouble    \* faults so far

nativeVars == <<kind, manual, phase, owed, last, got, missed, joints, obs, frame,
                left, commanded, stack, trouble>>

Arms == {"left", "right"}
Poses == 0..MaxPose
HomePose == 0

\* What each connect() opens, in order.
Opens == [yam   |-> <<"left", "right", "cameras">>,
          axol  |-> <<"loop", "arms", "cameras">>,
          dimos |-> <<"bus">>]

IsNative == kind \in DOMAIN Opens

NativeInit ==
    /\ kind \in Kinds
    /\ manual \in BOOLEAN
    /\ phase = "connect" /\ owed = {}
    /\ last = [a \in Arms |-> None] /\ got = last
    /\ missed = [a \in Arms |-> 0]
    /\ joints = 0 /\ obs = 0 /\ frame = 0
    /\ left = 0 /\ commanded = FALSE
    /\ stack = <<>> /\ trouble = 0

Faulty == trouble < MaxTrouble /\ trouble' = trouble + 1

motion == <<last, got, missed>>
ages == <<joints, obs, frame>>
call == <<left, commanded>>

-----------------------------------------------------------------------------
(***************************************************************************)
(* connect() and disconnect().                                             *)
(***************************************************************************)
Connected == Cardinality(owed) = Len(Opens[kind])

OpensNext ==
    /\ phase = "connect" /\ ~Connected
    /\ owed' = owed \cup {Opens[kind][Cardinality(owed) + 1]}
    /\ UNCHANGED <<kind, manual, phase, motion, ages, call, stack, trouble>>

\* What a connect() that raises leaves open.  dimos closes its bus; connect() of
\* yam and axol stands before the loop's try, so nobody disconnects them.
LeftByFailure == IF kind = "dimos" THEN {} ELSE owed

\* A device does not open, an RPC of the stack fails, no first joint state or
\* frame arrives in time.
ConnectRaises ==
    /\ phase = "connect"
    /\ Faulty
    /\ phase' = "failed"
    /\ owed' = LeftByFailure
    /\ stack' = <<>>
    /\ UNCHANGED <<kind, manual, motion, ages, call>>

\* dimos accepts the stack it finds or refuses it.
Verifies ==
    /\ phase = "connect" /\ Connected
    /\ kind = "dimos" /\ stack = <<>>
    /\ \E found \in Stacks, readable \in BOOLEAN, hw \in Hardware :
       \E before, meanwhile \in SUBSET DOMAIN found :
          IF ServoFits(found, readable, before, meanwhile) /\ HardwareFits(hw)
          THEN stack' = found /\ UNCHANGED <<phase, owed>>
          ELSE phase' = "failed" /\ owed' = LeftByFailure /\ UNCHANGED stack
    /\ UNCHANGED <<kind, manual, motion, ages, call, trouble>>

\* All is open; yam may first home its arms, which also seeds the clamp.
Starts ==
    /\ phase = "connect" /\ Connected
    /\ kind = "dimos" => stack # <<>>
    /\ phase' = "ready"
    /\ stack' = <<>>
    /\ \/ UNCHANGED motion
       \/ /\ kind = "yam"
          /\ last' = [a \in Arms |-> HomePose] /\ got' = last'
          /\ UNCHANGED missed
    /\ UNCHANGED <<kind, manual, owed, ages, call, trouble>>

\* Cameras first, then the arms, an event loop last.
NextToClose(r) ==
    /\ r \in owed
    /\ r # "cameras" => "cameras" \notin owed
    /\ r = "loop" => owed = {"loop"}

\* Mutant: a device that fails to close ends the teardown.
GivesUp == "ended"

\* Every close stands in its own try.
AfterCloseRaised == "closing"

ClosesNext ==
    /\ phase = "closing"
    /\ \E r \in owed : NextToClose(r) /\ owed' = owed \ {r}
    /\ \/ UNCHANGED <<phase, trouble>>
       \/ Faulty /\ phase' = AfterCloseRaised
    /\ UNCHANGED <<kind, manual, motion, ages, call, stack>>

Disconnected ==
    /\ phase = "closing" /\ owed = {}
    /\ phase' = "ended"
    /\ UNCHANGED <<kind, manual, owed, motion, ages, call, stack, trouble>>

-----------------------------------------------------------------------------
(***************************************************************************)
(* The world: joint states and frames arrive or do not, time passes.       *)
(***************************************************************************)
JointStateArrives ==
    /\ kind = "dimos" /\ phase # "ended"
    /\ joints' = 0
    /\ UNCHANGED <<kind, manual, phase, owed, motion, obs, frame, call, stack, trouble>>

\* ThreadedCamera's reader keeps the newest frame and dies of the first error.
FrameArrives ==
    /\ kind = "yam" /\ phase # "ended" /\ frame # StaleAfter + 2
    /\ frame' = 0
    /\ UNCHANGED <<kind, manual, phase, owed, motion, joints, obs, call, stack, trouble>>

ReaderDies ==
    /\ kind = "yam" /\ phase # "ended" /\ frame # StaleAfter + 2
    /\ Faulty
    /\ frame' = StaleAfter + 2
    /\ UNCHANGED <<kind, manual, phase, owed, motion, joints, obs, call, stack>>

Aged(n) == IF n < StaleAfter + 1 THEN n + 1 ELSE n

TimePasses ==
    /\ phase # "ended"
    /\ joints' = IF kind = "dimos" THEN Aged(joints) ELSE joints
    /\ frame' = IF kind = "yam" THEN Aged(frame) ELSE frame
    /\ obs' = IF phase = "guard" THEN Aged(obs) ELSE obs
    /\ left' = IF left = 0 THEN 0 ELSE left - 1
    /\ UNCHANGED <<kind, manual, phase, owed, motion, commanded, stack, trouble>>

-----------------------------------------------------------------------------
(***************************************************************************)
(* send_action().                                                          *)
(***************************************************************************)

\* Clamped to one step from the last accepted command; the first is free.
Clamped(a, target) ==
    IF last[a] = None \/ target \in last[a] - MaxStep .. last[a] + MaxStep
    THEN target
    ELSE IF target > last[a] THEN last[a] + MaxStep ELSE last[a] - MaxStep

\* Mutant: the request is remembered, not what was sent.
RememberedRequest(a, target) == target

Remembered(a, target) == Clamped(a, target)

\* The commands are computed and remembered for all arms, then sent; reached are
\* the arms that receive theirs.
Sends(targets, reached) ==
    /\ last' = [a \in Arms |-> Remembered(a, targets[a])]
    /\ got' = [a \in Arms |-> IF a \in reached THEN Clamped(a, targets[a]) ELSE got[a]]
    /\ missed' = [a \in Arms |-> IF a \in reached THEN 0 ELSE missed[a] + 1]

\* Where an exception leaves the driver: the loop ends and disconnects, a caller
\* of action() may try again.
Raised == IF manual THEN {"ready", "closing"} ELSE {"closing"}

\* dimos publishes and forgets: the servo task may never see the command.
Reached(next) ==
    /\ \E targets \in [Arms -> Poses] :
          \/ Sends(targets, Arms)
          \/ /\ kind = "dimos"
             /\ \A a \in Arms : missed[a] < MaxMissed
             /\ Sends(targets, {})
    /\ phase' = next
    /\ UNCHANGED trouble

\* yam commands its arms one by one; axol's command may time out and still run.
SendRaises ==
    /\ Faulty
    /\ \A a \in Arms : missed[a] < MaxMissed
    /\ \E targets \in [Arms -> Poses], reached \in SUBSET Arms :
          /\ kind = "yam" => reached \in {{}, {"left"}}
          /\ kind = "dimos" => reached = {}
          /\ Sends(targets, reached)
    /\ phase' \in Raised

-----------------------------------------------------------------------------
(***************************************************************************)
(* The control loop's tick.                                                *)
(***************************************************************************)

\* should_stop(), or the program is done with the robot.
Stops ==
    /\ phase = "ready"
    /\ phase' = "closing"
    /\ UNCHANGED <<kind, manual, owed, motion, ages, call, stack, trouble>>

\* A yam's cameras raise rather than repeat an old image; dimos serves it.
FramesServed == kind = "yam" => frame <= StaleAfter

ReadsJoints ==
    /\ phase = "ready" /\ ~manual
    /\ FramesServed
    /\ obs' = joints
    /\ phase' = "guard"
    /\ UNCHANGED <<kind, manual, owed, motion, joints, frame, call, stack, trouble>>

\* get_observation() raises: a camera of a yam, or any robot's SDK.
ReadRaises ==
    /\ \/ phase = "ready" /\ ~manual
       \/ phase = "settle"
    /\ \/ ~FramesServed /\ UNCHANGED trouble
       \/ FramesServed /\ Faulty
    /\ phase' \in Raised
    /\ UNCHANGED <<kind, manual, owed, motion, ages, call, stack>>

\* pre_tick(): only dimos has one, and it asks the bus how old its newest joint
\* state is now.
Guards ==
    /\ phase = "guard"
    /\ \/ /\ kind = "dimos" /\ joints > StaleAfter
          /\ phase' = "ready" /\ obs' = 0
       \/ /\ kind = "dimos" => joints <= StaleAfter
          /\ phase' = "drive" /\ UNCHANGED obs
    /\ UNCHANGED <<kind, manual, owed, motion, joints, frame, call, stack, trouble>>

\* Nothing to command, or a command; both may be captured.
Drives ==
    /\ phase = "drive"
    /\ \/ Reached("ready")
       \/ SendRaises
       \/ phase' = "ready" /\ UNCHANGED <<motion, trouble>>
    /\ obs' = 0
    /\ UNCHANGED <<kind, manual, owed, joints, frame, call, stack>>

-----------------------------------------------------------------------------
(***************************************************************************)
(* A manual action().                                                      *)
(***************************************************************************)
Calls ==
    /\ phase = "ready" /\ manual
    /\ phase' = "settle"
    /\ left' = Timeout
    /\ commanded' = FALSE
    /\ UNCHANGED <<kind, manual, owed, motion, ages, stack, trouble>>

\* Every position joint is measured within its tolerance, after a command at
\* least.
Settled ==
    /\ phase = "settle" /\ FramesServed
    /\ commanded
    /\ phase' = "ready"
    /\ UNCHANGED <<kind, manual, owed, motion, ages, call, stack, trouble>>

OnTime == left > 0

TimesOut ==
    /\ phase = "settle" /\ FramesServed
    /\ ~OnTime
    /\ phase' \in Raised
    /\ UNCHANGED <<kind, manual, owed, motion, ages, call, stack, trouble>>

\* The gate moves the target a step on; its first answer is only an anchor.
SettleSteps ==
    /\ phase = "settle" /\ FramesServed
    /\ OnTime
    /\ \/ Reached("settle") /\ commanded' = TRUE
       \/ SendRaises /\ commanded' = TRUE
       \/ /\ ~commanded
          /\ UNCHANGED <<phase, motion, trouble, commanded>>
    /\ UNCHANGED <<kind, manual, owed, ages, left, stack>>

-----------------------------------------------------------------------------
DriverSteps ==
    \/ OpensNext \/ ConnectRaises \/ Verifies \/ Starts \/ ClosesNext \/ Disconnected
    \/ ReadsJoints \/ ReadRaises \/ Guards \/ Drives
    \/ Settled \/ TimesOut \/ SettleSteps

NativeNext ==
    /\ IsNative
    /\ \/ DriverSteps \/ Stops \/ Calls
       \/ JointStateArrives \/ FrameArrives \/ ReaderDies \/ TimePasses

NativeSpec == NativeInit /\ [][NativeNext]_nativeVars

-----------------------------------------------------------------------------
(***************************************************************************)
(* Properties.                                                             *)
(***************************************************************************)

\* No slam: an arm is never commanded farther from the command it received last
\* than one step for each command computed since, whatever was requested,
\* whatever was lost or raised in between and whoever calls again after it
\* (_clamp_oversized_step, the only clamp below the wire).
CommandsAreClamped ==
    [][\A a \in Arms : got[a] # None =>
          LET most == MaxStep * (missed[a] + 1)
          IN got'[a] \in got[a] - most .. got[a] + most]_nativeVars

\* Nothing is forgotten: once the driver is done with the robot, every device
\* was let go of, even those after one that failed to close; a dimos robot that
\* failed to connect holds nothing either (disconnect() and
\* DimosNativeRobot.connect).
TeardownReleases ==
    (phase = "ended" \/ (phase = "failed" /\ kind = "dimos")) => owed = {}

\* What verify.py promises of a stack it accepts: a servo task consumes the
\* stream ("end-to-end proof"), and it is "the ONLY task claiming those joints".
\* Two servos with the same claims pass, and so does a task that somebody else
\* sets going while the probe waits; the README shows both.
StackIsOurs ==
    stack # <<>> =>
        \E i \in DOMAIN stack :
            /\ Takes(stack[i], Declared)
            /\ \A j \in DOMAIN stack \ {i} : stack[j].claims \cap Declared = {}

\* "Stale joints must not drive the SafetyGate, feed the policy, or be recorded
\* as live state" (DimosNativeRobot.pre_tick).
StaleJointsAreNeverUsed == kind = "dimos" /\ phase = "drive" => obs <= StaleAfter
=============================================================================
