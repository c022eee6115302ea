----------------------------- MODULE ControlLoop -----------------------------
(***************************************************************************)
(* One episode of the node's control loop: the tick skeleton               *)
(* (node/looprunner.py), the command bus that decides who may move the     *)
(* robot (node/movement.py), the teleop frame store it reads               *)
(* (node/teleop/_frame_store.py) and, underneath, the DRTC client it       *)
(* steps and flushes (DrtcClient.tla).                                     *)
(*                                                                         *)
(* Actors: the control-loop thread, the client's sender thread, the teleop *)
(* receive thread that stores frames and latches the sticky e-stop, and    *)
(* the operator.  The safety gate, the action filter and the robot are     *)
(* owned by the control-loop thread.                                       *)
(***************************************************************************)
EXTENDS DrtcClient

CONSTANTS
    Setups,         \* the episodes considered: who may drive, on which robot
    GraceTicks      \* handback_grace_ticks

\* What control.py and daemon.py settle before the loop starts.
Setup ==
    [policy : BOOLEAN,      \* FALSE on a teleop-recording assignment
     gated : BOOLEAN,       \* a SafetyGate exists: the robot kind has a profile
     schemaOk : BOOLEAN,    \* the profile's joints match the robot's action keys
     hardLatch : BOOLEAN]   \* the robot exposes estop(), a hardware latch

ASSUME LoopAssumption ==
    /\ Setups \subseteq Setup
    /\ GraceTicks \in Nat

VARIABLES
    setup,       \* the episode's setup, fixed
    held,        \* LatestFrameStore: the frame latest_frame() would return
    sticky,      \* LatestFrameStore._estop_seen
    loop,        \* the control-loop thread: where it is in the tick, the
                 \* frame it sampled, the source it arbitrated
    latched,     \* gate.config.estop_latched
    forwards,    \* calls of robot.estop() so far
    forwarded,   \* CommandBus._estop_forwarded
    prevSource,  \* CommandBus._prev_source
    grace,       \* CommandBus._grace_left
    primed,      \* the action filter's delay line holds state
    anchored,    \* the gate holds a commanded trajectory
    moved,       \* who commanded the robot in the current tick
    lastMover,   \* who commanded it last
    quiet,       \* history: stale ticks since the human last drove
    takeover,    \* history: the clock when the human last took over
    pressed,     \* history: the operator's e-stop has reached the node
    stopSeen     \* history: it had when this tick sampled its frame

busVars  == <<latched, forwards, forwarded, prevSource, grace, primed, anchored>>
linkVars == <<held, sticky, pressed>>
histVars == <<lastMover, quiet, takeover, stopSeen>>
vars     == <<clientVars, linkVars, loop, busVars, moved, histVars, setup>>

-----------------------------------------------------------------------------

\* A frame as the bus reads it: none (absent or older than 250 ms), deadman
\* released, deadman held and engaged, or the operator's hard stop.
Frames == {"none", "idle", "drive", "estop"}

Sources == {"estop", "intervention", "teleop", "hold", "policy"}

Top == [pc |-> "top", frame |-> "none", source |-> "none"]

\* A human who never drove, or released the deadman explicitly.
Released == GraceTicks + 1

LoopTypeOK ==
    /\ TypeOK
    /\ setup \in Setups
    /\ held \in Frames
    /\ pressed \in BOOLEAN
    /\ sticky \in BOOLEAN
    /\ loop \in [pc : {"top", "sampled", "act", "step", "send", "ended"},
                 frame : Frames,
                 source : Sources \cup {"none", "graceHold"}]
    /\ latched \in BOOLEAN
    /\ forwards \in Nat
    /\ forwarded \in BOOLEAN
    /\ prevSource \in Sources \cup {"none"}
    /\ grace \in 0 .. GraceTicks
    /\ primed \in BOOLEAN
    /\ anchored \in BOOLEAN
    /\ moved \in {"none", "policy", "human"}
    /\ lastMover \in {"none", "policy", "human"}
    /\ quiet \in 0 .. Released
    /\ takeover \in Nat
    /\ stopSeen \in BOOLEAN

Init ==
    /\ ClientInit
    /\ setup \in Setups
    /\ pressed = FALSE
    /\ held = "none"
    /\ sticky = FALSE
    /\ loop = Top
    /\ latched = FALSE
    /\ forwards = 0
    /\ forwarded = FALSE
    /\ prevSource = "none"
    /\ grace = 0
    /\ primed = FALSE
    /\ anchored = FALSE
    /\ moved = "none"
    /\ lastMover = "none"
    /\ quiet = Released
    /\ takeover = 0
    /\ stopSeen = FALSE

-----------------------------------------------------------------------------
(* The teleop receive thread: quic_channel.py _handle_datagram,             *)
(* _frame_store.py.                                                         *)

\* A frame that wins the latest-sequence race is stored; an e-stop is latched
\* before that.
FrameArrives(f) ==
    /\ loop.pc # "ended"
    /\ held' = f
    /\ sticky' = IF f = "estop" THEN TRUE ELSE sticky
    /\ pressed' = IF f = "estop" THEN TRUE ELSE pressed
    /\ UNCHANGED <<setup, clientVars, loop, busVars, moved, histVars>>

\* A duplicated or late e-stop datagram loses the race and still latches.
LateEstopArrives ==
    /\ loop.pc # "ended"
    /\ sticky' = TRUE
    /\ pressed' = TRUE
    /\ UNCHANGED <<setup, clientVars, held, loop, busVars, moved, histVars>>

\* Mutant: the disconnect drops the latched e-stop with the frame.
FrameForgetsEstop ==
    /\ loop.pc # "ended"
    /\ held # "none"
    /\ held' = "none"
    /\ sticky' = FALSE
    /\ UNCHANGED <<setup, clientVars, pressed, loop, busVars, moved, histVars>>

\* The held frame passes 250 ms, or the channel disconnects and drops it.
FrameGoesStale ==
    /\ loop.pc # "ended"
    /\ held # "none"
    /\ held' = "none"
    /\ UNCHANGED <<setup, clientVars, sticky, pressed, loop, busVars, moved, histVars>>

-----------------------------------------------------------------------------
(* The top of a tick: should_stop(), the adapter's pre_tick guard, and      *)
(* sample_teleop().                                                         *)

\* A tick begins; the bounds end the episode here, never inside a tick.
MayTick ==
    /\ loop.pc = "top"
    /\ barriers < MaxBarriers
    /\ sched.cursor < MaxStep
    /\ Len(outbox) < MaxOutbox

LoopStops ==
    /\ loop.pc = "top"
    /\ loop' = [loop EXCEPT !.pc = "ended"]
    /\ moved' = "none"
    /\ UNCHANGED <<setup, clientVars, linkVars, busVars, histVars>>

\* guard_interrupt(END_EPISODE): drop queued chunks and leave.
GuardEndsEpisode ==
    /\ loop.pc = "top"
    /\ FlushPlain
    /\ loop' = [loop EXCEPT !.pc = "ended"]
    /\ moved' = "none"
    /\ UNCHANGED <<setup, linkVars, busVars, histVars>>

\* guard_interrupt(HOLD_NO_CAPTURE): drop the gate's and the filter's state.
GuardHolds ==
    /\ MayTick
    /\ moved' = "none"
    /\ anchored' = FALSE
    /\ primed' = FALSE
    /\ UNCHANGED <<setup, clientVars, linkVars, loop, latched, forwards, forwarded,
                   prevSource, grace, histVars>>

SampleTeleop ==
    /\ MayTick
    /\ loop' = [pc |-> "sampled", frame |-> held, source |-> "none"]
    /\ moved' = "none"
    /\ stopSeen' = pressed
    /\ UNCHANGED <<setup, clientVars, linkVars, busVars, lastMover, quiet, takeover>>

-----------------------------------------------------------------------------
(* observe_estop() and the arbitration.                                     *)

\* Arbiter.decide() over readiness().
Arbitrate(frame, latch) ==
    IF latch THEN "estop"
    ELSE IF frame = "drive" /\ setup.gated /\ setup.schemaOk
         THEN IF setup.policy THEN "intervention" ELSE "teleop"
         ELSE IF setup.policy THEN "policy" ELSE "hold"

\* frame.estop short-circuits the read of the sticky flag, which then stays
\* set for the next tick.
EstopHit == loop.frame = "estop" \/ sticky

ConsumeSticky == sticky' = IF loop.frame = "estop" THEN sticky ELSE FALSE

\* robot.estop(), once; an exception re-arms it.
ForwardEstop ==
    IF EstopHit /\ setup.hardLatch /\ ~forwarded
    THEN /\ forwards' = forwards + 1
         /\ \/ forwarded' = TRUE /\ UNCHANGED failures
            \/ /\ failures < MaxFailures
               /\ failures' = failures + 1
               /\ forwarded' = FALSE
    ELSE UNCHANGED <<forwards, forwarded, failures>>

\* POLICY with grace left: a stale stream holds, a fresh one hands back.
GraceHolds(source) == source = "policy" /\ grace > 0 /\ loop.frame = "none"

\* Taking over from the policy, not re-engaging within the grace.
EngageEdge(source) == source = "intervention" /\ prevSource # "intervention" /\ grace = 0

\* The policy path steps the client; a shadow step does so in async mode only.
StepsClient(source) ==
    \/ source = "policy" /\ ~GraceHolds(source)
    \/ ~synchronous /\ (source = "intervention" \/ GraceHolds(source))

\* Mutant: an intervention does not arm the grace.
GraceNotArmed(source) == IF GraceHolds(source) THEN grace - 1 ELSE 0

\* The grace counter after arbitration (drive(), movement.py:437-474).
GraceAfter(source) ==
    CASE source = "intervention" -> GraceTicks
      [] GraceHolds(source)      -> grace - 1
      [] OTHER                   -> 0

\* Mutant: only a HOLD tick forgets the commanded trajectory.
GateKeptByPolicy(source) == IF source = "hold" THEN FALSE ELSE anchored

\* A tick that is not human-driven resets the gate, except an e-stop.
GateAfter(source) == IF source \in {"hold", "policy"} THEN FALSE ELSE anchored

\* The human's absence as the operator would count it.
QuietAfter(source) ==
    CASE source \in {"intervention", "teleop"}            -> 0
      [] source = "policy" /\ loop.frame = "none" /\ quiet < Released -> quiet + 1
      [] OTHER                                            -> Released

ObserveAndArbitrate ==
    /\ loop.pc = "sampled"
    /\ ConsumeSticky
    /\ latched' = IF EstopHit /\ setup.gated THEN TRUE ELSE latched
    /\ ForwardEstop
    /\ LET source == Arbitrate(loop.frame, latched')
           hold   == GraceHolds(source)
           edge   == EngageEdge(source)
       IN  /\ loop' = [pc     |-> IF source = "estop" \/ edge THEN "act"
                                  ELSE IF StepsClient(source) THEN "step" ELSE "send",
                       frame  |-> loop.frame,
                       source |-> IF hold THEN "graceHold" ELSE source]
           /\ grace' = GraceAfter(source)
           /\ quiet' = QuietAfter(source)
           /\ anchored' = GateAfter(source)
           /\ primed' = IF source = "estop" \/ edge THEN FALSE ELSE primed
           /\ takeover' = IF source = "intervention" /\ lastMover # "human"
                          THEN clock ELSE takeover
    /\ UNCHANGED <<schedVars, senderVars, gateVars, clock, caller, stopping, synchronous,
                   setup, held, pressed, prevSource, moved, lastMover, stopSeen>>

-----------------------------------------------------------------------------
(* The barrier of an e-stop tick or of an engage edge.                      *)

TakeBarrier ==
    /\ loop.pc = "act"
    /\ BarrierTick
    /\ UNCHANGED <<setup, linkVars, loop, busVars, moved, histVars>>

\* The e-stop tick ends here; an engage edge goes on to the shadow step.
ApplyBarrier ==
    /\ loop.pc = "act"
    /\ BarrierFlush
    /\ IF loop.source = "estop"
       THEN /\ loop' = Top
            /\ prevSource' = "estop"
       ELSE /\ loop' = [loop EXCEPT !.pc = IF synchronous THEN "send" ELSE "step"]
            /\ UNCHANGED prevSource
    /\ UNCHANGED <<setup, linkVars, latched, forwards, forwarded, grace, primed, anchored,
                   moved, histVars>>

-----------------------------------------------------------------------------
(* client.step(): on the policy path for its action, on a shadow step for   *)
(* its side effects only.                                                   *)

LoopStepBegin ==
    /\ loop.pc = "step"
    /\ StepBegin
    /\ UNCHANGED <<setup, linkVars, loop, busVars, moved, histVars>>

LoopStepGate ==
    /\ loop.pc = "step"
    /\ StepSubmit \/ StepNoSubmit
    /\ UNCHANGED <<setup, linkVars, loop, busVars, moved, histVars>>

\* A shadow step swallows the exception; on the policy path it ends the loop.
LoopEncodeFails ==
    /\ loop.pc = "step"
    /\ StepEncodeFails
    /\ loop' = [loop EXCEPT !.pc = IF loop.source = "policy" THEN "ended" ELSE "send"]
    /\ UNCHANGED <<setup, linkVars, busVars, moved, histVars>>

LoopStepPop ==
    /\ loop.pc = "step"
    /\ StepPop
    /\ loop' = [loop EXCEPT !.pc = "send"]
    /\ UNCHANGED <<setup, linkVars, busVars, moved, histVars>>

-----------------------------------------------------------------------------
(* The command itself and the end of the tick.                              *)

\* _finish() records the arbitrated source.
FinishTick(source) ==
    /\ loop' = Top
    /\ prevSource' = source

\* _drive_policy: the popped action passes the arity and finiteness check, the
\* filter is seeded from the measured pose when it holds no state, and the
\* action is sent.
SendPolicyAction ==
    /\ loop.pc = "send"
    /\ loop.source = "policy"
    /\ popped # NoAction
    /\ primed' = TRUE
    /\ moved' = "policy"
    /\ lastMover' = "policy"
    /\ FinishTick("policy")
    /\ UNCHANGED <<setup, clientVars, linkVars, latched, forwards, forwarded, grace,
                   anchored, quiet, takeover, stopSeen>>

\* Starved, or the action is malformed: the tick sends nothing.
SendNothing ==
    /\ loop.pc = "send"
    /\ loop.source = "policy"
    /\ FinishTick("policy")
    /\ UNCHANGED <<setup, clientVars, linkVars, latched, forwards, forwarded, grace,
                   primed, anchored, moved, histVars>>

\* SafetyGate.step(): one clamped step from the trajectory it commands, or, when
\* latched, stale or released, a hold; either way it keeps where it ended.
GateSteps == anchored' = TRUE

\* _produce_human_action on an intervention.
SendHumanTarget ==
    /\ loop.pc = "send"
    /\ loop.source = "intervention"
    /\ GateSteps
    /\ moved' = "human"
    /\ lastMover' = "human"
    /\ FinishTick("intervention")
    /\ UNCHANGED <<setup, clientVars, linkVars, latched, forwards, forwarded, grace,
                   primed, quiet, takeover, stopSeen>>

\* _drive_teleop: the same, then an unconditional flush and filter reset.
SendTeleopTarget ==
    /\ loop.pc = "send"
    /\ loop.source = "teleop"
    /\ FlushPlain
    /\ GateSteps
    /\ primed' = FALSE
    /\ moved' = "human"
    /\ lastMover' = "human"
    /\ FinishTick("teleop")
    /\ UNCHANGED <<setup, linkVars, latched, forwards, forwarded, grace, quiet, takeover, stopSeen>>

\* send_action() raises: the exception leaves the tick and ends the loop.
CommandFails ==
    /\ loop.pc = "send"
    /\ loop.source \in {"policy", "intervention", "teleop"}
    /\ loop.source = "policy" => popped # NoAction
    /\ failures < MaxFailures
    /\ failures' = failures + 1
    /\ loop' = [loop EXCEPT !.pc = "ended"]
    /\ primed' = IF loop.source = "policy" THEN TRUE ELSE primed
    /\ anchored' = IF loop.source = "policy" THEN anchored ELSE TRUE
    /\ UNCHANGED <<schedVars, senderVars, gateVars, clock, caller, stopping, synchronous,
                   setup, linkVars, latched, forwards, forwarded, prevSource, grace,
                   moved, histVars>>

\* HOLD, or a grace hold: the servos keep the pose, the pose is recorded.
HoldPose ==
    /\ loop.pc = "send"
    /\ loop.source \in {"hold", "graceHold"}
    /\ anchored' = FALSE
    /\ FinishTick("hold")
    /\ UNCHANGED <<setup, clientVars, linkVars, latched, forwards, forwarded, grace,
                   primed, moved, histVars>>

-----------------------------------------------------------------------------

\* client.close() once the loop is over.
CloseClient ==
    /\ loop.pc = "ended"
    /\ Stop
    /\ UNCHANGED <<setup, linkVars, loop, busVars, moved, histVars>>

SenderStep ==
    /\ SenderNext
    /\ UNCHANGED <<setup, linkVars, loop, busVars, moved, histVars>>

TeleopNext ==
    \/ \E f \in Frames \ {"none"} : FrameArrives(f)
    \/ LateEstopArrives
    \/ FrameGoesStale

LoopNext ==
    \/ LoopStops
    \/ GuardEndsEpisode
    \/ GuardHolds
    \/ SampleTeleop
    \/ ObserveAndArbitrate
    \/ TakeBarrier
    \/ ApplyBarrier
    \/ LoopStepBegin
    \/ LoopStepGate
    \/ LoopEncodeFails
    \/ LoopStepPop
    \/ SendPolicyAction
    \/ SendNothing
    \/ SendHumanTarget
    \/ SendTeleopTarget
    \/ CommandFails
    \/ HoldPose

EpisodeOver ==
    /\ loop.pc = "ended"
    /\ Terminating
    /\ UNCHANGED <<setup, linkVars, loop, busVars, moved, histVars>>

Next == LoopNext \/ TeleopNext \/ SenderStep \/ CloseClient \/ EpisodeOver

Spec == Init /\ [][Next]_vars

\* The control loop and the sender are threads that keep running.
FairSpec == Spec /\ WF_vars(LoopNext) /\ WF_vars(SenderStep)

-----------------------------------------------------------------------------

(* The operator's hard stop: once an e-stop has reached the node, a tick    *)
(* that samples its frame afterwards commands nothing, in this and every    *)
(* later tick, although the frame may have gone stale, lost the sequence    *)
(* race or been dropped with the connection, and whatever plan or inference *)
(* is around (movement.py:199-201, _frame_store.py:67-75).                  *)
EstopStopsMotion == setup.gated /\ stopSeen => moved = "none"

(* A policy action never runs while the human is still in charge: only      *)
(* after a released deadman, or after the grace has held the pose through   *)
(* GraceTicks stale ticks (movement.py:285-291, 457-468).                   *)
PolicyWaitsForHandback == moved = "policy" => quiet = Released

(* The first policy action after a takeover comes from a plan stamped after *)
(* the takeover, so never from a chunk that was in the air then             *)
(* (movement.py:504-512, merge.py:160-165).                                 *)
PolicyPlansAfterTakeover == moved = "policy" => popped.ts > takeover

(* The filter's delay line is never carried over human motion: whenever it  *)
(* holds state, the last mover was the policy, so the first action of a     *)
(* handback is damped from the measured pose (movement.py:663-673).         *)
FilterIsPolicyOnly == primed /\ loop.pc # "ended" => lastMover = "policy"

(* The gate's velocity clamp never starts from a trajectory of an earlier   *)
(* engagement: while the gate holds one, the last arbitrated tick was the   *)
(* human's or an e-stop (safety.py:143-149).                                *)
GateTrajectoryIsCurrent ==
    anchored /\ loop.pc # "ended" =>
        prevSource \in {"intervention", "teleop", "estop"}

(* What frame.py:27-32 promises of every robot: an e-stop frame is a hard   *)
(* stop.  The latch that makes it one lives on the SafetyGate.              *)
EstopStopsEveryRobot == stopSeen => moved = "none"

=============================================================================
