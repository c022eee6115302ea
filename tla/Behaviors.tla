----------------------------- MODULE Behaviors -----------------------------
(***************************************************************************)
(* Named behaviours without a policy: the Robot facade (robot.py), the     *)
(* threads that play a plan on the arm (behaviors/executor.py), and the    *)
(* lock file that keeps two processes off one bus                          *)
(* (behaviors/arbitration.py).  What a plan is, is in BehaviorPlan.        *)
(*                                                                         *)
(* All robots here are facades of one physical arm.  A tick of a run       *)
(* (cancelled?, send_action, read the pose, count the lag) is one step.    *)
(***************************************************************************)
EXTENDS BehaviorPlan

CONSTANTS
    Robots,           \* the Robot objects
    Pid,              \* the process each is made in
    Library,          \* behaviours in the files
    Speeds,           \* the speeds asked for, fractions
    Position,         \* joints in position mode
    SaturationTicks,  \* saturation_ticks
    SaturationFactor, \* saturation_factor
    StopTicks,        \* ticks of a smooth stop
    RunIds,           \* bound: runs
    Players,          \* bound: the Robots asked to play behaviours
    MaxFaults,        \* bound: crashes, errors, forced claims, obstacles
    NoRun, Nobody     \* no run in the slot; no lock file

ASSUME BehaviorsAssumption ==
    /\ Pid \in [Robots -> Nat \ {0}]
    /\ Nobody \notin Range(Pid)
    /\ \A b \in Library : IsBehavior(b)
    /\ Speeds \subseteq (Nat \ {0}) \X (Nat \ {0})
    /\ Position \subseteq Joints
    /\ {SaturationTicks, SaturationFactor, StopTicks} \subseteq Nat \ {0}
    /\ MaxFaults \in Nat

VARIABLES
    robot,     \* per Robot: where its constructor or close() is
    connected, \* its adapter takes commands
    owns,      \* its BusLock has a path
    lockFile,  \* the pid in <bus>.lock
    crashed,   \* the processes that died
    arm,       \* the measured pose
    blocked,   \* an obstacle holds the arm
    command,   \* the last command sent, and the run that sent it
    run,       \* the runs: their plans, commands and saturation counts
    faults     \* faults so far

lockVars == <<robot, connected, owns, lockFile, crashed>>
vars == <<lockVars, arm, blocked, command, run, faults>>

Open(r) == robot[r] = "open"
Alive(r) == Pid[r] \notin crashed

\* The robot has just been homed.
Init ==
    /\ robot = [r \in Robots |-> "none"]
    /\ connected = [r \in Robots |-> FALSE]
    /\ owns = [r \in Robots |-> FALSE]
    /\ lockFile = Nobody
    /\ crashed = {}
    /\ arm = [j \in Joints |-> Low[j]]
    /\ blocked = FALSE
    /\ command = [by |-> NoRun, to |-> arm]
    /\ run = [x \in RunIds |-> NoRun]
    /\ faults = 0

Playing(x) == run[x] # NoRun /\ run[x].at \in {"play", "stop"}

Fault == faults < MaxFaults /\ faults' = faults + 1

-----------------------------------------------------------------------------
(***************************************************************************)
(* The bus lock, and the life of a Robot.                                  *)
(***************************************************************************)

\* A conflict: the file names another process, which lives.
Busy(r) == lockFile \notin {Nobody, Pid[r]} \cup crashed

\* acquire_bus_lock() reads, then writes; force overrides what it read.
ReadsLock(r, force) ==
    /\ Alive(r) /\ robot[r] = "none"
    /\ IF force THEN Busy(r) /\ Fault ELSE ~Busy(r) /\ UNCHANGED faults
    /\ robot' = [robot EXCEPT ![r] = "claiming"]
    /\ UNCHANGED <<connected, owns, lockFile, crashed, arm, blocked, command, run>>

\* A lock that cannot be written does not block the move.
WritesLock(r) ==
    /\ Alive(r) /\ robot[r] = "claiming"
    /\ robot' = [robot EXCEPT ![r] = "connecting"]
    /\ \/ lockFile' = Pid[r] /\ owns' = [owns EXCEPT ![r] = TRUE] /\ UNCHANGED faults
       \/ Fault /\ UNCHANGED <<lockFile, owns>>
    /\ UNCHANGED <<connected, crashed, arm, blocked, command, run>>

\* release(): only a file that is still this process's.
\* Mutant: a constructor that fails keeps the file.
KeepsFile(r) == IF robot[r] = "closing" /\ owns[r] /\ lockFile = Pid[r] THEN Nobody ELSE lockFile

Released(r) == IF owns[r] /\ lockFile = Pid[r] THEN Nobody ELSE lockFile

\* The profile, the registry, connect(): any failure releases the lock.
Connects(r) ==
    /\ Alive(r) /\ robot[r] = "connecting"
    /\ \/ /\ robot' = [robot EXCEPT ![r] = "open"]
          /\ connected' = [connected EXCEPT ![r] = TRUE]
          /\ UNCHANGED <<owns, lockFile, faults>>
       \/ /\ Fault
          /\ robot' = [robot EXCEPT ![r] = "none"]
          /\ lockFile' = Released(r)
          /\ owns' = [owns EXCEPT ![r] = FALSE]
          /\ UNCHANGED connected
    /\ UNCHANGED <<crashed, arm, blocked, command, run>>

\* close(): the flag and disconnect(), whose failure is only logged; then the
\* lock.
Disconnects(r) ==
    /\ Alive(r) /\ Open(r)
    /\ robot' = [robot EXCEPT ![r] = "closing"]
    /\ \/ connected' = [connected EXCEPT ![r] = FALSE] /\ UNCHANGED faults
       \/ Fault /\ UNCHANGED connected
    /\ UNCHANGED <<owns, lockFile, crashed, arm, blocked, command, run>>

Releases(r) ==
    /\ Alive(r) /\ robot[r] = "closing"
    /\ robot' = [robot EXCEPT ![r] = "closed"]
    /\ lockFile' = Released(r)
    /\ owns' = [owns EXCEPT ![r] = FALSE]
    /\ UNCHANGED <<connected, crashed, arm, blocked, command, run, faults>>

\* What is left of a run that ended, in its handle: ActResult.reached.
Ended(reached) == [at |-> "done", reached |-> reached]

\* A process dies, and with it its threads; the file stays.
Crashes(p) ==
    /\ p \notin crashed
    /\ Fault
    /\ crashed' = crashed \cup {p}
    /\ run' = [x \in RunIds |-> IF Playing(x) /\ Pid[run[x].robot] = p
                                THEN Ended(FALSE)
                                ELSE run[x]]
    /\ UNCHANGED <<robot, connected, owns, lockFile, arm, blocked, command>>

-----------------------------------------------------------------------------
(***************************************************************************)
(* Runs.  Nothing keeps a caller from starting one while another plays.    *)
(***************************************************************************)
\* act(), move(): the plan is made from the live pose, or refused.
Acts(x, r, b, speed) ==
    LET plan == Plan(b, arm, speed)
    IN /\ run[x] = NoRun
       /\ \A y \in RunIds : y < x => run[y] # NoRun
       /\ r \in Players /\ Alive(r) /\ Open(r)
       /\ Valid(b) /\ plan.safe
       /\ run' = [run EXCEPT ![x] =
             [robot |-> r, at |-> "play", samples |-> plan.samples, sent |-> 0,
              last |-> arm, vel |-> [j \in Joints |-> 0], over |-> [j \in Joints |-> 0],
              cancelled |-> FALSE, stopping |-> 0,
              alone |-> \A y \in RunIds : ~Playing(y)]]
       /\ UNCHANGED <<lockVars, arm, blocked, command, faults>>

Cancels(x) ==
    /\ Playing(x) /\ run[x].at = "play"
    /\ ~run[x].cancelled
    /\ run' = [run EXCEPT ![x].cancelled = TRUE]
    /\ UNCHANGED <<lockVars, arm, blocked, command, faults>>

\* Run x sends a command: the arm follows it, unless it is blocked.
Sends(x, cmd) ==
    /\ connected[run[x].robot]
    /\ command' = [by |-> x, to |-> cmd]
    /\ arm' = IF blocked THEN arm ELSE cmd

\* Something comes into the arm's way, and leaves it.
Obstacle ==
    /\ IF blocked THEN UNCHANGED faults ELSE Fault
    /\ blocked' = ~blocked
    /\ UNCHANGED <<lockVars, arm, command, run>>

\* Run x goes on as u, having sent a command: another one that plays is no
\* longer alone with the arm.
Goes(x, u) ==
    run' = [y \in RunIds |->
              IF y = x THEN u
              ELSE IF Playing(y) THEN [run[y] EXCEPT !.alone = FALSE] ELSE run[y]]

\* The consecutive ticks each joint has lagged, after a command.
Margin(j) == SaturationFactor * Cap[j]

Lagging(x, cmd, pose) ==
    [j \in Joints |-> IF j \in Position /\ Distance(cmd[j], pose[j]) > Margin(j)
                      THEN run[x].over[j] + 1 ELSE 0]

\* Mutant: every joint has to lag (np.all for np.any).
AllSaturated(over) == \A j \in Joints : over[j] >= SaturationTicks

Saturated(over) == \E j \in Joints : over[j] >= SaturationTicks

\* One tick: send, measure, and go on, end, or begin to stop.
PlayTick(x) ==
    LET me == run[x]
        cmd == Clipped(me.samples[me.sent + 1])
        over == Lagging(x, cmd, arm')
        moved == [me EXCEPT !.sent = @ + 1, !.last = cmd, !.over = over,
                            !.vel = [j \in Joints |-> IF me.sent = 0 THEN 0 ELSE cmd[j] - me.last[j]]]
    IN /\ Playing(x) /\ me.at = "play" /\ ~me.cancelled
       /\ Sends(x, cmd)
       /\ Goes(x, IF Saturated(over) THEN [moved EXCEPT !.at = "stop"]
                  ELSE IF me.sent + 1 = Len(me.samples) THEN Ended(TRUE)
                  ELSE moved)
       /\ UNCHANGED <<lockVars, blocked, faults>>

\* A cancelled run stops where it is, smoothly if it has moved.
NoticesCancel(x) ==
    /\ Playing(x) /\ run[x].at = "play" /\ run[x].cancelled
    /\ run' = [run EXCEPT ![x] = IF @.sent = 0 THEN Ended(FALSE) ELSE [@ EXCEPT !.at = "stop"]]
    /\ UNCHANGED <<lockVars, arm, blocked, command, faults>>

\* The stop ramp: the last velocity, scaled by 1 - smoothstep(k / StopTicks).
Ramp(k) == <<StopTicks * StopTicks * StopTicks - 3 * k * k * StopTicks + 2 * k * k * k,
             StopTicks * StopTicks * StopTicks>>

Slowed(v, k) == IF v < 0 THEN -((-v * Ramp(k)[1]) \div Ramp(k)[2]) ELSE (v * Ramp(k)[1]) \div Ramp(k)[2]

\* _decelerate().
StopTick(x) ==
    LET me == run[x]
        k == me.stopping + 1
        pos == Clipped([j \in Joints |-> me.last[j] + Slowed(me.vel[j], k)])
    IN /\ Playing(x) /\ me.at = "stop"
       /\ Sends(x, pos)
       /\ Goes(x, IF k = StopTicks THEN Ended(FALSE) ELSE [me EXCEPT !.last = pos, !.stopping = k])
       /\ UNCHANGED <<lockVars, blocked, faults>>

\* The adapter raises: it was disconnected, or it fails.
TickFails(x) ==
    /\ Playing(x)
    /\ run[x].at = "play" => ~run[x].cancelled
    /\ IF connected[run[x].robot] THEN Fault ELSE UNCHANGED faults
    /\ run' = [run EXCEPT ![x] = Ended(FALSE)]
    /\ UNCHANGED <<lockVars, arm, blocked, command>>

Next ==
    \/ \E r \in Robots :
         \/ \E force \in BOOLEAN : ReadsLock(r, force)
         \/ WritesLock(r) \/ Connects(r) \/ Disconnects(r) \/ Releases(r)
         \/ \E x \in RunIds, b \in Library, speed \in Speeds : Acts(x, r, b, speed)
    \/ Obstacle
    \/ \E p \in Range(Pid) : Crashes(p)
    \/ \E x \in RunIds :
         \/ Cancels(x) \/ PlayTick(x) \/ NoticesCancel(x) \/ StopTick(x) \/ TickFails(x)

Spec == Init /\ [][Next]_vars

-----------------------------------------------------------------------------
(***************************************************************************)
(* Properties.                                                             *)
(***************************************************************************)

\* No command of a run is further than the velocity cap from the one before it,
\* nor the first one from the pose the plan was made from: through the approach,
\* the keyframes, every profile and speed, and the smooth stop.  The plan is
\* checked by a formula and sampled by another (1 is the models' rounding).
WithinCap ==
    [][\A x \in RunIds : command' # command /\ command'.by = x =>
          \A j \in Joints : Distance(run[x].last[j], command'.to[j]) <= Cap[j] + 1]_vars

\* A blocked arm is left behind by at most the margin, what is commanded until
\* the guard has counted, and the stop ramp, as long as no other run commands it
\* too.
LagIsBounded ==
    \A x \in RunIds : Playing(x) /\ run[x].alone =>
        \A j \in Position :
            2 * Distance(run[x].last[j], arm[j])
                <= 2 * Margin(j) + (2 * SaturationTicks + StopTicks - 1) * (Cap[j] + 1)

\* A lock file of a live process belongs to a Robot it has: neither a refused
\* constructor nor a failed one, a crash, a forced claim or two claims at once
\* leave a bus that nobody drives and nobody may claim.
NoOrphanLock ==
    lockFile \notin {Nobody} \cup crashed =>
        \E r \in Robots : Pid[r] = lockFile /\ robot[r] \in {"connecting", "open", "closing"}
=============================================================================
