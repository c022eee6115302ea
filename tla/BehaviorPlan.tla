--------------------------- MODULE BehaviorPlan ---------------------------
(***************************************************************************)
(* How a named behaviour becomes a stream of joint vectors: validation     *)
(* when it is loaded (behaviors/registry.py), the interpolation profiles   *)
(* (behaviors/interpolation.py) and the plan (behaviors/executor.py).      *)
(*                                                                         *)
(* Positions are integers; time is counted in units of which one control   *)
(* tick has Dt; a duration is a fraction <<units, divisor>>, because it is  *)
(* divided by a speed.  The caps are per tick: cap * dt.                   *)
(***************************************************************************)
EXTENDS Integers, Sequences, SequencesExt, FiniteSetsExt

CONSTANTS
    Joints,     \* joint_names
    Low, High,  \* joint_limits
    Cap,        \* max_velocity * dt, per joint
    Dt,         \* the units of one control tick
    MinAuto,    \* min_auto_duration
    Comfort     \* comfort, as <<numerator, denominator>>

ASSUME PlanAssumption ==
    /\ IsFiniteSet(Joints) /\ Joints # {}
    /\ Low \in [Joints -> Int] /\ High \in [Joints -> Int]
    /\ \A j \in Joints : Low[j] < High[j]
    /\ Cap \in [Joints -> Nat \ {0}]
    /\ Dt \in Nat \ {0} /\ MinAuto \in Nat \ {0}
    /\ Comfort \in (Nat \ {0}) \X (Nat \ {0}) /\ Comfort[1] <= Comfort[2]

Distance(a, b) == IF a < b THEN b - a ELSE a - b
Clipped(v) == [j \in Joints |-> Max({Low[j], Min({v[j], High[j]})})]
CeilDiv(a, b) == (a + b - 1) \div b

-----------------------------------------------------------------------------
(***************************************************************************)
(* The profiles: s(k / n) as a fraction, and max |s'|.                     *)
(***************************************************************************)
Interpolations == {"min_jerk", "linear", "trapezoidal"}

\* Ramps of a quarter of the segment each.
Trapezoid(k, n) ==
    IF 4 * k < n THEN <<8 * k * k, 3 * n * n>>
    ELSE IF 4 * k > 3 * n THEN <<3 * n * n - 8 * (n - k) * (n - k), 3 * n * n>>
    ELSE <<8 * k - n, 6 * n>>

Shape(profile, k, n) ==
    CASE profile = "linear" -> <<k, n>>
      [] profile = "min_jerk" ->
            <<k * k * k * (10 * n * n - 15 * k * n + 6 * k * k), n * n * n * n * n>>
      [] profile = "trapezoidal" -> Trapezoid(k, n)

PeakFactor(profile) ==
    CASE profile = "linear" -> <<1, 1>>
      [] profile = "min_jerk" -> <<15, 8>>
      [] profile = "trapezoidal" -> <<4, 3>>

\* The ticks of a segment of duration d.
\* Mutant: rounded down.
FloorSteps(d) == Max({1, d[1] \div (d[2] * Dt)})

Steps(d) == Max({1, CeilDiv(d[1], d[2] * Dt)})

Segment(p0, p1, d, profile) ==
    LET n == Steps(d)
    IN [k \in 1..n |-> [j \in Joints |->
            LET s == Shape(profile, k, n) IN p0[j] + ((p1[j] - p0[j]) * s[1]) \div s[2]]]

\* build_samples(): every waypoint is hit, the first one included.
Samples(waypoints, durations, profile) ==
    <<waypoints[1]>> \o FlattenSeq([i \in DOMAIN durations |->
        Segment(waypoints[i], waypoints[i + 1], durations[i], profile)])

-----------------------------------------------------------------------------
(***************************************************************************)
(* Behaviours.  A pose has a duration, 0 for automatic; a trajectory has   *)
(* keyframes [t, targets]; targets name some of the joints.                *)
(***************************************************************************)
Within(targets) == \A j \in DOMAIN targets : Low[j] <= targets[j] /\ targets[j] <= High[j]

\* factor * delta / duration <= cap.
Slow(delta, j, d, profile) ==
    LET f == PeakFactor(profile) IN f[1] * delta * d[2] * Dt <= f[2] * Cap[j] * d[1]

\* A keyframe's targets, and those that hold from earlier keyframes.
Resolved(b) ==
    [i \in DOMAIN b.keyframes |->
        FoldLeft(LAMBDA held, kf : [j \in DOMAIN held \cup DOMAIN kf.targets |->
                     IF j \in DOMAIN kf.targets THEN kf.targets[j] ELSE held[j]],
                 <<>>, SubSeq(b.keyframes, 1, i))]

Lasts(b, i, speed) == <<(b.keyframes[i + 1].t - b.keyframes[i].t) * speed[2], speed[1]>>
Gaps(b) == 1..Len(b.keyframes) - 1

\* What the loader makes of a file, before it is validated.
IsBehavior(b) ==
    /\ b.interpolation \in Interpolations
    /\ IF b.kind = "pose"
       THEN b.duration \in Nat /\ \A j \in DOMAIN b.targets : b.targets[j] \in Int
       ELSE /\ b.keyframes \in Seq(Range(b.keyframes)) /\ b.keyframes # <<>>
            /\ \A i \in DOMAIN b.keyframes :
                  LET kf == b.keyframes[i]
                  IN kf.t \in Int /\ \A j \in DOMAIN kf.targets : kf.targets[j] \in Int

\* What the registry accepts.
ValidPose(b) ==
    DOMAIN b.targets # {} /\ DOMAIN b.targets \subseteq Joints /\ Within(b.targets)

\* The first keyframe is at 0 and names every joint that moves; times increase.
ValidShape(b) ==
    /\ b.keyframes[1].t = 0
    /\ \A i \in Gaps(b) : b.keyframes[i].t < b.keyframes[i + 1].t
    /\ DOMAIN b.keyframes[1].targets \subseteq Joints
    /\ \A i \in DOMAIN b.keyframes :
         /\ DOMAIN b.keyframes[i].targets \subseteq DOMAIN b.keyframes[1].targets
         /\ Within(b.keyframes[i].targets)

ValidVelocity(b) ==
    \A i \in Gaps(b) : \A j \in DOMAIN Resolved(b)[i] :
        Slow(Distance(Resolved(b)[i][j], Resolved(b)[i + 1][j]), j,
             Lasts(b, i, <<1, 1>>), b.interpolation)

Valid(b) == IF b.kind = "pose" THEN ValidPose(b) ELSE ValidShape(b) /\ ValidVelocity(b)

-----------------------------------------------------------------------------
(***************************************************************************)
(* The plan, from the live pose.                                           *)
(***************************************************************************)
Retargeted(pose, targets) ==
    Clipped([j \in Joints |-> IF j \in DOMAIN targets THEN targets[j] ELSE pose[j]])

SlowMove(p0, p1, d, profile) == \A j \in Joints : Slow(Distance(p0[j], p1[j]), j, d, profile)

\* The longest of the joints' durations at Comfort * Cap, and of MinAuto.
AutoDuration(p0, p1, profile) ==
    LET f == PeakFactor(profile)
        needs == {<<f[1] * Distance(p0[j], p1[j]) * Dt * Comfort[2], f[2] * Cap[j] * Comfort[1]>> :
                    j \in Joints} \cup {<<MinAuto, 1>>}
    IN CHOOSE d \in needs : \A e \in needs : e[1] * d[2] <= d[1] * e[2]

\* At a speed, a fraction.
AtSpeed(d, speed) == <<d[1] * speed[2], d[2] * speed[1]>>

PosePlan(b, live, speed) ==
    LET target == Retargeted(live, b.targets)
        d == AtSpeed(IF b.duration = 0 THEN AutoDuration(live, target, b.interpolation)
                     ELSE <<b.duration, 1>>, speed)
    IN [safe |-> SlowMove(live, target, d, b.interpolation),
        samples |-> Samples(<<live, target>>, <<d>>, b.interpolation)]

\* Joints that a keyframe does not name hold.
Waypoints(b, live) ==
    LET way[i \in 0 .. Len(b.keyframes)] ==
            IF i = 0 THEN live ELSE Retargeted(way[i - 1], b.keyframes[i].targets)
    IN [i \in DOMAIN b.keyframes |-> way[i]]

\* The move from the live pose to the first waypoint, without that waypoint.
Approach(live, first) ==
    IF live = first THEN <<>>
    ELSE Front(Samples(<<live, first>>, <<AutoDuration(live, first, "min_jerk")>>, "min_jerk"))

TrajectoryPlan(b, live, speed) ==
    LET way == Waypoints(b, live)
        durations == [i \in Gaps(b) |-> Lasts(b, i, speed)]
    IN [safe |-> \A i \in Gaps(b) : SlowMove(way[i], way[i + 1], durations[i], b.interpolation),
        samples |-> Approach(live, way[1]) \o Samples(way, durations, b.interpolation)]

Plan(b, live, speed) ==
    IF b.kind = "pose" THEN PosePlan(b, live, speed) ELSE TrajectoryPlan(b, live, speed)
=============================================================================
