----------------------------- MODULE DimosStack -----------------------------
(***************************************************************************)
(* What DimosNativeRobot.connect() proves about the running dimos stack    *)
(* before it streams commands to it (adapters/dimos/verify.py): that a     *)
(* servo takes its commands - by the tasks' claims where they can be read  *)
(* over the RPC, by a probe that waits for some task to go active          *)
(* otherwise - and that joints, gripper and joint states are those of the  *)
(* declared kind.                                                          *)
(***************************************************************************)
EXTENDS Naturals, Sequences

Elements(s) == {s[i] : i \in DOMAIN s}

\* The joints of the declared kind, and one it does not have.
Declared == {"arm", "gripper"}
StackJoints == Declared \cup {"other"}

\* A configured task: a servo consumes joint_command, any other kind does not;
\* forever is a timeout of zero.
Tasks == [servo : BOOLEAN, claims : SUBSET StackJoints \ {{}}, forever : BOOLEAN]

Stacks == {<<>>} \cup [1..1 -> Tasks] \cup [1..2 -> Tasks]

TaskSet(stack) == Elements(stack)

IsExact(task) == task.servo /\ task.claims = Declared

\* _check_task_claims(): some servo claims exactly the declared joints, each of
\* those stops holding in time, other servos are refused, and no other task
\* claims any of them.
ClaimsFit(stack) ==
    /\ \E t \in TaskSet(stack) : IsExact(t)
    /\ \A t \in TaskSet(stack) :
          IF t.servo THEN IsExact(t) /\ ~t.forever ELSE t.claims \cap Declared = {}

\* A servo takes a command that carries every joint it claims.
Takes(task, joints) == task.servo /\ task.claims \subseteq joints

\* The tasks that go active in the probe's window: those that take the command,
\* and those that others set going meanwhile, unless they were active before.
Activated(stack, before, meanwhile) ==
    ({i \in DOMAIN stack : Takes(stack[i], Declared)} \cup meanwhile) \ before

\* _probe_servo_task(): the present pose is sent as a command and any task goes
\* active, whoever made it; with more than one task nothing is proved.
ProbeFits(stack, before, meanwhile) ==
    /\ Activated(stack, before, meanwhile) # {}
    /\ Len(stack) = 1

\* _verify_servo_task(): readable is whether the tasks survive the RPC.
ServoFits(stack, readable, before, meanwhile) ==
    /\ stack # <<>>
    /\ IF readable THEN ClaimsFit(stack) ELSE ProbeFits(stack, before, meanwhile)

-----------------------------------------------------------------------------
\* The arm joints of the declared kind, in the order its policies bind to.
ArmJoints == <<"shoulder", "elbow">>

\* What the stack says of its hardware: the joints it lists, the order of the
\* joint states it streams (empty: none arrives), whether its gripper answers.
Hardware == [listed : SUBSET Elements(ArmJoints),
             stream : {<<>>, <<"shoulder">>, ArmJoints, <<"elbow", "shoulder">>},
             gripper : BOOLEAN]

JointsFit(hw) == Elements(ArmJoints) \subseteq hw.listed

\* Joints are read by name and commanded by order: both must be the kind's.
StreamFits(hw) ==
    /\ Elements(ArmJoints) \subseteq Elements(hw.stream)
    /\ SelectSeq(hw.stream, LAMBDA j : j \in Elements(ArmJoints)) = ArmJoints

GripperFits(hw) == hw.gripper

\* verify_connect(): all the checks run; one problem is enough to refuse.
HardwareFits(hw) == JointsFit(hw) /\ StreamFits(hw) /\ GripperFits(hw)
=============================================================================
