----------------------------- MODULE DrtcClient -----------------------------
(***************************************************************************)
(* The DRTC inference client: the control loop's calls into                *)
(* DRTCClient.step() and ActionSchedule.flush() on one thread, and the     *)
(* sender thread that stamps an observation, waits for the Infer RPC and   *)
(* merges the answer (inference/client/controller.py, sender.py,           *)
(* receiver.py, cooldown.py).                                              *)
(*                                                                         *)
(* The two threads share the schedule, the clock, the outbox and the       *)
(* in-flight event, each behind its own lock: every access to one of them  *)
(* is a step of its own, and the other thread may run in between.  Here    *)
(* the caller may call step() and flush() in any order; ControlLoop.tla    *)
(* restricts it to the calls the command bus makes.                        *)
(***************************************************************************)
EXTENDS ActionSchedule, Sequences

CONSTANTS
    SyncModes,     \* values of cfg.synchronous: TRUE is sequential chunking, FALSE
                   \* the overlapping default
    MinHorizon,    \* cfg.min_execution_horizon, in steps
    Epsilon,       \* the cooldown's margin, in steps
    Delays,        \* latency estimates (in steps) the estimator may return
    ChunkLens,     \* the policy's chunk size, and 0 for an empty answer
    MaxStep,       \* bound: the episode ends before the cursor passes it
    MaxClock,      \* bound: the sender stamps while the clock is below it
    MaxBarriers,   \* bound: barrier flushes
    MaxFailures,   \* bound: failed Infer calls and failed observation encodes
    MaxOutbox      \* bound: the loop ticks while fewer observations wait for the sender

ASSUME ClientAssumption ==
    /\ SyncModes \subseteq BOOLEAN
    /\ MinHorizon \in Nat
    /\ Epsilon \in Nat \ {0}
    /\ Delays \subseteq Nat
    /\ ChunkLens \subseteq Nat
    /\ \A m, n \in ChunkLens \ {0} : m = n
    /\ MaxStep \in Nat
    /\ MaxClock \in Nat
    /\ MaxBarriers \in Nat
    /\ MaxFailures \in Nat
    /\ MaxOutbox \in Nat \ {0}

VARIABLES
    sched,       \* ActionSchedule
    clock,       \* ControlClock._last, counted from the client's birth
    cool,        \* Cooldown._n
    inFlight,    \* the in-flight Event (synchronous mode only)
    estimate,    \* latency.estimate_steps(): 0 until the first answer
    outbox,      \* the sender's queue; an observation is known by the number
                 \* of barriers completed before it was captured
    sender,      \* the sender thread
    caller,      \* the control-loop thread, inside step() or flush()
    popped,      \* what the last step() returned
    barriers,    \* barrier flushes completed so far
    captured,    \* captured[ts]: barriers completed when the observation
                 \* stamped ts was captured
    failures,    \* failed Infer calls and encodes so far
    stopping,    \* close() has begun
    synchronous, \* cfg.synchronous, fixed when the client is built
    newest       \* history: the timestamp of the last action executed

schedVars  == <<sched, popped, barriers, newest>>
senderVars == <<outbox, sender, captured>>
gateVars   == <<cool, inFlight, estimate>>
clientVars == <<schedVars, senderVars, gateVars, clock, caller, failures, stopping,
                synchronous>>

-----------------------------------------------------------------------------

Idle == [pc |-> "idle", ts |-> 0, start |-> 0]
Out  == [pc |-> "out", depth |-> 0, ts |-> 0]

NoAction == [step |-> 0, ts |-> 0]

TypeOK ==
    /\ IsSchedule(sched)
    /\ clock \in Nat
    /\ cool \in Nat
    /\ inFlight \in BOOLEAN
    /\ estimate \in Nat
    /\ outbox \in Seq(Nat)
    /\ sender \in [pc : {"idle", "stamped", "sent", "merged", "stopped"}, ts : Nat, start : Nat]
    /\ caller \in [pc : {"out", "gate", "pop", "flush"}, depth : Nat, ts : Nat]
    /\ popped \in [step : Nat, ts : Nat]
    /\ barriers \in Nat
    /\ captured \in [1 .. clock -> Nat]
    /\ failures \in Nat
    /\ stopping \in BOOLEAN
    /\ synchronous \in SyncModes
    /\ newest \in Nat

ClientInit ==
    /\ sched = EmptySchedule
    /\ clock = 0
    /\ cool = 0
    /\ inFlight = FALSE
    /\ estimate = 0
    /\ outbox = <<>>
    /\ sender = Idle
    /\ caller = Out
    /\ popped = NoAction
    /\ barriers = 0
    /\ captured = [ts \in 1 .. 0 |-> 0]
    /\ failures = 0
    /\ stopping = FALSE
    /\ synchronous \in SyncModes
    /\ newest = 0

\* ControlClock.tick(): strictly increasing, whichever thread calls it.  `by`
\* is recorded for the timestamp it issues.
ClockTick(by) ==
    /\ clock' = clock + 1
    /\ captured' = [ts \in 1 .. clock + 1 |-> IF ts = clock + 1 THEN by ELSE captured[ts]]

-----------------------------------------------------------------------------
(* The control-loop thread: DRTCClient.step(), controller.py:830-917.       *)

\* cooldown.tick()
CoolAfterTick == IF cool > 0 THEN cool - 1 ELSE 0

\* cooldown.arm(n)
Armed(n) == IF n + Epsilon > 1 THEN n + Epsilon ELSE 1

\* Mutant: an empty schedule alone opens the sequential gate, also while the
\* chunk that is to fill it is in the air.
ShouldSendOnEmpty(depth, remaining) ==
    IF synchronous
    THEN depth = 0
    ELSE depth < estimate + MinHorizon /\ remaining = 0

\* The send gate, evaluated on the depth read at the top of step().
ShouldSend(depth, remaining) ==
    IF synchronous
    THEN depth = 0 /\ ~inFlight
    ELSE depth < estimate + MinHorizon /\ remaining = 0

\* depth = schedule.queue_depth(), read before anything else.
StepBegin ==
    /\ caller.pc = "out"
    /\ ~stopping
    /\ sched.cursor < MaxStep
    /\ Len(outbox) < MaxOutbox
    /\ caller' = [pc |-> "gate", depth |-> QueueDepth(sched), ts |-> 0]
    /\ UNCHANGED <<schedVars, senderVars, gateVars, clock, failures, stopping, synchronous>>

\* The gate opens: the observation is encoded, the gate re-armed, and the
\* observation handed to the sender.
StepSubmit ==
    /\ caller.pc = "gate"
    /\ ShouldSend(caller.depth, CoolAfterTick)
    /\ outbox' = Append(outbox, barriers)
    /\ IF synchronous
       THEN /\ inFlight' = TRUE
            /\ cool' = CoolAfterTick
       ELSE /\ cool' = Armed(IF estimate > 0 THEN estimate ELSE MinHorizon)
            /\ UNCHANGED inFlight
    /\ caller' = [caller EXCEPT !.pc = "pop"]
    /\ UNCHANGED <<schedVars, sender, captured, estimate, clock, failures, stopping, synchronous>>

\* The gate stays shut.
StepNoSubmit ==
    /\ caller.pc = "gate"
    /\ ~ShouldSend(caller.depth, CoolAfterTick)
    /\ cool' = CoolAfterTick
    /\ caller' = [caller EXCEPT !.pc = "pop"]
    /\ UNCHANGED <<schedVars, senderVars, inFlight, estimate, clock, failures, stopping, synchronous>>

\* The observation callable raises: step() is left before the gate is re-armed
\* and before anything is popped.
StepEncodeFails ==
    /\ caller.pc = "gate"
    /\ ShouldSend(caller.depth, CoolAfterTick)
    /\ failures < MaxFailures
    /\ failures' = failures + 1
    /\ cool' = CoolAfterTick
    /\ caller' = Out
    /\ popped' = NoAction
    /\ UNCHANGED <<sched, newest, barriers, senderVars, inFlight, estimate, clock, stopping, synchronous>>

\* schedule.pop_next(): exactly one action, or none with the cursor unmoved.
StepPop ==
    /\ caller.pc = "pop"
    /\ sched' = PopNext(sched)
    /\ popped' = IF CanPop(sched)
                 THEN [step |-> sched.cursor, ts |-> sched.data[sched.cursor]]
                 ELSE NoAction
    /\ newest' = IF CanPop(sched) THEN sched.data[sched.cursor] ELSE newest
    /\ caller' = Out
    /\ UNCHANGED <<barriers, senderVars, gateVars, clock, failures, stopping, synchronous>>

\* CommandBus._flush_schedule(), movement.py:757-773.  The barrier's timestamp
\* is taken from the client clock first and applied under the schedule's lock
\* afterwards.
FlushPlain ==
    /\ caller.pc = "out"
    /\ sched' = Flush(sched)
    /\ UNCHANGED <<popped, newest, barriers, senderVars, gateVars, clock, caller, failures, stopping, synchronous>>

BarrierTick ==
    /\ caller.pc = "out"
    /\ barriers < MaxBarriers
    /\ ClockTick(barriers)
    /\ caller' = [pc |-> "flush", depth |-> 0, ts |-> clock + 1]
    /\ UNCHANGED <<schedVars, outbox, sender, gateVars, failures, stopping, synchronous>>

BarrierFlush ==
    /\ caller.pc = "flush"
    /\ sched' = FlushBarrier(sched, caller.ts)
    /\ barriers' = barriers + 1
    /\ caller' = Out
    /\ UNCHANGED <<popped, newest, senderVars, gateVars, clock, failures, stopping, synchronous>>

\* ObservationSender.stop(): the stop event; the sender leaves its loop at the
\* next turn, with what is still queued.
Stop ==
    /\ caller.pc = "out"
    /\ ~stopping
    /\ stopping' = TRUE
    /\ UNCHANGED <<schedVars, senderVars, gateVars, clock, caller, failures, synchronous>>

-----------------------------------------------------------------------------
(* The sender thread: sender.py:78-102 and the send_fn of                   *)
(* controller.py:385-408.  One Infer at a time.                             *)

\* Take the oldest observation and stamp it.
Stamp ==
    /\ sender.pc = "idle"
    /\ ~stopping
    /\ outbox # <<>>
    /\ clock < MaxClock
    /\ outbox' = Tail(outbox)
    /\ ClockTick(Head(outbox))
    /\ sender' = [pc |-> "stamped", ts |-> clock + 1, start |-> 0]
    /\ UNCHANGED <<schedVars, gateVars, caller, failures, stopping, synchronous>>

\* Read the cursor and call Infer.
SendInfer ==
    /\ sender.pc = "stamped"
    /\ sender' = [sender EXCEPT !.pc = "sent", !.start = sched.cursor]
    /\ UNCHANGED <<schedVars, outbox, captured, gateVars, clock, caller, failures, stopping, synchronous>>

\* The server answers with n actions anchored at the cursor it was sent
\* (transport.py:494-569): the estimator sees the round trip, the schedule
\* merges the chunk.
ReceiveChunk(n, d) ==
    /\ sender.pc = "sent"
    /\ sched' = Merge(sched, [ts |-> sender.ts, start |-> sender.start, len |-> n])
    /\ estimate' = d
    /\ sender' = [sender EXCEPT !.pc = "merged"]
    /\ UNCHANGED <<popped, newest, barriers, outbox, captured, cool, inFlight, clock, caller, failures, stopping, synchronous>>

\* The receiver's on_chunk callback clears the in-flight gate, after the merge.
ClearInFlight ==
    /\ sender.pc = "merged"
    /\ inFlight' = FALSE
    /\ sender' = Idle
    /\ UNCHANGED <<schedVars, outbox, captured, cool, estimate, clock, caller, failures, stopping, synchronous>>

\* Mutant: the failed RPC leaves the gate shut.
InferFailsShut ==
    /\ sender.pc = "sent"
    /\ failures < MaxFailures
    /\ failures' = failures + 1
    /\ sender' = Idle
    /\ UNCHANGED <<schedVars, outbox, captured, gateVars, clock, caller, stopping, synchronous>>

\* The RPC fails (lost connection, server error): the gate is released, the
\* observation is gone.
InferFails ==
    /\ sender.pc = "sent"
    /\ failures < MaxFailures
    /\ failures' = failures + 1
    /\ inFlight' = FALSE
    /\ sender' = Idle
    /\ UNCHANGED <<schedVars, outbox, captured, cool, estimate, clock, caller, stopping, synchronous>>

SenderExits ==
    /\ sender.pc = "idle"
    /\ stopping
    /\ sender' = [Idle EXCEPT !.pc = "stopped"]
    /\ UNCHANGED <<schedVars, outbox, captured, gateVars, clock, caller, failures, stopping, synchronous>>

-----------------------------------------------------------------------------

SenderNext ==
    \/ Stamp
    \/ SendInfer
    \/ \E n \in ChunkLens, d \in Delays : ReceiveChunk(n, d)
    \/ ClearInFlight
    \/ InferFails
    \/ SenderExits

StepNext ==
    \/ StepBegin
    \/ StepSubmit
    \/ StepNoSubmit
    \/ StepEncodeFails
    \/ StepPop

FlushNext == FlushPlain \/ BarrierTick \/ BarrierFlush

Terminating ==
    /\ sender.pc = "stopped"
    /\ caller.pc = "out"
    /\ UNCHANGED clientVars

ClientNext == SenderNext \/ StepNext \/ FlushNext \/ Stop \/ Terminating

ClientSpec == ClientInit /\ [][ClientNext]_clientVars

(* The sender is a thread whose RPC returns or fails (gRPC keepalive breaks *)
(* a dead connection); the control loop keeps ticking until it is stopped.  *)
Fairness ==
    /\ WF_clientVars(SenderNext)
    /\ WF_clientVars(StepBegin)
    /\ WF_clientVars(StepSubmit \/ StepNoSubmit \/ StepPop)
    /\ WF_clientVars(BarrierFlush)

FairClientSpec == ClientSpec /\ Fairness

-----------------------------------------------------------------------------

(* The plan is one unbroken run from the cursor, whatever the interleaving  *)
(* of merges, pops and flushes: step() never starves while later steps are  *)
(* queued.  In synchronous mode a hole would stall the robot for good,      *)
(* because the gate only opens on an empty schedule (controller.py:878-880).*)
PlanHasNoHole == NoHole(sched)

(* No plan stamped before the last barrier survives it, also when its chunk *)
(* was in the air when the barrier was raised (merge.py:47-60, 160-165).    *)
PlanAboveFloor == AboveFloor(sched)

Outstanding ==
    Len(outbox) + (IF sender.pc \in {"stamped", "sent", "merged"} THEN 1 ELSE 0)

(* Synchronous mode: at most one request is outstanding, and the gate is    *)
(* shut while it is (controller.py:867-875, "exactly one observation ...    *)
(* with no overlap").                                                       *)
SyncOneInFlight ==
    synchronous => /\ Outstanding <= 1
                   /\ Outstanding = 1 => inFlight

(* The client never stalls: until it is closed it keeps executing steps or  *)
(* keeps asking for chunks, so a lost Infer cannot freeze the robot         *)
(* (controller.py:871-877, cooldown.py:14-18).                              *)
NeverStalls == <>(sched.cursor = MaxStep \/ clock >= MaxClock \/ stopping)

(* The client implements the stream of actions the control loop relies on:  *)
(* no step skipped or repeated, plans never older than the last one         *)
(* executed, nothing executed from below a fence.                           *)
Stream == INSTANCE ActionStream WITH next <- sched.cursor, fence <- sched.floor

ImplementsActionStream == Stream!Spec

(* What the comments promise of synchronous mode (controller.py:869-872):   *)
(* "One chunk executes to completion before the next observation, so a      *)
(* fresh chunk never overwrites an unexecuted tail."                        *)
SyncNeverOverwritesTail ==
    [][ synchronous =>
          \A k \in Scheduled(sched) \cap Scheduled(sched') :
              sched'.data[k] = sched.data[k] ]_clientVars

(* What the comments promise of a barrier (movement.py:504-507): an         *)
(* observation captured before the takeover "can never install actions once *)
(* the human has control".                                                  *)
NoPlanFromBeforeBarrier ==
    \A k \in Scheduled(sched) : captured[sched.data[k]] = barriers

=============================================================================
