# Interlatent in TLA+

Interlatent runs a learned policy on a robot whose computer is too small for it.
A **node** next to the robot runs the control loop; a **GPU box** runs the policy
and records the episode; a **coordinator** tells nodes and boxes what to do; a
**browser** with a headset can take over from the policy (teleop) through a relay.
This directory holds TLA+ models of that program, the TLC runs that check them and
the TLAPS proofs about them. Paths below are relative to the repository; `SDK` is
`src/packages/sdk/src/interlatent`, `SRV` is
`src/packages/server/src/interlatent_server/server`.

- [1. Inventory](#1-inventory)
- [2. Modules](#2-modules)
- [3. Runs](#3-runs)
- [4. Proofs](#4-proofs)
- [5. Where the code and its comments disagree](#5-where-the-code-and-its-comments-disagree)
- [6. What is not modelled](#6-what-is-not-modelled)
- [7. Plan](#7-plan)

## 1. Inventory

| Component | State it keeps | Operations | Talks to |
|---|---|---|---|
| Action schedule (`SDK/inference/client/merge.py`) | steps → stamped actions, cursor, merge floor | `merge`, `pop_next`, `pop_due`, `flush(barrier_ts)` | control loop pops and flushes, sender thread merges |
| DRTC client (`controller.py`, `sender.py`, `receiver.py`, `cooldown.py`, `latency.py`) | clock, cooldown, in-flight event, RTT estimate, outbox | `step`, `open`, `close`, `_send`, `on_chunk` | schedule; `Infer` RPC on the box |
| Command bus and loop (`SDK/node/movement.py`, `looprunner.py`, `control.py`) | previous source, grace counter, e-stop forward flag; gate latch and trajectory; filter delay line | one tick: guard, sample, arbitrate, produce, send, capture | client, frame store, robot, gate, filter |
| Teleop channel and QUIC child (`SDK/node/teleop/`) | child process, pinned address, latest frame, sticky e-stop, sequence de-duplicator, back-off | datagram in, `latest_frame`, `consume_estop`, start, stop, supervise | bus; relay |
| Relay (`SDK/coordinator/relay_core.py`, `relay.py`) | one pair of browser and node per session | attach, supersede, detach, forward | channel, browser |
| Coordinator (`SDK/coordinator/state.py`, `server.py`) | nodes, GPU names, sessions, recordings; a JSON file | pair, poll, register, start and stop a session, remove, persist | daemon polls it, box registers |
| Node daemon (`SDK/node/daemon.py`) | known session, active loop, route | poll, converge, start, stop | coordinator, control loop |
| Server authentication cache (`SRV/auth.py`) | time-bounded verdict per key | validate, probe, evict | coordinator; every call on the box |
| Supervisors (`SDK/coordinator/supervisor.py`, CLI `up` and `down`) | process of the coordinator | up, down, down `--force` | coordinator |
| Recording uplink (`spool.py`, recording half of `controller.py`) | journal on disk, index, wake queue, counters | `record_tick`, `_rec_loop`, `_send_batch`, `_drain_recorder` | `RecordTicks` on the box |
| Recorder and sessions (`SRV/recorder.py`, `transport.py`, `sinks.py`) | sessions, episode index, queue, dataset on disk, upload status | `OpenSession`, `RecordTick(s)`, `CloseSession`, finalize, discard, upload, idle GC | node; object store |
| Dataset storage (`storage/lerobot_live.py`, `lerobot_rebuild.py`) | live builder's frames and held-back steps; staged files | add step, finalize, verify, abort; rebuild | recorder |
| Inference context and policy backends (`SRV/lerobot_backend.py`, `chunk_seam.py`, `policy_runtime.py`) | previous raw chunk, previous blended chunk and their starts; one worker | reset, forward, cross-fade | `OpenSession` and `Infer` |
| World-model backend and sidecar (`dreamzero_backend.py`, `dreamzero_sidecar.py`, `SDK/node/context_ring.py`) | the node's ring of samples, last sample forwarded, the sidecar's memory, one socket | offer, drain, reset, context, infer | worker and event loop |
| Nori adapter and keep-alive guard (`SDK/adapters/nori/`) | socket, status cache, liveness, reader and pump threads, guard | handshake, pump, read, reconnect, `pre_tick`, estop, close | Nori daemon; bus |
| Robots driven through their SDK (`SDK/adapters/yam`, `axol`, `dimos`) | open devices, last command, joint cache, camera threads | connect, verify, `pre_tick`, send, manual action, disconnect | device libraries |
| Behaviors (`SDK/behaviors/`, `robot.py`) | registry, plan, run and its handle, lock file | resolve, plan, play, cancel, stop smoothly, acquire and release the lock | robot adapter; other processes |
| Serving entry point (`serve_gpu.py`) | warmed backend, registered name | warm up, register, serve | coordinator |
| Browser client, command-line tools | – | – | relay; coordinator |

What is hard in it:

- **Two threads on one plan.** The sender thread stamps observations, waits for
  `Infer` and merges; the control-loop thread reads depth, pops and flushes.
  Each access is locked, their sequence is not.
- **Cancelling what is in the air.** A takeover or an e-stop must cancel chunks not
  yet received; the client has no way to cancel an RPC and relies on timestamps.
- **Signals that must not be lost.** E-stop frames can be duplicated, late,
  overtaken, stale, or followed by a disconnect before the loop reads them.
- **State carried over a change of driver or of session.** Filter, gate, plan and grace
  counter have a reset of their own at each kind of transition; so have the trails the
  policy backend continues and the memory of the world model.
- **Recording across failures.** Ticks are journaled, sent at least once and
  written once, while sessions are superseded, closed, abandoned and collected; the
  dataset is built by one of two lanes and published by moving directories.
- **Convergence.** Daemons poll a coordinator that may restart; loops may die; keys are
  revoked while a box remembers them as valid.
- **Processes that outlive each other.** A QUIC child and its parent, a page and the page
  that superseded it, a robot daemon and the brain that should hold it, a lock file and
  the process named in it.

What makes each component correct:

| Component | Properties |
|---|---|
| Schedule | no hole in the plan; nothing from below the floor; insensitive to order and duplication |
| Client | executes every step once, plans never older than the last one executed; one request in flight in sequential mode; never stalls |
| Bus | an e-stop that reached the node stops motion for good; no policy action while the human is in charge or from a plan made before the takeover; no stale filter or gate state |
| Teleop | an e-stop that was read is there for the loop; the newest target wins; silence stops motion; whoever came last is served; the channel comes back |
| Coordinator, daemon, validator | one session per node and per GPU; the report in a poll is honest; the daemon converges to its assignment; what is stopped is closed |
| Recording uplink | a captured tick is on the node's disk until the box took it; the counters account for it; the backlog drains |
| Recorder and sessions | an acknowledged tick is itself staged, once, unless its number collides with that of an earlier session's (section 5); one recorder per episode; a dataset is complete; every recording ends |
| Dataset and publishing | the dataset is the staging, frame by frame, and plays at the captured speed; merges lose neither the accumulated dataset nor the new one; every upload ends |
| Serving | a session that has the worker to itself continues only its own chunks (others may not: section 5); a chunk joins the previous one where the robot executes it |
| World model | a chunk is dreamed from its own loop's samples |
| Robots | a dead brain stops the robot; a latched one is freed; commands are clamped; every device is let go of |
| Behaviors | every step within the cap; a stalled joint ends the run; the lock names a live holder or nobody |

`PROJECT.json` lists the hazards one by one with the line where each bites.

## 2. Modules

```
ActionSchedule ─┬─ DrtcClient ─── ControlLoop ─── MCControlLoop      node: plan, client, bus
                │     └ implements ActionStream
                └─ PolicyServer ─── Serving                          box: what a chunk continues

TickSpool ───────┬─ Recording                                        node and box, one episode
SessionRecorder ─┘
Publishing ──────┬─ Shipping ─── MCShipping                          box: dataset and destination
DatasetBuild ────┘
Coordinator ─── NodeDaemon ─── Fleet ─── MCFleet                     control plane
                                └ implements ControlPlane
TeleopRelay ─── QuicChannel ─── Teleop ─── MCTeleop                  headset to control loop
NoriSession ─── Nori ──────────┬─ Robots                             what --robot names
DimosStack ─── NativeRobots ───┘
BehaviorPlan ─── Behaviors ─── MCBehaviors                           motion without a policy
WorldModel                                                           context of a world model

proofs: ControlLoop_proofs, Recording_proofs, Shipping_proofs, Fleet_proofs, Robots_proofs,
        Teleop_proofs, Serving_proofs, Behaviors_proofs
```

`…_proofs` modules hold the theorems; `MC…` modules hold the constants TLC explores.
Operators whose comment begins with *Mutant* are wrong on purpose: each is a plausible
slip in the definition that follows, and replacing that definition by it makes TLC report
the property named for it in `PROJECT.json`. No specification uses them.

### Node: plan, client, bus

**ActionSchedule** — the schedule as a record `[data, cursor, floor]` and each method
as an operator. `data` maps a step to the *timestamp* of the chunk that planned it:
the vector is a function of chunk and step, so the stamp identifies it. `Installs`
is the condition inside `merge`, `PopNext`, `PopDue`, `Flush`, `FlushBarrier` the
other methods. Each runs under the schedule's lock in the code, so each is atomic.

**ActionStream** — the promise to the control loop, in three variables: the next step,
the stamp of the plan the last executed step came from, and the fence. `Execute` takes
exactly the next step, from a plan above the fence and not older than the last;
`Cancel` raises the fence over everything so far.

**DrtcClient** — the two threads at the grain of their shared accesses.

| Action | Code |
|---|---|
| `StepBegin` | `step()` reads `queue_depth()` |
| `StepSubmit`, `StepNoSubmit`, `StepEncodeFails` | cooldown tick, the gate on that *old* depth, encode, arm or set the event, `submit` |
| `StepPop` | `pop_next()` |
| `FlushPlain`, `BarrierTick`, `BarrierFlush` | `_flush_schedule`; the barrier's `clock.tick()` and `flush()` are two steps |
| `Stamp`, `SendInfer` | `_dispatch`: `clock.tick()`, then `next_action_step()` and the RPC |
| `ReceiveChunk`, `ClearInFlight` | `on_chunk`: estimate and merge, then the in-flight callback |
| `InferFails` | the `except` of `_send` |
| `Stop`, `SenderExits` | `ObservationSender.stop()` |

An observation in the outbox is represented by the number of barriers completed before
it was captured. The clock counts from the client's birth, and only its order matters.
The RTT estimator is a choice from `Delays`; the estimate is 0 until the first answer, as
`estimate_steps` returns before its first sample. `synchronous` is a variable fixed at
`Init`, so one run covers both cadences. `newest` and `captured` are history.

Two accesses are merged because nothing distinguishes them: the depth of the *server's*
context (`scheduled_spans`) is not part of the answer's anchor and is left out, and the
in-flight event is read and set in one step because only the control loop sets it.

**ControlLoop** — extends `DrtcClient` and restricts its caller to what the bus does.
`loop` says where the thread is in its tick; `setup` is what `control.py` and `daemon.py`
settle before the loop (policy or teleop recording, a gate or none, matching joints, a
hardware latch or none).

| Action | Code |
|---|---|
| `FrameArrives`, `LateEstopArrives`, `FrameGoesStale` | `_handle_datagram` and the frame store |
| `LoopStops`, `GuardEndsEpisode`, `GuardHolds` | `should_stop()`, the `pre_tick` verdicts |
| `SampleTeleop` | `sample_teleop()` |
| `ObserveAndArbitrate` | `observe_estop()`, `Arbiter.decide()`, the grace counter, the resets of the branch taken |
| `TakeBarrier`, `ApplyBarrier` | the barrier of an e-stop tick or an engage edge |
| `LoopStepBegin` … `LoopStepPop`, `LoopEncodeFails` | `client.step()`, on the policy path or as a shadow step |
| `SendPolicyAction`, `SendNothing`, `SendHumanTarget`, `SendTeleopTarget`, `CommandFails`, `HoldPose` | `_drive_*` and `_send` |

The sender thread and the teleop thread interleave between all of them. A frame is one of
four: none (absent or older than 250 ms), disengaged, engaged, e-stop. The gate's clamp and
the filter's arithmetic are abstracted to whether they hold state (`anchored`, `primed`).

### Recording, from the tick to the dataset

**TickSpool**, **SessionRecorder** — the node's journal and the box's recorder as records,
each method an operator. A tick is its control step, sizes are counted in ticks, and a
recorder keeps where each step is: in the writer's queue, in the rows on disk, or among the
writes that raised. `HasRoomFor` is the queue's size and the step cap, `AcceptedPrefix` the
loop of `RecordTicks` that stops at the first refusal, `Stage` the bookkeeping that never
stages a step twice. Each runs on one lock or on the box's event loop without an `await`, so
each is atomic.

**Recording** — one episode across both machines. A session is the number of the
`OpenSession` call that made it, a recorder the session it was built for.

| Action | Code |
|---|---|
| `OpenSession` | `open()` and the RPC: supersede the session the episode index names, inherit its recorder while it records, or build one; the answer may be lost |
| `Capture` | `record_tick()`: `blocked`, then `append`, either of which may refuse |
| `Ship`, `GetReply`, `RpcFails`, `ShipperExits` | the sender thread: `peek_batch`, the RPC, `ack` of the accepted prefix, the `except` branches, the two ways out of `_rec_loop` |
| `BeginClose`, `PutPill`, `GiveUp`, `CountRetained`, `Dispose`, `CloseSession` | `close()` and `_drain_recorder()`, one action per access the sender thread can interleave with |
| `Crash` | the node's process dies; the journal stays |
| `HandleTicks`, `HandleDelayed`, `HandleClose` | `RecordTicks` and `CloseSession` on the box, also for calls the node has given up |
| `IdleGc` | `_idle_gc_loop` takes a silent session |
| `WriteRow`, `Build` | the writer task and `upload()` up to the built dataset |

`captured`, `acked` and `staged` are history. `RpcFails` loses the request, the answer, or neither: a
request that fails on the node may still arrive later (`delayed`), even after a crash or a
close. `ForcedClose` adds the daemon's close of a client whose loop hangs and may capture
still; the code lets such a loop finish the tick it is in, the model does not count them.

**Publishing** — what `upload()` does with a built dataset: the destination's lock, the first
move or the aggregate and the two moves of the swap, the restore, the sibling, the
quarantine, the clean-up. Each file operation is a step that may raise, and the box may die
between them. A dataset is the set of recorders whose episode it holds. `SharedName` says
whether the recorders belong to one episode.

**DatasetBuild**, **Shipping** — how one recorder's ticks become a dataset, and the whole of
`upload()` for it while other recorders publish into the same destination.

| Action | Code |
|---|---|
| `Enqueue` | `enqueue_nowait()`: a full queue refuses, but the tick's cameras are noted before |
| `WriteOne` | the writer: staged files, the manifest row, then the live builder (held back while no camera showed, opened at the first image, padded after it) |
| `CloseRecorder`, `Drained` | `finalize()`, the pill, the end of the writer |
| `Seal` | the live lane's frame-count check and rate check, or its abort |
| `Rebuild` | the rebuild from the staging, at the measured rate |
| `PublishNext` | a step of `Publishing` of any recorder; the watched one takes part once built |
| `CrashBox`, `Restarted` | the box dies; what it staged stays, nobody resumes it |

A frame of the video is the step it shows, or black. A session offers ticks with any choice of
cameras that delivered, and the node's clock shows any of a few courses of time. The measured rate is
the quotient of two products (`Intervals * Second` and `Elapsed`), compared and rounded without a
fraction; the code computes it in floating point. The library and the disk may raise, or drop a
frame, at any call.

### Control plane

**Coordinator** — `state.py` with its file: pairing and removal, names of GPUs, the session and
the recording of each node, the poll with its known session, stop and restart of the process.
**NodeDaemon** — a daemon's poll and convergence, its loop's thread, and the validator of a box.
**Fleet** — both, several nodes, the boxes, the operator's commands and `down --force`.
**ControlPlane** — the promise: a node runs what it was told, it is told what is wanted.

| Action | Code |
|---|---|
| `Command`: `Pair`, `StartSession`, `StopSession`, `ResolveNode`, `CreateRecording`, `RefuseRecording` | the HTTP handlers and the methods of `Coordinator` they call; each runs under its lock and saves |
| `Removal` | `remove_node`, `remove_gpu` |
| `CoordinatorCrash`, `CoordinatorStart` | the process ends; `_load` of what was saved |
| `ForceDown`, `Unassign`, `Terminate` | `down --force`, one DELETE at a time, the grace, the exit |
| `BoxStarts`, `BoxStops`, `IdleGc` | registration before serving, the end of the box, the collection of silent sessions |
| `Answer`, `PollIsLost` | a poll that is answered, or whose answer is lost |
| `StopPrior`, `BecomesIdle`, `RefuseForDisk`, `StartSilently`, `StartLoop`, `StartFails` | the branches of `_converge` |
| `LoopEnds`, `ExitDaemon`, `CrashDaemon` | the loop's thread returns or dies; the daemon leaves or is killed |
| `ValidatorStep` | a call meets no live verdict in the cache: the coordinator is asked, and may be away |

`wanted`, `told` and `runs` of `ControlPlane` are the session in `sessions`, the one in the last
answer, and the one in `loop`.

### Teleop transport

**TeleopRelay** — the registry and what the protocol objects do to it. **QuicChannel** — the
child process and the three threads of the node that meet around its loopback socket.
**Teleop** — the pages, a network that loses, repeats and reorders, and the faults.

| Action | Code |
|---|---|
| `Opens`, `Closes`, `LosesPage`, `LosesChild` | a page connects or goes away; the relay notices (`attach`, `connection_lost`, the synthetic close frame) |
| `Arrives` | the relay forwards a target to the paired child, which hands it to its parent |
| `Hello`, `Connects`, `ConnectFails`, `Crash` | the child: heartbeat, mint and connect, failure, death |
| `Handle` | `_handle_datagram`: hello pins, the others must come from the pinned address; the e-stop latches before the duplicate check |
| `Reaps`, `BeginsSpawn`, `Spawn`, `SpawnFails`, `BackoffElapses` | the supervisor |
| `ConsumeEstop`, `GrowsStale` | the control loop reads; 250 ms pass |
| `StopBegins`, `StopShutsChild`, `StopJoins`, `StopSweeps`, `Leaves` | `stop()` against the supervisor |

A frame is its page and its number; what it asks is `Script`. A child makes one connection in its
life: the iterator over its datagrams does not end when the connection does
(`_quic_client.py:244-246`), so it never gets to its reconnect loop. A child therefore names its
connection.

### Serving

**PolicyServer** — the one backend all sessions share: `OpenSession` with its reset, which is four
assignments without a lock (`ResetsRaw` … `ResetsStart`), the worker's forward (`BeginsForward`,
`StoresRaw`, `StoresRawStart`, `StoresTrail`, `StoresStart`) that interleaves with it, and the
answer. A vector is the request that made it and the step it is for; a blended vector counts as
the old chunk's up to the anchor (`Crossfaded`). What is kept of a chunk names its request and its session;
`overlapped` is history: the sessions that, since they began to open, met a request of another
session on the worker or on its way there. **Serving** adds the clients: `Asks`, `Merges`,
`Executes`, `Barrier`, `GivesUp`, `Unheard`, `Connects`, `Leaves`, `Collected`.

**WorldModel** — `Sample` and `Ask` on the node, `SendReset`, `ForwardContext`, `SendInfer` and the
answers on one socket from two threads, time-outs, and the sidecar's `Handles` and `Breaks`. Its one run
allows no failure (`MaxFaults = 0`), so the time-outs and `Breaks` are written down and not explored.

### Robots and behaviors

**NoriSession** is the client of a Nori daemon: reader, pump, handshake and reconnect, teardown
of a socket by whoever finds it broken; **Nori** the tick around it with the guard's verdicts, the
forwarded e-stop, and `close()` with its joins. The daemon (one client at a time, a watchdog, a
latch that only a person at the robot trips or clears) is external. **DimosStack** is the
verification of a dimos coordinator's tasks (by their claims, or by a probe that takes whatever task goes
active in its window), joints and gripper; **NativeRobots** the YAM, Axol and
dimos adapters from `connect()` to `disconnect()`, driven by the loop or by manual calls.
**Robots** is one episode on any of them.

**BehaviorPlan** translates resolution and planning in integers: limits, interpolations, peak
factors, approach, automatic durations, sampling. **Behaviors** plays the plan: `PlayTick` is one
turn of `_run` (cancelled?, send, read, count the lag), `StopTick` one of `_decelerate`, `TickFails`
its `finally`; `ReadsLock` and `WritesLock` are the two halves of `acquire_bus_lock`, between which
another process may come.

## 3. Runs

| Run | Checks | Bounds | States |
|---|---|---|---|
| `DrtcClient` | hole-free plan, one request in flight, refinement of `ActionStream`, no stall | both cadences, 3 steps, 4 stamps, 2 barriers, 1 failure, outbox of 2 | 699 k |
| `ControlLoop` | e-stop, handback, plans after takeover, gate | three setups, 2 steps, 2 barriers, 3 stamps, 1 failure, grace of 1 | 698 k |
| `Recording` | the books, complete datasets, draining, every recording ends | 1 session, 3 steps, 2 failed calls, batches of 2, journal of 2, queue of 1, cap of 2 | 131 k |
| `RecordingReconnect` | honest acknowledgements (a deleted tick was itself staged, or its number collides), no step twice, nothing captured is dropped, one recording per episode | 2 sessions, 2 steps, 1 failed call, else the same | 4.3 M |
| `Shipping` | dataset equals staging, playback speed, accumulated dataset, no dataset lost, every upload ends | 2 recorders of different episodes, 3 ticks, 2 cameras, 3 clocks, 1 failing call, 1 crash | 844 k |
| `Fleet` | consistent assignments, honest polls, refinement of `ControlPlane`, convergence, stopped sessions close | 2 nodes, 1 box, 1 name, 2 assignments, 1 fault | 211 k |
| `Teleop` | e-stop kept, successor served, newest target, silence, recovery | 2 pages, 2 children, 2 targets, 1 fault | 654 k |
| `Serving` | trails that stay in their session, continuous seams | 2 nodes, 2 opens, chunks of 3, 3 stamps, 3 steps, 1 fault, RTC or cross-fade | 3.7 M |
| `Robots` | dead brain, latch, clamp, teardown | 4 kinds, 2 connections, 1 fault, 1 press, windows of 1 tick; 4 poses, step of 1, 1 device failure | 690 k |
| `Behaviors` | cap, lag, lock | 2 robots of 2 processes, 2 joints, a pose and a trajectory, 2 runs, 1 fault | 5.2 M |
| `RobotsStale` | *violated*: `StaleJointsAreNeverUsed` | dimos only, no failure | |
| `WorldModel` | *violated*: `SessionsDoNotMix` | 2 sessions, ring of 2, 3 samples, no failure | |

**Why the bounds are enough.** A chunk of 2 anchored at an old cursor overlaps, abuts and
falls behind later ones, and four stamps let two chunks be compared across a barrier on
either side. In `DrtcClient` two requests can wait while one is out, two chunks of 2 over
three steps overlap by one, and a failure can meet either cadence. In `ControlLoop` two
barriers allow takeover, handback and takeover again, or takeover and e-stop; grace 1
has the three cases armed, running and spent. `MaxStep`, `MaxClock`, `MaxBarriers`,
`MaxFailures` and `MaxOutbox` appear only in guards of the actions that would exceed
them, and in `ControlLoop` they end a run between ticks, never inside one.

In `Recording` three steps over a journal of 2 and a queue of 1 make every limit refuse in the
middle of a batch, and the cap of 2 leaves a tick the box never takes. One failed call can lose
an answer, two can also deliver a late batch out of order. Two sessions are a reconnect: after a
crash, after a lost `OpenSession` answer, after a close, or after the collection.

In `Shipping` the first tick may come without any camera (held back), with one, or with both, and
a camera may appear late (padded with black) or never; three ticks hold one back, open the
dataset and pad. At a declared rate of 4 the three clocks give, after two ticks and after three: 2.5
(half way between two whole rates, beyond the tolerance) and, since the last time is repeated, 5 (beyond
it on the other side); no rate, since the clock stands still, and 0.8; 3.87 (within) and none, since
the clock starts again with the node. Ticks that were admitted and then not written count too. The
failing call can be any: staging, live encoder, verification, rebuild, publication. The watched
recorder publishes before, while, or after the other one does, into an empty or a full destination.

In `Fleet` two nodes compete for one GPU name; `n1` has a fallback route, `n2` none, so
both kinds of recording happen. Two assignments are an assignment and its replacement on one node or
on two; the one fault is a crash of any process, a lost poll, a failed start, a dead loop, a removal,
or a `down --force`. `MCFleet` also holds the routes of other instances (an override, no
fallback), and `OperatorKeyed` the nodes that dial with the operator's key.

In `Teleop` the second page is a reload that supersedes the first, and the second child the one born
after the first died. The first page drives and then presses e-stop, so its two targets may be
overtaken, repeated, or arrive after a disconnect. `ResetGap` of 1 stands for the 1000 of the code
and scripts respect its proportion (`ChannelAssumption`): a number so far back is a restart.

In `Serving` a chunk of 3 with a delay of 0 or 1 begins in, at the edge of and beyond the previous
one; two nodes interleave on the one backend, two opens are a reconnect or two nodes, and the
fault is an answer given up or a failing RTC call. In `Robots` the Nori's windows are one tick each,
so that every order of the pump, the telemetry, the window and the reconnect happens; four
poses and a step of 1 let a target be nearer and farther than the clamp allows; a lost command and a
failed close meet every device. In `Behaviors` home is a pose whose duration is automatic, wave a
trajectory close to the cap, played at normal or 4/3 speed; the fault is a crash, an
error, a forced claim or an obstacle.

**Deadlock** is checked in `DrtcClient` and `ControlLoop`: the only states without a successor of
their own are closed clients, which stutter (`Terminating`, `EpisodeOver`). It is not checked
elsewhere: an episode that is recorded, a dataset that is published, a channel that is stopped, a robot
that is disconnected is over, and an operator who gives no command is free not to.

A policy answers with at most `chunk_size` actions, the same number each time, or none:
the assumption on `ChunkLens`. The hole-free plan needs it. A shorter chunk that is newer
never removes the tail of an older one; the refinement, which says that plans never get older
from one step to the next, would not hold with several lengths.

**Fairness** is assumed of threads, processes and clocks that run by themselves, never of the
operator, the network, or a success.

- `FairClientSpec`: the sender thread keeps running and its RPC returns or fails (gRPC's keepalive
  breaks dead connections), a step begun ends, and the control loop keeps ticking. Not assumed:
  that an RPC succeeds, that an encode succeeds, that the queue is ever full. `NeverStalls` says
  that the episode then reaches its last step, exhausts its timestamps, or is closed.
- `FairSpec` of `Recording`: the sender thread, the writer and the upload task run, a call is
  answered or fails, `close()` runs on once begun (its wait has a ceiling), and the collection, which
  is periodic, takes a session whose node is gone. Nothing of the control loop, of failures (they
  are bounded, so a link that stays down is not in it), of `CloseSession`, or of late batches:
  `EveryRecorderEnds` holds without a single `CloseSession`.
- `ShipSpec`: the writer and the upload run, a recording is closed, a publish takes its next step,
  and the lock is first come first served (`asyncio.Lock` is), hence strong fairness of `Acquire`.
- `Fairness` of `Fleet`: a daemon's poll is answered while the coordinator is up and its convergence
  goes on (strong, because the coordinator's faults may disable it again and again), the
  validator asks again when its verdict expires, silent sessions are collected. The coordinator need
  not come back: `Converges` is about a coordinator and a box that stay up from some point on.
- `Fairness` of `Teleop`: the relay notices dead connections (QUIC's idle timeout), children
  connect and greet, the supervisor and a `stop()` begun go on, time passes.
- `RobotsSpec`: the threads of the Nori client run, time passes, a running daemon reports its status
  and takes its next client. The robots driven through their SDK need none.

`Serving`, `Behaviors` and `RecordingReconnect` check safety only.

## 4. Proofs

Every theorem holds for all values of the constants that satisfy the named assumptions of the
modules; none takes anything else on trust. None of the properties is inductive alone, and each
module's text says why its invariant is what it is. Each invariant was first checked by TLC
on the instance of the run.

The first part of `ControlLoop_proofs` proves of *every* schedule: `merge` returns a schedule, keeps a
hole-free plan hole-free when the chunk starts at or below the cursor, and keeps it above
the floor; `pop_next` and both flushes keep all three; `merge` of two chunks commutes
(`MergeCommutes`) and absorbs duplicates (`MergeAbsorbs`).

Its second part proves of the client, for all constants that satisfy `ClientAssumption`: `TypeCorrect`, `PlanNeverHasHole`, `BarrierCancelsPlans`,
`SyncHasOneInFlight` and `ClientImplementsStream`.

Its invariant `Inv` adds to `TypeOK`, `PlanHasNoHole` and `PlanAboveFloor`:

- `StampsAreOrdered`: every stamp in the plan, the floor and the stamps held by the two
  threads are at most the clock, and those of a thread are its own, so what is merged
  later is newer than what is planned now;
- `AnchorIsPast`: a request carries a cursor that is not ahead of the current one, so its
  chunk begins at or below the cursor and cannot leave a hole;
- `PlanIsMonotone`: along the plan the stamps never increase, and none is below the stamp
  last executed;
- `PlanIsCovered`: the plan of a request in the air reaches at least as far as anything
  installed now, because all chunks have one length and later anchors are not smaller.

The last two carry the refinement: the step executed next has a stamp not below the last
one, and stays so after a merge. `SyncHasOneInFlight` uses a second invariant that counts the
outbox, the sender and the gate together.

Its third part proves of the loop *together with* its client and sender thread, for every
grace, latency and chunk length: `EstopIsAHardStop`, `HandbackTakesTheGrace`,
`HandbackResumesFresh`, `GateStartsFresh`, `FilterStartsFresh`. On top of the client's `Inv`, which a
caller that may only do what the bus does keeps too, its invariant says

- `MovesLast`, `HumanStillDrives`: nothing has moved the robot yet in a tick that has not sent, and
  an intervention the bus does not take for a new one goes on from motion of the human;
- `EstopIsCarried`: an e-stop that reached a gated node is in the sticky flag or has latched the
  gate, and a tick sampled after one goes nowhere but through its barrier;
- `GraceIsCounted`: the ticks of the grace already spent and those left make up the grace;
- `TakeoverIsFenced`: since a takeover, either the floor is above it, or its barrier is still to come
  in this very tick, and what is popped afterwards is newer than it;
- `GateIsFresh`, `FilterIsFresh`: where the tick stands tells what gate and filter may hold.

`Recording_proofs` proves of the recording, for any number of sessions, steps and failures, any
batch, queue and journal: `RecordingShapes`, `AcksAreHonest`, `StepsAreStagedOnce`,
`DatasetsAreComplete`, `EpisodesAreNotForked`, and, if no close is forced,
`CapturedTicksAreKept`. Its invariant `Inv` consists of

- `Numbered`: what exists is numbered at most by the last `OpenSession`, so a new session meets
  no old recorder, journal or acknowledgement;
- `Staged`: what a recorder has seen is in its queue, its rows or its failed writes, and in one
  of them only; what a single step may do to a recorder is `RecorderStep`, and
  `StepAccounted` proves it of all of them at once;
- `OneSession`: at most one session is open, the one the index names, and it owns the one
  recorder that records;
- `Prefixes`: a batch is a prefix of the journal, the accepted part a prefix of the batch that
  the recorder has seen. This is what makes `ack`, which deletes *everything up to* the last
  accepted tick, honest;
- `AckedIsSeen`: an acknowledged tick was seen by its session's recorder.

A recorder knows a tick by its number alone, and that is what `AckedIsSeen` says. `Origins` adds whose
tick it was: a step a recorder has seen was put in its queue for one of the sessions that had the
recorder (`NewIsStaged`), so an acknowledged tick was staged itself or collides with one of an earlier
session. `AcksAreHonest` needs both.

`Journaled` adds that at the deletion a journal counted as empty is empty: true only while no
loop captures behind the back of `close()`, the assumption the forced close breaks.
Under it `BooksAreBalanced` follows too. `Books` says that what a running session has captured
is what was acknowledged, as many as `sent` counts, and what its journal still holds, and never
both; that the batch in flight is in the journal still, so that the answer counts just what it
deletes; and that only a `close()` that gave up on the sender thread lets a late answer
count a tick that was counted as retained.

`Shipping_proofs` proves of the destination `PublishersExclude`, `MergedStaysMerged` and, for
recorders of different episodes (`~SharedName`), `NothingIsDropped`; the invariant says what
each file holds at each step of the swap. Of the dataset, which the same specification builds, it
proves `DatasetsAreTheStaging` and `DatasetsPlayAtTheirSpeed`, for any cameras, labels, length, queue, clock,
rate, tolerance and number of failed writes:

- `IsBuild`, `InOrder`, `OnDisk`: rows are written from the front of a queue of ascending
  steps, every camera of a step that was offered is noted, and every image of a row is on the disk;
- `LiveFollows`: the live builder, until it dies, has just the rows that are staged, in a
  video that either lacks a frame for good (and is not used then) or shows every row's own
  image. Steps held back before the first image, a camera that appears late and a builder that
  dies are the cases;
- `IsTheStaging`, `AtItsSpeed`: a dataset, live or rebuilt from the staging files at the end, has
  the rows, sources and images that were staged, and their rate; a rebuilt one is off by half a
  frame a second at most (`RoundedIsNearest`).

`Fleet_proofs` proves for any fleet and any number of restarts: `TypeCorrectness`, `Consistency` of the
assignments, `HonestReports` of the daemons, and `Refinement`: every step of coordinator, daemons,
validator and box is a step or a stutter of `ControlPlane`. An assignment's number is at most the
last one issued and no other node's, so a daemon that compares numbers compares assignments.

`Teleop_proofs` proves for any number of pages and children, any script and any fault:
`EstopWaits`, `SuccessorStays` and `NewerTargetStays`. The last one is about a number that is set
back to -1 in the middle of a stream that may be reordered, and rests on the order of the loopback
socket:

- `OneLives`, `BornInOrder`: the living child is the one in `_proc`, and was born last;
- `QueueInOrder`: what waits in the socket waits in the order of the births of its senders;
- `AnnouncedFirst`: a child says "connected" once, and before its first target;
- `HeldIsNewest`, `NumbersContinue`: nothing older than the held target's child waits, and either
  the last number is the held target's, or nothing of its child can come any more. So the
  numbers start over only when there is nothing left to be confused with.

While `stop()` runs a child may live that is in no variable (section 5), so this order is claimed,
and needed, only until `stop()` begins: from then on nothing reads the socket.

`Robots_proofs` proves for any range, step, kind of robot and number of failures: `ClampIsRespected`
(`WithinMissedSteps`: what an arm got and what the adapter remembers differ by one step for each
command that did not arrive), `TeardownIsComplete` and, for any window and period
of the keep-alive, `SilentLoopStops` (the property `DeadBrainStops`). Its `IdleInv` ties the clocks
together: the proof of life is at least as old as the loop's last step, a frame that the pump is about
to send was decided on in time, and a robot that still moves was fed, less than `t_stop` ago, by a
loop or a pump that was in time.

`Serving_proofs` proves for any number of nodes, sessions, requests and faults, any chunk size and any
delays: `TrailsStayInSession` and `SeamsHold`. The clients, the RPC threads that open and
close sessions and the worker of the GPU share the trail that a new chunk is blended with, and
none locks it for longer than a step. The invariant says

- `Types`, `Once`: no two requests have one number, and a client does not hear again of the
  request it merged last;
- `Opening`: while a session opens, its client has no plan and waits for nothing;
- `OwnTrails`: whatever the trail holds while a session lives is a chunk of its own, unless it is
  overlapped. While a request is under way every session but its own is overlapped, so what it
  stores, before, during or after another session's reset, belongs to nobody else;
- `Plans`: what a client has planned is the rest of the chunk it merged last, and what it waits for
  was asked for after that, at or behind its cursor;
- `TrailsMatch`: for the newest session, vectors and start step of the trail are of one chunk, the
  one its client merged or is to get. They are stored in two steps, and this is what
  holds in between;
- `Blended`: a chunk blended with the one its client merged last continues it through the
  announced delay.

`Behaviors_proofs` proves `LocksHaveAHolder` for any number of processes, Robots, crashes and forced
claims. `LockIsOwned` strengthens it: the holder *owns* its lock, since a file of the process
would be removed by any of its Robots that owns one.

Of the motion it proves `CommandsAreCapped` (the property `WithinCap`) and `ArmIsNotLeftBehind`
(`LagIsBounded`), for any library that the registry accepts, any finite set of joints, any limits,
caps, tick, comfort, positive speed, guard and stop ramp, and from any pose. The argument has two halves:

- *A plan is gentle* (`PlanIsGentle`): its commands are near one another, and its first is the pose it
  was made from. A profile rises from 0 to 1 and in one of *n* ticks by at most its peak factor
  divided by *n* (`ShapeRises`; for the minimum-jerk quintic and the trapezoid with its two kinks
  this is the arithmetic), rounding costs 1 (`FloorStep`), and clipping draws no two poses
  apart. So a segment that passed the check by formula is sampled within the cap
  (`SegmentLeads`); an automatic duration is the longest of the joints' (`AutoIsSlow`), and the
  approach, the keyframes and the speed are put together from such segments.
- *A run stays gentle* (`PlayInv`): `RunGoes` says that the next command is near the last and the velocity
  within the cap; a stop only ever scales that velocity down (`SlowedIs`). `Behind` ties the distance of
  an arm that does not follow to the guard's count, and in a stop to `Run`, the sum of the ramp so
  far, which over the whole ramp is half of `StopTicks - 1` ticks of velocity.

The assumptions this needs are what the loader does: a file's numbers are numbers, its interpolation
is one of three, its keyframes are a non-empty list (`IsBehavior`); speeds are positive. Where
the argument is an induction (over keyframes, segments, a maximum over joints) it takes the least
counterexample (`WellOrdered`), because the provers cannot instantiate the library's induction
rules; `Waypoints` is a recursive function for the same reason.

**Proved, with no run of its own**: `PlanAboveFloor`, `OnePublisher`,
`FilterIsPolicyOnly`, and the type invariants of `DrtcClient`, `ControlLoop`, `Recording`,
`Publishing` and `Fleet`, which the invariants above contain.

**Only model-checked**: everything live (`NeverStalls`, `BacklogDrains`, `EveryRecorderEnds`,
`EveryUploadEnds`, `Converges`, `StoppedSessionsClose`, `SilenceStopsMotion`, `ChannelRecovers`,
`LatchFreesSlot`), which is out of the prover's reach. Every invariant and every safety property of a passing run
is proved.

## 5. Where the code and its comments disagree

With a run of their own:

- **A new session is served what an old one saw** (`WorldModel`, `SessionsDoNotMix`). The worker of
  a running forward writes the sidecar's socket while the event loop, opening a session,
  resets it: samples of the session before arrive behind the reset
  (`dreamzero_sidecar.py:267`), against `dreamzero_backend.py:239-247`.
- **Stale joints may drive** (`RobotsStale`, `StaleJointsAreNeverUsed`). The dimos adapter asks for
  the age of the newest joint state after it has copied the joints; a state that arrives in between
  vouches for the old ones (`adapters/dimos/robot.py:321`), against `robot.py:303-305`.

Stated in a module, without a run; adding the property to the run's cfg, with the constant
named, shows the counterexample:

| Property | Run | What happens |
|---|---|---|
| `NoPlanFromBeforeBarrier` | `DrtcClient` | `sender.py:92` stamps at dispatch: an observation captured before a takeover and dispatched after the barrier's `clock.tick()` is above the floor, against `movement.py:504-507`. The chunk is anchored at the present cursor, so `PolicyPlansAfterTakeover`, which speaks of stamps, holds; what fails is the claim about *observations* |
| `SyncNeverOverwritesTail` | `DrtcClient` | the depth is read before the in-flight event; a chunk that lands between them opens the gate on a full schedule and the answer overwrites its tail, against `controller.py:870-872` |
| `EstopStopsEveryRobot` | `ControlLoop`, `Setups <- MCNoProfileSetups` | `observe_estop` latches only an existing `SafetyGate`; a robot kind without a profile has none, against `movement.py:348` |
| `EveryAckedTickIsKept` | `RecordingReconnect` | the reopened session counts from 0, the inherited recorder remembers the steps of the first one, and colliding new ticks are acknowledged and gone, against `transport.py:592-596` (`recorder.py:306-313` knows) |
| `CapturedIsNeverDropped` | `RecordingReconnect`, `ForcedClose = TRUE` | `record_tick()` does not look at `_closed`; a tick journaled between the count and the deletion of the journal goes with it, against `controller.py:476-479` |
| `NeverDropsData` | `Shipping`, `MaxJobs = 3`, `SharedName = TRUE` | two rejected datasets of one episode share a sibling, the second removes the first (`sinks.py:122-124`), against "Never drops data" (`sinks.py:97`) |
| `SlowSessionsPlaySlowly` | `Shipping` | `finalize` compares no measured rate below 1 (`lerobot_live.py:210`), so a live dataset of a session slower than one frame a second keeps the declared rate, where the rebuild takes 1, against "Measured fps wins" (`recorder.py:607`) |
| `DownLeavesNoLoop` | `Fleet` | `down --force` exits after a grace whether or not the loops are torn down, against `supervisor.py:8-12` and `docs/coordinator-protocol.md:160-161` |
| `SessionSurvivesAbsence` | `Fleet` | a box's verdict on a key expires while the coordinator is away, and the session is refused, against `docs/coordinator-protocol.md:152-155` |
| `StopLeavesNoChild` | `Teleop` | the supervisor passed its check of the stop flag before `stop()` read `_proc`; the child it spawns is overwritten by `_proc = None` (`quic_channel.py:411-418`) |
| `ChannelRecovers` | `Teleop`, `RelayMayDrop = TRUE` | the relay drops a living child's connection; the child waits for datagrams for ever and stays "connected", against `_quic_proc.py:22-25` |
| `NoTrailCrosses` | `Serving` | a client asks, is replaced, and its successor's `OpenSession` resets the backend while the request still waits for the worker: its forward stores its chunk after the reset, and the new session's first chunk is blended with it. Two live sessions do the same to each other at every forward. Against "every trail that must not cross a session boundary" (`lerobot_backend.py:821-825`) |
| `StackIsOurs` | `Robots` | in probe mode any task that goes active counts as the servo, so a stack whose one task is no servo is accepted when somebody starts that task within the window (`verify.py:258-268`), against "an end-to-end proof that a servo task consumes the stream" (`verify.py:25-26`). By the claims, two servos with identical claims pass, against "no other configured task may claim any of them" (`verify.py:19-20`) |
| `BarrierIsFinal` | `Serving` | the backend cross-fades the first chunk after a barrier with the one the barrier dropped (`lerobot_backend.py:1300`, `chunk_seam.py:83`), against `movement.py:504-507` |

Seen while modelling, with no property of their own:

- *Bus.* After a failed `robot.estop()` "retry next tick" (`movement.py:376`) waits for another e-stop
  hit.
- *Publishing.* A crash between the two moves of the swap leaves the accumulated dataset in a
  hidden backup nobody restores (`sinks.py:145-147`); `AccumulatedIsKept` excepts it by name.
- *Dataset.* The frame rate is said to be pinned (`sinks.py:50-54`), but `upload()` rebuilds at the
  rounded measured rate, so episodes of uneven pace become siblings. A corrupt JPEG ends the live lane
  and then makes the rebuild raise (`lerobot_live.py:11-16` promises the fallback). The rebuild's
  schema counts cameras of refused ticks. Spools of a box that died are never resumed.
- *Control plane.* Renaming a box while it is assigned lets two sessions onto it (`state.py:520-522`
  says the box prevents it). A recording can be assigned to a node that was removed. An `OpenSession`
  that raises after it opened leaks the session until the collection. A start that failed is retried at once, in a
  tight loop, where `daemon.py:454-456` says it waits for a change. A removed node goes on driving
  until the box's verdict expires, one with the operator's key for ever. A loop refused after the
  idle collection never reopens its session (`transport.py:124-130`), and a loop that died is
  not restarted.
- *Teleop.* The queued hello of a dead child pins its address again. The close frame has number 0 and
  is dropped as a duplicate unless the last number exceeds 1000; if it is accepted, a superseded page's
  close disengages its successor. A superseded page keeps driving (`relay_core.py` documents a close
  4000). A reloaded page is ignored until its numbers pass the old ones, within the first
  1000 frames. An e-stop from an address that is not pinned is dropped.
- *Serving.* `_infer_one` appends to the buffer of a closed session, which nobody collects. The idle
  collection may take a session whose forward is in flight. `_rtc_ok = False` is never undone. A cache hit
  ignores the metadata of the session.
- *World model.* Requests and replies are matched by order alone. `ContextRing.reset` and
  `last_seen_seq` are never called. A context request that failed half-way encodes its samples twice.
- *Robots.* `connect()` of YAM and Axol stands before the loop's `try`/`finally`: what it opened
  before it failed stays open. On Axol there is no staleness check, and a send that timed out may still
  run. A failed send in a tick ends a Nori's episode although a drop between ticks is ridden out
  (`adapters/nori/robot.py:248-250`, `client.py:5-7`); after a reconnect the cached status is the
  one from before; `close()` joins for 2 s while a handshake may take 10 s, so the slot is freed only
  when the client is collected.
- *Behaviors.* Nothing refuses a second run while one plays. The lock's check and write are two
  operations. A second `Robot` of the same process is not refused, and its `close()` removes the
  first one's lock (`arbitration.py:10-11`). A send that stalled is followed by a burst, since the
  schedule is absolute.

## 6. What is not modelled

Numeric code (filter and clamp arithmetic, inverse kinematics, image codecs, resampling, the
policy), encoding, logging, telemetry and statistics, dataset file formats, HTTP routing. Of the
components:

- **Browser teleop client**: retargeting, rendering and inverse kinematics are numeric; its
  frames are the inputs of `Teleop` and `ControlLoop`. **Command-line tools**: argument parsing and
  one-shot calls; the calls are `Fleet`'s commands.
- **Bus and client**: the wall-clock pacing of the loop (a tick has no duration; staleness and
  silence are events that may happen at any time), calibration frames, profiling, features.
- **Recording**: a restart of the box while it records; the S3 mirror and its upload; the
  blocking enqueue, which no caller turns on; the fallback to one call per tick; pacing and
  back-off times; unreadable journal files and the removal of old journals. The model is wider than
  the code in three places, which only adds behaviours: the writer takes items in any order, a
  `CloseSession` may arrive at any later time, and a session may be collected even while its node
  sends (its calls may be slow). A journal write is atomic (`os.replace`), as is each move of
  a directory; a restore that raises too is left out.
- **Dataset**: `live_encode` is a choice at the start (an external recorder sets it); pixels and
  vectors are the step they belong to.
- **Serving**: `chunk_buffer.py` and `schedule.py`. The spans a request carries list what is still to
  be executed, the reconstruction asks for what was executed before them, so the prefix it finds is
  `None` in practically every call (`schedule.py:28-33` says so) and nothing depends on it. The
  MolmoAct2 backend is the LeRobot one with another pre-processing. Core pinning and process signals.
- **World model**: reads torn between the two threads, the sidecar's process life.
- **Control plane**: environments, the tokens of teleop sessions, hardware reports, heartbeats' contents,
  pid files and logs. Status reports are sent and forgotten.
- **Teleop**: previews, the spec handshake, telemetry, the governor of streams, tokens. Control
  messages are not lost on the loopback socket, since they are rare; targets are. The check at
  the top of the supervisor's loop and the read after it are one step.
- **Robots**: grippers (exempt from the clamp), homing ramps, cameras and partial frames of the Nori,
  `LeRobotAdapter`, which passes actions through. The adapter's memory of the last command advances even
  when a send is lost, which `CommandsAreClamped` counts. Of a dimos stack at most two tasks are
  configured, and a third joint stands for all that the kind does not declare.
- **Behaviors**: procedural behaviors, wait handles, pacing, the operating system's lock of the
  serial port. Durations are integers; `WithinCap` allows the rounding of 1 this costs.

## 7. Plan

What could follow, in this order: the S3 mirror and the environments of the coordinator; previews and
the spec handshake of the teleop channel with their own back-off; `LatchFreesSlot` on an instance
with longer windows; a proof of `SuccessorIsServed` at the level of the pages themselves (who
drives, not who is paired); the safety half of the live properties (what a session, an upload or a latch
that has not finished is waiting for) as inductive invariants.
