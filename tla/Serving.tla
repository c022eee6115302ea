------------------------------- MODULE Serving -------------------------------
(***************************************************************************)
(* The nodes' inference clients and the GPU box that serves them.  A       *)
(* client asks for a chunk while it executes the last one, gives up on a   *)
(* slow answer, drops its plan behind a barrier, reconnects under its      *)
(* episode, or goes away; box and client meet in the seam between two      *)
(* chunks.                                                                 *)
(***************************************************************************)
EXTENDS PolicyServer

CONSTANTS
    Delays,     \* the latency a request announces, in steps
    MaxStep,    \* bound: the episode ends before the cursor passes it
    MaxClock,   \* bound: requests and barriers
    MaxFaults   \* bound: answers given up and RTC failures

ASSUME ServingAssumption ==
    /\ Delays \subseteq Nat
    /\ MaxStep \in Nat
    /\ MaxClock \in Nat
    /\ MaxFaults \in Nat

VARIABLES
    session,  \* each client's session, 0 while it has none
    sched,    \* each client's ActionSchedule
    waiting,  \* the request each client's sender waits for, 0 for none
    merged,   \* the request whose chunk the client merged last, 0 for none
    vectors,  \* history: the vectors of the chunks merged, by request
    clock,    \* the last timestamp taken (the clients' clocks are ordered as one)
    faults    \* faults so far

clientVars == <<session, sched, waiting, merged, vectors, clock>>
vars == <<serverVars, clientVars, faults>>

Init ==
    /\ ServerInit
    /\ session = [n \in Nodes |-> 0]
    /\ sched = [n \in Nodes |-> EmptySchedule]
    /\ waiting = [n \in Nodes |-> 0]
    /\ merged = [n \in Nodes |-> 0]
    /\ vectors = <<>>
    /\ clock = 0
    /\ faults = 0

\* The vector node n's plan has for step k.
Planned(n, k) ==
    LET c == vectors[sched[n].data[k]] IN c.list[k - c.start + 1]

-----------------------------------------------------------------------------
\* A client is built (its predecessor is gone without a word) and opens its
\* session; it runs once the RPC has returned.
Connects(n) ==
    /\ BeginOpen(n)
    /\ session' = [session EXCEPT ![n] = 0]
    /\ sched' = [sched EXCEPT ![n] = EmptySchedule]
    /\ waiting' = [waiting EXCEPT ![n] = 0]
    /\ merged' = [merged EXCEPT ![n] = 0]
    /\ UNCHANGED <<vectors, clock, faults>>

Opened ==
    /\ Registers
    /\ session' = [session EXCEPT ![opener[opens]] = opens]
    /\ UNCHANGED <<sched, waiting, merged, vectors, clock, faults>>

OpenStep ==
    /\ Load \/ LoadFails \/ Resets
    /\ UNCHANGED <<clientVars, faults>>

Leaves(n) ==
    /\ session[n] # 0
    /\ CloseSession(session[n])
    /\ session' = [session EXCEPT ![n] = 0]
    /\ waiting' = [waiting EXCEPT ![n] = 0]
    /\ UNCHANGED <<sched, merged, vectors, clock, faults>>

Collected(s) ==
    /\ IdleGc(s)
    /\ UNCHANGED <<clientVars, faults>>

-----------------------------------------------------------------------------
\* ObservationSender._dispatch: anchored at the cursor, stamped now.
Asks(n, d) ==
    /\ session[n] # 0
    /\ waiting[n] = 0
    /\ clock < MaxClock
    /\ clock' = clock + 1
    /\ AcceptInfer([id |-> clock + 1, session |-> session[n],
                    start |-> sched[n].cursor, delay |-> d])
    /\ waiting' = [waiting EXCEPT ![n] = clock + 1]
    /\ UNCHANGED <<session, sched, merged, vectors, faults>>

Serves ==
    /\ BeginsForward \/ Computes \/ Answers
    /\ UNCHANGED <<clientVars, faults>>

Degrades ==
    /\ faults < MaxFaults
    /\ faults' = faults + 1
    /\ RtcFails
    /\ UNCHANGED clientVars

\* ActionReceiver.on_chunk.
Merges(n, a) ==
    /\ waiting[n] = a.req.id
    /\ sched' = [sched EXCEPT ![n] = Merge(@, [ts |-> a.req.id, start |-> a.req.start,
                                                len |-> ChunkSize])]
    /\ vectors' = [id \in DOMAIN vectors \cup {a.req.id} |->
                     IF id = a.req.id THEN [start |-> a.req.start, list |-> a.vectors]
                                      ELSE vectors[id]]
    /\ merged' = [merged EXCEPT ![n] = a.req.id]
    /\ waiting' = [waiting EXCEPT ![n] = 0]
    /\ answers' = answers \ {a}
    /\ UNCHANGED <<loaded, rtcOk, trailVars, sessionVars, queue, forward, session, clock, faults>>

\* The Infer call fails or times out; its answer, if any, comes to nobody.
GivesUp(n) ==
    /\ faults < MaxFaults
    /\ faults' = faults + 1
    /\ waiting[n] # 0
    /\ waiting' = [waiting EXCEPT ![n] = 0]
    /\ UNCHANGED <<serverVars, session, sched, merged, vectors, clock>>

Unheard(a) ==
    /\ \A n \in Nodes : waiting[n] # a.req.id
    /\ answers' = answers \ {a}
    /\ UNCHANGED <<loaded, rtcOk, trailVars, sessionVars, queue, forward, clientVars, faults>>

\* The control loop executes the action at the cursor.
Executes(n) ==
    /\ CanPop(sched[n])
    /\ sched[n].cursor < MaxStep
    /\ sched' = [sched EXCEPT ![n] = PopNext(@)]
    /\ UNCHANGED <<serverVars, session, waiting, merged, vectors, clock, faults>>

\* A takeover or an e-stop: the plan goes, and with it what was asked for before.
Barrier(n) ==
    /\ clock < MaxClock
    /\ clock' = clock + 1
    /\ Scheduled(sched[n]) # {}
    /\ sched' = [sched EXCEPT ![n] = FlushBarrier(@, clock + 1)]
    /\ UNCHANGED <<serverVars, session, waiting, merged, vectors, faults>>

-----------------------------------------------------------------------------
Next ==
    \/ \E n \in Nodes : \/ Connects(n) \/ Leaves(n) \/ GivesUp(n) \/ Executes(n) \/ Barrier(n)
                        \/ \E d \in Delays : Asks(n, d)
                        \/ \E a \in answers : Merges(n, a)
    \/ \E s \in live : Collected(s)
    \/ \E a \in answers : Unheard(a)
    \/ Opened \/ OpenStep \/ Serves \/ Degrades

Spec == Init /\ [][Next]_vars

-----------------------------------------------------------------------------
(***************************************************************************)
(* Properties.                                                             *)
(***************************************************************************)

\* A forward of a session that has had the worker to itself since it began to
\* open takes up no other session's chunk, as RTC's left-over or for the
\* cross-fade: whatever the process-wide backend kept of the sessions before is
\* gone by then (lerobot_backend.py, reset_session_state()).
TrailStaysInSession ==
    forward # Nothing /\ forward.prev # Nothing =>
        \/ forward.prev.session = forward.req.session
        \/ forward.req.session \in overlapped

\* What reset_session_state() says, "every trail that must not cross a session
\* boundary", of every session: no forward continues the chunk of another.  A
\* forward under way at the reset, or the request of a second live session,
\* stores its trail after it; the README shows the run.
NoTrailCrosses ==
    /\ forward # Nothing /\ forward.prev # Nothing
    /\ forward.at = "predict" \/ Blends(forward.req, forward.prev, trailStart)
    => forward.prev.session = forward.req.session

\* The cross-fade's promise (chunk_seam.py, "C0-continuous with what the robot
\* is executing"): when a chunk made against the one merged last arrives within
\* the delay its request announced, the action the robot is about to execute
\* does not change, in a session that is the box's newest.
SeamIsContinuous ==
    [][ \A n \in Nodes : \A a \in answers :
          /\ waiting[n] = a.req.id /\ merged'[n] = a.req.id
          /\ a.base # 0 /\ a.base = merged[n]
          /\ session[n] = opens
          /\ CanPop(sched[n])
          /\ sched[n].cursor - a.req.start <= a.req.delay
          => Planned(n, sched[n].cursor)' = Planned(n, sched[n].cursor) ]_vars

\* A barrier cancels what was predicted before it (movement.py,
\* _drive_intervention: "can never install actions once the human has control").
BarrierIsFinal ==
    \A n \in Nodes : \A k \in Scheduled(sched[n]) : Planned(n, k).by > sched[n].floor
=============================================================================
