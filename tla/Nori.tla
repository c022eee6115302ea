-------------------------------- MODULE Nori --------------------------------
(***************************************************************************)
(* One episode on a Nori robot: the control loop's ticks as the adapter    *)
(* sees them (node/looprunner.py, adapters/nori/robot.py), its pre-tick    *)
(* guard, the e-stop forwarded to the daemon (node/movement.py), and the   *)
(* close of the session, over NoriSession.  Who drives the robot and what  *)
(* is recorded is in ControlLoop.                                          *)
(***************************************************************************)
EXTENDS NoriSession

CONSTANTS
    StartupRecovery,  \* _STARTUP_RECOVERY_S
    MaxPresses        \* bound: the operator's e-stops

ASSUME NoriAssumption ==
    /\ StartupRecovery \in Nat \ {0}
    /\ MaxPresses \in Nat

VARIABLES
    loop,      \* the control-loop thread: its place in the tick, then in close()
    guardAge,  \* the age of _guard_t0, 0 for None
    healthy,   \* _guard_was_healthy
    sticky,    \* an e-stop waits for the loop
    presses,   \* the operator's e-stops so far
    gate,      \* the SafetyGate's latch
    forwarded, \* CommandBus._estop_forwarded
    idle       \* history: the age of the loop thread's last step

loopVars == <<loop, guardAge, healthy, sticky, presses, gate, forwarded, idle>>
vars == <<sessionVars, loopVars>>

\* A silent loop is noticed after its window; a frame the pump decided on goes
\* out within the next period; then the daemon waits for t_stop.
Deadline == Window + 1 + Stop

Init ==
    /\ SessionInit
    /\ loop = "observe"
    /\ guardAge = 0 /\ healthy = FALSE
    /\ sticky = FALSE /\ presses = 0 /\ gate = FALSE /\ forwarded = FALSE
    /\ idle = 0

LoopStep(where) == loop' = where /\ idle' = 0

-----------------------------------------------------------------------------
(***************************************************************************)
(* The tick.                                                               *)
(***************************************************************************)

\* pre_tick(), rung by rung.
Stopped == status = "safe_hold"
Latched == status = "latched"
Fresh == connected /\ stateAge <= Stale

\* Mutant: a daemon latch only holds, as a safe-stop at the start does.
HoldsOnLatch == Stopped /\ healthy

Boundary == Latched \/ (Stopped /\ healthy)

Verdict ==
    IF \/ dead
       \/ Boundary
       \/ Stopped /\ guardAge > StartupRecovery
    THEN "close"
    ELSE IF Stopped \/ ~Fresh THEN "observe" ELSE "drive"

\* get_observation(), the proof of life, and the guard.
Observes ==
    /\ loop = "observe"
    /\ alive' = 0
    /\ guardAge' = IF guardAge = 0 THEN 1 ELSE guardAge
    /\ healthy' = (healthy \/ (~dead /\ status = "ok"))
    /\ LoopStep(Verdict)
    /\ UNCHANGED <<sock, connected, stopping, dead, downFor, sent, stateAge, status,
                   reader, pump, daemonVars, dialled, faults,
                   sticky, presses, gate, forwarded>>

\* observe_estop(): the sticky flag is consumed, the gate latched, and the
\* daemon's latch tripped once.  A forward that fails is only logged.  Behind a
\* latched gate the tick moves nothing.
Forwards ==
    /\ loop = "drive"
    /\ sticky
    /\ sticky' = FALSE
    /\ gate' = TRUE
    /\ \/ /\ forwarded \/ ~CanSend
          /\ UNCHANGED <<forwarded, sessionVars>>
       \/ /\ ~forwarded /\ CanSend
          /\ EstopFrame(sock)
          /\ forwarded' = TRUE
          /\ UNCHANGED <<reader, pump, dialled>>
       \/ /\ ~forwarded /\ CanSend
          /\ WriteFails(sock)
          /\ UNCHANGED <<forwarded, reader, pump, dialled>>
    /\ LoopStep("observe")
    /\ UNCHANGED <<guardAge, healthy, presses>>

\* The tick commands nothing: no chunk yet, a hold, or the gate is latched.
HoldsStill ==
    /\ loop = "drive"
    /\ ~sticky
    /\ LoopStep("observe")
    /\ UNCHANGED <<sessionVars, guardAge, healthy, sticky, presses, gate, forwarded>>

\* send_action().
Moves ==
    /\ loop = "drive"
    /\ ~sticky /\ ~gate
    /\ CanSend
    /\ ControlFrame(sock)
    /\ LoopStep("observe")
    /\ UNCHANGED <<reader, pump, dialled, guardAge, healthy, sticky, presses, gate, forwarded>>

\* A send that fails raises through the whole loop.
MoveRaises ==
    /\ loop = "drive"
    /\ ~sticky /\ ~gate
    /\ \/ ~CanSend /\ UNCHANGED sessionVars
       \/ CanSend /\ WriteFails(sock) /\ UNCHANGED <<reader, pump, dialled>>
    /\ LoopStep("close")
    /\ UNCHANGED <<guardAge, healthy, sticky, presses, gate, forwarded>>

\* should_stop(): the assignment is over.
StopsAsked ==
    /\ loop = "observe"
    /\ LoopStep("close")
    /\ UNCHANGED <<sessionVars, guardAge, healthy, sticky, presses, gate, forwarded>>

Press ==
    /\ loop # "ended"
    /\ presses < MaxPresses
    /\ presses' = presses + 1
    /\ sticky' = TRUE
    /\ UNCHANGED <<sessionVars, loop, guardAge, healthy, gate, forwarded, idle>>

\* A human at the robot trips the daemon's latch.
TripsOnSite ==
    /\ presses < MaxPresses
    /\ presses' = presses + 1
    /\ up /\ safety' = "latched"
    /\ UNCHANGED <<clientVars, reader, pump, up, serving, fed, dialled, faults,
                   loop, guardAge, healthy, sticky, gate, forwarded, idle>>

-----------------------------------------------------------------------------
(***************************************************************************)
(* disconnect() and close().                                               *)
(***************************************************************************)

\* The flag, then the farewell, on which the daemon lets the client go.
Closes ==
    /\ loop = "close"
    /\ stopping' = TRUE
    /\ serving' = IF CanSend /\ Reaches(sock) THEN 0 ELSE serving
    /\ LoopStep("join")
    /\ UNCHANGED <<sock, connected, dead, downFor, alive, sent, stateAge, status,
                   reader, pump, up, safety, fed, dialled, faults,
                   guardAge, healthy, sticky, presses, gate, forwarded>>

\* The threads are joined for two seconds each: only a handshake lasts longer.
JoinsThreads ==
    /\ loop = "join"
    /\ pump.at = "gone"
    /\ reader.at \in {"gone", "shake"}
    /\ sock' = Torn(sock)
    /\ connected' = FALSE
    /\ LoopStep("ended")
    /\ UNCHANGED <<stopping, dead, downFor, alive, sent, stateAge, status,
                   reader, pump, daemonVars, dialled, faults,
                   guardAge, healthy, sticky, presses, gate, forwarded>>

\* A session the reader published after close() is garbage once the reader is
\* gone, and the interpreter closes its socket.
Collected ==
    /\ loop = "ended" /\ reader.at = "gone" /\ pump.at = "gone"
    /\ sock # 0
    /\ sock' = 0
    /\ UNCHANGED <<connected, stopping, dead, downFor, alive, sent, stateAge, status,
                   reader, pump, daemonVars, dialled, faults, loopVars>>

LoopSteps ==
    \/ Observes \/ Forwards \/ HoldsStill \/ Moves \/ MoveRaises
    \/ Closes \/ JoinsThreads

\* A period passes; a loop may sit anywhere through any number of them.
Tick ==
    /\ Ages
    /\ guardAge' = IF guardAge = 0 THEN 0 ELSE Older(guardAge, StartupRecovery)
    /\ idle' = Older(idle, Deadline)
    /\ UNCHANGED <<loop, healthy, sticky, presses, gate, forwarded>>

SessionSteps == (Pumps \/ ReaderSteps \/ DaemonSteps) /\ UNCHANGED loopVars

Next == LoopSteps \/ StopsAsked \/ Press \/ TripsOnSite \/ Collected \/ SessionSteps \/ Tick

Spec == Init /\ [][Next]_vars

\* Fairness: threads run, time passes, a running daemon reports its status and
\* takes the next client.
FairSpec ==
    /\ Spec
    /\ WF_vars(LoopSteps)
    /\ WF_vars(Collected)
    /\ WF_vars(Pumps /\ UNCHANGED loopVars)
    /\ WF_vars(ReaderSteps /\ UNCHANGED loopVars)
    /\ WF_vars(Telemetry(TRUE) /\ UNCHANGED loopVars)
    /\ WF_vars(ServesNext /\ UNCHANGED loopVars)
    /\ WF_vars(Tick)

-----------------------------------------------------------------------------
(***************************************************************************)
(* Properties.                                                             *)
(***************************************************************************)

\* The keep-alive never outlives the brain: once the loop has been silent for
\* the pump's window, one period and t_stop, the daemon has stopped the robot,
\* whatever the threads did meanwhile (ADR 0015).
DeadBrainStops == idle > Deadline => safety # "ok"

\* A latched daemon gets its slot back for the human's reset: the episode ends
\* and no connection stays, through reconnects, failed sends and a close that
\* races the handshake (robot.py, "freeing the daemon's single control-client
\* slot").
LatchFreesSlot == (safety = "latched") ~> (loop = "ended" /\ sock = 0)
=============================================================================
