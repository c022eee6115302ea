---------------------------- MODULE NoriSession ----------------------------
(***************************************************************************)
(* The session of the Nori adapter with the robot's own daemon             *)
(* (adapters/nori/client.py).  The daemon serves one client at a time and  *)
(* has no heartbeat message: the control frames are its watchdog's feed,   *)
(* and silence safe-stops the robot.  Two threads keep the session: the    *)
(* reader, which receives telemetry and reconnects when the link drops,    *)
(* and the pump, which feeds the watchdog only while the control loop      *)
(* proves that it is alive.                                                *)
(*                                                                         *)
(* Time is counted in pump periods.  A connection is a number, counted     *)
(* from 1; 0 is none.  The daemon is not part of the repository: it is     *)
(* modelled from how the adapter uses it.                                  *)
(***************************************************************************)
EXTENDS Naturals

CONSTANTS
    Window,           \* _liveness_window_s
    Stop,             \* the daemon's t_stop: silence that safe-stops the robot
    Stale,            \* staleness_ms
    ReconnectWindow,  \* reconnect_window_s
    MaxConns,         \* bound: connections dialled
    MaxFaults,        \* bound: broken links, daemon restarts, failed sends
    Rival             \* another client of the daemon

ASSUME SessionAssumption ==
    /\ Window \in Nat \ {0}
    /\ Stop \in Nat
    /\ Stale \in Nat
    /\ ReconnectWindow \in Nat \ {0}
    /\ MaxConns \in Nat \ {0}
    /\ MaxFaults \in Nat
    /\ Rival \notin Nat

VARIABLES
    sock,       \* _sock: the connection published to the senders
    connected,  \* _connected
    stopping,   \* _stop
    dead,       \* _session_dead
    downFor,    \* the age of _disconnected_at, 0 for None
    reader,     \* the reader thread: where it is, and the connection it dials
    pump,       \* the pump thread: where it is, and the connection it took
    alive,      \* the age of _last_liveness
    sent,       \* a control frame went out in this period (_last_sent_at)
    stateAge,   \* the age of the newest telemetry (_state_at)
    status,     \* the last status block received
    up,         \* the daemon runs
    serving,    \* the daemon's one client
    safety,     \* the daemon's safety state
    fed,        \* the age of the last control frame it received
    dialled,    \* connections so far
    faults      \* faults so far

clientVars == <<sock, connected, stopping, dead, downFor, alive, sent, stateAge, status>>
daemonVars == <<up, serving, safety, fed>>
sessionVars == <<clientVars, reader, pump, daemonVars, dialled, faults>>

\* An age counts up to one past the limit it is compared with.
Older(age, limit) == IF age > limit THEN age ELSE age + 1

\* connect() has returned: one handshake, two threads.  The cameras warm up
\* after it, so the loop has not proved anything yet.
SessionInit ==
    /\ sock = 1 /\ connected = TRUE
    /\ stopping = FALSE /\ dead = FALSE
    /\ downFor = 0
    /\ reader = [at |-> "read", conn |-> 0]
    /\ pump = [at |-> "wait", conn |-> 0]
    /\ alive = Window + 1 /\ sent = FALSE
    /\ stateAge = 0 /\ status = "none"
    /\ up = TRUE /\ serving = 1 /\ safety = "safe_hold" /\ fed = Stop + 1
    /\ dialled = 1
    /\ faults = 0

\* A frame written to connection c reaches the daemon.
Reaches(c) == c # 0 /\ serving = c

-----------------------------------------------------------------------------
(***************************************************************************)
(* Losing the link.                                                        *)
(***************************************************************************)

\* What _teardown_socket() leaves of the published connection.
Torn(c) == 0

\* _mark_disconnected().
Disconnects ==
    /\ connected' = FALSE
    /\ downFor' = IF downFor = 0 THEN 1 ELSE downFor
    /\ sock' = Torn(sock)

\* _mark_dead().
Dies ==
    /\ dead' = TRUE
    /\ connected' = FALSE

-----------------------------------------------------------------------------
(***************************************************************************)
(* Sending (_send_frame).  A write to a dead link may still succeed, its   *)
(* bytes lost; a write to a live one may time out.                         *)
(***************************************************************************)
CanSend == sock # 0 /\ connected

\* The write fails: connection c is gone, or the daemon does not read.
WriteFails(c) ==
    /\ c = sock /\ Reaches(c) => faults < MaxFaults
    /\ faults' = IF c = sock /\ Reaches(c) THEN faults + 1 ELSE faults
    /\ Disconnects
    /\ UNCHANGED <<stopping, dead, alive, sent, stateAge, status, daemonVars>>

\* A control frame on connection c feeds the watchdog and revives a daemon
\* that had stopped for silence.
ControlFrame(c) ==
    /\ fed' = IF Reaches(c) THEN 0 ELSE fed
    /\ safety' = IF Reaches(c) /\ safety = "safe_hold" THEN "ok" ELSE safety
    /\ sent' = TRUE
    /\ UNCHANGED <<sock, connected, stopping, dead, downFor, alive, stateAge, status,
                   up, serving, faults>>

\* The e-stop command trips the daemon's latch, whatever it was doing.
EstopFrame(c) ==
    /\ safety' = IF Reaches(c) THEN "latched" ELSE safety
    /\ UNCHANGED <<clientVars, up, serving, fed, faults>>

-----------------------------------------------------------------------------
(***************************************************************************)
(* The keep-alive pump (_pump_run): it wakes once a period.                *)
(***************************************************************************)

\* The loop has proved that it is alive.
\* Mutant: the pump runs for as long as the session does.
Always == TRUE

LoopIsAlive == alive <= Window

PumpSkips ==
    /\ pump.at = "wait"
    /\ ~stopping
    /\ ~connected \/ ~LoopIsAlive \/ sent
    /\ pump' = [at |-> "done", conn |-> 0]
    /\ UNCHANGED <<clientVars, reader, daemonVars, dialled, faults>>

\* It decides to send, and takes the connection; the frame goes out when the
\* send lock is free.
PumpWakes ==
    /\ pump.at = "wait"
    /\ ~stopping
    /\ connected /\ LoopIsAlive /\ ~sent
    /\ pump' = IF CanSend THEN [at |-> "send", conn |-> sock] ELSE [at |-> "done", conn |-> 0]
    /\ UNCHANGED <<clientVars, reader, daemonVars, dialled, faults>>

\* A connection torn down meanwhile is a closed socket; the failure is booked
\* on whatever is connected now.
PumpSends ==
    /\ pump.at \in {"send", "late"}
    /\ \/ pump.conn = sock /\ ControlFrame(pump.conn)
       \/ WriteFails(pump.conn)
    /\ pump' = [at |-> "done", conn |-> 0]
    /\ UNCHANGED <<reader, dialled>>

PumpExits ==
    /\ stopping
    /\ pump.at \in {"wait", "done"}
    /\ pump' = [at |-> "gone", conn |-> 0]
    /\ UNCHANGED <<clientVars, reader, daemonVars, dialled, faults>>

Pumps == PumpSkips \/ PumpWakes \/ PumpSends \/ PumpExits

-----------------------------------------------------------------------------
(***************************************************************************)
(* The reader (_reader_run, _handle_frame, _try_reconnect).                *)
(***************************************************************************)
ReaderGoes(where, c) == reader' = [at |-> where, conn |-> c]

Reads == reader.at = "read" /\ ~stopping /\ sock # 0 /\ connected

\* A telemetry frame, with or without the daemon's periodic status block.
Telemetry(withStatus) ==
    /\ Reads
    /\ Reaches(sock)
    /\ stateAge' = 0
    /\ status' = IF withStatus THEN safety ELSE status
    /\ UNCHANGED <<sock, connected, stopping, dead, downFor, alive, sent,
                   reader, pump, daemonVars, dialled, faults>>

\* A fatal error frame ends the session; the socket stays open until close().
FatalError ==
    /\ Reads
    /\ Reaches(sock)
    /\ faults < MaxFaults
    /\ faults' = faults + 1
    /\ Dies
    /\ UNCHANGED <<sock, stopping, downFor, alive, sent, stateAge, status,
                   reader, pump, daemonVars, dialled>>

\* End of file, or an error on the socket.
LinkLost ==
    /\ Reads
    /\ ~Reaches(sock)
    /\ Disconnects
    /\ UNCHANGED <<stopping, dead, alive, sent, stateAge, status,
                   reader, pump, daemonVars, dialled, faults>>

\* close() has been called: the reader ends wherever it may.
NoticesStop == stopping /\ reader.at \in {"read", "backoff"}

ReaderExits ==
    /\ NoticesStop
    /\ ReaderGoes("gone", 0)
    /\ UNCHANGED <<clientVars, pump, daemonVars, dialled, faults>>

BeginsReconnect ==
    /\ reader.at = "read"
    /\ ~stopping
    /\ sock = 0 \/ ~connected
    /\ ReaderGoes(IF dead THEN "gone" ELSE "backoff", 0)
    /\ UNCHANGED <<clientVars, pump, daemonVars, dialled, faults>>

\* The link has been down for longer than the window.
WindowIsOver ==
    /\ reader.at = "backoff"
    /\ downFor > ReconnectWindow
    /\ Dies
    /\ ReaderGoes("gone", 0)
    /\ UNCHANGED <<sock, stopping, downFor, alive, sent, stateAge, status,
                   pump, daemonVars, dialled, faults>>

\* A dial that is refused leaves the reader in its back-off.
Dials ==
    /\ reader.at = "backoff"
    /\ downFor <= ReconnectWindow
    /\ up
    /\ dialled < MaxConns
    /\ dialled' = dialled + 1
    /\ ReaderGoes("shake", dialled + 1)
    /\ UNCHANGED <<clientVars, pump, daemonVars, faults>>

\* The daemon acknowledges and the descriptor matches: the session is
\* published, even if close() has been called since.
Acknowledged ==
    /\ reader.at = "shake"
    /\ Reaches(reader.conn)
    /\ sock' = reader.conn
    /\ connected' = TRUE
    /\ downFor' = 0
    /\ stateAge' = 0
    /\ ReaderGoes("read", 0)
    /\ UNCHANGED <<stopping, dead, alive, sent, status, pump, daemonVars, dialled, faults>>

\* A refusal, a mismatch, an end of file before the answer, or no answer within
\* connect_timeout_s, as when another client holds the slot: all of them are
\* final.
Rejected ==
    /\ reader.at = "shake"
    /\ Reaches(reader.conn) => faults < MaxFaults
    /\ faults' = IF Reaches(reader.conn) THEN faults + 1 ELSE faults
    /\ Dies
    /\ ReaderGoes("gone", 0)
    /\ UNCHANGED <<sock, stopping, downFor, alive, sent, stateAge, status,
                   pump, daemonVars, dialled>>

\* The dialled connection is reset: the back-off goes on.
Reset ==
    /\ reader.at = "shake"
    /\ ~up
    /\ ReaderGoes("backoff", 0)
    /\ UNCHANGED <<clientVars, pump, daemonVars, dialled, faults>>

ReaderSteps ==
    \/ \E withStatus \in BOOLEAN : Telemetry(withStatus)
    \/ FatalError \/ LinkLost \/ ReaderExits \/ BeginsReconnect
    \/ WindowIsOver \/ Dials \/ Acknowledged \/ Rejected \/ Reset

-----------------------------------------------------------------------------
(***************************************************************************)
(* The daemon, and the passing of time.                                    *)
(***************************************************************************)

\* The node's end of connection c is open.
Open(c) == c # 0 /\ c \in {sock, reader.conn}

\* The client in the slot has gone, or the slot is free: whoever waits is next.
ServesNext ==
    /\ up
    /\ serving # Rival /\ ~Open(serving)
    /\ Open(reader.conn)
    /\ serving' = reader.conn
    /\ UNCHANGED <<clientVars, reader, pump, up, safety, fed, dialled, faults>>

RivalConnects ==
    /\ up
    /\ serving # Rival /\ ~Open(serving)
    /\ serving' = Rival
    /\ UNCHANGED <<clientVars, reader, pump, up, safety, fed, dialled, faults>>

\* The daemon closes the connection it serves, or dies with it.
DropsClient(alsoDies) ==
    /\ up
    /\ serving # 0
    /\ serving # Rival => faults < MaxFaults
    /\ faults' = IF serving = Rival THEN faults ELSE faults + 1
    /\ serving' = 0
    /\ up' = ~alsoDies
    /\ UNCHANGED <<clientVars, reader, pump, safety, fed, dialled>>

\* A daemon that starts rests in safe hold; a latch outlives it.
Restarts ==
    /\ ~up
    /\ up' = TRUE
    /\ safety' = IF safety = "latched" THEN safety ELSE "safe_hold"
    /\ fed' = Stop + 1
    /\ UNCHANGED <<clientVars, reader, pump, serving, dialled, faults>>

DaemonSteps ==
    \/ ServesNext \/ RivalConnects \/ Restarts
    \/ \E alsoDies \in BOOLEAN : DropsClient(alsoDies)

\* A pump period passes: the pump has woken in it, and no frame of its own
\* waits for a second one.  The watchdog stops a robot fed too long ago.
Ages ==
    /\ pump.at \in {"done", "send", "gone"}
    /\ pump' = [pump EXCEPT !.at = CASE pump.at = "done" -> "wait"
                                     [] pump.at = "send" -> "late"
                                     [] OTHER -> "gone"]
    /\ alive' = Older(alive, Window)
    /\ stateAge' = Older(stateAge, Stale)
    /\ downFor' = IF downFor = 0 THEN 0 ELSE Older(downFor, ReconnectWindow)
    /\ fed' = Older(fed, Stop)
    /\ safety' = IF fed' > Stop /\ safety = "ok" THEN "safe_hold" ELSE safety
    /\ sent' = FALSE
    /\ UNCHANGED <<sock, connected, stopping, dead, status, reader, up, serving,
                   dialled, faults>>
=============================================================================
