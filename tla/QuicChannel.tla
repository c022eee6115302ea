---------------------------- MODULE QuicChannel ----------------------------
(***************************************************************************)
(* The node's end of the teleop link: QuicTeleopChannel in the node        *)
(* process (node/teleop/quic_channel.py, on top of node/teleop/            *)
(* _frame_store.py) and the child process that owns the QUIC connection    *)
(* (node/teleop/_quic_proc.py).  Three threads of the node meet here: the  *)
(* supervisor, which reads the loopback socket, reaps and respawns the     *)
(* child; the control loop, which reads the newest frame and consumes the  *)
(* e-stop; and the thread that calls stop().                               *)
(*                                                                         *)
(* The loopback socket is a queue.  A target datagram is lost when it      *)
(* holds MaxQueued of them; the rare control messages are not lost.        *)
(***************************************************************************)
EXTENDS TeleopRelay

CONSTANTS
    Script,     \* what the targets of each page ask for, numbered from 1; so short that
                \* none is overtaken by more than ResetGap others (some 16 seconds' worth)
    ResetGap,   \* _SEQ_RESET_GAP: how far back a sequence number is a restart
    MaxQueued   \* bound: targets in the loopback socket when one more is lost

\* What a target asks of the arm: to hold, to follow, or to stop for good.
Asks == {"hold", "follow", "estop"}

ASSUME ChannelAssumption ==
    /\ 1 \in Kids
    /\ Script \in [Pages -> Seq(Asks)]
    /\ ResetGap \in Nat \ {0}
    /\ \A p \in Pages : Len(Script[p]) <= ResetGap + 1
    /\ MaxQueued \in Nat \ {0}

VARIABLES
    child,      \* each child process: "unborn", "starting", "connecting", "pumping", "dead"
    inbox,      \* the parent's loopback socket
    proc,       \* _proc
    childAddr,  \* _child_addr, the child whose hello was read last
    connected,  \* _connected
    lastSeq,    \* _dedup._last_seq
    held,       \* _latest
    fresh,      \* held is younger than _FRAME_STALE_MS
    estop,      \* _estop_seen
    pressed,    \* an e-stop datagram was read since the loop last consumed one
    due,        \* the respawn backoff has elapsed
    pc,         \* supervisor: "looping", "spawning", "gone"
    phase,      \* stop(): "running", "shutting", "joining", "sweeping", "stopped"
    victim      \* the child stop() read from _proc and is shutting down

childVars == <<child>>
storeVars == <<held, fresh, estop, pressed>>
linkVars  == <<childAddr, connected, lastSeq>>
stopVars  == <<phase, victim>>

Frames == [page: Pages, seq: Nat]

\* A target in _latest; via, the child it came through, is the model's.
Held(f, k) == [page |-> f.page, seq |-> f.seq, via |-> k]

\* relay_core.BROWSER_CLOSED_FRAME: decoded without a seq it has seq 0.
CloseFrame(p) == [page |-> p, seq |-> 0]

Asked(f) == IF f.seq = 0 THEN "hold" ELSE Script[f.page][f.seq]

Control(k, t) == [from |-> k, kind |-> t]
Data(k, f)    == [from |-> k, kind |-> "data", frame |-> f]

Messages ==
    [from: Kids, kind: {"hello", "connected", "disconnected"}]
      \cup [from: Kids, kind: {"data"}, frame: Frames]

\* What the socket holds after the child sends on it; once stop() closed it
\* nothing arrives, and a target more than it can hold is lost.
Posted(m) == IF phase = "stopped" THEN inbox ELSE Append(inbox, m)

Delivered(m) ==
    IF Cardinality({i \in DOMAIN inbox : inbox[i].kind = "data"}) < MaxQueued
    THEN Posted(m)
    ELSE inbox

Unborn == {k \in Kids : child[k] = "unborn"}
Living == {k \in Kids : child[k] \notin {"unborn", "dead"}}

\* start() spawns the first child; a spawn that fails is the supervisor's.
ChannelInit ==
    /\ \/ /\ child = [k \in Kids |-> IF k = 1 THEN "starting" ELSE "unborn"]
          /\ proc = 1
          /\ due = TRUE
       \/ /\ child = [k \in Kids |-> "unborn"]
          /\ proc = Nobody
          /\ due = FALSE
    /\ inbox = <<>>
    /\ childAddr = Nobody
    /\ connected = FALSE
    /\ lastSeq = -1
    /\ held = Nobody
    /\ fresh = FALSE
    /\ estop = FALSE
    /\ pressed = FALSE
    /\ pc = "looping"
    /\ phase = "running"
    /\ victim = Nobody

-----------------------------------------------------------------------------
(***************************************************************************)
(* The child.                                                              *)
(***************************************************************************)

\* The heartbeat, which a child begins before it connects; at most one of a
\* child waits in the socket (bound).
Hello(k) ==
    /\ k \in Living
    /\ \A i \in DOMAIN inbox : inbox[i] # Control(k, "hello")
    /\ child' = IF child[k] = "starting" THEN [child EXCEPT ![k] = "connecting"] ELSE child
    /\ inbox' = Posted(Control(k, "hello"))
    /\ UNCHANGED <<relayVars, proc, linkVars, storeVars, due, pc, stopVars>>

\* Minted, connected and accepted by the relay: the child learns of it and
\* tells its parent.
Connects(k) ==
    /\ child[k] = "connecting"
    /\ AcceptNode(k)
    /\ child' = [child EXCEPT ![k] = "pumping"]
    /\ inbox' = Posted(Control(k, "connected"))
    /\ UNCHANGED <<proc, linkVars, storeVars, due, pc, stopVars>>

\* The connection attempt fails; the child says so and will try again.
ConnectFails(k) ==
    /\ child[k] = "connecting"
    /\ inbox' = Posted(Control(k, "disconnected"))
    /\ UNCHANGED <<relayVars, child, proc, linkVars, storeVars, due, pc, stopVars>>

\* A child that ends, by a crash or at the hands of its parent: unwinding
\* its session it still sends "disconnected", killed it does not.
Ended(k) ==
    /\ child' = [child EXCEPT ![k] = "dead"]
    /\ \/ inbox' = inbox
       \/ inbox' = Posted(Control(k, "disconnected")) /\ child[k] = "pumping"

Crash(k) ==
    /\ k \in Living
    /\ Ended(k)
    /\ UNCHANGED <<relayVars, proc, linkVars, storeVars, due, pc, stopVars>>

-----------------------------------------------------------------------------
(***************************************************************************)
(* The supervisor.                                                         *)
(***************************************************************************)

\* LatestSeqBuffer.accept.
Accepts(seq) == seq > lastSeq \/ seq < lastSeq - ResetGap

\* A child was found dead: everything that came through it is forgotten.
Reap ==
    /\ proc' = Nobody
    /\ childAddr' = Nobody
    /\ connected' = FALSE
    /\ held' = Nobody
    /\ fresh' = FALSE
    /\ due' = FALSE
    /\ UNCHANGED <<lastSeq, estop, pressed>>

\* One turn of the supervisor's loop, by what it finds at the top.  The check
\* and the recvfrom after it are one step: what another thread or the child
\* does in between has the same effect after it.
StopSeen == phase # "running"
ChildFoundDead == ~StopSeen /\ proc # Nobody /\ child[proc] = "dead"
SpawnDue == ~StopSeen /\ proc = Nobody /\ due

Leaves ==
    /\ pc = "looping"
    /\ StopSeen
    /\ pc' = "gone"
    /\ UNCHANGED <<relayVars, child, inbox, proc, linkVars, storeVars, due, stopVars>>

Reaps ==
    /\ pc = "looping"
    /\ ChildFoundDead
    /\ Reap
    /\ UNCHANGED <<relayVars, child, inbox, pc, stopVars>>

\* Up to the check of the stop flag inside _spawn_child.
BeginsSpawn ==
    /\ pc = "looping"
    /\ SpawnDue
    /\ pc' = "spawning"
    /\ UNCHANGED <<relayVars, child, inbox, proc, linkVars, storeVars, due, stopVars>>

\* Popen, and the assignment of _proc, which nothing orders against stop().
Spawn ==
    /\ pc = "spawning"
    /\ \E k \in Unborn :
          /\ \A j \in Unborn : k <= j
          /\ child' = [child EXCEPT ![k] = "starting"]
          /\ proc' = k
    /\ pc' = "looping"
    /\ UNCHANGED <<relayVars, inbox, linkVars, storeVars, due, stopVars>>

SpawnFails ==
    /\ pc = "spawning"
    /\ due' = FALSE
    /\ pc' = "looping"
    /\ UNCHANGED <<relayVars, child, inbox, proc, linkVars, storeVars, stopVars>>

BackoffElapses ==
    /\ ~due
    /\ due' = TRUE
    /\ UNCHANGED <<relayVars, child, inbox, proc, linkVars, storeVars, pc, stopVars>>

\* A hello pins the child's address.  The cookie is the parent's, the same
\* for every child, so the queued hello of a dead one is still good.
\* Mutant: it also starts the sequence numbers over.
ReadHelloAndReset(k) ==
    /\ childAddr' = k
    /\ lastSeq' = -1
    /\ UNCHANGED <<connected, storeVars>>

ReadHello(k) ==
    /\ childAddr' = k
    /\ UNCHANGED <<connected, lastSeq, storeVars>>

ReadConnected ==
    /\ connected' = TRUE
    /\ lastSeq' = -1
    /\ UNCHANGED <<childAddr, storeVars>>

ReadDisconnected ==
    /\ connected' = FALSE
    /\ held' = Nobody
    /\ fresh' = FALSE
    /\ UNCHANGED <<childAddr, lastSeq, estop, pressed>>

\* A target.  The e-stop latches before the duplicate check, the frame is
\* stored after it.
\* Mutant: only an accepted frame can latch the e-stop.
ReadAccepted(f, k) ==
    /\ IF Accepts(f.seq)
       THEN /\ lastSeq' = f.seq
            /\ held' = Held(f, k)
            /\ fresh' = TRUE
            /\ estop' = IF Asked(f) = "estop" THEN TRUE ELSE estop
       ELSE UNCHANGED <<lastSeq, held, fresh, estop>>
    /\ pressed' = IF Asked(f) = "estop" THEN TRUE ELSE pressed
    /\ UNCHANGED <<childAddr, connected>>

ReadTarget(f, k) ==
    /\ IF Asked(f) = "estop"
       THEN estop' = TRUE /\ pressed' = TRUE
       ELSE UNCHANGED <<estop, pressed>>
    /\ IF Accepts(f.seq)
       THEN lastSeq' = f.seq /\ held' = Held(f, k) /\ fresh' = TRUE
       ELSE UNCHANGED <<lastSeq, held, fresh>>
    /\ UNCHANGED <<childAddr, connected>>

\* _handle_datagram, for the message at the head of the socket.  A message
\* of another address than the pinned one is dropped, unless it is a hello.
Handle ==
    /\ pc = "looping"
    /\ ~StopSeen /\ ~ChildFoundDead /\ ~SpawnDue
    /\ inbox # <<>>
    /\ LET m == Head(inbox) IN
         \/ m.kind = "hello" /\ ReadHello(m.from)
         \/ m.kind # "hello" /\ m.from # childAddr /\ UNCHANGED <<linkVars, storeVars>>
         \/ m.kind = "connected" /\ m.from = childAddr /\ ReadConnected
         \/ m.kind = "disconnected" /\ m.from = childAddr /\ ReadDisconnected
         \/ m.kind = "data" /\ m.from = childAddr /\ ReadTarget(m.frame, m.from)
    /\ inbox' = Tail(inbox)
    /\ UNCHANGED <<relayVars, child, proc, due, pc, stopVars>>

-----------------------------------------------------------------------------
(***************************************************************************)
(* The control loop and the clock.                                         *)
(***************************************************************************)

\* latest_frame(): what a tick of the control loop may act on.
\* Mutant: the age of the frame is not looked at.
AnyAge == held

LatestFrame == IF fresh THEN held ELSE Nobody

Driving == LatestFrame # Nobody /\ Asked(LatestFrame) = "follow"

ConsumeEstop ==
    /\ estop
    /\ estop' = FALSE
    /\ pressed' = FALSE
    /\ UNCHANGED <<relayVars, child, inbox, proc, linkVars, held, fresh, due, pc, stopVars>>

\* 250 ms pass and no newer frame was stored.
GrowsStale ==
    /\ fresh
    /\ fresh' = FALSE
    /\ UNCHANGED <<relayVars, child, inbox, proc, linkVars, held, estop, pressed, due, pc,
                   stopVars>>

-----------------------------------------------------------------------------
(***************************************************************************)
(* stop().                                                                 *)
(***************************************************************************)

\* The stop flag goes up and _proc is read for _shutdown_child.
StopBegins ==
    /\ phase = "running"
    /\ phase' = "shutting"
    /\ victim' = proc
    /\ UNCHANGED <<relayVars, child, inbox, proc, linkVars, storeVars, due, pc>>

\* _shutdown_child returns when the child it was given is dead; whatever
\* _proc holds by now is overwritten.
ShutsVictim ==
    /\ IF victim = Nobody \/ (victim # Nobody /\ child[victim] = "dead")
       THEN UNCHANGED child
       ELSE child' = [child EXCEPT ![victim] = "dead"]
    /\ proc' = Nobody
    /\ victim' = Nobody

StopShutsChild ==
    /\ phase = "shutting"
    /\ ShutsVictim
    /\ phase' = "joining"
    /\ \/ inbox' = inbox
       \/ victim # Nobody /\ child[victim] = "pumping"
          /\ inbox' = Posted(Control(victim, "disconnected"))
    /\ UNCHANGED <<relayVars, linkVars, storeVars, due, pc>>

\* The join of the supervisor.
StopJoins ==
    /\ phase = "joining"
    /\ pc = "gone"
    /\ victim' = proc
    /\ phase' = "sweeping"
    /\ UNCHANGED <<relayVars, child, inbox, proc, linkVars, storeVars, due, pc>>

\* The straggler the supervisor may have spawned, then the socket.
StopSweeps ==
    /\ phase = "sweeping"
    /\ ShutsVictim
    /\ phase' = "stopped"
    /\ inbox' = <<>>
    /\ connected' = FALSE
    /\ UNCHANGED <<relayVars, childAddr, lastSeq, storeVars, due, pc>>
=============================================================================
