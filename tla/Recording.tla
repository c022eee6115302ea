----------------------------- MODULE Recording -----------------------------
(***************************************************************************)
(* Recording one episode: the node captures a tick per control step into   *)
(* its journal, a sender thread ships batches to the GPU box and deletes   *)
(* what the box accepted (inference/client/controller.py); the box keeps   *)
(* sessions, hands a live recorder over to a reconnecting node, collects   *)
(* silent sessions and builds the dataset (server/transport.py).           *)
(*                                                                         *)
(* A session is known by the number of the OpenSession call that made it,  *)
(* a recorder by the session it was built for, a tick by its session and   *)
(* control step; the steps start again at 0 in every session.              *)
(***************************************************************************)
EXTENDS TickSpool, SessionRecorder

CONSTANTS
    MaxOpens,     \* bound: OpenSession calls for the episode
    MaxSteps,     \* bound: control steps of one session
    MaxFailures,  \* bound: RPCs that fail on the node's side
    BatchMax,     \* cfg.rec_batch_max_ticks
    ForcedClose   \* the daemon closes the client of a control loop that hangs: the
                  \* loop may still capture ticks while close() runs

ASSUME RecordingAssumption ==
    /\ MaxOpens \in Nat \ {0}
    /\ MaxSteps \in Nat
    /\ MaxFailures \in Nat
    /\ BatchMax \in Nat \ {0}
    /\ ForcedClose \in BOOLEAN

Sids == 1 .. MaxOpens
Steps == 0 .. MaxSteps - 1
NoSid == 0

VARIABLES
    node,       \* the node process and its thread inside close()
    shipper,    \* the sender thread and the RPC it waits for
    spool,      \* the journals on the node's disk, one per session
    failures,   \* failed RPCs so far
    delayed,    \* batches whose call failed on the node but may still reach the box
    closes,     \* sessions whose CloseSession is on its way
    sessions,   \* the box's open sessions
    byEpisode,  \* the session the episode index points at
    recorderOf, \* the recorder of each session ever opened
    recorders,  \* the recorders ever built
    captured,   \* history: ticks record_tick() said it recorded
    acked,      \* history: ticks deleted from the journal on an answer
    staged      \* history: ticks the box put in the queue of a recorder

boxVars == <<sessions, byEpisode, recorderOf, recorders, staged>>
vars == <<node, shipper, spool, failures, delayed, closes, boxVars, captured, acked>>

NodeStates ==
    {"down", "running", "stopping", "draining", "joining", "disposing", "closing", "closed"}

Nodes ==
    [pc : NodeStates, sid : Sids \cup {NoSid}, step : 0 .. MaxSteps, sent : Nat,
     retained : Nat, abandon : BOOLEAN]

Shippers ==
    [pc : {"gone", "idle", "rpc", "replied"}, batch : SUBSET Steps,
     accepted : SUBSET Steps]

Journals == [pending : SUBSET Steps, blocked : BOOLEAN]

Recorders ==
    [state : RecorderStates, seen : SUBSET Steps, queue : SUBSET Steps,
     rows : SUBSET Steps, failed : SUBSET Steps]

ShapeOK ==
    /\ node \in Nodes
    /\ shipper \in Shippers
    /\ spool \in [Sids -> Journals]
    /\ failures \in 0 .. MaxFailures
    /\ delayed \subseteq [sid : Sids, batch : SUBSET Steps]
    /\ closes \subseteq Sids
    /\ sessions \subseteq Sids
    /\ byEpisode \in Sids \cup {NoSid}
    /\ recorderOf \in [Sids -> Sids \cup {NoSid}]
    /\ recorders \in [Sids -> Recorders]
    /\ captured \subseteq Sids \X Steps
    /\ acked \subseteq Sids \X Steps
    /\ staged \subseteq Sids \X Steps

\* The journal, the writer queue and a recording stay within their limits.
WithinLimits ==
    \A s \in Sids : /\ Cardinality(spool[s].pending) <= SpoolCap
                    /\ Cardinality(recorders[s].queue) <= QueueMax
                    /\ Cardinality(recorders[s].seen) <= StepCap

TypeOK == ShapeOK /\ WithinLimits

NoRecorder == [NewRecorder EXCEPT !.state = "none"]

NoRpc(pc) == [pc |-> pc, batch |-> {}, accepted |-> {}]

NewNode(pc, sid) ==
    [pc |-> pc, sid |-> sid, step |-> 0, sent |-> 0, retained |-> 0, abandon |-> FALSE]

Init ==
    /\ node = NewNode("down", NoSid)
    /\ shipper = NoRpc("gone")
    /\ spool = [s \in Sids |-> NewSpool]
    /\ failures = 0
    /\ delayed = {}
    /\ closes = {}
    /\ sessions = {}
    /\ byEpisode = NoSid
    /\ recorderOf = [s \in Sids |-> NoSid]
    /\ recorders = [s \in Sids |-> NoRecorder]
    /\ captured = {}
    /\ acked = {}
    /\ staged = {}

Up == node.pc \notin {"down", "closed"}

Pending == spool[node.sid].pending

CapturingPcs ==
    IF ForcedClose THEN {"running", "stopping", "draining", "joining", "disposing"}
    ELSE {"running"}

-----------------------------------------------------------------------------
(* Opening.  The box retires the session the episode index points at and    *)
(* hands its recorder over while it still accepts ticks.                    *)

\* Mutant: the retired session keeps its recorder and stays registered.
InheritedAlways == NoSid

Inherited ==
    IF byEpisode \in sessions /\ Reusable(recorders[recorderOf[byEpisode]])
    THEN recorderOf[byEpisode] ELSE NoSid

Retired == sessions \ {byEpisode}

BoxOpens(s) ==
    /\ sessions' = Retired \cup {s}
    /\ byEpisode' = s
    /\ recorderOf' = [recorderOf EXCEPT ![s] = IF Inherited = NoSid THEN s ELSE Inherited]
    /\ recorders' = IF Inherited = NoSid THEN [recorders EXCEPT ![s] = NewRecorder]
                    ELSE recorders

\* The answer may be lost: open() raises and the session stays on the box.
OpenSession ==
    LET s == node.sid + 1
    IN  /\ ~Up
        /\ s \in Sids
        /\ BoxOpens(s)
        /\ \E pc \in {"running", "down"} :
              /\ node' = NewNode(pc, s)
              /\ shipper' = NoRpc(IF pc = "running" THEN "idle" ELSE "gone")
        /\ UNCHANGED <<spool, failures, delayed, closes, captured, acked, staged>>

-----------------------------------------------------------------------------
(* Capture: the control loop, one tick per step, refused while the journal  *)
(* is blocked or when the disk write fails.                                 *)

Capture ==
    /\ node.pc \in CapturingPcs
    /\ node.step < MaxSteps
    /\ \E lowDisk, diskError \in BOOLEAN :
          LET checked == CheckBlocked(spool[node.sid], lowDisk)
              recorded == ~checked.blocked /\ ~diskError
          IN  /\ spool' = [spool EXCEPT ![node.sid] =
                              IF recorded THEN Append(checked, node.step) ELSE checked]
              /\ captured' = captured \cup
                              (IF recorded THEN {<<node.sid, node.step>>} ELSE {})
    /\ node' = [node EXCEPT !.step = @ + 1]
    /\ UNCHANGED <<shipper, failures, delayed, closes, boxVars, acked>>

-----------------------------------------------------------------------------
(* Shipping: the sender thread.  An RPC reaches the box, which answers with *)
(* the accepted prefix; or it fails on the node, before or after the box    *)
(* handled it, and a failed call may still arrive later.                    *)

Ship ==
    /\ shipper.pc = "idle"
    /\ ~node.abandon
    /\ Pending # {}
    /\ shipper' = [pc |-> "rpc", batch |-> PeekBatch(spool[node.sid], BatchMax),
                   accepted |-> {}]
    /\ UNCHANGED <<node, spool, failures, delayed, closes, boxVars, captured, acked>>

\* What RecordTicks answers: nothing is accepted for a session the box does not have.
AnswerTo(s, batch) ==
    IF s \in sessions THEN AcceptedPrefix(recorders[recorderOf[s]], batch) ELSE {}

\* The answered ticks that are put in the queue: a step seen before is not.
NewTicks(s, batch) == {<<s, t>> : t \in AnswerTo(s, batch) \ recorders[recorderOf[s]].seen}

StageOnBox(s, batch) ==
    IF s \in sessions
    THEN /\ recorders' = [recorders EXCEPT ![recorderOf[s]] = Stage(@, AnswerTo(s, batch))]
         /\ staged' = staged \cup NewTicks(s, batch)
    ELSE UNCHANGED <<recorders, staged>>

HandleTicks ==
    /\ shipper.pc = "rpc"
    /\ StageOnBox(node.sid, shipper.batch)
    /\ shipper' = [shipper EXCEPT !.pc = "replied",
                                  !.accepted = AnswerTo(node.sid, shipper.batch)]
    /\ UNCHANGED <<node, spool, failures, delayed, closes, sessions, byEpisode,
                   recorderOf, captured, acked>>

HandleDelayed(m) ==
    /\ m \in delayed
    /\ StageOnBox(m.sid, m.batch)
    /\ delayed' = delayed \ {m}
    /\ UNCHANGED <<node, shipper, spool, failures, closes, sessions, byEpisode,
                   recorderOf, captured, acked>>

\* Mutant: the counter takes the batch, not the accepted prefix.
SentCountsBatch == Cardinality(shipper.batch)

NewlySent == Cardinality(shipper.accepted)

GetReply ==
    /\ shipper.pc = "replied"
    /\ LET left == Ack(spool[node.sid], shipper.batch, shipper.accepted)
       IN  /\ spool' = [spool EXCEPT ![node.sid] = left]
           /\ acked' = acked \cup {<<node.sid, t>> : t \in Pending \ left.pending}
    /\ node' = [node EXCEPT !.sent = @ + NewlySent]
    /\ shipper' = NoRpc("idle")
    /\ UNCHANGED <<failures, delayed, closes, boxVars, captured>>

\* The call's bytes are lost with the connection, or still on their way.
LeaveRpc ==
    \/ UNCHANGED delayed
    \/ /\ shipper.pc = "rpc"
       /\ delayed' = delayed \cup {[sid |-> node.sid, batch |-> shipper.batch]}

RpcFails ==
    /\ shipper.pc \in {"rpc", "replied"}
    /\ failures < MaxFailures
    /\ failures' = failures + 1
    /\ LeaveRpc
    /\ shipper' = NoRpc("idle")
    /\ UNCHANGED <<node, spool, closes, boxVars, captured, acked>>

\* The sender leaves once close() has begun and its journal is empty, or when
\* close() gives up.
MayLeave == node.pc # "running" /\ (Pending = {} \/ node.abandon)

ShipperExits ==
    /\ shipper.pc = "idle"
    /\ MayLeave
    /\ shipper' = NoRpc("gone")
    /\ UNCHANGED <<node, spool, failures, delayed, closes, boxVars, captured, acked>>

-----------------------------------------------------------------------------
(* Closing: stop the client, put the close sentinel, wait while the sender  *)
(* makes progress, give up on a stall, count what is left, delete only an   *)
(* empty journal, tell the box.                                             *)

AtClose(from, to) ==
    /\ node.pc = from
    /\ node' = [node EXCEPT !.pc = to]
    /\ UNCHANGED <<shipper, spool, failures, delayed, closes, boxVars, captured, acked>>

BeginClose == AtClose("running", "stopping")

PutPill == shipper.pc # "gone" /\ AtClose("stopping", "draining")

GiveUp ==
    /\ node.pc = "draining"
    /\ shipper.pc # "gone"
    /\ node' = [node EXCEPT !.pc = "joining", !.abandon = TRUE]
    /\ UNCHANGED <<shipper, spool, failures, delayed, closes, boxVars, captured, acked>>

\* After giving up the thread is joined for five seconds at most.
CountRetained ==
    /\ \/ node.pc \in {"stopping", "draining"} /\ shipper.pc = "gone"
       \/ node.pc = "joining"
    /\ node' = [node EXCEPT !.pc = "disposing", !.retained = Cardinality(Pending)]
    /\ UNCHANGED <<shipper, spool, failures, delayed, closes, boxVars, captured, acked>>

\* Mutant: the journal is deleted although ticks were retained.
DisposedAlways == {}

DisposedJournal == IF node.retained = 0 THEN {} ELSE Pending

Dispose ==
    /\ node.pc = "disposing"
    /\ spool' = [spool EXCEPT ![node.sid].pending = DisposedJournal]
    /\ node' = [node EXCEPT !.pc = "closing"]
    /\ UNCHANGED <<shipper, failures, delayed, closes, boxVars, captured, acked>>

\* Closing the channel ends a call the sender thread is still waiting for.
CloseSession ==
    /\ node.pc = "closing"
    /\ node' = [node EXCEPT !.pc = "closed"]
    /\ closes' = closes \cup {node.sid}
    /\ LeaveRpc
    /\ shipper' = NoRpc("gone")
    /\ UNCHANGED <<spool, failures, boxVars, captured, acked>>

\* The process dies; only the disk and what is in the air remain.
Crash ==
    /\ Up
    /\ node' = NewNode("down", node.sid)
    /\ spool' = [spool EXCEPT ![node.sid].blocked = FALSE]
    /\ LeaveRpc
    /\ shipper' = NoRpc("gone")
    /\ UNCHANGED <<failures, closes, boxVars, captured, acked>>

-----------------------------------------------------------------------------
(* The box.  Closing a session and collecting a silent one both hand its    *)
(* recorder to an upload task; only the first clears the episode index.     *)

HandleClose(s) ==
    /\ s \in closes
    /\ closes' = closes \ {s}
    /\ sessions' = sessions \ {s}
    /\ byEpisode' = IF s \in sessions /\ byEpisode = s THEN NoSid ELSE byEpisode
    /\ recorders' = IF s \in sessions
                    THEN [recorders EXCEPT ![recorderOf[s]] = Close(@)] ELSE recorders
    /\ UNCHANGED <<node, shipper, spool, failures, delayed, recorderOf, captured, acked, staged>>

\* Mutant: a silent recording is dropped, not published.
CollectDrops(rec) == rec

Collect(rec) == Close(rec)

IdleGc(s) ==
    /\ s \in sessions
    /\ sessions' = sessions \ {s}
    /\ recorders' = [recorders EXCEPT ![recorderOf[s]] = Collect(@)]
    /\ UNCHANGED <<node, shipper, spool, failures, delayed, closes, byEpisode,
                   recorderOf, captured, acked, staged>>

ChangeRecorder(r, rec) ==
    /\ recorders' = [recorders EXCEPT ![r] = rec]
    /\ UNCHANGED <<node, shipper, spool, failures, delayed, closes, sessions, byEpisode,
                   recorderOf, captured, acked, staged>>

WriteRow(r) ==
    \E t \in recorders[r].queue :
        \/ ChangeRecorder(r, Write(recorders[r], t))
        \/ ChangeRecorder(r, FailWrite(recorders[r], t))

Build(r) ==
    /\ Drained(recorders[r])
    /\ \E result \in BuildResults(recorders[r]) :
          ChangeRecorder(r, [recorders[r] EXCEPT !.state = result])

-----------------------------------------------------------------------------

NodeNext ==
    \/ OpenSession
    \/ Capture
    \/ BeginClose
    \/ PutPill
    \/ GiveUp
    \/ CountRetained
    \/ Dispose
    \/ CloseSession
    \/ Crash

ShipperNext == Ship \/ GetReply \/ RpcFails \/ ShipperExits

BoxNext ==
    \/ HandleTicks
    \/ \E m \in delayed : HandleDelayed(m)
    \/ \E s \in closes : HandleClose(s)
    \/ \E s \in sessions : IdleGc(s)
    \/ \E r \in Sids : WriteRow(r) \/ Build(r)

Next == NodeNext \/ ShipperNext \/ BoxNext

Spec == Init /\ [][Next]_vars

(* A node that still runs the session sends ticks or observations and keeps *)
(* it from being collected (as long as the link works); any other session   *)
(* is silent.                                                               *)
Silent(s) == ~(Up /\ node.sid = s)

(* Threads and tasks run, a call returns or times out, the waiting loop of  *)
(* close() has a ceiling, the collection is periodic.  Nothing is assumed   *)
(* of a CloseSession on its way, nor of a failed call's bytes.              *)
Fairness ==
    /\ WF_vars(PutPill) /\ WF_vars(GiveUp) /\ WF_vars(CountRetained)
    /\ WF_vars(Dispose) /\ WF_vars(CloseSession)
    /\ WF_vars(Ship) /\ WF_vars(HandleTicks) /\ WF_vars(GetReply)
    /\ WF_vars(ShipperExits)
    /\ \A s \in Sids : WF_vars(Silent(s) /\ IdleGc(s))
    /\ \A r \in Sids : WF_vars(WriteRow(r)) /\ WF_vars(Build(r))

FairSpec == Spec /\ Fairness

-----------------------------------------------------------------------------

\* The one way to lose an acknowledged tick: an earlier session of the recorder it
\* inherited has used the step's number (recorder.py:306-313), and its tick was staged.
Collides(t) ==
    \E s \in Sids : s < t[1] /\ recorderOf[s] = recorderOf[t[1]] /\ <<s, t[2]>> \in staged

(* An acknowledgement is honest: a tick the node deleted was itself put in  *)
(* the queue of its session's recorder, and its step still waits for the    *)
(* writer, is written, or lost to a write that raised; whatever was lost,   *)
(* repeated, late, superseded or closed (transport.py:411-415: "an over-    *)
(* count here would convert transient backpressure into permanent frame     *)
(* loss").  Only a tick whose number collides with a staged tick of an      *)
(* earlier session is acknowledged and gone: transport.py:592-596 denies    *)
(* it, EveryAckedTickIsKept shows it.                                       *)
AckIsHonest ==
    \A t \in acked :
        /\ t \in staged \/ Collides(t)
        /\ LET rec == recorders[recorderOf[t[1]]]
           IN  t[2] \in rec.queue \cup rec.rows \cup rec.failed

(* A step is staged once, however often its batch arrives and whichever     *)
(* session of the episode sends it (recorder.py:306-326).                   *)
NoStepTwice ==
    \A r \in Sids : recorders[r].queue \cap (recorders[r].rows \cup recorders[r].failed) = {}

(* A tick record_tick() said it recorded is on the node's disk until the    *)
(* box accepted it, through crashes, reconnects and an abandoned close      *)
(* (controller.py:470-479: "RETAINED ON DISK ..., never lost"; only "a      *)
(* fully-drained spool is disposed").                                       *)
CapturedIsNeverDropped ==
    \A t \in captured : t \in acked \/ t[2] \in spool[t[1]].pending

(* An episode is recorded by one recorder at a time, and an open recorder   *)
(* belongs to exactly one open session: a reconnect neither forks the       *)
(* capture nor leaves a recorder nobody will close (transport.py:581-634).  *)
OneRecordingPerEpisode ==
    \A r \in Sids : recorders[r].state = "recording" =>
        /\ Cardinality({s \in sessions : recorderOf[s] = r}) = 1
        /\ \A q \in Sids : recorders[q].state = "recording" => q = r

(* The summary at the end of a session accounts for every captured tick:    *)
(* sent plus retained is what was captured.  When close() gave up, a late   *)
(* answer may be counted on both sides, never on none                       *)
(* (controller.py:485-532).                                                 *)
BooksBalance ==
    node.pc = "closed" =>
        LET taken == Cardinality({t \in captured : t[1] = node.sid})
        IN  /\ taken <= node.sent + node.retained
            /\ ~node.abandon => taken = node.sent + node.retained

(* The dataset is built from all the recorder ever acknowledged, but for    *)
(* rows whose write failed, and nothing is added afterwards                 *)
(* (recorder.py:524-539, 595).                                              *)
DatasetIsComplete ==
    \A r \in Sids : Ended(recorders[r]) =>
        recorders[r].rows = recorders[r].seen \ recorders[r].failed

(* While the session lives and its recorder has room, every journaled tick  *)
(* is eventually delivered: no lost answer, partial answer, failed write or *)
(* missed wake-up leaves a tick behind (controller.py:632-713).             *)
BacklogDrains ==
    \A s \in Sids, t \in Steps :
        ~Silent(s) /\ t \in spool[s].pending ~>
            \/ t \notin spool[s].pending
            \/ Silent(s) \/ s \notin sessions
            \/ LET seen == recorders[recorderOf[s]].seen
               IN  t \notin seen /\ Cardinality(seen) = StepCap

(* Every recording ends: once its node stops, crashes or never got the      *)
(* session's id, the recorder is closed and its dataset built or given up,  *)
(* with or without a CloseSession, unless the node comes back               *)
(* (transport.py:837-849: "the durable safety net for any missed            *)
(* CloseSession").                                                          *)
EveryRecorderEnds ==
    \A r \in Sids :
        recorders[r].state # "none" /\ node.pc # "running" ~>
            Ended(recorders[r]) \/ node.pc = "running"

(* What the comment promises of a reconnect (transport.py:592-596): one     *)
(* upload at close, "every acked tick preserved".                           *)
EveryAckedTickIsKept == acked \subseteq staged

=============================================================================
