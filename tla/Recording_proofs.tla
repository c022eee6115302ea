-------------------------- MODULE Recording_proofs --------------------------
(***************************************************************************)
(* Proofs about Recording, for any number of sessions, steps and failures, *)
(* any batch size, queue and journal.                                      *)
(***************************************************************************)
EXTENDS Recording, FiniteSetTheorems, TLAPS

LEMMA SidsAreNat ==
    /\ Sids \subseteq Nat \ {0} /\ NoSid \notin Sids /\ NoSid = 0
    /\ \A s \in Sids \cup {NoSid} : s \in Nat /\ s =< s
BY RecordingAssumption DEF Sids, NoSid

LEMMA StepsAreFinite == IsFiniteSet(Steps) /\ Steps \subseteq Nat
BY RecordingAssumption, FS_Interval DEF Steps

LEMMA CountIsNat == \A T \in SUBSET Steps : Cardinality(T) \in Nat
BY StepsAreFinite, FS_Subset, FS_CardinalityType

(* What the box accepts is a prefix of the batch: with a tick, every        *)
(* earlier one (transport.py:411-415).                                      *)
LEMMA AcceptsAPrefix ==
    ASSUME NEW s \in Sids, NEW batch \in SUBSET Steps, ShapeOK,
           recorderOf[s] \in Sids,
           NEW a \in AnswerTo(s, batch), NEW b \in batch, b =< a
    PROVE  b \in AnswerTo(s, batch)
<1> DEFINE rec == recorders[recorderOf[s]]
           upTo(t) == {u \in batch : u <= t}
<1>1. s \in sessions /\ AnswerTo(s, batch) = AcceptedPrefix(rec, batch)
  BY DEF AnswerTo
<1>2. rec.seen \in SUBSET Steps /\ rec.queue \in SUBSET Steps
  BY DEF ShapeOK, Recorders
<1>3. a \in batch /\ rec.state = "recording" /\ HasRoomFor(rec, upTo(a))
  BY <1>1 DEF AcceptedPrefix
<1>4. upTo(b) \subseteq upTo(a) /\ upTo(a) \subseteq Steps
  <2>1. \A u \in batch : u <= b => u <= a
    <3>1. a \in Nat /\ b \in Nat /\ batch \subseteq Nat
      BY <1>3, StepsAreFinite
    <3>. QED
      BY <3>1
  <2>. QED
    BY <2>1
<1>5. Cardinality(upTo(b) \ rec.seen) =< Cardinality(upTo(a) \ rec.seen)
  <2>1. upTo(b) \ rec.seen \subseteq upTo(a) \ rec.seen /\ upTo(a) \ rec.seen \subseteq Steps
    BY <1>4
  <2>. QED
    BY <2>1, StepsAreFinite, FS_Subset
<1>6. HasRoomFor(rec, upTo(b))
  <2>1. /\ Cardinality(rec.queue) \in Nat /\ Cardinality(rec.seen) \in Nat
        /\ Cardinality(upTo(a) \ rec.seen) \in Nat /\ Cardinality(upTo(b) \ rec.seen) \in Nat
    BY <1>2, <1>4, CountIsNat
  <2>. QED
    BY <2>1, <1>3, <1>5, RecorderAssumption DEF HasRoomFor
<1>. QED
  BY <1>1, <1>3, <1>6 DEF AcceptedPrefix

-----------------------------------------------------------------------------
(* The inductive invariant.                                                 *)

(* Sessions and recorders are numbered by the OpenSession calls so far.     *)
Numbered ==
    /\ \A s \in Sids : /\ recorderOf[s] =< node.sid
                       /\ recorderOf[s] # NoSid <=> s =< node.sid
                       /\ recorders[s].state # "none" => s =< node.sid
    /\ \A s \in sessions : s =< node.sid
    /\ \A t \in acked : t[1] =< node.sid
    /\ \A s \in Sids : spool[s].pending # {} => s =< node.sid
    /\ Up => node.sid # NoSid

(* A recorder knows where each step it ever admitted is.                    *)
Staged ==
    \A r \in Sids :
        LET rec == recorders[r]
        IN  /\ rec.seen = rec.queue \cup rec.rows \cup rec.failed
            /\ rec.queue \cap (rec.rows \cup rec.failed) = {}
            /\ rec.rows \cap rec.failed = {}
            /\ Ended(rec) => rec.queue = {}
            /\ rec.state = "none" => rec.seen = {}

(* The episode has at most one session, the one the index points at, and it *)
(* owns the one recorder that still records.                                *)
OneSession ==
    /\ sessions \subseteq {byEpisode}
    /\ \A s \in sessions : recorders[recorderOf[s]].state = "recording"
    /\ \A r \in Sids : recorders[r].state = "recording" =>
          \E s \in sessions : recorderOf[s] = r

(* A batch is a prefix of the journal, an answer a prefix of the batch that *)
(* the recorder has seen.                                                   *)
Prefixes ==
    /\ Up => \A t \in Pending \cup shipper.batch : t < node.step
    /\ Up => \A b \in shipper.batch, t \in Pending : t =< b => t \in shipper.batch
    /\ ~Up => shipper.pc = "gone"
    /\ shipper.pc = "replied" =>
          /\ shipper.accepted \subseteq recorders[recorderOf[node.sid]].seen
          /\ shipper.accepted \subseteq shipper.batch
          /\ \A a \in shipper.accepted, b \in shipper.batch : b =< a => b \in shipper.accepted

AckedIsSeen == \A t \in acked : t[2] \in recorders[recorderOf[t[1]]].seen

(* The journal is deleted only when it is empty.                            *)
Journaled ==
    /\ CapturedIsNeverDropped
    /\ node.pc = "disposing" /\ node.retained = 0 => Pending = {}

(* A step a recorder has seen was staged for one of its sessions, and an    *)
(* acknowledged tick itself, or that of an earlier session it collides with.*)
Origins ==
    /\ \A r \in Sids : \A k \in recorders[r].seen :
          \E s \in Sids : recorderOf[s] = r /\ <<s, k>> \in staged
    /\ \A t \in acked : t \in staged \/ Collides(t)

Inv ==
    /\ ShapeOK
    /\ Numbered
    /\ Staged
    /\ OneSession
    /\ Prefixes
    /\ AckedIsSeen

-----------------------------------------------------------------------------

LEMMA InitInv == Init => Inv /\ Journaled
BY SidsAreNat, RecordingAssumption DEF Init, Inv, Journaled, ShapeOK, Nodes, Shippers, Journals,
   Recorders, Numbered, Staged, OneSession, Prefixes, AckedIsSeen, CapturedIsNeverDropped, NewNode,
   NodeStates, NoRpc, NewSpool, NoRecorder, NewRecorder, RecorderStates, Ends, Ended, Up, NoSid,
   Pending

(* The operators on journals, recorders and the node keep their shape.      *)
LEMMA JournalShapes ==
    ASSUME NEW sp \in Journals
    PROVE  /\ \A low \in BOOLEAN : CheckBlocked(sp, low) \in Journals
           /\ \A low \in BOOLEAN : CheckBlocked(sp, low).pending = sp.pending
           /\ \A t \in Steps : Append(sp, t) \in Journals
           /\ \A batch, got : Ack(sp, batch, got) \in Journals
<1>1. ASSUME NEW low \in BOOLEAN
      PROVE  CheckBlocked(sp, low) \in Journals /\ CheckBlocked(sp, low).pending = sp.pending
  <2>1. (OverCap(sp) \/ low) \in BOOLEAN
    OBVIOUS
  <2>2. \A d \in BOOLEAN : /\ [sp EXCEPT !.blocked = d] \in Journals
                           /\ [sp EXCEPT !.blocked = d].pending = sp.pending
    BY DEF Journals
  <2>. QED
    BY <2>1, <2>2, Zenon DEF CheckBlocked
<1>2. \A t \in Steps : Append(sp, t) \in Journals
  BY DEF Journals, Append
<1>3. \A batch, got : Ack(sp, batch, got) \in Journals
  BY DEF Journals, Ack
<1>. QED
  BY <1>1, <1>2, <1>3

LEMMA RecorderShapes ==
    ASSUME NEW rec \in Recorders
    PROVE  /\ \A got \in SUBSET Steps : Stage(rec, got) \in Recorders
           /\ \A t \in Steps : Write(rec, t) \in Recorders /\ FailWrite(rec, t) \in Recorders
           /\ Close(rec) \in Recorders
           /\ \A state \in RecorderStates : [rec EXCEPT !.state = state] \in Recorders
BY DEF Recorders, Stage, Write, FailWrite, Close, RecorderStates

LEMMA AnswerIsSteps ==
    ASSUME NEW s, NEW batch \in SUBSET Steps PROVE AnswerTo(s, batch) \in SUBSET batch
BY DEF AnswerTo, AcceptedPrefix

LEMMA NodeShapes ==
    ASSUME NEW n \in Nodes
    PROVE  /\ \A pc \in NodeStates : [n EXCEPT !.pc = pc] \in Nodes
           /\ \A k \in Nat : /\ [n EXCEPT !.pc = "disposing", !.retained = k] \in Nodes
                             /\ [n EXCEPT !.sent = @ + k] \in Nodes
           /\ [n EXCEPT !.pc = "joining", !.abandon = TRUE] \in Nodes
           /\ n.step < MaxSteps => n.step \in Steps /\ [n EXCEPT !.step = @ + 1] \in Nodes
           /\ \A pc \in {"down", "running"}, s \in Sids : NewNode(pc, s) \in Nodes
           /\ \A pc \in {"gone", "idle"} : NoRpc(pc) \in Shippers
<1>1. \A pc \in NodeStates : [n EXCEPT !.pc = pc] \in Nodes
  BY DEF Nodes
<1>2. \A k \in Nat : /\ [n EXCEPT !.pc = "disposing", !.retained = k] \in Nodes
                     /\ [n EXCEPT !.sent = @ + k] \in Nodes
  <2>1. ASSUME NEW k \in Nat PROVE [n EXCEPT !.pc = "disposing", !.retained = k] \in Nodes
    BY DEF Nodes, NodeStates
  <2>2. ASSUME NEW k \in Nat PROVE [n EXCEPT !.sent = @ + k] \in Nodes
    <3>1. n.sent + k \in Nat
      BY DEF Nodes
    <3>. QED
      BY <3>1 DEF Nodes
  <2>. QED
    BY <2>1, <2>2
<1>3. [n EXCEPT !.pc = "joining", !.abandon = TRUE] \in Nodes
  BY DEF Nodes, NodeStates
<1>4. n.step < MaxSteps => n.step \in Steps /\ [n EXCEPT !.step = @ + 1] \in Nodes
  BY RecordingAssumption DEF Nodes, Steps
<1>5. \A pc \in {"down", "running"}, s \in Sids : NewNode(pc, s) \in Nodes
  BY RecordingAssumption DEF Nodes, NodeStates, NewNode
<1>6. \A pc \in {"gone", "idle"} : NoRpc(pc) \in Shippers
  BY DEF NoRpc, Shippers
<1>. QED
  BY <1>1, <1>2, <1>3, <1>4, <1>5, <1>6

LEMMA InUse ==
    ASSUME ShapeOK, Numbered
    PROVE  /\ Up => node.sid \in Sids /\ recorderOf[node.sid] \in Sids /\ Pending \in SUBSET Steps
           /\ \A s \in sessions : recorderOf[s] \in Sids
           /\ \A r \in Sids : recorders[r] \in Recorders /\ spool[r] \in Journals
<1>1. /\ node.sid \in Sids \cup {NoSid} /\ sessions \subseteq Sids
      /\ \A r \in Sids : /\ recorders[r] \in Recorders /\ spool[r] \in Journals
                         /\ recorderOf[r] \in Sids \cup {NoSid}
  BY DEF ShapeOK, Nodes
<1>2. \A s \in Sids : s =< node.sid => recorderOf[s] \in Sids
  BY <1>1 DEF Numbered
<1>3. \A s \in sessions : recorderOf[s] \in Sids
  BY <1>1, <1>2 DEF Numbered
<1>4. ASSUME Up
      PROVE  node.sid \in Sids /\ recorderOf[node.sid] \in Sids /\ Pending \in SUBSET Steps
  <2>1. node.sid \in Sids
    BY <1>1, <1>4 DEF Numbered
  <2>2. node.sid =< node.sid
    BY <2>1, SidsAreNat
  <2>3. recorderOf[node.sid] \in Sids
    BY <1>2, <2>1, <2>2
  <2>. QED
    BY <1>1, <2>1, <2>3 DEF Pending, Journals
<1>. QED
  BY <1>1, <1>3, <1>4

LEMMA LeftRpcs ==
    ASSUME ShapeOK, Numbered, Up, LeaveRpc
    PROVE  delayed' \subseteq [sid : Sids, batch : SUBSET Steps]
BY InUse DEF LeaveRpc, ShapeOK, Shippers

LEMMA NextShape == Inv /\ [Next]_vars => ShapeOK'
<1> SUFFICES ASSUME ShapeOK, Numbered, Prefixes, [Next]_vars PROVE ShapeOK'
  BY DEF Inv
<1> USE InUse DEF boxVars
<1>u. /\ node \in Nodes /\ shipper \in Shippers /\ spool \in [Sids -> Journals]
      /\ recorders \in [Sids -> Recorders]
  BY DEF ShapeOK
<1>s. ASSUME NEW s, NEW batch \in SUBSET Steps, StageOnBox(s, batch)
      PROVE  recorders' \in [Sids -> Recorders] /\ staged' \subseteq Sids \X Steps
  <2>1. AnswerTo(s, batch) \in SUBSET Steps /\ staged \subseteq Sids \X Steps
    BY AnswerIsSteps DEF ShapeOK
  <2>2. CASE s \in sessions
    <3>1. recorderOf[s] \in Sids /\ Stage(recorders[recorderOf[s]], AnswerTo(s, batch)) \in Recorders
      BY <2>1, <2>2, RecorderShapes
    <3>2. s \in Sids
      BY <2>2 DEF ShapeOK
    <3>3. NewTicks(s, batch) \subseteq Sids \X Steps
      BY <2>1, <3>2 DEF NewTicks
    <3>4. staged' = staged \cup NewTicks(s, batch)
      BY <1>s, <2>2 DEF StageOnBox
    <3>5. recorders' = [recorders EXCEPT ![recorderOf[s]] =
                            Stage(recorders[recorderOf[s]], AnswerTo(s, batch))]
      BY <1>s, <2>2 DEF StageOnBox
    <3>. QED
      BY <1>u, <2>1, <3>1, <3>3, <3>4, <3>5
  <2>. QED
    BY <1>s, <1>u, <2>1, <2>2 DEF StageOnBox
<1>r. ASSUME NEW r \in Sids, NEW rec \in Recorders, ChangeRecorder(r, rec)
      PROVE  ShapeOK'
  BY <1>r, <1>u DEF ChangeRecorder, ShapeOK
<1>1. CASE OpenSession
  <2> DEFINE s == node.sid + 1
  <2>1. s \in Sids /\ BoxOpens(s)
    BY <1>1 DEF OpenSession
  <2>2. node' \in Nodes /\ shipper' \in Shippers
    BY <1>1, <1>u, <2>1, NodeShapes DEF OpenSession
  <2>3. Inherited \in Sids \cup {NoSid}
    BY DEF Inherited
  <2>4. recorderOf' \in [Sids -> Sids \cup {NoSid}]
    BY <2>1, <2>3 DEF BoxOpens, ShapeOK
  <2>5. NewRecorder \in Recorders
    BY DEF NewRecorder, Recorders, RecorderStates, Ends
  <2>6. recorders' \in [Sids -> Recorders]
    BY <1>u, <2>1, <2>5 DEF BoxOpens
  <2>7. sessions' \subseteq Sids /\ byEpisode' \in Sids
    BY <2>1 DEF BoxOpens, Retired, ShapeOK
  <2>. QED
    BY <1>1, <2>2, <2>4, <2>6, <2>7 DEF OpenSession, ShapeOK
<1>2. CASE Capture
  <2>1. Up /\ node.step < MaxSteps
    BY <1>2 DEF Capture, CapturingPcs, Up
  <2>2. node' \in Nodes /\ node.step \in Steps
    BY <1>2, <1>u, <2>1, NodeShapes DEF Capture
  <2>3. PICK lowDisk \in BOOLEAN, diskError \in BOOLEAN :
            LET checked == CheckBlocked(spool[node.sid], lowDisk)
                recorded == ~checked.blocked /\ ~diskError
            IN  /\ spool' = [spool EXCEPT ![node.sid] =
                                IF recorded THEN Append(checked, node.step) ELSE checked]
                /\ captured' = captured \cup
                                (IF recorded THEN {<<node.sid, node.step>>} ELSE {})
    BY <1>2 DEF Capture
  <2>4. CheckBlocked(spool[node.sid], lowDisk) \in Journals
    BY <2>1, JournalShapes
  <2>5. Append(CheckBlocked(spool[node.sid], lowDisk), node.step) \in Journals
    BY <2>2, <2>4, JournalShapes
  <2>6. spool' \in [Sids -> Journals]
    BY <1>u, <2>3, <2>4, <2>5
  <2>7. captured' \subseteq Sids \X Steps /\ captured \subseteq captured'
    BY <2>1, <2>2, <2>3 DEF ShapeOK
  <2>. QED
    BY <1>2, <2>2, <2>6, <2>7 DEF Capture, ShapeOK
<1>3. CASE BeginClose \/ PutPill \/ GiveUp
  BY <1>3, <1>u, NodeShapes DEF BeginClose, PutPill, GiveUp, AtClose, NodeStates, ShapeOK
<1>4. CASE CountRetained
  <2>1. Up
    BY <1>4 DEF CountRetained, Up
  <2>. QED
    BY <1>4, <1>u, <2>1, CountIsNat, NodeShapes DEF CountRetained, ShapeOK
<1>5. CASE Dispose
  <2>1. Up
    BY <1>5 DEF Dispose, Up
  <2>2. DisposedJournal \in SUBSET Steps
    BY <2>1 DEF DisposedJournal
  <2>3. spool' \in [Sids -> Journals]
    BY <1>5, <1>u, <2>2 DEF Dispose, Journals
  <2>. QED
    BY <1>5, <1>u, <2>3, NodeShapes DEF Dispose, ShapeOK, NodeStates
<1>6. CASE CloseSession
  <2>1. Up
    BY <1>6 DEF CloseSession, Up
  <2>. QED
    BY <1>6, <1>u, <2>1, LeftRpcs, NodeShapes DEF CloseSession, ShapeOK, NodeStates
<1>7. CASE Crash
  <2>1. spool' \in [Sids -> Journals]
    BY <1>7, <1>u DEF Crash, Journals
  <2>. QED
    BY <1>7, <1>u, <2>1, LeftRpcs, NodeShapes DEF Crash, ShapeOK
<1>8. CASE Ship
  <2>1. Up /\ PeekBatch(spool[node.sid], BatchMax) \in SUBSET Steps
    BY <1>8 DEF Ship, PeekBatch, Pending, Prefixes
  <2>. QED
    BY <1>8, <2>1 DEF Ship, Shippers, ShapeOK
<1>9. CASE HandleTicks
  <2>1. AnswerTo(node.sid, shipper.batch) \in SUBSET Steps /\ shipper.batch \in SUBSET Steps
    BY <1>u, AnswerIsSteps DEF Shippers
  <2>2. shipper' \in Shippers
    BY <1>9, <1>u, <2>1 DEF HandleTicks, Shippers
  <2>. QED
    BY <1>9, <1>s, <2>1, <2>2 DEF HandleTicks, ShapeOK
<1>10. CASE GetReply
  <2>1. Up /\ shipper.accepted \in SUBSET Steps
    BY <1>10, <1>u DEF GetReply, Prefixes, Shippers
  <2>2. node' \in Nodes /\ shipper' \in Shippers
    BY <1>10, <1>u, <2>1, CountIsNat, NodeShapes DEF GetReply, NewlySent
  <2>3. spool' \in [Sids -> Journals]
    BY <1>10, <1>u, <2>1, JournalShapes DEF GetReply
  <2>4. acked' \subseteq Sids \X Steps
    BY <1>10, <2>1 DEF GetReply, ShapeOK
  <2>. QED
    BY <1>10, <2>2, <2>3, <2>4 DEF GetReply, ShapeOK
<1>11. CASE RpcFails
  <2>1. Up
    BY <1>11 DEF RpcFails, Prefixes
  <2>2. failures' \in 0 .. MaxFailures
    BY <1>11, RecordingAssumption DEF RpcFails, ShapeOK
  <2>. QED
    BY <1>11, <1>u, <2>1, <2>2, LeftRpcs, NodeShapes DEF RpcFails, ShapeOK
<1>12. CASE ShipperExits
  BY <1>12, <1>u, NodeShapes DEF ShipperExits, ShapeOK
<1>13. ASSUME NEW m \in delayed, HandleDelayed(m) PROVE ShapeOK'
  BY <1>13, <1>s DEF HandleDelayed, ShapeOK
<1>14. ASSUME NEW s \in closes, HandleClose(s) PROVE ShapeOK'
  <2>1. recorders' \in [Sids -> Recorders]
    BY <1>14, <1>u, RecorderShapes DEF HandleClose
  <2>. QED
    BY <1>14, <2>1 DEF HandleClose, ShapeOK
<1>15. ASSUME NEW s \in sessions, IdleGc(s) PROVE ShapeOK'
  <2>1. recorders' \in [Sids -> Recorders]
    BY <1>15, <1>u, RecorderShapes DEF IdleGc, Collect
  <2>. QED
    BY <1>15, <2>1 DEF IdleGc, ShapeOK
<1>16. ASSUME NEW r \in Sids, WriteRow(r) PROVE ShapeOK'
  <2>1. PICK t \in recorders[r].queue :
            \/ ChangeRecorder(r, Write(recorders[r], t))
            \/ ChangeRecorder(r, FailWrite(recorders[r], t))
    BY <1>16 DEF WriteRow
  <2>2. t \in Steps
    BY <1>u DEF Recorders
  <2>. QED
    BY <1>r, <1>u, <2>1, <2>2, RecorderShapes
<1>17. ASSUME NEW r \in Sids, Build(r) PROVE ShapeOK'
  <2>1. PICK result \in BuildResults(recorders[r]) :
            ChangeRecorder(r, [recorders[r] EXCEPT !.state = result])
    BY <1>17 DEF Build
  <2>2. result \in RecorderStates
    BY DEF BuildResults, RecorderStates, Ends
  <2>3. [recorders[r] EXCEPT !.state = result] \in Recorders
    BY <1>u, <2>2 DEF Recorders
  <2>. QED
    BY <1>r, <2>1, <2>3
<1>18. CASE UNCHANGED vars
  BY <1>18 DEF vars, ShapeOK
<1>. QED
  BY <1>1, <1>2, <1>3, <1>4, <1>5, <1>6, <1>7, <1>8, <1>9, <1>10, <1>11, <1>12, <1>13,
     <1>14, <1>15, <1>16, <1>17, <1>18 DEF Next, NodeNext, ShipperNext, BoxNext

-----------------------------------------------------------------------------

(* What one step may do to one recorder.                                    *)
RecorderStep(rec, new) ==
    \/ new = rec
    \/ \E got \in SUBSET Steps :
          new = Stage(rec, got) /\ (got # {} => rec.state = "recording")
    \/ rec.state = "recording" /\ new = Close(rec)
    \/ \E t \in rec.queue : new = Write(rec, t) \/ new = FailWrite(rec, t)
    \/ Drained(rec) /\ \E state \in Ends : new = [rec EXCEPT !.state = state]

Built(rec, new) == rec.state = "none" /\ new = NewRecorder

LEMMA EachRecorder ==
    ASSUME Inv, [Next]_vars, NEW r \in Sids
    PROVE  \/ RecorderStep(recorders[r], recorders'[r])
           \/ OpenSession /\ Built(recorders[r], recorders'[r])
<1> USE InUse DEF Inv
<1>u. recorders \in [Sids -> Recorders] /\ node \in Nodes /\ shipper \in Shippers
  BY DEF ShapeOK
<1>s. ASSUME NEW s, NEW batch \in SUBSET Steps, StageOnBox(s, batch)
      PROVE  RecorderStep(recorders[r], recorders'[r])
  <2>1. CASE s \in sessions /\ recorderOf[s] = r
    <3>1. recorders'[r] = Stage(recorders[r], AnswerTo(s, batch))
      BY <1>s, <1>u, <2>1 DEF StageOnBox
    <3>2. AnswerTo(s, batch) \in SUBSET Steps
      BY AnswerIsSteps
    <3>3. recorders[r].state = "recording"
      BY <2>1 DEF OneSession
    <3>. QED
      BY <3>1, <3>2, <3>3 DEF RecorderStep
  <2>2. CASE ~(s \in sessions /\ recorderOf[s] = r)
    BY <1>s, <1>u, <2>2 DEF StageOnBox, RecorderStep
  <2>. QED
    BY <2>1, <2>2
<1>c. ASSUME NEW s \in sessions, recorders' = [recorders EXCEPT ![recorderOf[s]] = Close(@)]
      PROVE  RecorderStep(recorders[r], recorders'[r])
  BY <1>c, <1>u DEF RecorderStep, OneSession
<1>1. CASE OpenSession
  <2>1. recorders[node.sid + 1].state = "none" /\ node.sid + 1 \in Sids
    BY <1>1, <1>u DEF OpenSession, Numbered, Nodes, Sids, NoSid
  <2>. QED
    BY <1>1, <1>u, <2>1 DEF OpenSession, BoxOpens, RecorderStep, Built
<1>2. CASE Capture \/ BeginClose \/ PutPill \/ GiveUp \/ CountRetained \/ Dispose \/ CloseSession \/ Crash
           \/ Ship \/ GetReply \/ RpcFails \/ ShipperExits \/ UNCHANGED vars
  <2>1. recorders' = recorders
    BY <1>2 DEF Capture, BeginClose, PutPill, GiveUp, AtClose, CountRetained, Dispose, CloseSession,
       Crash, Ship, GetReply, RpcFails, ShipperExits, vars, boxVars
  <2>. QED
    BY <2>1 DEF RecorderStep
<1>3. CASE HandleTicks
  BY <1>3, <1>s, <1>u DEF HandleTicks, Shippers
<1>4. ASSUME NEW m \in delayed, HandleDelayed(m) PROVE RecorderStep(recorders[r], recorders'[r])
  BY <1>4, <1>s DEF HandleDelayed, ShapeOK
<1>5. ASSUME NEW s \in closes, HandleClose(s) PROVE RecorderStep(recorders[r], recorders'[r])
  <2>1. CASE s \in sessions
    BY <1>5, <1>c, <2>1 DEF HandleClose
  <2>2. CASE s \notin sessions
    BY <1>5, <2>2 DEF HandleClose, RecorderStep
  <2>. QED
    BY <2>1, <2>2
<1>6. ASSUME NEW s \in sessions, IdleGc(s) PROVE RecorderStep(recorders[r], recorders'[r])
  BY <1>6, <1>c DEF IdleGc, Collect
<1>7. ASSUME NEW q \in Sids, WriteRow(q) PROVE RecorderStep(recorders[r], recorders'[r])
  BY <1>7, <1>u DEF WriteRow, ChangeRecorder, RecorderStep
<1>8. ASSUME NEW q \in Sids, Build(q) PROVE RecorderStep(recorders[r], recorders'[r])
  <2>1. \A result \in BuildResults(recorders[q]) : result \in Ends
    BY DEF BuildResults, Ends
  <2>. QED
    BY <1>8, <1>u, <2>1 DEF Build, ChangeRecorder, RecorderStep
<1>. QED
  BY <1>1, <1>2, <1>3, <1>4, <1>5, <1>6, <1>7, <1>8 DEF Next, NodeNext, ShipperNext, BoxNext

(* A recorder never forgets a step, and it stays when it was built.         *)
LEMMA SeenGrows ==
    ASSUME Inv, [Next]_vars, NEW r \in Sids
    PROVE  /\ recorders[r].seen \subseteq recorders'[r].seen
           /\ recorders'[r].state = "recording" =>
                 \/ recorders[r].state = "recording"
                 \/ recorders[r].state = "none" /\ recorders'[r] = NewRecorder
<1>1. RecorderStep(recorders[r], recorders'[r]) \/ Built(recorders[r], recorders'[r])
  BY EachRecorder
<1>2. recorders[r] \in Recorders /\ (recorders[r].state = "none" => recorders[r].seen = {})
  BY DEF Inv, ShapeOK, Staged
<1>. QED
  BY <1>1, <1>2 DEF RecorderStep, Built, Recorders, Stage, Close, Write, FailWrite, Ends

(* One recorder's part of Staged, kept by each of its steps.                *)
Accounted(rec) ==
    /\ rec.seen = rec.queue \cup rec.rows \cup rec.failed
    /\ rec.queue \cap (rec.rows \cup rec.failed) = {}
    /\ rec.rows \cap rec.failed = {}
    /\ Ended(rec) => rec.queue = {}
    /\ rec.state = "none" => rec.seen = {}

LEMMA StepAccounted ==
    ASSUME NEW old \in Recorders, NEW rec, Accounted(old),
           RecorderStep(old, rec) \/ Built(old, rec)
    PROVE  Accounted(rec)
<1> USE DEF Accounted, Ended, Ends
<1>1. CASE rec = old
  BY <1>1
<1>2. CASE \E got \in SUBSET Steps : rec = Stage(old, got) /\ (got # {} => old.state = "recording")
  BY <1>2 DEF Stage, Recorders
<1>3. CASE old.state = "recording" /\ rec = Close(old)
  BY <1>3 DEF Close, Recorders
<1>4. CASE \E t \in old.queue : rec = Write(old, t) \/ rec = FailWrite(old, t)
  BY <1>4 DEF Write, FailWrite, Recorders
<1>5. CASE Drained(old) /\ \E state \in Ends : rec = [old EXCEPT !.state = state]
  BY <1>5 DEF Drained, Recorders
<1>6. CASE Built(old, rec)
  BY <1>6 DEF Built, NewRecorder
<1>. QED
  BY <1>1, <1>2, <1>3, <1>4, <1>5, <1>6 DEF RecorderStep

LEMMA NextStaged == Inv /\ [Next]_vars => Staged'
<1> SUFFICES ASSUME Inv, [Next]_vars, NEW r \in Sids PROVE Accounted(recorders'[r])
  BY Zenon DEF Staged, Accounted, Ended
<1>1. recorders[r] \in Recorders /\ Accounted(recorders[r])
  BY DEF Inv, ShapeOK, Staged, Accounted
<1>. QED
  BY <1>1, EachRecorder, StepAccounted

(* Only OpenSession makes a session; it numbers it one above the last.      *)
LEMMA NextNumbered == Inv /\ [Next]_vars => Numbered'
<1> SUFFICES ASSUME Inv, [Next]_vars PROVE Numbered'
  OBVIOUS
<1> USE SidsAreNat DEF boxVars
<1>u. /\ node \in Nodes /\ sessions \subseteq Sids /\ spool \in [Sids -> Journals]
      /\ recorderOf \in [Sids -> Sids \cup {NoSid}] /\ recorders \in [Sids -> Recorders]
      /\ Numbered
  BY DEF Inv, ShapeOK
<1>n. node.sid \in Nat
  <2>1. node.sid \in Sids \cup {NoSid}
    BY <1>u DEF Nodes
  <2>. QED
    BY <2>1
<1>1. CASE OpenSession
  <2> DEFINE s == node.sid + 1
  <2>1. s \in Sids /\ BoxOpens(s) /\ node'.sid = s /\ spool' = spool /\ acked' = acked
    BY <1>1 DEF OpenSession, NewNode
  <2>2. \A k \in Nat : k =< node.sid => k =< s
    BY <1>n
  <2>3. Inherited # NoSid => Inherited \in Sids /\ Inherited =< node.sid
    BY <1>u DEF Inherited, Numbered
  <2>4. recorderOf'[s] = IF Inherited = NoSid THEN s ELSE Inherited
    BY <1>u, <2>1 DEF BoxOpens
  <2>5. \A q \in Sids : /\ recorderOf'[q] =< s
                        /\ recorderOf'[q] # NoSid <=> q =< s
    <3> SUFFICES ASSUME NEW q \in Sids
                 PROVE  recorderOf'[q] =< s /\ (recorderOf'[q] # NoSid <=> q =< s)
      OBVIOUS
    <3>1. CASE q = s
      <4>1. s =< s
        BY <1>n
      <4>2. Inherited # NoSid => Inherited =< s
        <5>1. Inherited # NoSid => Inherited \in Nat
          BY <2>3, SidsAreNat
        <5>. QED
          BY <2>2, <2>3, <5>1
      <4>. QED
        BY <2>1, <2>3, <2>4, <3>1, <4>1, <4>2
    <3>2. CASE q # s
      <4>1. recorderOf'[q] = recorderOf[q]
        BY <1>u, <2>1, <3>2 DEF BoxOpens
      <4>2. q =< s <=> q =< node.sid
        <5>1. q \in Nat
          OBVIOUS
        <5>. QED
          BY <1>n, <3>2, <5>1
      <4>3. recorderOf[q] \in Nat
        BY <1>u
      <4>. QED
        BY <1>u, <2>2, <4>1, <4>2, <4>3 DEF Numbered
    <3>. QED
      BY <3>1, <3>2
  <2>6. \A q \in Sids : recorders'[q].state # "none" => q =< s
    BY <1>u, <2>1, <2>2 DEF BoxOpens, Numbered, Inv, ShapeOK
  <2>7. \A q \in sessions' : q =< s
    BY <1>u, <2>1, <2>2 DEF BoxOpens, Retired, Numbered
  <2>8. \A t \in acked : t[1] =< s
    BY <1>u, <2>2 DEF Numbered, Inv, ShapeOK
  <2>9. \A q \in Sids : spool[q].pending # {} => q =< s
    BY <1>u, <2>2 DEF Numbered
  <2>10. s # NoSid
    BY <1>n
  <2> HIDE DEF s
  <2>. QED
    BY <2>1, <2>5, <2>6, <2>7, <2>8, <2>9, <2>10 DEF Numbered
<1>r. ~OpenSession => \A r \in Sids : recorders'[r].state # "none" => recorders[r].state # "none"
  <2> SUFFICES ASSUME ~OpenSession, NEW r \in Sids, recorders'[r].state # "none"
               PROVE  recorders[r].state # "none"
    OBVIOUS
  <2>1. RecorderStep(recorders[r], recorders'[r]) /\ recorders[r] \in Recorders
    BY <1>u, EachRecorder
  <2>. QED
    BY <2>1 DEF RecorderStep, Recorders, Stage, Close, Write, FailWrite, Drained
<1>2. CASE ~OpenSession
  <2>1. CASE HandleTicks \/ (\E m \in delayed : HandleDelayed(m)) \/ (\E q \in closes : HandleClose(q))
             \/ (\E q \in sessions : IdleGc(q)) \/ (\E r \in Sids : WriteRow(r) \/ Build(r))
    <3>1. /\ node' = node /\ recorderOf' = recorderOf /\ sessions' \subseteq sessions
          /\ spool' = spool /\ acked' = acked
      BY <2>1 DEF HandleTicks, HandleDelayed, HandleClose, IdleGc, WriteRow, Build, ChangeRecorder
    <3>2. \A r \in Sids : recorders'[r].state # "none" => r =< node.sid
      BY <1>2, <1>u, <1>r DEF Numbered
    <3>. QED
      BY <1>u, <3>1, <3>2 DEF Numbered, Up
  <2>2. CASE Capture \/ Dispose \/ GetReply
    <3>1. /\ node'.sid = node.sid /\ recorderOf' = recorderOf /\ sessions' = sessions
          /\ recorders' = recorders /\ Up
      BY <1>u, <2>2 DEF Capture, CapturingPcs, Dispose, GetReply, Nodes, Up, Inv, Prefixes
    <3>2. \A s \in Sids : s # node.sid => spool'[s] = spool[s]
      BY <1>u, <2>2 DEF Capture, Dispose, GetReply
    <3>3. \A t \in acked' : t[1] =< node.sid
      BY <1>n, <1>u, <2>2 DEF Capture, Dispose, GetReply, Numbered
    <3>4. \A s \in Sids : spool'[s].pending # {} => s =< node.sid
      BY <1>n, <1>u, <3>2 DEF Numbered
    <3>. QED
      BY <1>u, <3>1, <3>3, <3>4 DEF Numbered
  <2>3. CASE BeginClose \/ PutPill \/ GiveUp \/ CountRetained \/ CloseSession \/ Ship \/ RpcFails
             \/ ShipperExits \/ UNCHANGED vars
    <3>1. /\ node'.sid = node.sid /\ recorderOf' = recorderOf /\ sessions' = sessions
          /\ recorders' = recorders /\ spool' = spool /\ acked' = acked /\ (Up' => Up)
      BY <1>u, <2>3 DEF BeginClose, PutPill, GiveUp, AtClose, CountRetained, CloseSession, Ship,
         RpcFails, ShipperExits, vars, Nodes, Up
    <3>. QED
      BY <1>u, <3>1 DEF Numbered
  <2>4. CASE Crash
    <3>1. /\ node'.sid = node.sid /\ recorderOf' = recorderOf /\ sessions' = sessions
          /\ recorders' = recorders /\ acked' = acked /\ Up
      BY <2>4 DEF Crash, NewNode
    <3>2. \A s \in Sids : spool'[s].pending = spool[s].pending
      BY <1>u, <2>4 DEF Crash, Journals
    <3>. QED
      BY <1>u, <3>1, <3>2 DEF Numbered
  <2>. QED
    BY <1>2, <2>1, <2>2, <2>3, <2>4 DEF Next, NodeNext, ShipperNext, BoxNext
<1>. QED
  BY <1>1, <1>2

(* Opening closes the episode's old session and takes over its recorder;    *)
(* every other step leaves the index alone or ends the session.             *)
LEMMA NextOneSession == Inv /\ [Next]_vars => OneSession'
<1> SUFFICES ASSUME Inv, [Next]_vars PROVE OneSession'
  OBVIOUS
<1> USE SidsAreNat DEF boxVars
<1>u. /\ node \in Nodes /\ sessions \subseteq Sids /\ shipper \in Shippers
      /\ recorderOf \in [Sids -> Sids \cup {NoSid}] /\ recorders \in [Sids -> Recorders]
      /\ delayed \subseteq [sid : Sids, batch : SUBSET Steps]
      /\ OneSession /\ \A s \in sessions : recorderOf[s] \in Sids
  BY InUse DEF Inv, ShapeOK
<1>1. CASE OpenSession
  <2> DEFINE s == node.sid + 1
  <2>1. s \in Sids /\ BoxOpens(s) /\ recorders[s].state = "none"
    <3>1. node.sid \in Nat
      BY <1>u DEF Nodes
    <3>. QED
      BY <1>1, <1>u, <3>1 DEF OpenSession, Numbered, Inv
  <2> HIDE DEF s
  <2>2. sessions' = {s} /\ byEpisode' = s
    BY <1>u, <2>1 DEF BoxOpens, Retired, OneSession
  <2>3. recorders'[recorderOf'[s]].state = "recording"
    BY <1>u, <2>1 DEF BoxOpens, Inherited, Reusable, NewRecorder
  <2>4. ASSUME NEW r \in Sids, recorders'[r].state = "recording" PROVE recorderOf'[s] = r
    <3>1. CASE r = s /\ Inherited = NoSid
      BY <1>u, <2>1, <3>1 DEF BoxOpens
    <3>2. CASE ~(r = s /\ Inherited = NoSid)
      <4>1. recorders[r].state = "recording"
        BY <1>u, <2>1, <2>4, <3>2 DEF BoxOpens
      <4>2. byEpisode \in sessions /\ recorderOf[byEpisode] = r
        BY <1>u, <4>1 DEF OneSession
      <4>3. Inherited = r
        BY <4>1, <4>2 DEF Inherited, Reusable
      <4>. QED
        BY <1>u, <2>1, <4>3 DEF BoxOpens
    <3>. QED
      BY <3>1, <3>2
  <2>. QED
    BY <2>2, <2>3, <2>4 DEF OneSession
<1>r. ~OpenSession => \A r \in Sids : recorders'[r].state = "recording" => recorders[r].state = "recording"
  <2> SUFFICES ASSUME ~OpenSession, NEW r \in Sids, recorders'[r].state = "recording"
               PROVE  recorders[r].state = "recording"
    OBVIOUS
  <2>1. RecorderStep(recorders[r], recorders'[r]) /\ recorders[r] \in Recorders
    BY <1>u, EachRecorder
  <2>. QED
    BY <2>1 DEF RecorderStep, Recorders, Stage, Close, Write, FailWrite, Drained, Ends
(* A step that ends a session.                                              *)
<1>e. ASSUME NEW s \in sessions, ~OpenSession, sessions' = sessions \ {s}, recorderOf' = recorderOf,
             recorders'[recorderOf[s]] = Close(recorders[recorderOf[s]])
      PROVE  OneSession'
  <2>1. (\A q \in sessions : q = s) /\ sessions' = {}
    <3>1. \A q \in sessions : q = byEpisode
      BY <1>u DEF OneSession
    <3>. QED
      BY <1>e, <3>1
  <2>2. ASSUME NEW r \in Sids, recorders'[r].state = "recording" PROVE FALSE
    <3>1. recorders[r].state = "recording"
      BY <1>e, <1>r, <2>2
    <3>2. recorderOf[s] = r
      BY <1>u, <2>1, <3>1 DEF OneSession
    <3>. QED
      BY <1>e, <1>u, <2>2, <3>2 DEF Close, Recorders
  <2>. QED
    BY <2>1, <2>2 DEF OneSession
(* A step that opens and ends none.                                         *)
<1>k. ASSUME ~OpenSession, sessions' = sessions, byEpisode' = byEpisode, recorderOf' = recorderOf,
             \A r \in Sids : recorders[r].state = "recording" => recorders'[r].state = "recording"
      PROVE  OneSession'
  BY <1>k, <1>r, <1>u DEF OneSession
<1>2. CASE ~OpenSession /\ (Capture \/ BeginClose \/ PutPill \/ GiveUp \/ CountRetained \/ Dispose
           \/ CloseSession \/ Crash \/ Ship \/ GetReply \/ RpcFails \/ ShipperExits \/ UNCHANGED vars)
  <2>1. UNCHANGED boxVars
    BY <1>2 DEF Capture, BeginClose, PutPill, GiveUp, AtClose, CountRetained, Dispose, CloseSession,
       Crash, Ship, GetReply, RpcFails, ShipperExits, vars, boxVars
  <2>. QED
    BY <1>2, <1>k, <2>1
<1>s. ASSUME NEW s, NEW batch \in SUBSET Steps, StageOnBox(s, batch), NEW r \in Sids
      PROVE  recorders'[r].state = recorders[r].state
  <2>1. CASE s \in sessions
    <3>1. recorders' = [recorders EXCEPT ![recorderOf[s]] =
                            Stage(recorders[recorderOf[s]], AnswerTo(s, batch))]
      BY <1>s, <2>1 DEF StageOnBox
    <3>. QED
      BY <1>u, <2>1, <3>1 DEF Stage, Recorders
  <2>. QED
    BY <1>s, <2>1 DEF StageOnBox
<1>3. CASE ~OpenSession /\ HandleTicks
  BY <1>3, <1>k, <1>s, <1>u DEF HandleTicks, Shippers
<1>4. ASSUME ~OpenSession, NEW m \in delayed, HandleDelayed(m) PROVE OneSession'
  BY <1>4, <1>k, <1>s, <1>u DEF HandleDelayed
<1>5. ASSUME ~OpenSession, NEW s \in closes, HandleClose(s) PROVE OneSession'
  <2>1. CASE s \in sessions
    BY <1>5, <1>e, <1>u, <2>1 DEF HandleClose
  <2>2. CASE s \notin sessions
    <3>1. sessions' = sessions /\ UNCHANGED <<recorders, recorderOf>>
      BY <1>5, <2>2 DEF HandleClose
    <3>2. \A q \in sessions : q = byEpisode'
      BY <1>5, <1>u, <2>2 DEF HandleClose, OneSession
    <3>. QED
      BY <1>u, <3>1, <3>2 DEF OneSession
  <2>. QED
    BY <2>1, <2>2
<1>6. ASSUME ~OpenSession, NEW s \in sessions, IdleGc(s) PROVE OneSession'
  BY <1>6, <1>e, <1>u DEF IdleGc, Collect
<1>7. ASSUME ~OpenSession, NEW q \in Sids, WriteRow(q) PROVE OneSession'
  <2>1. ASSUME NEW r \in Sids PROVE recorders'[r].state = recorders[r].state
    <3>1. \A t : /\ Write(recorders[q], t).state = recorders[q].state
                 /\ FailWrite(recorders[q], t).state = recorders[q].state
      BY <1>u DEF Write, FailWrite, Recorders
    <3>. QED
      BY <1>7, <1>u, <3>1 DEF WriteRow, ChangeRecorder
  <2>. QED
    BY <1>7, <1>k, <2>1 DEF WriteRow, ChangeRecorder
<1>8. ASSUME ~OpenSession, NEW q \in Sids, Build(q) PROVE OneSession'
  <2>1. \A r \in Sids : recorders[r].state = "recording" => recorders'[r].state = "recording"
    BY <1>8, <1>u DEF Build, ChangeRecorder, Drained
  <2>. QED
    BY <1>8, <1>k, <2>1 DEF Build, ChangeRecorder
<1>. QED
  BY <1>1, <1>2, <1>3, <1>4, <1>5, <1>6, <1>7, <1>8 DEF Next, NodeNext, ShipperNext, BoxNext

(* The journal and the batch in flight: a batch is cut from the front, the  *)
(* answer is a prefix, and neither outlives the sender thread.              *)
LEMMA NextPrefixes == Inv /\ [Next]_vars => Prefixes'
<1> SUFFICES ASSUME Inv, [Next]_vars PROVE Prefixes'
  OBVIOUS
<1> USE InUse DEF boxVars, Inv
<1>u. /\ node \in Nodes /\ shipper \in Shippers /\ spool \in [Sids -> Journals]
      /\ recorders \in [Sids -> Recorders] /\ Prefixes
  BY DEF ShapeOK
<1>g. /\ \A r \in Sids : recorders[r].seen \subseteq recorders'[r].seen
      /\ Up => recorderOf[node.sid] \in Sids
  BY SeenGrows
(* A step that leaves the node's step, session and call alone.              *)
<1>k. ASSUME Up' => Up, node'.sid = node.sid, node'.step = node.step, recorderOf' = recorderOf,
             shipper' = shipper, Up' => Pending' \subseteq Pending, ~Up' => shipper.pc = "gone"
      PROVE  Prefixes'
  <2>1. shipper.pc = "replied" => Up
    BY <1>u DEF Prefixes
  <2>2. shipper.pc = "replied" => shipper.accepted \subseteq recorders'[recorderOf[node.sid]].seen
    BY <1>u, <1>g, <2>1 DEF Prefixes
  <2>. QED
    BY <1>k, <1>u, <2>2 DEF Prefixes
(* A step after which no call is open.                                      *)
<1>i. ASSUME Up' => Up, node'.sid = node.sid, node'.step = node.step,
             shipper' \in {NoRpc("gone"), NoRpc("idle")}, Up' => Pending' \subseteq Pending,
             ~Up' => shipper' = NoRpc("gone")
      PROVE  Prefixes'
  <2>1. shipper'.batch = {} /\ shipper'.pc \in {"gone", "idle"} /\ (~Up' => shipper'.pc = "gone")
    BY <1>i DEF NoRpc
  <2>. QED
    BY <1>i, <1>u, <2>1 DEF Prefixes
<1>1. CASE OpenSession
  <2> DEFINE s == node.sid + 1
  <2>1. s \in Sids /\ node'.sid = s /\ node'.step = 0 /\ spool' = spool
    BY <1>1 DEF OpenSession, NewNode
  <2>2. spool[s].pending = {}
    <3>1. node.sid \in Nat
      BY <1>u, SidsAreNat DEF Nodes
    <3>. QED
      BY <2>1, <3>1 DEF Numbered
  <2>3. shipper'.batch = {} /\ shipper'.pc \in {"gone", "idle"} /\ (~Up' => shipper'.pc = "gone")
    BY <1>1 DEF OpenSession, NoRpc, NewNode, Up
  <2>4. Pending' = {}
    BY <2>1, <2>2 DEF Pending
  <2>. QED
    BY <2>3, <2>4 DEF Prefixes
<1>2. CASE Capture
  <2>1. Up /\ Up' /\ node'.sid = node.sid /\ node'.step = node.step + 1 /\ shipper' = shipper
        /\ recorderOf' = recorderOf /\ recorders' = recorders
    BY <1>2, <1>u DEF Capture, CapturingPcs, Up, Nodes
  <2>2. Pending' \subseteq Pending \cup {node.step}
    <3>1. PICK lowDisk \in BOOLEAN, diskError \in BOOLEAN :
              LET checked == CheckBlocked(spool[node.sid], lowDisk)
                  recorded == ~checked.blocked /\ ~diskError
              IN  spool' = [spool EXCEPT ![node.sid] =
                               IF recorded THEN Append(checked, node.step) ELSE checked]
      BY <1>2 DEF Capture
    <3>2. /\ CheckBlocked(spool[node.sid], lowDisk) \in Journals
          /\ CheckBlocked(spool[node.sid], lowDisk).pending = Pending
      BY <2>1, JournalShapes DEF Pending
    <3>3. Append(CheckBlocked(spool[node.sid], lowDisk), node.step).pending = Pending \cup {node.step}
      BY <3>2 DEF Append, Journals
    <3>. QED
      BY <1>u, <2>1, <3>1, <3>2, <3>3 DEF Pending
  <2>3. node.step \in Nat /\ Pending \subseteq Nat /\ shipper.batch \subseteq Nat
    <3>1. node.step \in 0 .. MaxSteps /\ shipper.batch \in SUBSET Steps /\ Pending \in SUBSET Steps
      BY <1>u, <2>1 DEF Nodes, Shippers
    <3>2. node.step \in Nat
      BY <3>1, RecordingAssumption
    <3>. QED
      BY <3>1, <3>2, StepsAreFinite
  <2>4. \A t \in Pending' \cup shipper.batch : t < node.step + 1
    BY <1>u, <2>1, <2>2, <2>3 DEF Prefixes
  <2>5. \A b \in shipper.batch, t \in Pending' : t =< b => t \in shipper.batch
    BY <1>u, <2>1, <2>2, <2>3 DEF Prefixes
  <2>. QED
    BY <1>u, <2>1, <2>4, <2>5 DEF Prefixes
<1>3. CASE BeginClose \/ PutPill \/ GiveUp \/ CountRetained
  <2>1. Up /\ node'.sid = node.sid /\ node'.step = node.step /\ shipper' = shipper
        /\ recorderOf' = recorderOf /\ spool' = spool /\ Up'
    BY <1>3, <1>u DEF BeginClose, PutPill, GiveUp, AtClose, CountRetained, Nodes, Up
  <2>. QED
    BY <1>k, <2>1 DEF Pending
<1>4. CASE Dispose
  <2>1. Up /\ node'.sid = node.sid /\ node'.step = node.step /\ shipper' = shipper
        /\ recorderOf' = recorderOf /\ Up' /\ Pending' = DisposedJournal
    BY <1>4, <1>u DEF Dispose, Nodes, Up, Pending, Journals
  <2>. QED
    BY <1>k, <2>1 DEF DisposedJournal
<1>5. CASE CloseSession \/ Crash
  <2>1. node'.sid = node.sid /\ shipper' = NoRpc("gone") /\ ~Up'
    BY <1>5, <1>u DEF CloseSession, Crash, NewNode, Nodes, Up
  <2>. QED
    BY <2>1 DEF Prefixes, NoRpc
<1>6. CASE Ship
  <2>1. /\ Up /\ node' = node /\ spool' = spool /\ shipper'.pc = "rpc"
        /\ shipper'.batch = PeekBatch(spool[node.sid], BatchMax)
    BY <1>6, <1>u DEF Ship, Prefixes
  <2>2. shipper'.batch \subseteq Pending
    BY <2>1 DEF PeekBatch, Pending
  <2>3. ASSUME NEW b \in shipper'.batch, NEW t \in Pending, t =< b PROVE t \in shipper'.batch
    <3>1. Pending \in SUBSET Steps /\ b \in Pending
      BY <2>1, <2>2
    <3>2. {u \in Pending : u < t} \subseteq {u \in Pending : u < b}
      <4>1. \A u \in Pending : u < t => u < b
        <5>1. \A u \in Pending : u \in Nat
          BY <3>1, StepsAreFinite
        <5>. QED
          BY <2>3, <3>1, <5>1
      <4>. QED
        BY <4>1
    <3>3. /\ Cardinality({u \in Pending : u < t}) =< Cardinality({u \in Pending : u < b})
          /\ Cardinality({u \in Pending : u < t}) \in Nat
          /\ Cardinality({u \in Pending : u < b}) \in Nat
      <4>1. {u \in Pending : u < b} \subseteq Steps /\ {u \in Pending : u < t} \subseteq Steps
        BY <3>1
      <4>. QED
        BY <3>2, <4>1, StepsAreFinite, CountIsNat, FS_Subset
    <3>4. Cardinality({u \in Pending : u < b}) < BatchMax
      BY <2>1 DEF PeekBatch, Pending
    <3>5. Cardinality({u \in Pending : u < t}) < BatchMax
      BY <3>3, <3>4, RecordingAssumption
    <3>. QED
      BY <2>1, <3>5 DEF PeekBatch, Pending
  <2>. QED
    BY <1>u, <2>1, <2>2, <2>3 DEF Prefixes, Pending, Up
<1>7. CASE HandleTicks
  <2> DEFINE got == AnswerTo(node.sid, shipper.batch)
  <2>1. /\ Up /\ node' = node /\ spool' = spool /\ recorderOf' = recorderOf
        /\ shipper'.batch = shipper.batch /\ shipper'.accepted = got
        /\ StageOnBox(node.sid, shipper.batch)
    BY <1>7, <1>u DEF HandleTicks, Prefixes, Shippers
  <2>2. shipper.batch \in SUBSET Steps /\ got \in SUBSET shipper.batch
    BY <1>u, AnswerIsSteps DEF Shippers
  <2>3. \A a \in got, b \in shipper.batch : b =< a => b \in got
    BY <1>g, <2>1, <2>2, AcceptsAPrefix
  <2>4. got \subseteq recorders'[recorderOf[node.sid]].seen
    <3>1. CASE node.sid \in sessions
      <4>1. recorders'[recorderOf[node.sid]] = Stage(recorders[recorderOf[node.sid]], got)
        BY <1>u, <1>g, <2>1, <3>1 DEF StageOnBox
      <4>2. recorders[recorderOf[node.sid]] \in Recorders
        BY <1>g, <2>1
      <4>. QED
        BY <4>1, <4>2 DEF Stage, Recorders
    <3>2. CASE node.sid \notin sessions
      BY <3>2 DEF AnswerTo
    <3>. QED
      BY <3>1, <3>2
  <2> HIDE DEF got
  <2>. QED
    BY <1>u, <2>1, <2>2, <2>3, <2>4 DEF Prefixes, Pending, Up
<1>8. CASE GetReply
  <2>1. Up /\ Up' /\ node'.sid = node.sid /\ node'.step = node.step /\ shipper' = NoRpc("idle")
    BY <1>8, <1>u DEF GetReply, Nodes, Up, Prefixes
  <2>2. Pending' \subseteq Pending
    BY <1>8, <1>u, <2>1 DEF GetReply, Pending, Ack, Journals
  <2>. QED
    BY <1>i, <2>1, <2>2
<1>9. CASE RpcFails \/ ShipperExits
  <2>1. Up /\ node' = node /\ spool' = spool /\ shipper' \in {NoRpc("gone"), NoRpc("idle")}
    BY <1>9, <1>u DEF RpcFails, ShipperExits, Prefixes
  <2>. QED
    BY <1>i, <2>1 DEF Pending, Up
<1>10. CASE BoxNext /\ ~HandleTicks
  <2>1. UNCHANGED <<node, shipper, spool, recorderOf>>
    BY <1>10 DEF BoxNext, HandleDelayed, HandleClose, IdleGc, WriteRow, Build, ChangeRecorder
  <2>. QED
    BY <1>k, <1>u, <2>1 DEF Pending, Up, Prefixes
<1>11. CASE UNCHANGED vars
  <2>1. UNCHANGED <<node, shipper, spool, recorderOf>>
    BY <1>11 DEF vars
  <2>. QED
    BY <1>k, <1>u, <2>1 DEF Pending, Up, Prefixes
<1>. QED
  BY <1>1, <1>2, <1>3, <1>4, <1>5, <1>6, <1>7, <1>8, <1>9, <1>10, <1>11 DEF Next, NodeNext, ShipperNext, BoxNext

(* What the journal loses on an answer is of the accepted prefix, and so    *)
(* seen by the session's recorder.                                          *)
LEMMA AnsweredIsSeen ==
    ASSUME Inv, GetReply
    PROVE  /\ Up
           /\ spool' = [spool EXCEPT ![node.sid].pending = Pending']
           /\ acked' = acked \cup {<<node.sid, t>> : t \in Pending \ Pending'}
           /\ Pending \ Pending' \subseteq shipper.accepted
           /\ Pending \ Pending' \subseteq recorders[recorderOf[node.sid]].seen
<1>u. /\ spool \in [Sids -> Journals] /\ Prefixes /\ shipper \in Shippers
      /\ Up => node.sid \in Sids /\ Pending \in SUBSET Steps
      /\ node \in Nodes
  BY InUse DEF Inv, ShapeOK
<1>1. Up /\ shipper.pc = "replied" /\ node'.sid = node.sid
  BY <1>u DEF GetReply, Prefixes, Nodes
<1>2. /\ spool' = [spool EXCEPT ![node.sid] = Ack(spool[node.sid], shipper.batch, shipper.accepted)]
      /\ acked' = acked \cup
            {<<node.sid, t>> : t \in Pending \ Ack(spool[node.sid], shipper.batch, shipper.accepted).pending}
  BY DEF GetReply
<1>3. Pending' = Ack(spool[node.sid], shipper.batch, shipper.accepted).pending
  BY <1>u, <1>1, <1>2 DEF Pending
<1>4. Pending' = {t \in Pending : \A a \in shipper.accepted : a < t}
  BY <1>u, <1>1, <1>3 DEF Pending, Ack, Journals
<1>5. spool' = [spool EXCEPT ![node.sid].pending = Pending']
  BY <1>u, <1>1, <1>2, <1>4 DEF Pending, Ack
<1>6. ASSUME NEW t \in Pending \ Pending' PROVE t \in shipper.accepted
  <2>1. PICK a \in shipper.accepted : ~(a < t)
    BY <1>4, <1>6
  <2>2. a \in shipper.batch /\ a \in Nat /\ t \in Nat
    BY <1>u, <1>1, <1>6, StepsAreFinite DEF Prefixes, Shippers
  <2>3. t =< a
    BY <2>1, <2>2
  <2>4. t \in shipper.batch
    BY <1>u, <1>1, <1>6, <2>2, <2>3 DEF Prefixes
  <2>. QED
    BY <1>u, <1>1, <2>1, <2>3, <2>4 DEF Prefixes
<1>7. shipper.accepted \subseteq recorders[recorderOf[node.sid]].seen
  BY <1>u, <1>1 DEF Prefixes
<1>. QED
  BY <1>1, <1>2, <1>3, <1>5, <1>6, <1>7

(* A session keeps its recorder.                                            *)
LEMMA RecorderIsKept ==
    ASSUME Inv, [Next]_vars, NEW s \in Sids, s =< node.sid
    PROVE  recorderOf'[s] = recorderOf[s] /\ recorderOf[s] \in Sids
<1>u. recorderOf \in [Sids -> Sids \cup {NoSid}] /\ node.sid \in Nat /\ s \in Nat
  <2>1. recorderOf \in [Sids -> Sids \cup {NoSid}] /\ node.sid \in Sids \cup {NoSid}
    BY DEF Inv, ShapeOK, Nodes
  <2>. QED
    BY <2>1, SidsAreNat
<1>1. recorderOf[s] \in Sids
  BY <1>u DEF Inv, Numbered
<1>2. CASE OpenSession
  <2>1. s # node.sid + 1
    BY <1>u
  <2>. QED
    BY <1>u, <1>1, <1>2, <2>1 DEF OpenSession, BoxOpens
<1>3. CASE ~OpenSession
  <2>1. recorderOf' = recorderOf
    BY <1>3 DEF Next, NodeNext, ShipperNext, BoxNext, Capture, BeginClose, PutPill, GiveUp, AtClose,
       CountRetained, Dispose, CloseSession, Crash, Ship, GetReply, RpcFails, ShipperExits,
       HandleTicks, HandleDelayed, HandleClose, IdleGc, WriteRow, Build, ChangeRecorder, vars, boxVars
  <2>. QED
    BY <1>1, <2>1
<1>. QED
  BY <1>2, <1>3

LEMMA NextAckedIsSeen == Inv /\ [Next]_vars => AckedIsSeen'
<1> SUFFICES ASSUME Inv, [Next]_vars, NEW t \in acked'
             PROVE  t[2] \in recorders'[recorderOf'[t[1]]].seen
  BY DEF AckedIsSeen
<1>1. ASSUME NEW s \in Sids, s =< node.sid, NEW k \in recorders[recorderOf[s]].seen
      PROVE  k \in recorders'[recorderOf'[s]].seen
  <2>1. recorderOf'[s] = recorderOf[s] /\ recorderOf[s] \in Sids
    BY <1>1, RecorderIsKept
  <2>. QED
    BY <2>1, SeenGrows
<1>2. CASE t \in acked
  <2>1. t[1] \in Sids /\ t[1] =< node.sid /\ t[2] \in recorders[recorderOf[t[1]]].seen
    BY <1>2 DEF Inv, ShapeOK, Numbered, AckedIsSeen
  <2>. QED
    BY <1>1, <2>1
<1>3. CASE t \notin acked
  <2>1. GetReply
    BY <1>3 DEF Next, NodeNext, ShipperNext, BoxNext, OpenSession, Capture, BeginClose, PutPill, GiveUp,
       AtClose, CountRetained, Dispose, CloseSession, Crash, Ship, RpcFails, ShipperExits, HandleTicks,
       HandleDelayed, HandleClose, IdleGc, WriteRow, Build, ChangeRecorder, vars
  <2>2. PICK k \in Pending \ Pending' : t = <<node.sid, k>>
    BY <1>3, <2>1, AnsweredIsSeen
  <2>3. node.sid \in Sids /\ node.sid =< node.sid /\ k \in recorders[recorderOf[node.sid]].seen
    BY <2>1, AnsweredIsSeen, InUse, SidsAreNat DEF Inv
  <2>. QED
    BY <1>1, <2>2, <2>3
<1>. QED
  BY <1>2, <1>3

(* A step enters a recorder's memory when it is staged, and not otherwise.  *)
LEMMA NewIsStaged ==
    ASSUME Inv, [Next]_vars, NEW r \in Sids, NEW k \in recorders'[r].seen \ recorders[r].seen
    PROVE  \E s \in Sids : s =< node.sid /\ recorderOf[s] = r /\ <<s, k>> \in staged'
<1>u. /\ recorders \in [Sids -> Recorders] /\ sessions \subseteq Sids /\ shipper \in Shippers
      /\ delayed \subseteq [sid : Sids, batch : SUBSET Steps]
      /\ \A s \in sessions : s =< node.sid /\ recorderOf[s] \in Sids
  BY InUse DEF Inv, ShapeOK, Numbered
<1>s. ASSUME NEW s, NEW batch \in SUBSET Steps, StageOnBox(s, batch)
      PROVE  \E q \in Sids : q =< node.sid /\ recorderOf[q] = r /\ <<q, k>> \in staged'
  <2>1. CASE s \in sessions
    <3>1. /\ recorders' = [recorders EXCEPT ![recorderOf[s]] =
                              Stage(recorders[recorderOf[s]], AnswerTo(s, batch))]
          /\ staged' = staged \cup NewTicks(s, batch)
      BY <1>s, <2>1 DEF StageOnBox
    <3>2. recorderOf[s] = r
      BY <1>u, <2>1, <3>1
    <3>3. k \in AnswerTo(s, batch) \ recorders[r].seen
      BY <1>u, <3>1, <3>2 DEF Stage, Recorders
    <3>. QED
      BY <1>u, <2>1, <3>1, <3>2, <3>3 DEF NewTicks
  <2>2. CASE s \notin sessions
    BY <1>s, <2>2 DEF StageOnBox
  <2>. QED
    BY <2>1, <2>2
<1>1. CASE HandleTicks
  BY <1>1, <1>s, <1>u DEF HandleTicks, Shippers
<1>2. ASSUME NEW m \in delayed, HandleDelayed(m)
      PROVE  \E s \in Sids : s =< node.sid /\ recorderOf[s] = r /\ <<s, k>> \in staged'
  BY <1>2, <1>s, <1>u DEF HandleDelayed
<1>3. CASE OpenSession
  <2>1. recorders'[r] = recorders[r] \/ recorders'[r].seen = {}
    BY <1>3, <1>u DEF OpenSession, BoxOpens, NewRecorder
  <2>. QED
    BY <2>1
<1>4. ASSUME NEW s \in closes, HandleClose(s) PROVE FALSE
  <2>1. recorders'[r].seen = recorders[r].seen
    BY <1>4, <1>u DEF HandleClose, Close, Recorders
  <2>. QED
    BY <2>1
<1>5. ASSUME NEW s \in sessions, IdleGc(s) PROVE FALSE
  <2>1. recorders'[r].seen = recorders[r].seen
    BY <1>5, <1>u DEF IdleGc, Collect, Close, Recorders
  <2>. QED
    BY <2>1
<1>6. ASSUME NEW q \in Sids, WriteRow(q) PROVE FALSE
  <2>1. \A t : /\ Write(recorders[q], t).seen = recorders[q].seen
               /\ FailWrite(recorders[q], t).seen = recorders[q].seen
    BY <1>u DEF Write, FailWrite, Recorders
  <2>2. recorders'[r].seen = recorders[r].seen
    BY <1>6, <1>u, <2>1 DEF WriteRow, ChangeRecorder
  <2>. QED
    BY <2>2
<1>7. ASSUME NEW q \in Sids, Build(q) PROVE FALSE
  <2>1. recorders'[r].seen = recorders[r].seen
    BY <1>7, <1>u DEF Build, ChangeRecorder, Recorders
  <2>. QED
    BY <2>1
<1>8. CASE Capture \/ BeginClose \/ PutPill \/ GiveUp \/ CountRetained \/ Dispose \/ CloseSession \/ Crash
           \/ Ship \/ GetReply \/ RpcFails \/ ShipperExits \/ UNCHANGED vars
  <2>1. recorders' = recorders
    BY <1>8 DEF Capture, BeginClose, PutPill, GiveUp, AtClose, CountRetained, Dispose, CloseSession,
       Crash, Ship, GetReply, RpcFails, ShipperExits, vars, boxVars
  <2>. QED
    BY <2>1
<1>. QED
  BY <1>1, <1>2, <1>3, <1>4, <1>5, <1>6, <1>7, <1>8 DEF Next, NodeNext, ShipperNext, BoxNext

LEMMA StagedGrows == [Next]_vars => staged \subseteq staged'
BY DEF Next, NodeNext, ShipperNext, BoxNext, OpenSession, Capture, BeginClose, PutPill, GiveUp,
   AtClose, CountRetained, Dispose, CloseSession, Crash, Ship, GetReply, RpcFails, ShipperExits,
   HandleTicks, HandleDelayed, StageOnBox, HandleClose, IdleGc, WriteRow, Build, ChangeRecorder,
   vars, boxVars

LEMMA NextOrigins == Inv /\ Origins /\ [Next]_vars => Origins'
<1> SUFFICES ASSUME Inv, Origins, [Next]_vars PROVE Origins'
  OBVIOUS
<1>u. /\ recorderOf \in [Sids -> Sids \cup {NoSid}]
      /\ \A s \in Sids : recorderOf[s] # NoSid <=> s =< node.sid
      /\ \A t \in acked : t \in Sids \X Steps /\ t[1] =< node.sid
  BY DEF Inv, ShapeOK, Numbered
(* A session that staged a tick for a recorder still has it.                *)
<1>k. ASSUME NEW s \in Sids, s =< node.sid, NEW k, <<s, k>> \in staged
      PROVE  recorderOf'[s] = recorderOf[s] /\ <<s, k>> \in staged'
  BY <1>k, RecorderIsKept, StagedGrows
<1>1. ASSUME NEW r \in Sids, NEW k \in recorders'[r].seen
      PROVE  \E s \in Sids : recorderOf'[s] = r /\ <<s, k>> \in staged'
  <2>1. CASE k \in recorders[r].seen
    <3>1. PICK s \in Sids : recorderOf[s] = r /\ <<s, k>> \in staged
      BY <2>1 DEF Origins
    <3>2. s =< node.sid
      BY <1>u, <3>1, SidsAreNat
    <3>. QED
      BY <1>k, <3>1, <3>2
  <2>2. CASE k \notin recorders[r].seen
    <3>1. PICK s \in Sids : s =< node.sid /\ recorderOf[s] = r /\ <<s, k>> \in staged'
      BY <2>2, NewIsStaged
    <3>. QED
      BY <3>1, RecorderIsKept
  <2>. QED
    BY <2>1, <2>2
<1>2. ASSUME NEW t \in acked' PROVE t \in staged' \/ Collides(t)'
  <2>1. CASE t \in acked
    <3>1. CASE t \in staged
      BY <3>1, StagedGrows
    <3>2. CASE Collides(t)
      <4>1. PICK s \in Sids : s < t[1] /\ recorderOf[s] = recorderOf[t[1]] /\ <<s, t[2]>> \in staged
        BY <3>2 DEF Collides
      <4>2. t[1] \in Sids /\ t[1] =< node.sid
        BY <1>u, <2>1
      <4>3. s =< node.sid
        <5>1. s \in Nat /\ t[1] \in Nat /\ node.sid \in Nat
          BY <4>2, SidsAreNat DEF Inv, ShapeOK, Nodes
        <5>. QED
          BY <4>1, <4>2, <5>1
      <4>4. recorderOf'[t[1]] = recorderOf[t[1]] /\ recorderOf'[s] = recorderOf[s]
        BY <4>2, <4>3, RecorderIsKept
      <4>5. <<s, t[2]>> \in staged'
        BY <4>1, StagedGrows
      <4>. QED
        BY <4>1, <4>4, <4>5 DEF Collides
    <3>. QED
      BY <2>1, <3>1, <3>2 DEF Origins
  <2>2. CASE t \notin acked
    <3>1. GetReply
      BY <2>2 DEF Next, NodeNext, ShipperNext, BoxNext, OpenSession, Capture, BeginClose, PutPill, GiveUp,
         AtClose, CountRetained, Dispose, CloseSession, Crash, Ship, RpcFails, ShipperExits, HandleTicks,
         HandleDelayed, HandleClose, IdleGc, WriteRow, Build, ChangeRecorder, vars
    <3>2. PICK k \in recorders[recorderOf[node.sid]].seen : t = <<node.sid, k>>
      BY <2>2, <3>1, AnsweredIsSeen
    <3>3. node.sid \in Sids /\ recorderOf[node.sid] \in Sids /\ node.sid =< node.sid
      BY <3>1, AnsweredIsSeen, InUse, SidsAreNat DEF Inv
    <3>4. PICK s \in Sids : recorderOf[s] = recorderOf[node.sid] /\ <<s, k>> \in staged
      BY <3>2, <3>3 DEF Origins
    <3>5. s =< node.sid
      BY <1>u, <3>3, <3>4, SidsAreNat
    <3>6. s = node.sid \/ s < node.sid
      <4>1. s \in Nat /\ node.sid \in Nat
        BY <3>3, SidsAreNat
      <4>. QED
        BY <3>5, <4>1
    <3>7. /\ recorderOf'[s] = recorderOf[s] /\ recorderOf'[node.sid] = recorderOf[node.sid]
          /\ <<s, k>> \in staged'
      BY <3>3, <3>4, <3>5, RecorderIsKept, StagedGrows
    <3>. QED
      BY <3>2, <3>4, <3>6, <3>7 DEF Collides
  <2>. QED
    BY <2>1, <2>2
<1>. QED
  BY <1>1, <1>2 DEF Origins

LEMMA NextInv == Inv /\ [Next]_vars => Inv'
BY NextShape, NextNumbered, NextStaged, NextOneSession, NextPrefixes, NextAckedIsSeen DEF Inv

LEMMA InvHolds == Spec => []Inv
BY InitInv, NextInv, PTL DEF Spec

-----------------------------------------------------------------------------
(* A tick leaves the journal on an answer only.  This needs a control loop  *)
(* that has stopped before close() runs.                                    *)

LEMMA NextJournaled == ~ForcedClose /\ Inv /\ Journaled /\ [Next]_vars => Journaled'
<1> SUFFICES ASSUME ~ForcedClose, Inv, Journaled, [Next]_vars PROVE Journaled'
  OBVIOUS
<1> USE DEF boxVars
<1>u. /\ node \in Nodes /\ spool \in [Sids -> Journals]
      /\ Up => node.sid \in Sids /\ Pending \in SUBSET Steps
      /\ captured \subseteq Sids \X Steps
  BY InUse DEF Inv, ShapeOK
(* A step that moves no tick and does not come to the deletion.             *)
<1>k. ASSUME captured' = captured, acked' = acked, \A s \in Sids : spool'[s].pending = spool[s].pending,
             node'.pc = "disposing" /\ node'.retained = 0 =>
                node.pc = "disposing" /\ node.retained = 0 /\ Pending' = Pending
      PROVE  Journaled'
  BY <1>k, <1>u DEF Journaled, CapturedIsNeverDropped
<1>1. CASE OpenSession \/ PutPill \/ BeginClose \/ GiveUp \/ CloseSession
  <2>1. /\ captured' = captured /\ acked' = acked /\ spool' = spool
        /\ node'.pc # "disposing"
    <3>1. CASE OpenSession
      BY <3>1 DEF OpenSession, NewNode
    <3>2. CASE PutPill \/ BeginClose \/ GiveUp \/ CloseSession
      BY <3>2, <1>u DEF PutPill, BeginClose, GiveUp, AtClose, CloseSession, Nodes
    <3>. QED
      BY <1>1, <3>1, <3>2
  <2>. QED
    BY <1>k, <2>1
<1>2. CASE Capture
  <2>1. /\ Up /\ node'.pc = "running" /\ acked' = acked
    BY <1>2, <1>u DEF Capture, CapturingPcs, Up, Nodes
  <2>2. PICK lowDisk \in BOOLEAN, diskError \in BOOLEAN :
            LET checked == CheckBlocked(spool[node.sid], lowDisk)
                recorded == ~checked.blocked /\ ~diskError
            IN  /\ spool' = [spool EXCEPT ![node.sid] =
                                IF recorded THEN Append(checked, node.step) ELSE checked]
                /\ captured' = captured \cup
                                (IF recorded THEN {<<node.sid, node.step>>} ELSE {})
    BY <1>2 DEF Capture
  <2> DEFINE checked == CheckBlocked(spool[node.sid], lowDisk)
             recorded == ~checked.blocked /\ ~diskError
  <2>3. checked \in Journals /\ checked.pending = Pending
    BY <1>u, <2>1, JournalShapes DEF Pending
  <2>4. Append(checked, node.step).pending = Pending \cup {node.step}
    BY <2>3 DEF Append, Journals
  <2>5. spool'[node.sid].pending = IF recorded THEN Pending \cup {node.step} ELSE Pending
    BY <1>u, <2>1, <2>2, <2>3, <2>4
  <2>6. \A s \in Sids : s # node.sid => spool'[s] = spool[s]
    BY <1>u, <2>2
  <2>7. captured' = captured \cup (IF recorded THEN {<<node.sid, node.step>>} ELSE {})
    BY <2>2
  <2> HIDE DEF checked, recorded
  <2>8. ASSUME NEW t \in captured' PROVE t \in acked' \/ t[2] \in spool'[t[1]].pending
    <3>1. CASE t \in captured
      <4>1. t[1] \in Sids /\ (t \in acked \/ t[2] \in spool[t[1]].pending)
        BY <1>u, <3>1 DEF Journaled, CapturedIsNeverDropped
      <4>2. spool[t[1]].pending \subseteq spool'[t[1]].pending
        BY <2>5, <2>6, <4>1 DEF Pending
      <4>. QED
        BY <2>1, <4>1, <4>2
    <3>2. CASE t \notin captured
      <4>1. recorded /\ t = <<node.sid, node.step>>
        BY <2>7, <2>8, <3>2
      <4>. QED
        BY <2>5, <4>1
    <3>. QED
      BY <3>1, <3>2
  <2>. QED
    BY <2>1, <2>8 DEF Journaled, CapturedIsNeverDropped
<1>3. CASE CountRetained
  <2>1. captured' = captured /\ acked' = acked /\ spool' = spool /\ Up
        /\ node'.sid = node.sid /\ node'.retained = Cardinality(Pending)
    BY <1>3, <1>u DEF CountRetained, Up, Nodes
  <2>2. node'.retained = 0 => Pending = {}
    BY <1>u, <2>1, StepsAreFinite, FS_Subset, FS_EmptySet
  <2>. QED
    BY <2>1, <2>2 DEF Journaled, CapturedIsNeverDropped, Pending
<1>4. CASE Dispose
  <2>1. captured' = captured /\ acked' = acked /\ Up /\ node'.pc = "closing"
        /\ spool' = [spool EXCEPT ![node.sid].pending = DisposedJournal]
    BY <1>4, <1>u DEF Dispose, Up, Nodes
  <2>2. DisposedJournal = Pending
    BY <1>4 DEF Dispose, DisposedJournal, Journaled
  <2>3. \A s \in Sids : spool'[s].pending = spool[s].pending
    BY <1>u, <2>1, <2>2 DEF Pending, Journals
  <2>. QED
    BY <1>k, <2>1, <2>3
<1>5. CASE Crash
  <2>1. captured' = captured /\ acked' = acked /\ node'.pc = "down"
    BY <1>5 DEF Crash, NewNode
  <2>2. \A s \in Sids : spool'[s].pending = spool[s].pending
    BY <1>5, <1>u DEF Crash, Journals
  <2>. QED
    BY <1>k, <2>1, <2>2
<1>6. CASE GetReply
  <2>1. captured' = captured /\ node'.sid = node.sid /\ node'.pc = node.pc /\ node'.retained = node.retained
    BY <1>6, <1>u DEF GetReply, Nodes
  <2>2. /\ Up
        /\ spool' = [spool EXCEPT ![node.sid].pending = Pending']
        /\ acked' = acked \cup {<<node.sid, t>> : t \in Pending \ Pending'}
    BY <1>6, AnsweredIsSeen
  <2>3. Pending' \subseteq Pending
    BY <1>6, <1>u, <2>1, <2>2 DEF GetReply, Pending, Ack, Journals
  <2>4. ASSUME NEW t \in captured PROVE t \in acked' \/ t[2] \in spool'[t[1]].pending
    <3>1. t[1] \in Sids /\ t = <<t[1], t[2]>> /\ (t \in acked \/ t[2] \in spool[t[1]].pending)
      BY <1>u DEF Journaled, CapturedIsNeverDropped
    <3>2. CASE t[1] = node.sid
      <4>1. spool'[t[1]].pending = Pending'
        BY <2>1, <3>2 DEF Pending
      <4>. QED
        BY <2>2, <3>1, <3>2, <4>1 DEF Pending
    <3>3. CASE t[1] # node.sid
      BY <1>u, <2>2, <3>1, <3>3
    <3>. QED
      BY <3>2, <3>3
  <2>. QED
    BY <2>1, <2>3, <2>4 DEF Journaled, CapturedIsNeverDropped
<1>7. CASE Ship \/ RpcFails \/ ShipperExits \/ BoxNext \/ UNCHANGED vars
  <2>1. UNCHANGED <<node, spool, captured, acked>>
    BY <1>7 DEF Ship, RpcFails, ShipperExits, BoxNext, HandleTicks, HandleDelayed, HandleClose, IdleGc,
       WriteRow, Build, ChangeRecorder, vars
  <2>. QED
    BY <1>k, <2>1 DEF Pending
<1>. QED
  BY <1>1, <1>2, <1>3, <1>4, <1>5, <1>6, <1>7 DEF Next, NodeNext, ShipperNext

-----------------------------------------------------------------------------
(* The books of a session.  What was captured of it is acked or journaled,  *)
(* and the batch in flight is journaled still, so that the answer counts    *)
(* just what it deletes.  Once the retained ticks are counted only a late   *)
(* answer may count a tick again, and only if close() gave up on the        *)
(* sender thread before it had left.                                        *)
CapturedSteps == {k \in Steps : <<node.sid, k>> \in captured}
AckedSteps == {k \in Steps : <<node.sid, k>> \in acked}
Counted == node.pc \in {"disposing", "closing", "closed"}

(* What the running node has captured, sent and kept.                       *)
Kept ==
    /\ shipper.batch \subseteq Pending
    /\ CapturedSteps = AckedSteps \cup Pending
    /\ AckedSteps \cap Pending = {}
    /\ \A k \in CapturedSteps : k < node.step
    /\ node.sent = Cardinality(AckedSteps)

Books ==
    /\ \A t \in captured : t[1] =< node.sid
    /\ Up => Kept
    /\ node.pc = "joining" => node.abandon
    /\ Counted =>
          /\ node.sid \in Sids
          /\ Cardinality(CapturedSteps) =< node.sent + node.retained
    /\ Counted /\ ~node.abandon =>
          /\ shipper.pc = "gone"
          /\ Cardinality(CapturedSteps) = node.sent + node.retained

LEMMA BooksTypes ==
    ASSUME Inv
    PROVE  /\ node \in Nodes /\ shipper \in Shippers /\ spool \in [Sids -> Journals]
           /\ captured \subseteq Sids \X Steps /\ acked \subseteq Sids \X Steps
           /\ node.sent \in Nat /\ node.retained \in Nat /\ node.step \in Nat /\ node.sid \in Nat
           /\ Cardinality(CapturedSteps) \in Nat /\ Cardinality(AckedSteps) \in Nat
           /\ Up => node.sid \in Sids /\ Pending \in SUBSET Steps
           /\ Prefixes
<1>1. node \in Nodes /\ node.sid \in Sids \cup {NoSid} /\ node.step \in 0 .. MaxSteps
  BY DEF Inv, ShapeOK, Nodes
<1>2. node.sid \in Nat /\ node.step \in Nat
  <2>1. node.sid \in Nat
    BY <1>1, SidsAreNat
  <2>2. node.step \in Nat
    BY <1>1, RecordingAssumption
  <2> QED BY <2>1, <2>2
<1>3. CapturedSteps \in SUBSET Steps /\ AckedSteps \in SUBSET Steps
  BY DEF CapturedSteps, AckedSteps
<1> QED BY <1>1, <1>2, <1>3, CountIsNat, InUse DEF Inv, ShapeOK, Nodes

(* A step that leaves the session and what it captured and acked alone.     *)
LEMMA BooksStay ==
    ASSUME Inv, Books,
           node'.sid = node.sid, node'.sent = node.sent, node'.step = node.step,
           captured' = captured, acked' = acked,
           Up' => Up /\ Pending' = Pending /\ shipper'.batch \subseteq Pending,
           node'.pc = "joining" => node'.abandon,
           Counted' => /\ Counted
                       /\ node'.retained = node.retained
                       /\ node'.abandon = node.abandon
                       /\ shipper.pc = "gone" => shipper'.pc = "gone"
    PROVE  Books'
<1>1. CapturedSteps' = CapturedSteps /\ AckedSteps' = AckedSteps
  BY DEF CapturedSteps, AckedSteps
<1>2. Up' => Kept'
  BY <1>1 DEF Books, Kept
<1> QED BY <1>1, <1>2 DEF Books

LEMMA OpenBooks == ASSUME Inv, Books, OpenSession PROVE Books'
<1> DEFINE s == node.sid + 1
<1>1. /\ s \in Sids /\ node' \in {NewNode("running", s), NewNode("down", s)}
      /\ shipper'.batch = {} /\ spool' = spool /\ captured' = captured /\ acked' = acked
  BY DEF OpenSession, NoRpc
<1>2. node.sid \in Nat /\ s \in Nat /\ node'.sid = s /\ node'.sent = 0 /\ node'.step = 0
      /\ node'.pc \in {"running", "down"}
  BY <1>1, BooksTypes DEF NewNode
<1>3. \A t \in captured \cup acked : t[1] \in Nat /\ t[1] =< node.sid
  BY BooksTypes, SidsAreNat DEF Books, Inv, Numbered
<1>4. CapturedSteps' = {} /\ AckedSteps' = {}
  <2>1. ASSUME NEW k PROVE <<s, k>> \notin captured \cup acked
    BY <1>2, <1>3
  <2> QED BY <1>1, <1>2, <2>1 DEF CapturedSteps, AckedSteps
<1>5. Pending' = {}
  <2>1. ~(s =< node.sid)
    BY <1>2
  <2> QED BY <1>1, <1>2, <2>1 DEF Inv, Numbered, Pending
<1>6. \A t \in captured' : t[1] =< node'.sid
  BY <1>1, <1>2, <1>3
<1> HIDE DEF s
<1> QED BY <1>1, <1>2, <1>4, <1>5, <1>6, FS_EmptySet DEF Books, Kept, Counted

LEMMA CaptureBooks == ASSUME ~ForcedClose, Inv, Books, Capture PROVE Books'
<1> USE BooksTypes
<1>1. /\ Up /\ node.step \in Steps /\ node'.pc = "running" /\ node'.sid = node.sid
      /\ node'.sent = node.sent /\ node'.step = node.step + 1
      /\ shipper' = shipper /\ acked' = acked
  BY RecordingAssumption DEF Capture, CapturingPcs, Up, Nodes, Steps
<1>2. \/ captured' = captured /\ Pending' = Pending
      \/ captured' = captured \cup {<<node.sid, node.step>>} /\ Pending' = Pending \cup {node.step}
  <2>1. PICK lowDisk \in BOOLEAN, diskError \in BOOLEAN :
            LET checked == CheckBlocked(spool[node.sid], lowDisk)
                recorded == ~checked.blocked /\ ~diskError
            IN  /\ spool' = [spool EXCEPT ![node.sid] =
                                IF recorded THEN Append(checked, node.step) ELSE checked]
                /\ captured' = captured \cup
                                (IF recorded THEN {<<node.sid, node.step>>} ELSE {})
    BY DEF Capture
  <2> DEFINE checked == CheckBlocked(spool[node.sid], lowDisk)
             recorded == ~checked.blocked /\ ~diskError
  <2>2. checked \in Journals /\ checked.pending = Pending
    BY <1>1, JournalShapes DEF Pending
  <2>3. Append(checked, node.step).pending = Pending \cup {node.step}
    BY <2>2 DEF Append, Journals
  <2>4. spool'[node.sid].pending = IF recorded THEN Pending \cup {node.step} ELSE Pending
    BY <1>1, <2>1, <2>2, <2>3
  <2>5. captured' = captured \cup (IF recorded THEN {<<node.sid, node.step>>} ELSE {})
    BY <2>1
  <2> HIDE DEF checked, recorded
  <2> QED BY <1>1, <2>4, <2>5 DEF Pending
<1>3. AckedSteps' = AckedSteps /\ (CapturedSteps' \ CapturedSteps) \subseteq {node.step}
      /\ CapturedSteps \subseteq CapturedSteps'
      /\ (node.step \in CapturedSteps' <=> node.step \in Pending' \/ node.step \in CapturedSteps)
  BY <1>1, <1>2 DEF CapturedSteps, AckedSteps, Books, Kept
<1>4. Kept
  BY <1>1 DEF Books
<1>5. node.step \notin CapturedSteps
  BY <1>4 DEF Kept
<1>6. Kept'
  <2>1. \A k \in CapturedSteps' : k < node.step + 1
    <3>1. CapturedSteps \subseteq Nat
      BY StepsAreFinite DEF CapturedSteps
    <3>2. \A k \in CapturedSteps : k < node.step
      BY <1>4 DEF Kept
    <3> QED BY <1>3, <3>1, <3>2
  <2>2. CapturedSteps' = AckedSteps' \cup Pending' /\ AckedSteps' \cap Pending' = {}
    BY <1>2, <1>3, <1>4, <1>5 DEF Kept
  <2> QED BY <1>1, <1>2, <1>3, <1>4, <2>1, <2>2 DEF Kept
<1>7. \A t \in captured' : t[1] =< node'.sid
  BY <1>1, <1>2 DEF Books
<1> QED BY <1>1, <1>6, <1>7 DEF Books, Counted

(* The answer counts what it deletes: the accepted prefix is journaled.     *)
LEMMA ReplyBooks == ASSUME Inv, Books, GetReply PROVE Books'
<1> USE BooksTypes
<1> DEFINE gone == Pending \ Pending'
<1>1. /\ Up /\ Kept /\ shipper.pc = "replied" /\ shipper' = NoRpc("idle") /\ captured' = captured
      /\ node'.sid = node.sid /\ node'.pc = node.pc /\ node'.step = node.step
      /\ node'.retained = node.retained /\ node'.abandon = node.abandon
      /\ node'.sent = node.sent + Cardinality(shipper.accepted)
  BY DEF GetReply, NewlySent, Prefixes, Nodes, Books
<1>2. Pending' \subseteq Pending /\ gone = shipper.accepted
  <2>1. Pending' = {t \in Pending : \A a \in shipper.accepted : a < t}
    BY <1>1 DEF GetReply, Pending, Ack, Journals
  <2>2. shipper.accepted \subseteq Pending
    BY <1>1 DEF Kept, Prefixes
  <2>3. \A a \in shipper.accepted : ~(a < a)
    <3>1. shipper.accepted \subseteq Nat
      BY <2>2, <1>1, StepsAreFinite
    <3> QED BY <3>1
  <2> QED BY <2>1, <2>2, <2>3, AnsweredIsSeen
<1>3. CapturedSteps' = CapturedSteps /\ AckedSteps' = AckedSteps \cup gone
  BY <1>1, AnsweredIsSeen DEF CapturedSteps, AckedSteps
<1>4. Cardinality(AckedSteps') = Cardinality(AckedSteps) + Cardinality(shipper.accepted)
  <2>1. AckedSteps \in SUBSET Steps /\ shipper.accepted \in SUBSET Steps
        /\ AckedSteps \cap shipper.accepted = {}
    BY <1>1, <1>2 DEF AckedSteps, Kept, Shippers
  <2>2. /\ IsFiniteSet(AckedSteps) /\ IsFiniteSet(shipper.accepted)
        /\ Cardinality(AckedSteps \cap shipper.accepted) = 0
    BY <2>1, StepsAreFinite, FS_Subset, FS_EmptySet
  <2>3. Cardinality(AckedSteps \cup shipper.accepted)
            = Cardinality(AckedSteps) + Cardinality(shipper.accepted)
              - Cardinality(AckedSteps \cap shipper.accepted)
    BY <2>2, FS_Union
  <2>4. Cardinality(shipper.accepted) \in Nat
    BY <2>1, CountIsNat
  <2>5. AckedSteps' = AckedSteps \cup shipper.accepted
    BY <1>2, <1>3
  <2>6. Cardinality(AckedSteps) \in Nat
    BY BooksTypes
  <2> QED BY <2>2, <2>3, <2>4, <2>5, <2>6
<1>5. Kept'
  BY <1>1, <1>2, <1>3, <1>4 DEF Kept, NoRpc
<1>6. Cardinality(shipper.accepted) \in Nat /\ node'.sent \in Nat
  BY <1>1, CountIsNat DEF Shippers
<1>7. Counted => node.abandon /\ node.sid \in Sids /\ Cardinality(CapturedSteps) =< node'.sent + node.retained
  BY <1>1, <1>6 DEF Books
<1> QED BY <1>1, <1>3, <1>5, <1>7 DEF Books, Counted

(* Without giving up, close() counts when the sender thread has left.       *)
LEMMA CountBooks == ASSUME Inv, Books, CountRetained PROVE Books'
<1> USE BooksTypes
<1>1. /\ Up /\ Kept /\ node'.pc = "disposing" /\ node'.retained = Cardinality(Pending)
      /\ node'.sid = node.sid /\ node'.sent = node.sent /\ node'.step = node.step
      /\ node'.abandon = node.abandon
      /\ UNCHANGED <<shipper, spool, captured, acked>>
  BY DEF CountRetained, Up, Nodes, Books
<1>2. CapturedSteps' = CapturedSteps /\ AckedSteps' = AckedSteps /\ Pending' = Pending
  BY <1>1 DEF CapturedSteps, AckedSteps, Pending
<1>3. Cardinality(CapturedSteps) = node.sent + Cardinality(Pending)
  <2>1. /\ AckedSteps \in SUBSET Steps
        /\ IsFiniteSet(AckedSteps) /\ IsFiniteSet(Pending)
        /\ Cardinality(AckedSteps \cap Pending) = 0
    BY <1>1, StepsAreFinite, FS_Subset, FS_EmptySet DEF AckedSteps, Kept
  <2>2. Cardinality(AckedSteps \cup Pending)
            = Cardinality(AckedSteps) + Cardinality(Pending) - Cardinality(AckedSteps \cap Pending)
    BY <2>1, FS_Union
  <2>3. Cardinality(Pending) \in Nat
    BY <1>1, CountIsNat
  <2> QED BY <1>1, <2>1, <2>2, <2>3 DEF Kept
<1>4. ~node.abandon => shipper.pc = "gone"
  BY DEF CountRetained, Books
<1>5. Kept' /\ Cardinality(Pending) \in Nat
  BY <1>1, <1>2, CountIsNat DEF Kept
<1> QED BY <1>1, <1>2, <1>3, <1>4, <1>5 DEF Books, Counted

LEMMA NextBooks == ~ForcedClose /\ Inv /\ Journaled /\ Books /\ [Next]_vars => Books'
<1> SUFFICES ASSUME ~ForcedClose, Inv, Journaled, Books, [Next]_vars PROVE Books'
  OBVIOUS
<1> USE BooksTypes DEF boxVars
<1>k. Up => shipper.batch \subseteq Pending
  BY DEF Books, Kept
<1>1. CASE BeginClose \/ PutPill \/ GiveUp
  BY <1>1, <1>k, BooksStay DEF BeginClose, PutPill, GiveUp, AtClose, Nodes, Up, Counted, Pending
<1>2. CASE Dispose
  <2>1. DisposedJournal = Pending /\ Up
    BY <1>2 DEF Dispose, DisposedJournal, Journaled, Up
  <2>2. Pending' = Pending
    BY <1>2, <2>1 DEF Dispose, Pending, Journals, Nodes
  <2> QED BY <1>2, <1>k, <2>1, <2>2, BooksStay DEF Dispose, Nodes, Counted
<1>3. CASE CloseSession
  BY <1>3, BooksStay DEF CloseSession, Nodes, Up, Counted, NoRpc
<1>4. CASE Crash
  <2>1. node'.pc = "down" /\ node'.sid = node.sid /\ captured' = captured
    BY <1>4 DEF Crash, NewNode
  <2> QED BY <2>1 DEF Books, Up, Counted
<1>5. CASE Ship
  <2>1. PeekBatch(spool[node.sid], BatchMax) \subseteq Pending
    BY DEF PeekBatch, Pending
  <2> QED BY <1>5, <2>1, BooksStay DEF Ship, Pending, Up, Counted, Books
<1>6. CASE RpcFails \/ ShipperExits
  BY <1>6, BooksStay DEF RpcFails, ShipperExits, NoRpc, Pending, Up, Counted, Books
<1>7. CASE HandleTicks
  BY <1>7, <1>k, BooksStay DEF HandleTicks, Pending, Up, Counted, Books, Shippers
<1>8. CASE UNCHANGED vars \/ (BoxNext /\ ~HandleTicks)
  <2>1. UNCHANGED <<node, shipper, spool, captured, acked>>
    BY <1>8 DEF BoxNext, HandleDelayed, HandleClose, IdleGc, WriteRow, Build, ChangeRecorder, vars
  <2> QED BY <1>k, <2>1, BooksStay DEF Pending, Up, Counted, Books
<1> QED
  BY <1>1, <1>2, <1>3, <1>4, <1>5, <1>6, <1>7, <1>8, OpenBooks, CaptureBooks, ReplyBooks, CountBooks
     DEF Next, NodeNext, ShipperNext, BoxNext

LEMMA BooksCount ==
    ASSUME Inv, node.sid \in Sids
    PROVE  Cardinality({t \in captured : t[1] = node.sid}) = Cardinality(CapturedSteps)
<1>1. {t \in captured : t[1] = node.sid} = {node.sid} \X CapturedSteps
  BY BooksTypes DEF CapturedSteps
<1>2. IsFiniteSet(CapturedSteps) /\ IsFiniteSet({node.sid}) /\ Cardinality({node.sid}) = 1
  BY StepsAreFinite, FS_Subset, FS_Singleton DEF CapturedSteps
<1>3. Cardinality({node.sid} \X CapturedSteps) = Cardinality(CapturedSteps)
  <2>1. Cardinality({node.sid} \X CapturedSteps) = Cardinality({node.sid}) * Cardinality(CapturedSteps)
    BY <1>2, FS_Product
  <2>2. Cardinality(CapturedSteps) \in Nat
    BY BooksTypes
  <2> QED BY <1>2, <2>1, <2>2
<1> QED BY <1>1, <1>3

-----------------------------------------------------------------------------

(* The variables keep their shape (the type part of TypeOK).                *)
THEOREM RecordingShapes == Spec => []ShapeOK
<1>1. Inv => ShapeOK
  BY DEF Inv
<1>. QED
  BY <1>1, InvHolds, PTL

(* An acknowledgement is honest (transport.py:411-415): for any number of   *)
(* reconnects, failures and delayed batches, a tick the node deleted was    *)
(* itself put in the queue of its session's recorder, unless its number     *)
(* collides with a tick staged for an earlier session of that recorder; and *)
(* its step waits, is written, or lost to a write that raised.              *)
THEOREM AcksAreHonest == Spec => []AckIsHonest
<1>1. Inv /\ Origins => AckIsHonest
  <2> SUFFICES ASSUME Inv, Origins, NEW t \in acked
               PROVE  /\ t \in staged \/ Collides(t)
                      /\ LET rec == recorders[recorderOf[t[1]]]
                         IN  t[2] \in rec.queue \cup rec.rows \cup rec.failed
    BY DEF AckIsHonest
  <2>1. t[1] \in Sids /\ t[1] =< node.sid /\ t[2] \in recorders[recorderOf[t[1]]].seen
    BY DEF Inv, ShapeOK, Numbered, AckedIsSeen
  <2>2. recorderOf[t[1]] \in Sids
    BY <2>1 DEF Inv, ShapeOK, Numbered
  <2>. QED
    BY <2>1, <2>2 DEF Inv, Staged, Origins
<1>2. Init => Origins
  BY DEF Init, Origins, NoRecorder, NewRecorder
<1>3. Inv /\ Origins /\ [Next]_vars => Inv' /\ Origins'
  BY NextInv, NextOrigins
<1>. QED
  BY <1>1, <1>2, <1>3, InitInv, PTL DEF Spec

(* A step is staged once by a recorder (recorder.py:306-326).               *)
THEOREM StepsAreStagedOnce == Spec => []NoStepTwice
<1>1. Inv => NoStepTwice
  BY DEF Inv, Staged, NoStepTwice
<1>. QED
  BY <1>1, InvHolds, PTL

(* The dataset holds every step the recorder acknowledged, but for failed   *)
(* writes (recorder.py:524-539, 595).                                       *)
THEOREM DatasetsAreComplete == Spec => []DatasetIsComplete
<1>1. Inv => DatasetIsComplete
  <2> SUFFICES ASSUME Inv, NEW r \in Sids, Ended(recorders[r])
               PROVE  recorders[r].rows = recorders[r].seen \ recorders[r].failed
    BY DEF DatasetIsComplete
  <2>. QED
    BY DEF Inv, Staged
<1>. QED
  BY <1>1, InvHolds, PTL

(* One recorder at a time records the episode, and exactly one open session *)
(* owns it (transport.py:581-634).                                          *)
THEOREM EpisodesAreNotForked == Spec => []OneRecordingPerEpisode
<1>1. Inv => OneRecordingPerEpisode
  <2> SUFFICES ASSUME Inv, NEW r \in Sids, recorders[r].state = "recording"
               PROVE  /\ Cardinality({s \in sessions : recorderOf[s] = r}) = 1
                      /\ \A q \in Sids : recorders[q].state = "recording" => q = r
    BY DEF OneRecordingPerEpisode
  <2>1. PICK s \in sessions : recorderOf[s] = r
    BY DEF Inv, OneSession
  <2>2. \A q \in sessions : q = s
    BY <2>1 DEF Inv, OneSession
  <2>3. {q \in sessions : recorderOf[q] = r} = {s}
    BY <2>1, <2>2
  <2>. QED
    BY <2>1, <2>2, <2>3, FS_Singleton DEF Inv, OneSession
<1>. QED
  BY <1>1, InvHolds, PTL

(* What record_tick() said it recorded is on the node's disk until the box  *)
(* accepted it (controller.py:470-479), if no loop is closed while it still *)
(* captures.                                                                *)
THEOREM CapturedTicksAreKept ==
    ASSUME ~ForcedClose
    PROVE  Spec => []CapturedIsNeverDropped
<1>1. Inv /\ Journaled /\ [Next]_vars => Inv' /\ Journaled'
  BY NextInv, NextJournaled
<1>2. Journaled => CapturedIsNeverDropped
  BY DEF Journaled
<1>. QED
  BY <1>1, <1>2, InitInv, PTL DEF Spec

(* The summary at the end of a session accounts for every captured tick     *)
(* (controller.py:485-532): sent plus retained is what was captured, and    *)
(* where close() gave up on the sender it is at least that.                 *)
THEOREM BooksAreBalanced ==
    ASSUME ~ForcedClose
    PROVE  Spec => []BooksBalance
<1>1. Init => Books
  BY DEF Init, Books, NewNode, Up, Counted
<1>2. Inv /\ Journaled /\ Books /\ [Next]_vars => Inv' /\ Journaled' /\ Books'
  BY NextInv, NextJournaled, NextBooks
<1>3. Inv /\ Books => BooksBalance
  BY BooksCount DEF Books, BooksBalance, Counted
<1>. QED
  BY <1>1, <1>2, <1>3, InitInv, PTL DEF Spec

=============================================================================
