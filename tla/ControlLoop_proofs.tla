-------------------------- MODULE ControlLoop_proofs --------------------------
(***************************************************************************)
(* The action schedule, the DRTC client and the control loop that drives   *)
(* it, for every chunk, grace and delay, any number of steps, barriers and *)
(* failures, and under every interleaving of the control loop, the sender  *)
(* and the teleop receive thread.                                          *)
(*                                                                         *)
(* Three parts, each resting on the one before it: what the operators of   *)
(* ActionSchedule preserve; the client's type invariant, its unbroken      *)
(* plan, its barrier and its refinement of ActionStream; and the loop's    *)
(* hard stop, the handback after the grace, the plan a handback resumes    *)
(* from, and the state the filter and the gate carry.                      *)
(***************************************************************************)
EXTENDS ControlLoop, Integers, FiniteSetTheorems, SequenceTheorems, TLAPS

-----------------------------------------------------------------------------
(***************************************************************************)
(* ActionSchedule: what merge(), pop_due() and flush() preserve, and the two *)
(* algebraic laws that let the client ignore the order and the number of   *)
(* times a chunk is delivered.                                             *)
(***************************************************************************)

(* merge() yields a schedule and touches neither the cursor nor the floor.  *)
LEMMA MergeSchedule ==
    ASSUME NEW S, IsSchedule(S), NEW c \in Chunk
    PROVE  /\ IsSchedule(Merge(S, c))
           /\ Merge(S, c).cursor = S.cursor
           /\ Merge(S, c).floor = S.floor
           /\ Scheduled(Merge(S, c)) = Scheduled(S) \cup Installs(S, c)
           /\ \A k \in Scheduled(S) \cup Installs(S, c) :
                  Merge(S, c).data[k] = IF k \in Installs(S, c) THEN c.ts ELSE S.data[k]
<1> DEFINE steps == Scheduled(S) \cup Installs(S, c)
           data  == [k \in steps |-> IF k \in Installs(S, c) THEN c.ts ELSE S.data[k]]
<1>1. Merge(S, c) = [data |-> data, cursor |-> S.cursor, floor |-> S.floor]
  BY DEF Merge, IsSchedule
<1>2. steps \subseteq Nat
  BY DEF Installs, Span, Chunk, IsSchedule
<1>3. data \in [steps -> Nat]
  BY DEF Chunk, IsSchedule, Scheduled
<1>4. DOMAIN data = steps
  OBVIOUS
<1> HIDE DEF data
<1>5. IsFiniteSet(steps)
  <2>1. IsFiniteSet(Span(c))
    BY FS_Interval DEF Span, Chunk
  <2>2. IsFiniteSet(Installs(S, c))
    BY <2>1, FS_Subset DEF Installs
  <2> QED BY <2>2, FS_Union DEF IsSchedule
<1>6. IsSchedule(Merge(S, c))
  BY <1>1, <1>2, <1>3, <1>4, <1>5 DEF IsSchedule, Scheduled
<1>7. Scheduled(Merge(S, c)) = steps
  BY <1>1, <1>4 DEF Scheduled
<1>8. \A k \in steps : data[k] = IF k \in Installs(S, c) THEN c.ts ELSE S.data[k]
  BY DEF data
<1> QED BY <1>1, <1>6, <1>7, <1>8

(* The plan is known, and stays unbroken, after a merge of a chunk that     *)
(* starts at or before the cursor.                                          *)
LEMMA MergeNoHole ==
    ASSUME NEW S, IsSchedule(S), NEW c \in Chunk, NoHole(S), c.start =< S.cursor
    PROVE  NoHole(Merge(S, c))
<1> DEFINE T == Merge(S, c)
<1>1. /\ T.cursor = S.cursor
      /\ Scheduled(T) = Scheduled(S) \cup Installs(S, c)
  BY MergeSchedule
<1> HIDE DEF T
<1>2. ASSUME NEW k \in Scheduled(T)
      PROVE  k >= T.cursor /\ (T.cursor .. k) \subseteq Scheduled(T)
  <2>1. CASE k \in Scheduled(S)
    BY <1>1, <2>1 DEF NoHole
  <2>2. CASE k \in Installs(S, c)
    <3>1. ASSUME NEW j \in S.cursor .. k PROVE j \in Scheduled(S) \cup Installs(S, c)
      <4>1. CASE j \in Scheduled(S)
        BY <4>1
      <4>2. CASE j \notin Scheduled(S)
        BY <2>2, <4>2 DEF Installs, Span, Chunk, IsSchedule
      <4> QED BY <4>1, <4>2
    <3>2. k >= S.cursor
      BY <2>2 DEF Installs
    <3> QED BY <1>1, <3>1, <3>2
  <2> QED BY <1>1, <2>1, <2>2
<1> QED BY <1>2 DEF NoHole, T

(* Nothing at or below the floor is planned by a merge.                     *)
LEMMA MergeAboveFloor ==
    ASSUME NEW S, IsSchedule(S), NEW c \in Chunk, AboveFloor(S)
    PROVE  AboveFloor(Merge(S, c))
<1> DEFINE T == Merge(S, c)
<1>1. /\ T.floor = S.floor
      /\ Scheduled(T) = Scheduled(S) \cup Installs(S, c)
      /\ \A k \in Scheduled(S) \cup Installs(S, c) :
             T.data[k] = IF k \in Installs(S, c) THEN c.ts ELSE S.data[k]
  BY MergeSchedule
<1> HIDE DEF T
<1> QED BY <1>1 DEF AboveFloor, Installs, T

(* pop_next() takes the step at the cursor and moves the cursor past it, or *)
(* leaves the schedule alone; the plan stays unbroken and above the floor.  *)
LEMMA PopSchedule ==
    ASSUME NEW S, IsSchedule(S), NoHole(S), AboveFloor(S)
    PROVE  /\ IsSchedule(PopNext(S))
           /\ NoHole(PopNext(S))
           /\ AboveFloor(PopNext(S))
           /\ PopNext(S).floor = S.floor
           /\ Scheduled(PopNext(S)) \subseteq Scheduled(S)
           /\ \A k \in Scheduled(PopNext(S)) : PopNext(S).data[k] = S.data[k]
           /\ PopNext(S).cursor = IF CanPop(S) THEN S.cursor + 1 ELSE S.cursor
<1>1. CASE ~CanPop(S)
  BY <1>1 DEF PopNext
<1>2. CASE CanPop(S)
  <2> DEFINE rest == Scheduled(S) \ {S.cursor}
             data == [k \in rest |-> S.data[k]]
             T    == PopNext(S)
  <2>1. T = [data |-> data, cursor |-> S.cursor + 1, floor |-> S.floor]
    BY <1>2 DEF PopNext, IsSchedule
  <2>2. data \in [rest -> Nat] /\ DOMAIN data = rest /\ \A k \in rest : data[k] = S.data[k]
    BY DEF IsSchedule
  <2> HIDE DEF data, T
  <2>3. Scheduled(T) = rest
    BY <2>1, <2>2 DEF Scheduled
  <2>4. IsSchedule(T)
    <3>1. IsFiniteSet(rest)
      BY FS_Subset DEF IsSchedule
    <3> QED BY <2>1, <2>2, <2>3, <3>1 DEF IsSchedule
  <2>5. NoHole(T)
    <3> SUFFICES ASSUME NEW k \in rest
                 PROVE  k >= S.cursor + 1 /\ (S.cursor + 1 .. k) \subseteq rest
      BY <2>1, <2>3 DEF NoHole
    <3> QED BY DEF NoHole, IsSchedule
  <2>6. AboveFloor(T)
    BY <2>1, <2>2, <2>3 DEF AboveFloor
  <2> QED BY <1>2, <2>1, <2>2, <2>3, <2>4, <2>5, <2>6 DEF T
<1> QED BY <1>1, <1>2

(* flush() empties the plan and keeps the cursor; with a barrier the floor  *)
(* becomes the larger of the two.                                           *)
LEMMA FlushSchedule ==
    ASSUME NEW S, IsSchedule(S), NEW ts \in Nat
    PROVE  /\ IsSchedule(Flush(S)) /\ IsSchedule(FlushBarrier(S, ts))
           /\ Scheduled(Flush(S)) = {} /\ Scheduled(FlushBarrier(S, ts)) = {}
           /\ Flush(S).cursor = S.cursor /\ FlushBarrier(S, ts).cursor = S.cursor
           /\ Flush(S).floor = S.floor
           /\ FlushBarrier(S, ts).floor = IF ts > S.floor THEN ts ELSE S.floor
<1>1. DOMAIN NoActions = {} /\ NoActions \in [{} -> Nat]
  BY DEF NoActions
<1>2. Flush(S) = [data |-> NoActions, cursor |-> S.cursor, floor |-> S.floor]
  BY DEF Flush, IsSchedule
<1>3. FlushBarrier(S, ts) = [data |-> NoActions, cursor |-> S.cursor,
                             floor |-> IF ts > S.floor THEN ts ELSE S.floor]
  BY <1>2 DEF FlushBarrier
<1> QED BY <1>1, <1>2, <1>3, FS_EmptySet DEF IsSchedule, Scheduled

-----------------------------------------------------------------------------

(* Two schedules are the same when they agree on the cursor, the floor, the *)
(* steps planned and the stamp of each.                                     *)
LEMMA ScheduleExtensionality ==
    ASSUME NEW S, NEW T, IsSchedule(S), IsSchedule(T),
           S.cursor = T.cursor, S.floor = T.floor,
           Scheduled(S) = Scheduled(T),
           \A k \in Scheduled(S) : S.data[k] = T.data[k]
    PROVE  S = T
<1>1. S.data = T.data
  BY DEF IsSchedule, Scheduled
<1> QED BY <1>1 DEF IsSchedule

(* merge.py:3-8: chunks may arrive in any order.                            *)
THEOREM MergeCommutes ==
    ASSUME NEW S, IsSchedule(S), NEW c \in Chunk, NEW d \in Chunk
    PROVE  Merge(Merge(S, c), d) = Merge(Merge(S, d), c)
<1> DEFINE C == Merge(S, c)
           D == Merge(S, d)
<1>1. /\ IsSchedule(C) /\ C.cursor = S.cursor /\ C.floor = S.floor
      /\ Scheduled(C) = Scheduled(S) \cup Installs(S, c)
      /\ \A k \in Scheduled(C) : C.data[k] = IF k \in Installs(S, c) THEN c.ts ELSE S.data[k]
  BY MergeSchedule
<1>2. /\ IsSchedule(D) /\ D.cursor = S.cursor /\ D.floor = S.floor
      /\ Scheduled(D) = Scheduled(S) \cup Installs(S, d)
      /\ \A k \in Scheduled(D) : D.data[k] = IF k \in Installs(S, d) THEN d.ts ELSE S.data[k]
  BY MergeSchedule
<1> HIDE DEF C, D
<1> DEFINE CD == Merge(C, d)
           DC == Merge(D, c)
<1>3. /\ IsSchedule(CD) /\ CD.cursor = S.cursor /\ CD.floor = S.floor
      /\ Scheduled(CD) = Scheduled(C) \cup Installs(C, d)
      /\ \A k \in Scheduled(CD) : CD.data[k] = IF k \in Installs(C, d) THEN d.ts ELSE C.data[k]
  BY <1>1, MergeSchedule
<1>4. /\ IsSchedule(DC) /\ DC.cursor = S.cursor /\ DC.floor = S.floor
      /\ Scheduled(DC) = Scheduled(D) \cup Installs(D, c)
      /\ \A k \in Scheduled(DC) : DC.data[k] = IF k \in Installs(D, c) THEN c.ts ELSE D.data[k]
  BY <1>2, MergeSchedule
<1> HIDE DEF CD, DC
<1> USE DEF Installs, Chunk
<1>5. Scheduled(CD) = Scheduled(DC)
  BY <1>1, <1>2, <1>3, <1>4
<1>6. ASSUME NEW k \in Scheduled(CD) PROVE CD.data[k] = DC.data[k]
  BY <1>1, <1>2, <1>3, <1>4, <1>5 DEF IsSchedule
<1> QED BY <1>3, <1>4, <1>5, <1>6, ScheduleExtensionality DEF C, D, CD, DC

(* merge.py:3-8: a chunk may arrive again, whatever arrived in between.     *)
THEOREM MergeAbsorbs ==
    ASSUME NEW S, IsSchedule(S), NEW c \in Chunk, NEW d \in Chunk
    PROVE  Merge(Merge(Merge(S, c), d), c) = Merge(Merge(S, c), d)
<1> DEFINE C  == Merge(S, c)
           CD == Merge(C, d)
           T  == Merge(CD, c)
<1>1. /\ IsSchedule(C) /\ C.cursor = S.cursor /\ C.floor = S.floor
      /\ Scheduled(C) = Scheduled(S) \cup Installs(S, c)
      /\ \A k \in Scheduled(C) : C.data[k] = IF k \in Installs(S, c) THEN c.ts ELSE S.data[k]
  BY MergeSchedule
<1> HIDE DEF C
<1>2. /\ IsSchedule(CD) /\ CD.cursor = S.cursor /\ CD.floor = S.floor
      /\ Scheduled(CD) = Scheduled(C) \cup Installs(C, d)
      /\ \A k \in Scheduled(CD) : CD.data[k] = IF k \in Installs(C, d) THEN d.ts ELSE C.data[k]
  BY <1>1, MergeSchedule
<1> HIDE DEF CD
<1>3. Installs(CD, c) = {}
  BY <1>1, <1>2 DEF Installs, Chunk, IsSchedule
<1>4. /\ IsSchedule(T) /\ T.cursor = CD.cursor /\ T.floor = CD.floor
      /\ Scheduled(T) = Scheduled(CD)
      /\ \A k \in Scheduled(T) : T.data[k] = CD.data[k]
  BY <1>2, <1>3, MergeSchedule
<1> HIDE DEF T
<1> QED BY <1>2, <1>4, ScheduleExtensionality DEF C, CD, T

-----------------------------------------------------------------------------
(***************************************************************************)
(* DrtcClient: the caller and the sender thread.                           *)
(***************************************************************************)

(* The clock bounds everything that carries a timestamp.  A barrier being   *)
(* applied is newer than the floor and than the last action executed, and   *)
(* a request that is out is newer than every plan and not ahead of the      *)
(* cursor.                                                                  *)
StampsAreOrdered ==
    /\ sched.floor =< clock
    /\ newest =< clock
    /\ \A k \in Scheduled(sched) : sched.data[k] =< clock
    /\ sender.pc \in {"stamped", "sent"} =>
          /\ sender.ts =< clock
          /\ newest < sender.ts
          /\ \A k \in Scheduled(sched) : sched.data[k] < sender.ts
    /\ caller.pc = "flush" =>
          /\ sched.floor < caller.ts
          /\ newest =< caller.ts
          /\ caller.ts =< clock

AnchorIsPast == sender.pc = "sent" => sender.start =< sched.cursor

(* Later steps never come from older plans: chunks have one size, so a      *)
(* newer chunk always covers the whole plan it replaces.                    *)
PlanIsMonotone ==
    /\ \A k \in Scheduled(sched) : newest =< sched.data[k]
    /\ \A j, k \in Scheduled(sched) : j =< k => sched.data[j] =< sched.data[k]

PlanIsCovered ==
    \A n \in ChunkLens \ {0} : \A k \in Scheduled(sched) :
        /\ k < sched.cursor + n
        /\ sender.pc = "sent" => k < sender.start + n

Inv ==
    /\ TypeOK
    /\ PlanHasNoHole
    /\ PlanAboveFloor
    /\ StampsAreOrdered
    /\ AnchorIsPast
    /\ PlanIsMonotone
    /\ PlanIsCovered

-----------------------------------------------------------------------------

LEMMA InitInv == ClientInit => Inv
<1> SUFFICES ASSUME ClientInit PROVE Inv
  OBVIOUS
<1>1. IsSchedule(sched) /\ Scheduled(sched) = {} /\ sched.cursor = 0 /\ sched.floor = 0
  BY FS_EmptySet DEF ClientInit, EmptySchedule, NoActions, IsSchedule, Scheduled
<1>2. TypeOK
  <2>1. captured \in [1 .. clock -> Nat]
    BY DEF ClientInit
  <2>2. outbox \in Seq(Nat)
    BY DEF ClientInit
  <2> QED BY <1>1, <2>1, <2>2 DEF ClientInit, TypeOK, Idle, Out, NoAction
<1> QED
  BY <1>1, <1>2 DEF ClientInit, Inv, PlanHasNoHole, NoHole, PlanAboveFloor, AboveFloor,
     StampsAreOrdered, AnchorIsPast, PlanIsMonotone, PlanIsCovered, Idle, Out

(* The facts about the schedule an action that leaves the schedule, the     *)
(* requests and the clock alone preserves.                                  *)
PlanInv ==
    /\ PlanHasNoHole
    /\ PlanAboveFloor
    /\ StampsAreOrdered
    /\ AnchorIsPast
    /\ PlanIsMonotone
    /\ PlanIsCovered

LEMMA PlanUnchanged ==
    ASSUME PlanInv, TypeOK, UNCHANGED <<sched, newest, clock>>,
           sender' = sender \/ sender'.pc \notin {"stamped", "sent"},
           caller' = caller \/ caller'.pc # "flush"
    PROVE  PlanInv'
BY DEF PlanInv, PlanHasNoHole, PlanAboveFloor, NoHole, AboveFloor, StampsAreOrdered,
       AnchorIsPast, PlanIsMonotone, PlanIsCovered, Scheduled

LEMMA ClockTickType ==
    ASSUME TypeOK, NEW by \in Nat, ClockTick(by)
    PROVE  clock' = clock + 1 /\ clock' \in Nat /\ captured' \in [1 .. clock' -> Nat]
BY DEF TypeOK, ClockTick

(* Every step keeps the types; the schedule's own are the lemmas of         *)
(* ActionSchedule_proofs.                                                   *)
LEMMA TypeStep == Inv /\ [ClientNext]_clientVars => TypeOK'
<1> SUFFICES ASSUME Inv, [ClientNext]_clientVars PROVE TypeOK'
  OBVIOUS
<1>0. TypeOK /\ NoHole(sched) /\ AboveFloor(sched)
  BY DEF Inv, PlanHasNoHole, PlanAboveFloor
<1> USE DEF TypeOK, schedVars, senderVars, gateVars
<1>1. CASE StepBegin
  <2>1. QueueDepth(sched) \in Nat
    BY <1>0, FS_CardinalityType DEF QueueDepth, IsSchedule
  <2> QED BY <1>0, <1>1, <2>1 DEF StepBegin
<1>2. CASE StepSubmit
  <2>1. CoolAfterTick \in Nat /\ \A n \in Nat : Armed(n) \in Nat
    BY <1>0, ClientAssumption DEF CoolAfterTick, Armed
  <2>2. cool' \in Nat /\ inFlight' \in BOOLEAN
    BY <1>0, <1>2, <2>1, ClientAssumption DEF StepSubmit
  <2>3. outbox' \in Seq(Nat)
    BY <1>0, <1>2 DEF StepSubmit
  <2> QED BY <1>0, <1>2, <2>2, <2>3 DEF StepSubmit
<1>3. CASE StepNoSubmit
  <2>1. cool' \in Nat
    BY <1>0, <1>3 DEF StepNoSubmit, CoolAfterTick
  <2> QED BY <1>0, <1>3, <2>1 DEF StepNoSubmit
<1>4. CASE StepEncodeFails
  <2>1. cool' \in Nat
    BY <1>0, <1>4 DEF StepEncodeFails, CoolAfterTick
  <2> QED BY <1>0, <1>4, <2>1 DEF StepEncodeFails, Out, NoAction
<1>5. CASE StepPop
  <2>1. IsSchedule(sched')
    BY <1>0, <1>5, PopSchedule DEF StepPop
  <2>2. CanPop(sched) => sched.data[sched.cursor] \in Nat
    BY <1>0 DEF CanPop, IsSchedule
  <2> QED BY <1>0, <1>5, <2>1, <2>2 DEF StepPop, Out, NoAction, IsSchedule
<1>6. CASE FlushPlain
  BY <1>0, <1>6, FlushSchedule DEF FlushPlain
<1>7. CASE BarrierTick
  <2>1. clock' = clock + 1 /\ captured' \in [1 .. clock' -> Nat]
    BY <1>0, <1>7, ClockTickType DEF BarrierTick
  <2> QED BY <1>0, <1>7, <2>1 DEF BarrierTick
<1>8. CASE BarrierFlush
  <2>1. IsSchedule(sched')
    BY <1>0, <1>8, FlushSchedule DEF BarrierFlush
  <2> QED BY <1>0, <1>8, <2>1 DEF BarrierFlush, Out
<1>9. CASE Stop
  BY <1>0, <1>9 DEF Stop
<1>10. CASE Stamp
  <2>1. Head(outbox) \in Nat /\ Tail(outbox) \in Seq(Nat)
    BY <1>0, <1>10 DEF Stamp
  <2>2. clock' = clock + 1 /\ captured' \in [1 .. clock' -> Nat]
    BY <1>0, <1>10, <2>1, ClockTickType DEF Stamp
  <2> QED BY <1>0, <1>10, <2>1, <2>2 DEF Stamp
<1>11. CASE SendInfer
  BY <1>0, <1>11 DEF SendInfer, IsSchedule
<1>12. ASSUME NEW n \in ChunkLens, NEW d \in Delays, ReceiveChunk(n, d) PROVE TypeOK'
  <2> DEFINE c == [ts |-> sender.ts, start |-> sender.start, len |-> n]
  <2>1. c \in Chunk
    BY <1>0, ClientAssumption DEF Chunk
  <2>2. IsSchedule(sched')
    BY <1>0, <1>12, <2>1, MergeSchedule DEF ReceiveChunk
  <2> QED BY <1>0, <1>12, <2>2, ClientAssumption DEF ReceiveChunk
<1>13. CASE ClearInFlight
  BY <1>0, <1>13 DEF ClearInFlight, Idle
<1>14. CASE InferFails
  <2>1. failures' \in Nat
    BY <1>0, <1>14 DEF InferFails
  <2> QED BY <1>0, <1>14, <2>1 DEF InferFails, Idle
<1>15. CASE SenderExits
  BY <1>0, <1>15 DEF SenderExits, Idle
<1>16. CASE UNCHANGED clientVars
  BY <1>0, <1>16 DEF clientVars
<1> QED
  BY <1>1, <1>2, <1>3, <1>4, <1>5, <1>6, <1>7, <1>8, <1>9, <1>10, <1>11, <1>12, <1>13,
     <1>14, <1>15, <1>16
     DEF ClientNext, SenderNext, StepNext, FlushNext, Terminating

(* Every step keeps the plan's invariants.                                  *)
LEMMA PlanStep == Inv /\ [ClientNext]_clientVars => PlanInv'
<1> SUFFICES ASSUME Inv, [ClientNext]_clientVars PROVE PlanInv'
  OBVIOUS
<1>0. PlanInv /\ TypeOK /\ TypeOK'
  BY TypeStep DEF Inv, PlanInv
<1> DEFINE Same == /\ UNCHANGED <<sched, newest, clock>>
                   /\ sender' = sender \/ sender'.pc \notin {"stamped", "sent"}
                   /\ caller' = caller \/ caller'.pc # "flush"
<1>1. Same => PlanInv'
  BY <1>0, PlanUnchanged
<1> HIDE DEF Same
\* The types the arithmetic below needs.
<1>n. /\ clock \in Nat /\ newest \in Nat /\ sched.cursor \in Nat /\ sched.floor \in Nat
      /\ sender.ts \in Nat /\ sender.start \in Nat /\ caller.ts \in Nat
      /\ \A k \in Scheduled(sched) :
             k \in Nat /\ k >= sched.cursor /\ sched.data[k] \in Nat
  BY <1>0 DEF TypeOK, IsSchedule, PlanInv, PlanHasNoHole, NoHole
<1>c. \A n \in ChunkLens : n \in Nat
  BY ClientAssumption
<1> USE DEF schedVars, senderVars, gateVars
<1>2. CASE StepBegin
  BY <1>1, <1>2 DEF StepBegin, Same
<1>3. CASE StepSubmit
  BY <1>0, <1>1, <1>3 DEF StepSubmit, TypeOK, Same
<1>4. CASE StepNoSubmit
  BY <1>0, <1>1, <1>4 DEF StepNoSubmit, TypeOK, Same
<1>5. CASE StepEncodeFails
  BY <1>1, <1>5 DEF StepEncodeFails, Out, Same
<1>6. CASE StepPop
  <2> DEFINE T == PopNext(sched)
  <2>1. /\ IsSchedule(T) /\ NoHole(T) /\ AboveFloor(T) /\ T.floor = sched.floor
        /\ Scheduled(T) \subseteq Scheduled(sched)
        /\ \A k \in Scheduled(T) : T.data[k] = sched.data[k]
        /\ T.cursor = IF CanPop(sched) THEN sched.cursor + 1 ELSE sched.cursor
    BY <1>0, PopSchedule DEF PlanInv, PlanHasNoHole, PlanAboveFloor, TypeOK
  <2>2. sched' = T /\ caller'.pc = "out" /\ UNCHANGED <<clock, sender>>
        /\ newest' = IF CanPop(sched) THEN sched.data[sched.cursor] ELSE newest
    BY <1>6 DEF StepPop, Out
  <2>3. \A k \in Scheduled(T) : k >= sched.cursor /\ T.data[k] \in Nat
    BY <1>0, <2>1 DEF PlanInv, PlanHasNoHole, NoHole, TypeOK, IsSchedule
  <2>4. CanPop(sched) => sched.cursor \in Scheduled(sched) /\ sched.data[sched.cursor] \in Nat
    BY <1>0 DEF CanPop, TypeOK, IsSchedule
  <2> HIDE DEF T
  <2>5. PlanHasNoHole' /\ PlanAboveFloor'
    BY <2>1, <2>2 DEF PlanHasNoHole, PlanAboveFloor
  <2>6. StampsAreOrdered'
    BY <1>0, <1>n, <2>1, <2>2, <2>4 DEF PlanInv, StampsAreOrdered
  <2>7. AnchorIsPast'
    BY <1>0, <1>n, <2>1, <2>2 DEF PlanInv, AnchorIsPast
  <2>8. PlanIsMonotone'
    BY <1>0, <1>n, <2>1, <2>2, <2>3, <2>4 DEF PlanInv, PlanIsMonotone
  <2>9. PlanIsCovered'
    <3> SUFFICES ASSUME NEW n \in ChunkLens \ {0}, NEW k \in Scheduled(T)
                 PROVE  /\ k < T.cursor + n
                        /\ sender.pc = "sent" => k < sender.start + n
      BY <2>2 DEF PlanIsCovered
    <3>1. /\ k < sched.cursor + n
          /\ sender.pc = "sent" => k < sender.start + n
      BY <1>0, <2>1 DEF PlanInv, PlanIsCovered
    <3> QED BY <1>n, <1>c, <2>1, <3>1
  <2> QED BY <2>5, <2>6, <2>7, <2>8, <2>9 DEF PlanInv
<1>7. CASE FlushPlain \/ BarrierFlush
  <2>1. /\ Scheduled(sched') = {} /\ sched'.cursor = sched.cursor
        /\ UNCHANGED <<clock, newest, sender>>
        /\ caller'.pc # "flush"
        /\ \/ sched'.floor = sched.floor
           \/ caller.pc = "flush" /\ sched'.floor = caller.ts
    <3>1. CASE FlushPlain
      BY <1>0, <3>1, FlushSchedule DEF FlushPlain, TypeOK
    <3>2. CASE BarrierFlush
      BY <1>0, <1>n, <3>2, FlushSchedule DEF BarrierFlush, Out, TypeOK
    <3> QED BY <1>7, <3>1, <3>2
  <2>2. StampsAreOrdered'
    BY <1>0, <1>n, <2>1 DEF PlanInv, StampsAreOrdered
  <2> QED
    BY <1>0, <2>1, <2>2 DEF PlanInv, PlanHasNoHole, PlanAboveFloor, NoHole, AboveFloor,
       AnchorIsPast, PlanIsMonotone, PlanIsCovered
<1>8. CASE BarrierTick
  <2>1. /\ clock' = clock + 1 /\ UNCHANGED <<sched, newest, sender>>
        /\ caller' = [pc |-> "flush", depth |-> 0, ts |-> clock + 1]
    BY <1>8 DEF BarrierTick, ClockTick
  <2>2. StampsAreOrdered'
    BY <1>0, <1>n, <2>1 DEF PlanInv, StampsAreOrdered
  <2> QED
    BY <1>0, <2>1, <2>2 DEF PlanInv, PlanHasNoHole, PlanAboveFloor, NoHole, AboveFloor,
       AnchorIsPast, PlanIsMonotone, PlanIsCovered
<1>9. CASE Stamp
  <2>1. /\ clock' = clock + 1 /\ UNCHANGED <<sched, newest, caller>>
        /\ sender' = [pc |-> "stamped", ts |-> clock + 1, start |-> 0]
    BY <1>9 DEF Stamp, ClockTick
  <2>2. StampsAreOrdered'
    BY <1>0, <1>n, <2>1 DEF PlanInv, StampsAreOrdered
  <2> QED
    BY <1>0, <2>1, <2>2 DEF PlanInv, PlanHasNoHole, PlanAboveFloor, NoHole, AboveFloor,
       AnchorIsPast, PlanIsMonotone, PlanIsCovered
<1>10. CASE SendInfer
  <2>1. /\ sender.pc = "stamped" /\ sender'.pc = "sent" /\ sender'.ts = sender.ts
        /\ sender'.start = sched.cursor /\ UNCHANGED <<sched, newest, clock, caller>>
    BY <1>0, <1>10 DEF SendInfer, TypeOK
  <2>2. StampsAreOrdered'
    BY <1>0, <2>1 DEF PlanInv, StampsAreOrdered
  <2>3. AnchorIsPast' /\ PlanIsCovered'
    BY <1>0, <1>n, <2>1 DEF PlanInv, AnchorIsPast, PlanIsCovered
  <2> QED
    BY <1>0, <2>1, <2>2, <2>3 DEF PlanInv, PlanHasNoHole, PlanAboveFloor, NoHole, AboveFloor,
       PlanIsMonotone
<1>11. ASSUME NEW n \in ChunkLens, NEW d \in Delays, ReceiveChunk(n, d) PROVE PlanInv'
  <2> DEFINE c == [ts |-> sender.ts, start |-> sender.start, len |-> n]
             T == Merge(sched, c)
  <2>1. c \in Chunk /\ c.ts = sender.ts /\ c.start = sender.start /\ c.len = n
    BY <1>0, ClientAssumption DEF Chunk, TypeOK
  <2>2. /\ sender.pc = "sent" /\ sender'.pc = "merged"
        /\ UNCHANGED <<newest, clock, caller>> /\ sched' = T
    BY <1>0, <1>11 DEF ReceiveChunk, TypeOK
  <2> HIDE DEF c
  <2>3. /\ IsSchedule(T) /\ T.cursor = sched.cursor /\ T.floor = sched.floor
        /\ Scheduled(T) = Scheduled(sched) \cup Installs(sched, c)
        /\ \A k \in Scheduled(T) :
               T.data[k] = IF k \in Installs(sched, c) THEN c.ts ELSE sched.data[k]
    <3>1. IsSchedule(sched)
      BY <1>0 DEF TypeOK
    <3>2. /\ IsSchedule(T) /\ T.cursor = sched.cursor /\ T.floor = sched.floor
          /\ Scheduled(T) = Scheduled(sched) \cup Installs(sched, c)
          /\ \A k \in Scheduled(sched) \cup Installs(sched, c) :
                 T.data[k] = IF k \in Installs(sched, c) THEN c.ts ELSE sched.data[k]
      BY <2>1, <3>1, MergeSchedule
    <3> HIDE DEF T
    <3> QED BY <3>2
  <2>4. NoHole(T) /\ AboveFloor(T)
    BY <1>0, <2>1, <2>2, MergeNoHole, MergeAboveFloor
       DEF PlanInv, PlanHasNoHole, PlanAboveFloor, AnchorIsPast, TypeOK
  <2> HIDE DEF T
  <2>5. /\ newest < sender.ts /\ sender.ts =< clock
        /\ \A k \in Scheduled(sched) : sched.data[k] < sender.ts
    BY <1>0, <2>2 DEF PlanInv, StampsAreOrdered
  <2>6. StampsAreOrdered'
    BY <1>0, <1>n, <2>1, <2>2, <2>3, <2>5 DEF PlanInv, StampsAreOrdered
  \* The chunk replaces the whole plan, or nothing of it.
  <2>7. Installs(sched, c) = {} \/ Installs(sched, c) = Scheduled(T)
    <3> SUFFICES ASSUME NEW i \in Installs(sched, c), NEW k \in Scheduled(sched)
                 PROVE  k \in Installs(sched, c)
      BY <2>3
    <3>1. n # 0 /\ c.ts > sched.floor
      BY <1>n, <2>1 DEF Installs, Span
    <3>2. k < sender.start + n
      BY <1>0, <2>2, <3>1 DEF PlanInv, PlanIsCovered
    <3>3. k \in Nat /\ k >= sched.cursor /\ sched.cursor \in Nat /\ sched.data[k] \in Nat
      BY <1>n
    <3>4. sender.start =< sched.cursor /\ sender.start \in Nat /\ n \in Nat
      BY <1>0, <1>n, <1>c, <2>2 DEF PlanInv, AnchorIsPast
    <3>5. k \in Span(c)
      BY <2>1, <3>2, <3>3, <3>4 DEF Span
    <3> QED BY <2>1, <2>5, <3>1, <3>3, <3>5 DEF Installs
  <2>8. PlanIsMonotone'
    <3>1. CASE Installs(sched, c) = {}
      BY <1>0, <2>2, <2>3, <3>1 DEF PlanInv, PlanIsMonotone
    <3>2. CASE Installs(sched, c) = Scheduled(T)
      BY <1>n, <2>1, <2>2, <2>3, <2>5, <3>2 DEF PlanIsMonotone
    <3> QED BY <2>7, <3>1, <3>2
  <2>9. PlanIsCovered'
    <3> SUFFICES ASSUME NEW m \in ChunkLens \ {0}, NEW k \in Scheduled(T)
                 PROVE  k < T.cursor + m
      BY <2>2 DEF PlanIsCovered
    <3>1. CASE k \in Scheduled(sched)
      BY <1>0, <2>3, <3>1 DEF PlanInv, PlanIsCovered
    <3>2. CASE k \in Installs(sched, c)
      <4>1. n = m /\ n \in Nat
        BY <1>n, <1>c, <2>1, <3>2, ClientAssumption DEF Installs, Span
      <4>2. sender.start =< sched.cursor
        BY <1>0, <2>2 DEF PlanInv, AnchorIsPast
      <4> QED BY <1>n, <2>1, <2>3, <3>2, <4>1, <4>2 DEF Installs, Span
    <3> QED BY <2>3, <3>1, <3>2
  <2>10. AnchorIsPast'
    BY <2>2 DEF AnchorIsPast
  <2> QED
    BY <2>2, <2>4, <2>6, <2>8, <2>9, <2>10 DEF PlanInv, PlanHasNoHole, PlanAboveFloor
<1>12. CASE ClearInFlight \/ InferFails \/ SenderExits
  BY <1>1, <1>12 DEF ClearInFlight, InferFails, SenderExits, Idle, Same
<1>13. CASE Stop \/ UNCHANGED clientVars
  BY <1>1, <1>13 DEF Stop, clientVars, Same
<1> QED
  BY <1>2, <1>3, <1>4, <1>5, <1>6, <1>7, <1>8, <1>9, <1>10, <1>11, <1>12, <1>13
     DEF ClientNext, SenderNext, StepNext, FlushNext, Terminating

(* Type correctness and everything the plan promises, in every state.       *)
THEOREM ClientInvariant == ClientSpec => []Inv
<1>1. ClientInit => Inv
  BY InitInv
<1>2. Inv /\ [ClientNext]_clientVars => Inv'
  BY TypeStep, PlanStep DEF Inv, PlanInv
<1> QED BY <1>1, <1>2, PTL DEF ClientSpec

(* Every variable keeps its type.                                           *)
THEOREM TypeCorrect == ClientSpec => []TypeOK
BY ClientInvariant, PTL DEF Inv

(* step() never starves behind a hole in the plan, whatever the timing of   *)
(* merges, pops and flushes.                                                *)
THEOREM PlanNeverHasHole == ClientSpec => []PlanHasNoHole
BY ClientInvariant, PTL DEF Inv

(* No chunk stamped before a barrier is planned after it, also when it was  *)
(* in the air as the barrier was raised.                                    *)
THEOREM BarrierCancelsPlans == ClientSpec => []PlanAboveFloor
BY ClientInvariant, PTL DEF Inv

-----------------------------------------------------------------------------

LEMMA SyncStep ==
    ASSUME TypeOK, TypeOK', SyncOneInFlight, [ClientNext]_clientVars
    PROVE  SyncOneInFlight'
<1> DEFINE busy(s) == s.pc \in {"stamped", "sent", "merged"}
           Quiet   == Len(outbox) = 0 /\ ~busy(sender)
           One     == \/ Len(outbox) = 1 /\ ~busy(sender)
                      \/ Len(outbox) = 0 /\ busy(sender)
<1>0. Len(outbox) \in Nat /\ Len(outbox') \in Nat
  <2>1. outbox \in Seq(Nat) /\ outbox' \in Seq(Nat)
    BY DEF TypeOK
  <2> QED BY <2>1, LenProperties
<1>1. synchronous => Quiet \/ (One /\ inFlight)
  <2>1. CASE busy(sender)
    <3>1. Outstanding = Len(outbox) + 1
      BY <2>1 DEF Outstanding
    <3> QED BY <1>0, <2>1, <3>1 DEF SyncOneInFlight
  <2>2. CASE ~busy(sender)
    <3>1. Outstanding = Len(outbox)
      BY <1>0, <2>2 DEF Outstanding
    <3> QED BY <1>0, <2>2, <3>1 DEF SyncOneInFlight
  <2> QED BY <2>1, <2>2
<1>2. ASSUME synchronous' PROVE Quiet' \/ (One' /\ inFlight')
  <2>0. synchronous
    BY <1>2 DEF ClientNext, SenderNext, StepNext, FlushNext, Terminating, clientVars,
       StepBegin, StepSubmit, StepNoSubmit, StepEncodeFails, StepPop, FlushPlain,
       BarrierTick, BarrierFlush, Stop, Stamp, SendInfer, ReceiveChunk, ClearInFlight,
       InferFails, SenderExits
  <2>1. Quiet \/ (One /\ inFlight)
    BY <1>1, <2>0
  <2> USE DEF schedVars, senderVars, gateVars
  <2>2. CASE StepSubmit
    <3>1. ~inFlight /\ Quiet
      BY <2>0, <2>1, <2>2 DEF StepSubmit, ShouldSend
    <3>2. inFlight' /\ sender' = sender /\ outbox' = Append(outbox, barriers)
      BY <2>0, <2>2 DEF StepSubmit
    <3>3. Len(outbox') = Len(outbox) + 1
      BY <3>2 DEF TypeOK
    <3> QED BY <3>1, <3>2, <3>3
  <2>3. CASE Stamp
    <3>1. ~busy(sender) /\ outbox # <<>> /\ outbox' = Tail(outbox)
          /\ busy(sender') /\ inFlight' = inFlight
      BY <2>3 DEF Stamp
    <3>2. Len(outbox) = 1 /\ inFlight
      BY <2>1, <3>1 DEF TypeOK
    <3>3. Len(outbox') = 0
      BY <3>1, <3>2 DEF TypeOK
    <3> QED BY <3>1, <3>2, <3>3
  <2>4. CASE SendInfer
    BY <2>1, <2>4 DEF SendInfer, TypeOK
  <2>5. ASSUME NEW n \in ChunkLens, NEW d \in Delays, ReceiveChunk(n, d)
        PROVE  Quiet' \/ (One' /\ inFlight')
    BY <2>1, <2>5 DEF ReceiveChunk, TypeOK
  <2>6. CASE ClearInFlight \/ InferFails
    BY <2>1, <2>6 DEF ClearInFlight, InferFails, Idle
  <2>7. CASE SenderExits
    BY <2>1, <2>7 DEF SenderExits, Idle
  <2>8. CASE UNCHANGED <<outbox, sender, inFlight>>
    BY <2>1, <2>8
  <2> QED
    BY <2>2, <2>3, <2>4, <2>5, <2>6, <2>7, <2>8
       DEF ClientNext, SenderNext, StepNext, FlushNext, Terminating, clientVars, StepBegin,
       StepNoSubmit, StepEncodeFails, StepPop, FlushPlain, BarrierTick, BarrierFlush, Stop
<1>3. (synchronous' => Quiet' \/ (One' /\ inFlight')) => SyncOneInFlight'
  <2>1. Outstanding' = Len(outbox') + (IF busy(sender') THEN 1 ELSE 0)
    BY DEF Outstanding
  <2>2. CASE busy(sender')
    <3>1. Outstanding' = Len(outbox') + 1
      BY <2>1, <2>2
    <3> QED BY <1>0, <2>2, <3>1 DEF SyncOneInFlight
  <2>3. CASE ~busy(sender')
    <3>1. Outstanding' = Len(outbox')
      BY <1>0, <2>1, <2>3
    <3> QED BY <1>0, <2>3, <3>1 DEF SyncOneInFlight
  <2> QED BY <2>2, <2>3
<1> QED BY <1>2, <1>3

(* In synchronous mode at most one request is outstanding, and the gate is  *)
(* shut while it is.                                                        *)
THEOREM SyncHasOneInFlight == ClientSpec => []SyncOneInFlight
<1>1. ClientInit => SyncOneInFlight
  <2> SUFFICES ASSUME ClientInit PROVE Outstanding = 0
    BY DEF SyncOneInFlight
  <2>1. Len(outbox) = 0 /\ sender.pc = "idle"
    BY DEF ClientInit, Idle
  <2> QED BY <2>1 DEF Outstanding
<1>2. Inv /\ Inv' /\ SyncOneInFlight /\ [ClientNext]_clientVars => SyncOneInFlight'
  BY SyncStep DEF Inv
<1> QED BY <1>1, <1>2, ClientInvariant, PTL DEF ClientSpec

-----------------------------------------------------------------------------

(* A step of the client executes one action, raises the fence, or leaves    *)
(* the stream alone.                                                        *)
LEMMA StreamStep ==
    ASSUME Inv, [ClientNext]_clientVars
    PROVE  [Stream!Next]_(Stream!streamVars)
<1>0. /\ IsSchedule(sched) /\ NoHole(sched) /\ AboveFloor(sched) /\ newest \in Nat
      /\ sched.floor \in Nat /\ sched.cursor \in Nat /\ caller.ts \in Nat
  BY DEF Inv, TypeOK, IsSchedule, PlanHasNoHole, PlanAboveFloor
<1> DEFINE Same == UNCHANGED <<sched.cursor, newest, sched.floor>>
<1>1. Same => [Stream!Next]_(Stream!streamVars)
  BY DEF Stream!streamVars
<1> HIDE DEF Same
<1> USE DEF schedVars, senderVars, gateVars
<1>2. CASE StepPop
  <2>1. /\ sched'.floor = sched.floor
        /\ sched'.cursor = IF CanPop(sched) THEN sched.cursor + 1 ELSE sched.cursor
    BY <1>0, <1>2, PopSchedule DEF StepPop
  <2>2. newest' = IF CanPop(sched) THEN sched.data[sched.cursor] ELSE newest
    BY <1>2 DEF StepPop
  <2>3. CASE ~CanPop(sched)
    BY <1>1, <2>1, <2>2, <2>3 DEF Same
  <2>4. CASE CanPop(sched)
    <3>1. /\ sched.data[sched.cursor] \in Nat
          /\ sched.data[sched.cursor] > sched.floor
          /\ newest =< sched.data[sched.cursor]
      BY <1>0, <2>4 DEF CanPop, AboveFloor, IsSchedule, Inv, PlanIsMonotone
    <3> QED BY <1>0, <2>1, <2>2, <2>4, <3>1 DEF Stream!Next, Stream!Execute
  <2> QED BY <2>3, <2>4
<1>3. CASE BarrierFlush
  <2>1. caller.pc = "flush" /\ newest' = newest /\ sched' = FlushBarrier(sched, caller.ts)
    BY <1>3 DEF BarrierFlush
  <2>2. sched.floor < caller.ts /\ newest =< caller.ts
    BY <2>1 DEF Inv, StampsAreOrdered
  <2>3. sched'.cursor = sched.cursor /\ sched'.floor = caller.ts
    BY <1>0, <2>1, <2>2, FlushSchedule
  <2> QED BY <1>0, <2>1, <2>2, <2>3 DEF Stream!Next, Stream!Cancel
<1>4. CASE FlushPlain
  BY <1>0, <1>1, <1>4, FlushSchedule DEF FlushPlain, Same
<1>5. ASSUME NEW n \in ChunkLens, NEW d \in Delays, ReceiveChunk(n, d)
      PROVE  [Stream!Next]_(Stream!streamVars)
  <2> DEFINE c == [ts |-> sender.ts, start |-> sender.start, len |-> n]
  <2>1. c \in Chunk
    BY ClientAssumption DEF Chunk, Inv, TypeOK
  <2>2. sched'.cursor = sched.cursor /\ sched'.floor = sched.floor
    BY <1>0, <1>5, <2>1, MergeSchedule DEF ReceiveChunk
  <2> QED BY <1>1, <1>5, <2>2 DEF ReceiveChunk, Same
<1>6. CASE UNCHANGED <<sched, newest>>
  BY <1>1, <1>6 DEF Same
<1> QED
  BY <1>2, <1>3, <1>4, <1>5, <1>6
     DEF ClientNext, SenderNext, StepNext, FlushNext, Terminating, clientVars, StepBegin,
     StepSubmit, StepNoSubmit, StepEncodeFails, BarrierTick, Stop, Stamp, SendInfer,
     ClearInFlight, InferFails, SenderExits

(* The client, threads and all, is a stream of actions: no step skipped or  *)
(* repeated, no plan older than the one before, none from below a fence.    *)
THEOREM ClientImplementsStream == ClientSpec => ImplementsActionStream
<1>1. ClientInit => Stream!Init
  BY DEF ClientInit, EmptySchedule, Stream!Init
<1>2. Inv /\ [ClientNext]_clientVars => [Stream!Next]_(Stream!streamVars)
  BY StreamStep
<1> QED
  BY <1>1, <1>2, ClientInvariant, PTL DEF ClientSpec, ImplementsActionStream, Stream!Spec

-----------------------------------------------------------------------------
(***************************************************************************)
(* ControlLoop.  The loop drives the client by the calls DrtcClient.tla    *)
(* allows, so the client's own invariant comes with it; what is added here *)
(* relates the tick the loop is in to what the bus remembers of earlier ones. *)
(***************************************************************************)

InTick == {"act", "step", "send"}

(* Nothing has moved the robot yet in a tick that has not sent.             *)
MovesLast == moved # "none" => loop.pc = "top"

(* An e-stop is on its way to the gate or has latched it, and a tick that   *)
(* was sampled after one goes nowhere but through its barrier.              *)
EstopIsCarried ==
    /\ setup.gated /\ pressed => sticky \/ latched
    /\ stopSeen => pressed
    /\ setup.gated /\ stopSeen /\ loop.pc \in InTick =>
          loop.pc = "act" /\ loop.source = "estop"

(* The ticks of the grace already spent and those left make up the grace.   *)
GraceIsCounted ==
    /\ setup.policy =>
          IF quiet = Released THEN grace = 0 ELSE quiet + grace = GraceTicks
    /\ loop.source \in {"policy", "graceHold", "intervention"} => setup.policy
    /\ loop.pc \in InTick /\ loop.source = "policy" =>
          loop.pc # "act" /\ quiet = Released /\ grace = 0

(* The gate forgets its trajectory before any tick that is not the human's. *)
GateIsFresh ==
    loop.pc \in InTick /\ loop.source \in {"policy", "hold", "graceHold"} => ~anchored

(* The filter is empty from the engage edge until the policy moves again.   *)
FilterIsFresh ==
    loop.pc # "ended" =>
        /\ prevSource = "intervention" => ~primed
        /\ grace > 0 => ~primed
        /\ loop.pc \in InTick /\ loop.source = "intervention" => ~primed

(* An intervention the bus does not take for a new one goes on from motion  *)
(* of the human.                                                            *)
HumanStillDrives ==
    loop.pc # "ended" =>
        /\ prevSource = "intervention" => lastMover = "human"
        /\ grace > 0 /\ ~(loop.pc \in InTick /\ loop.source = "intervention") =>
              lastMover = "human"

(* The barrier of a takeover is newer than the takeover; once it is past,   *)
(* so is the floor, and so is everything that is popped.                    *)
TakeoverIsFenced ==
    /\ takeover =< clock
    /\ \/ takeover = 0
       \/ takeover < sched.floor
       \/ loop.pc = "act" /\ loop.source = "intervention"
       \/ loop.pc = "ended"
    /\ caller.pc = "flush" => loop.pc = "act" /\ takeover < caller.ts
    /\ loop.pc = "send" /\ loop.source = "policy" /\ popped # NoAction => takeover < popped.ts

LoopInv ==
    /\ LoopTypeOK
    /\ MovesLast
    /\ EstopIsCarried
    /\ GraceIsCounted
    /\ GateIsFresh
    /\ FilterIsFresh
    /\ HumanStillDrives
    /\ TakeoverIsFenced
    /\ EstopStopsMotion
    /\ PolicyWaitsForHandback
    /\ PolicyPlansAfterTakeover
    /\ FilterIsPolicyOnly
    /\ GateTrajectoryIsCurrent

-----------------------------------------------------------------------------
(* The loop and its client.                                                *)

(* A failed e-stop forward or a failed command is counted among the         *)
(* client's failures, and is nothing else to it.                            *)
LEMMA ClientFollows ==
    ASSUME [Next]_vars
    PROVE  \/ [ClientNext]_clientVars
           \/ /\ UNCHANGED <<schedVars, senderVars, gateVars, clock, caller, stopping, synchronous>>
              /\ failures' \in {failures, failures + 1}
<1>1. CASE ObserveAndArbitrate
  BY <1>1 DEF ObserveAndArbitrate, ForwardEstop
<1>2. CASE CommandFails
  BY <1>2 DEF CommandFails
<1>3. CASE LoopStops \/ GuardHolds \/ SampleTeleop \/ SendPolicyAction \/ SendNothing
           \/ SendHumanTarget \/ HoldPose \/ TeleopNext
  BY <1>3 DEF LoopStops, GuardHolds, SampleTeleop, SendPolicyAction, SendNothing,
     SendHumanTarget, HoldPose, TeleopNext, FrameArrives, LateEstopArrives, FrameGoesStale
<1>4. CASE GuardEndsEpisode \/ TakeBarrier \/ ApplyBarrier \/ SendTeleopTarget
  BY <1>4 DEF GuardEndsEpisode, TakeBarrier, ApplyBarrier, SendTeleopTarget, ClientNext, FlushNext
<1>5. CASE LoopStepBegin \/ LoopStepGate \/ LoopEncodeFails \/ LoopStepPop
  BY <1>5 DEF LoopStepBegin, LoopStepGate, LoopEncodeFails, LoopStepPop, ClientNext, StepNext
<1>6. CASE SenderStep \/ CloseClient \/ EpisodeOver
  BY <1>6 DEF SenderStep, CloseClient, EpisodeOver, ClientNext
<1>7. CASE UNCHANGED vars
  BY <1>7 DEF vars
<1> QED
  BY <1>1, <1>2, <1>3, <1>4, <1>5, <1>6, <1>7 DEF Next, LoopNext

(* Whatever the bus does, the client keeps its invariant.                   *)
LEMMA ClientKeepsInv ==
    ASSUME Inv, [Next]_vars
    PROVE  Inv'
<1>1. CASE [ClientNext]_clientVars
  BY <1>1, TypeStep, PlanStep DEF Inv, PlanInv
<1>2. CASE /\ UNCHANGED <<schedVars, senderVars, gateVars, clock, caller, stopping, synchronous>>
           /\ failures' \in {failures, failures + 1}
  <2>1. TypeOK'
    BY <1>2 DEF Inv, TypeOK, schedVars, senderVars, gateVars
  <2>2. PlanInv'
    BY <1>2, PlanUnchanged DEF Inv, PlanInv, schedVars, senderVars
  <2> QED BY <2>1, <2>2 DEF Inv, PlanInv
<1> QED BY <1>1, <1>2, ClientFollows

(* Time does not run back: the clock and the floor only rise.               *)
LEMMA FloorRises ==
    ASSUME Inv, [Next]_vars
    PROVE  /\ sched.floor \in Nat /\ sched'.floor \in Nat /\ sched.floor =< sched'.floor
           /\ clock \in Nat /\ clock' \in Nat /\ clock =< clock'
<1>0. /\ sched.floor \in Nat /\ sched'.floor \in Nat /\ clock \in Nat /\ clock' \in Nat
      /\ TypeOK
  BY ClientKeepsInv DEF Inv, TypeOK, IsSchedule
<1>1. CASE UNCHANGED <<sched, clock>>
  BY <1>0, <1>1
<1>2. CASE [ClientNext]_clientVars
  <2>1. sched.floor =< sched'.floor
    BY <1>0, <1>2, StreamStep DEF Stream!Next, Stream!Execute, Stream!Cancel, Stream!streamVars
  <2>2. clock' = clock \/ clock' = clock + 1
    BY <1>2 DEF ClientNext, SenderNext, StepNext, FlushNext, Terminating, clientVars,
       StepBegin, StepSubmit, StepNoSubmit, StepEncodeFails, StepPop, FlushPlain,
       BarrierTick, BarrierFlush, Stop, Stamp, SendInfer, ReceiveChunk, ClearInFlight,
       InferFails, SenderExits, ClockTick
  <2> QED BY <1>0, <2>1, <2>2
<1> QED BY <1>1, <1>2, ClientFollows DEF schedVars

(* The sender leaves the control loop's own client state alone.             *)
LEMMA SenderLeaves ==
    ASSUME SenderStep
    PROVE  UNCHANGED <<caller, popped, newest, barriers, stopping>>
BY DEF SenderStep, SenderNext, Stamp, SendInfer, ReceiveChunk, ClearInFlight, InferFails,
   SenderExits, schedVars

-----------------------------------------------------------------------------
(* What one arbitration decides.                                           *)

Decided == Arbitrate(loop.frame, latched')

LEMMA Arbitration ==
    ASSUME LoopTypeOK, ObserveAndArbitrate
    PROVE  /\ loop.pc = "sampled"
           /\ Decided \in Sources
           /\ Decided \in {"policy", "intervention"} => setup.policy
           /\ latched' => Decided = "estop"
           /\ loop' = [pc     |-> IF Decided = "estop" \/ EngageEdge(Decided) THEN "act"
                                  ELSE IF StepsClient(Decided) THEN "step" ELSE "send",
                       frame  |-> loop.frame,
                       source |-> IF GraceHolds(Decided) THEN "graceHold" ELSE Decided]
           /\ grace' = GraceAfter(Decided)
           /\ quiet' = QuietAfter(Decided)
           /\ anchored' = GateAfter(Decided)
           /\ primed' = IF Decided = "estop" \/ EngageEdge(Decided) THEN FALSE ELSE primed
           /\ takeover' = IF Decided = "intervention" /\ lastMover # "human"
                          THEN clock ELSE takeover
           /\ latched' = IF EstopHit /\ setup.gated THEN TRUE ELSE latched
           /\ sticky' = IF loop.frame = "estop" THEN sticky ELSE FALSE
           /\ UNCHANGED <<schedVars, clock, caller, setup, held, pressed, prevSource, moved,
                          lastMover, stopSeen>>
<1>1. /\ Decided \in Sources
      /\ Decided \in {"policy", "intervention"} => setup.policy
      /\ latched' => Decided = "estop"
  BY DEF Decided, Arbitrate, Sources
<1> QED BY <1>1 DEF Decided, ObserveAndArbitrate, ConsumeSticky

-----------------------------------------------------------------------------
(* Every step keeps the invariant, one part at a time.                      *)

LEMMA LoopTypeStep ==
    ASSUME LoopInv, Inv, [Next]_vars
    PROVE  LoopTypeOK'
<1>0. LoopTypeOK /\ TypeOK' /\ clock \in Nat /\ GraceTicks \in Nat
  BY ClientKeepsInv, LoopAssumption DEF LoopInv, LoopTypeOK, Inv, TypeOK
<1>6. ASSUME ObserveAndArbitrate PROVE LoopTypeOK'
  <2>1. /\ Decided \in Sources
        /\ grace' = GraceAfter(Decided)
        /\ quiet' = QuietAfter(Decided)
        /\ UNCHANGED <<setup, held, pressed, prevSource, moved, lastMover, stopSeen>>
    BY <1>0, <1>6, Arbitration
  <2>2. loop' \in [pc : {"act", "step", "send"}, frame : Frames,
                   source : Sources \cup {"graceHold"}]
    <3>1. /\ loop' = [pc |-> loop'.pc, frame |-> loop.frame,
                      source |-> IF GraceHolds(Decided) THEN "graceHold" ELSE Decided]
          /\ loop'.pc \in {"act", "step", "send"}
      BY <1>0, <1>6, Arbitration
    <3>2. loop.frame \in Frames
      BY <1>0 DEF LoopTypeOK
    <3> QED BY <2>1, <3>1, <3>2
  <2>3. grace' \in 0 .. GraceTicks
    <3>1. grace \in 0 .. GraceTicks
      BY <1>0 DEF LoopTypeOK
    <3> QED BY <1>0, <2>1, <3>1 DEF GraceAfter, GraceHolds
  <2>4. quiet' \in 0 .. Released
    <3>1. quiet \in 0 .. Released
      BY <1>0 DEF LoopTypeOK
    <3> QED BY <1>0, <2>1, <3>1 DEF QuietAfter, Released
  <2>5. takeover' \in Nat
    BY <1>0, <1>6, Arbitration DEF LoopTypeOK
  <2>6. latched' \in BOOLEAN /\ sticky' \in BOOLEAN
    BY <1>0, <1>6, Arbitration DEF LoopTypeOK
  <2>7. anchored' \in BOOLEAN /\ primed' \in BOOLEAN
    BY <1>0, <1>6, Arbitration DEF LoopTypeOK, GateAfter
  <2>8. forwards' \in Nat /\ forwarded' \in BOOLEAN
    <3>1. forwards \in Nat /\ forwarded \in BOOLEAN
      BY <1>0 DEF LoopTypeOK
    <3>2. forwards' = forwards \/ forwards' = forwards + 1
      BY <1>6 DEF ObserveAndArbitrate, ForwardEstop
    <3>3. forwarded' \in BOOLEAN
      BY <1>6, <3>1 DEF ObserveAndArbitrate, ForwardEstop
    <3> QED BY <3>1, <3>2, <3>3
  <2> QED BY <1>0, <2>1, <2>2, <2>3, <2>4, <2>5, <2>6, <2>7, <2>8 DEF LoopTypeOK
<1> USE DEF LoopTypeOK, busVars, linkVars, histVars, Frames, Sources, Top, Released
<1>1. CASE TeleopNext
  <2>1. ASSUME NEW f \in Frames \ {"none"}, FrameArrives(f) PROVE  LoopTypeOK'
    <3>1. held' \in Frames /\ sticky' \in BOOLEAN /\ pressed' \in BOOLEAN
      BY <1>0, <2>1 DEF FrameArrives
    <3>2. UNCHANGED <<setup, loop, busVars, moved, histVars>>
      BY <2>1 DEF FrameArrives
    <3> QED BY <1>0, <3>1, <3>2
  <2>2. CASE LateEstopArrives
    BY <1>0, <2>2 DEF LateEstopArrives
  <2>3. CASE FrameGoesStale
    BY <1>0, <2>3 DEF FrameGoesStale
  <2> QED BY <1>1, <2>1, <2>2, <2>3 DEF TeleopNext
<1>2. CASE LoopStops
  BY <1>0, <1>2 DEF LoopStops
<1>3. CASE GuardEndsEpisode
  BY <1>0, <1>3 DEF GuardEndsEpisode
<1>4. CASE GuardHolds
  <2>1. anchored' \in BOOLEAN /\ primed' \in BOOLEAN /\ moved' = "none"
    BY <1>4 DEF GuardHolds
  <2>2. UNCHANGED <<setup, linkVars, loop, latched, forwards, forwarded, prevSource, grace,
                    histVars>>
    BY <1>4 DEF GuardHolds
  <2> QED BY <1>0, <2>1, <2>2
<1>5. CASE SampleTeleop
  <2>1. loop' \in [pc : {"sampled"}, frame : Frames, source : {"none"}]
    BY <1>0, <1>5 DEF SampleTeleop
  <2>2. moved' = "none" /\ stopSeen' = pressed
        /\ UNCHANGED <<setup, linkVars, busVars, lastMover, quiet, takeover>>
    BY <1>5 DEF SampleTeleop
  <2> QED BY <1>0, <2>1, <2>2
<1>7. CASE TakeBarrier
  BY <1>0, <1>7 DEF TakeBarrier
<1>8. CASE ApplyBarrier
  BY <1>0, <1>8 DEF ApplyBarrier
<1>9. CASE LoopStepBegin
  BY <1>0, <1>9 DEF LoopStepBegin
<1>10. CASE LoopStepGate
  BY <1>0, <1>10 DEF LoopStepGate
<1>11. CASE LoopEncodeFails
  BY <1>0, <1>11 DEF LoopEncodeFails
<1>12. CASE LoopStepPop
  BY <1>0, <1>12 DEF LoopStepPop
<1>13. CASE SendPolicyAction
  BY <1>0, <1>13 DEF SendPolicyAction, FinishTick
<1>14. CASE SendNothing
  BY <1>0, <1>14 DEF SendNothing, FinishTick
<1>15. CASE HoldPose
  BY <1>0, <1>15 DEF HoldPose, FinishTick
<1>16. CASE SendHumanTarget
  BY <1>0, <1>16 DEF SendHumanTarget, FinishTick, GateSteps
<1>17. CASE SendTeleopTarget
  BY <1>0, <1>17 DEF SendTeleopTarget, FinishTick, GateSteps
<1>18. CASE CommandFails
  <2>1. /\ primed' \in BOOLEAN /\ anchored' \in BOOLEAN
        /\ loop' = [loop EXCEPT !.pc = "ended"]
    BY <1>0, <1>18 DEF CommandFails
  <2>2. UNCHANGED <<setup, linkVars, latched, forwards, forwarded, prevSource, grace, moved,
                    histVars>>
    BY <1>18 DEF CommandFails
  <2> QED BY <1>0, <2>1, <2>2
<1>19. CASE SenderStep \/ CloseClient \/ EpisodeOver \/ UNCHANGED vars
  BY <1>0, <1>19 DEF SenderStep, CloseClient, EpisodeOver, vars
<1> QED
  BY <1>1, <1>2, <1>3, <1>4, <1>5, <1>6, <1>7, <1>8, <1>9, <1>10, <1>11, <1>12,
     <1>13, <1>14, <1>15, <1>16, <1>17, <1>18, <1>19
     DEF Next, LoopNext

LEMMA EstopStep ==
    ASSUME LoopInv, [Next]_vars
    PROVE  EstopIsCarried' /\ MovesLast' /\ EstopStopsMotion'
<1>0. EstopIsCarried /\ MovesLast /\ EstopStopsMotion /\ LoopTypeOK
  BY DEF LoopInv
<1> USE DEF EstopIsCarried, MovesLast, EstopStopsMotion, InTick,
        busVars, linkVars, histVars, Top
<1>1. CASE TeleopNext
  <2>1. ASSUME NEW f \in Frames \ {"none"}, FrameArrives(f) PROVE  EstopIsCarried' /\ MovesLast' /\ EstopStopsMotion'
    BY <1>0, <2>1 DEF FrameArrives
  <2>2. CASE LateEstopArrives
    BY <1>0, <2>2 DEF LateEstopArrives
  <2>3. CASE FrameGoesStale
    BY <1>0, <2>3 DEF FrameGoesStale
  <2> QED BY <1>1, <2>1, <2>2, <2>3 DEF TeleopNext
<1>2. CASE LoopStops
  BY <1>0, <1>2 DEF LoopStops, LoopTypeOK
<1>3. CASE GuardEndsEpisode
  BY <1>0, <1>3 DEF GuardEndsEpisode, LoopTypeOK
<1>4. CASE GuardHolds
  BY <1>0, <1>4 DEF GuardHolds, MayTick, LoopTypeOK
<1>5. CASE SampleTeleop
  BY <1>0, <1>5 DEF SampleTeleop, LoopTypeOK
<1>6. CASE ObserveAndArbitrate
  <2>1. /\ loop.pc = "sampled"
        /\ sticky' = IF loop.frame = "estop" THEN sticky ELSE FALSE
        /\ UNCHANGED <<setup, pressed, moved, stopSeen>>
    BY <1>0, <1>6, Arbitration
  <2>2. Decided = "estop" => loop'.pc = "act" /\ loop'.source = "estop"
    BY <1>0, <1>6, Arbitration DEF GraceHolds
  <2>3. /\ latched' => Decided = "estop"
        /\ latched \/ (EstopHit /\ setup.gated) => latched'
    BY <1>0, <1>6, Arbitration
  <2>4. moved' = "none" /\ (stopSeen' => pressed')
    BY <1>0, <2>1 DEF LoopTypeOK
  <2>5. setup'.gated /\ pressed' => sticky' \/ latched'
    BY <1>0, <2>1, <2>3 DEF EstopHit
  <2>6. setup'.gated /\ stopSeen' => loop'.pc = "act" /\ loop'.source = "estop"
    BY <1>0, <2>1, <2>2, <2>3 DEF EstopHit
  <2> QED BY <2>4, <2>5, <2>6
<1>7. CASE TakeBarrier
  BY <1>0, <1>7 DEF TakeBarrier, LoopTypeOK
<1>8. CASE ApplyBarrier
  BY <1>0, <1>8 DEF ApplyBarrier, LoopTypeOK
<1>9. CASE LoopStepBegin
  BY <1>0, <1>9 DEF LoopStepBegin, LoopTypeOK
<1>10. CASE LoopStepGate
  BY <1>0, <1>10 DEF LoopStepGate, LoopTypeOK
<1>11. CASE LoopEncodeFails
  BY <1>0, <1>11 DEF LoopEncodeFails, LoopTypeOK
<1>12. CASE LoopStepPop
  BY <1>0, <1>12 DEF LoopStepPop, LoopTypeOK
<1>13. CASE SendPolicyAction
  BY <1>0, <1>13 DEF SendPolicyAction, FinishTick
<1>14. CASE SendNothing
  BY <1>0, <1>14 DEF SendNothing, FinishTick
<1>15. CASE HoldPose
  BY <1>0, <1>15 DEF HoldPose, FinishTick
<1>16. CASE SendHumanTarget
  BY <1>0, <1>16 DEF SendHumanTarget, FinishTick, GateSteps, LoopTypeOK
<1>17. CASE SendTeleopTarget
  BY <1>0, <1>17 DEF SendTeleopTarget, FinishTick, GateSteps, LoopTypeOK
<1>18. CASE CommandFails
  BY <1>0, <1>18 DEF CommandFails, LoopTypeOK
<1>19. CASE SenderStep \/ CloseClient \/ EpisodeOver \/ UNCHANGED vars
  BY <1>0, <1>19 DEF SenderStep, CloseClient, EpisodeOver, vars
<1> QED
  BY <1>1, <1>2, <1>3, <1>4, <1>5, <1>6, <1>7, <1>8, <1>9, <1>10, <1>11, <1>12,
     <1>13, <1>14, <1>15, <1>16, <1>17, <1>18, <1>19
     DEF Next, LoopNext

LEMMA HandbackStep ==
    ASSUME LoopInv, [Next]_vars
    PROVE  GraceIsCounted' /\ PolicyWaitsForHandback'
<1>0. /\ GraceIsCounted /\ PolicyWaitsForHandback /\ MovesLast /\ LoopTypeOK
      /\ GraceTicks \in Nat /\ grace \in Nat /\ quiet \in Nat
  BY LoopAssumption DEF LoopInv, LoopTypeOK, Released
<1> USE DEF GraceIsCounted, PolicyWaitsForHandback, InTick, busVars, linkVars, histVars, Top
<1>1. CASE TeleopNext
  <2>1. ASSUME NEW f \in Frames \ {"none"}, FrameArrives(f) PROVE  GraceIsCounted' /\ PolicyWaitsForHandback'
    BY <1>0, <2>1 DEF FrameArrives
  <2>2. CASE LateEstopArrives
    BY <1>0, <2>2 DEF LateEstopArrives
  <2>3. CASE FrameGoesStale
    BY <1>0, <2>3 DEF FrameGoesStale
  <2> QED BY <1>1, <2>1, <2>2, <2>3 DEF TeleopNext
<1>2. CASE LoopStops
  BY <1>0, <1>2 DEF LoopStops, LoopTypeOK
<1>3. CASE GuardEndsEpisode
  BY <1>0, <1>3 DEF GuardEndsEpisode, LoopTypeOK
<1>4. CASE GuardHolds
  BY <1>0, <1>4 DEF GuardHolds, MayTick, LoopTypeOK
<1>5. CASE SampleTeleop
  BY <1>0, <1>5 DEF SampleTeleop, LoopTypeOK
<1>6. CASE ObserveAndArbitrate
  <2>1. /\ loop.pc = "sampled"
        /\ Decided \in Sources
        /\ Decided \in {"policy", "intervention"} => setup.policy
        /\ loop'.source = IF GraceHolds(Decided) THEN "graceHold" ELSE Decided
        /\ loop'.pc = "act" => Decided \in {"estop", "intervention"}
        /\ grace' = GraceAfter(Decided)
        /\ quiet' = QuietAfter(Decided)
        /\ UNCHANGED <<setup, moved>>
    BY <1>0, <1>6, Arbitration DEF EngageEdge
  <2>5. setup.policy => Decided \in {"policy", "intervention", "estop"}
    BY DEF Decided, Arbitrate
  <2>2. moved' = "none"
    BY <1>0, <2>1 DEF MovesLast, LoopTypeOK
  <2>3. setup.policy =>
            IF quiet' = Released THEN grace' = 0 ELSE quiet' + grace' = GraceTicks
    <3>1. CASE Decided = "policy"
      BY <1>0, <2>1, <3>1 DEF GraceAfter, QuietAfter, GraceHolds, Released
    <3>2. CASE Decided \in {"intervention", "estop"}
      BY <1>0, <2>1, <3>2 DEF GraceAfter, QuietAfter, GraceHolds, Released
    <3> QED BY <2>5, <3>1, <3>2
  <2>4. loop'.source = "policy" => quiet' = Released /\ grace' = 0
    BY <1>0, <2>1 DEF GraceAfter, QuietAfter, GraceHolds, Released, Sources
  <2>6. loop'.source \in {"policy", "graceHold", "intervention"} => setup'.policy
    <3>1. CASE GraceHolds(Decided)
      BY <2>1, <3>1 DEF GraceHolds
    <3>2. CASE ~GraceHolds(Decided)
      <4>1. loop'.source = Decided
        BY <2>1, <3>2
      <4>2. Decided # "graceHold"
        BY <2>1 DEF Sources
      <4> QED BY <2>1, <4>1, <4>2
    <3> QED BY <3>1, <3>2
  <2>7. loop'.pc \in InTick /\ loop'.source = "policy" => loop'.pc # "act"
    BY <2>1
  <2> QED BY <2>1, <2>2, <2>3, <2>4, <2>6, <2>7
<1>7. CASE TakeBarrier \/ ApplyBarrier
  <2>1. UNCHANGED <<setup, grace, quiet, moved>>
    BY <1>7 DEF TakeBarrier, ApplyBarrier
  <2>2. \/ loop' = loop /\ loop.pc = "act"
        \/ loop' = Top
        \/ loop' = [loop EXCEPT !.pc = IF synchronous THEN "send" ELSE "step"]
           /\ loop.pc = "act" /\ loop.source # "estop"
    BY <1>7 DEF TakeBarrier, ApplyBarrier
  <2>3. loop.pc = "act" => loop.source # "policy"
    BY <1>0
  <2> QED BY <1>0, <2>1, <2>2, <2>3 DEF LoopTypeOK
<1>8. CASE LoopStepBegin
  BY <1>0, <1>8 DEF LoopStepBegin, LoopTypeOK
<1>9. CASE LoopStepGate
  BY <1>0, <1>9 DEF LoopStepGate, LoopTypeOK
<1>10. CASE LoopEncodeFails
  BY <1>0, <1>10 DEF LoopEncodeFails, LoopTypeOK
<1>11. CASE LoopStepPop
  BY <1>0, <1>11 DEF LoopStepPop, LoopTypeOK
<1>12. CASE SendPolicyAction
  BY <1>0, <1>12 DEF SendPolicyAction, FinishTick
<1>13. CASE SendNothing
  BY <1>0, <1>13 DEF SendNothing, FinishTick
<1>14. CASE HoldPose
  BY <1>0, <1>14 DEF HoldPose, FinishTick
<1>15. CASE SendHumanTarget
  BY <1>0, <1>15 DEF SendHumanTarget, FinishTick, GateSteps, LoopTypeOK
<1>16. CASE SendTeleopTarget
  BY <1>0, <1>16 DEF SendTeleopTarget, FinishTick, GateSteps, LoopTypeOK
<1>17. CASE CommandFails
  BY <1>0, <1>17 DEF CommandFails, LoopTypeOK
<1>18. CASE SenderStep \/ CloseClient \/ EpisodeOver \/ UNCHANGED vars
  BY <1>0, <1>18 DEF SenderStep, CloseClient, EpisodeOver, vars
<1> QED
  BY <1>1, <1>2, <1>3, <1>4, <1>5, <1>6, <1>7, <1>8, <1>9, <1>10, <1>11, <1>12,
     <1>13, <1>14, <1>15, <1>16, <1>17, <1>18
     DEF Next, LoopNext

(* The gate's trajectory.                                                   *)
LEMMA GateStep ==
    ASSUME LoopInv, [Next]_vars
    PROVE  GateIsFresh' /\ GateTrajectoryIsCurrent'
<1>0. GateIsFresh /\ GateTrajectoryIsCurrent /\ LoopTypeOK
  BY DEF LoopInv
<1> USE DEF GateIsFresh, GateTrajectoryIsCurrent, InTick, busVars, linkVars, histVars, Top
<1>1. CASE TeleopNext
  <2>1. ASSUME NEW f \in Frames \ {"none"}, FrameArrives(f) PROVE  GateIsFresh' /\ GateTrajectoryIsCurrent'
    BY <1>0, <2>1 DEF FrameArrives
  <2>2. CASE LateEstopArrives
    BY <1>0, <2>2 DEF LateEstopArrives
  <2>3. CASE FrameGoesStale
    BY <1>0, <2>3 DEF FrameGoesStale
  <2> QED BY <1>1, <2>1, <2>2, <2>3 DEF TeleopNext
<1>2. CASE ObserveAndArbitrate
  <2>1. /\ loop.pc = "sampled" /\ prevSource' = prevSource
        /\ loop'.source = IF GraceHolds(Decided) THEN "graceHold" ELSE Decided
        /\ anchored' = GateAfter(Decided)
    BY <1>0, <1>2, Arbitration
  <2>2. CASE Decided \in {"hold", "policy"}
    BY <1>0, <2>1, <2>2 DEF GateAfter
  <2>3. CASE Decided \notin {"hold", "policy"}
    <3>1. anchored' = anchored
      BY <2>1, <2>3 DEF GateAfter
    <3>2. loop'.source = Decided /\ Decided # "graceHold"
      BY <1>0, <1>2, <2>1, <2>3, Arbitration DEF GraceHolds, Sources
    <3> QED BY <1>0, <2>1, <2>3, <3>1, <3>2
  <2> QED BY <2>2, <2>3
<1>3. CASE LoopStops
  BY <1>0, <1>3 DEF LoopStops, LoopTypeOK
<1>4. CASE GuardEndsEpisode
  BY <1>0, <1>4 DEF GuardEndsEpisode, LoopTypeOK
<1>5. CASE GuardHolds
  <2>1. ~anchored' /\ UNCHANGED <<loop, prevSource>>
    BY <1>5 DEF GuardHolds
  <2> QED BY <1>0, <2>1
<1>6. CASE SampleTeleop
  <2>1. loop.pc = "top" /\ loop'.pc = "sampled" /\ UNCHANGED <<anchored, prevSource>>
    BY <1>6 DEF SampleTeleop, MayTick
  <2> QED BY <1>0, <2>1
<1>7. CASE TakeBarrier
  BY <1>0, <1>7 DEF TakeBarrier, LoopTypeOK
<1>8. CASE ApplyBarrier
  BY <1>0, <1>8 DEF ApplyBarrier, LoopTypeOK
<1>9. CASE LoopStepBegin
  BY <1>0, <1>9 DEF LoopStepBegin
<1>10. CASE LoopStepGate
  BY <1>0, <1>10 DEF LoopStepGate
<1>11. CASE LoopEncodeFails
  BY <1>0, <1>11 DEF LoopEncodeFails, LoopTypeOK
<1>12. CASE LoopStepPop
  BY <1>0, <1>12 DEF LoopStepPop, LoopTypeOK
<1>13. CASE SendPolicyAction
  BY <1>0, <1>13 DEF SendPolicyAction, FinishTick
<1>14. CASE SendNothing
  BY <1>0, <1>14 DEF SendNothing, FinishTick
<1>15. CASE HoldPose
  BY <1>0, <1>15 DEF HoldPose, FinishTick
<1>16. CASE SendHumanTarget
  BY <1>0, <1>16 DEF SendHumanTarget, FinishTick, GateSteps
<1>17. CASE SendTeleopTarget
  BY <1>0, <1>17 DEF SendTeleopTarget, FinishTick, GateSteps
<1>18. CASE CommandFails
  BY <1>0, <1>18 DEF CommandFails, LoopTypeOK
<1>19. CASE SenderStep \/ CloseClient \/ EpisodeOver \/ UNCHANGED vars
  BY <1>0, <1>19 DEF SenderStep, CloseClient, EpisodeOver, vars
<1> QED
  BY <1>1, <1>2, <1>3, <1>4, <1>5, <1>6, <1>7, <1>8, <1>9, <1>10, <1>11, <1>12,
     <1>13, <1>14, <1>15, <1>16, <1>17, <1>18, <1>19
     DEF Next, LoopNext

(* The filter's delay line, and who moved the robot last.                   *)
LEMMA FilterStep ==
    ASSUME LoopInv, [Next]_vars
    PROVE  FilterIsFresh' /\ FilterIsPolicyOnly' /\ HumanStillDrives'
<1>0. /\ FilterIsFresh /\ FilterIsPolicyOnly /\ HumanStillDrives /\ GraceIsCounted /\ LoopTypeOK
      /\ grace \in Nat
  BY DEF LoopInv, LoopTypeOK
<1> USE DEF FilterIsFresh, FilterIsPolicyOnly, HumanStillDrives, InTick, busVars, linkVars, histVars, Top
<1>1. CASE TeleopNext
  <2>1. ASSUME NEW f \in Frames \ {"none"}, FrameArrives(f) PROVE  FilterIsFresh' /\ FilterIsPolicyOnly' /\ HumanStillDrives'
    BY <1>0, <2>1 DEF FrameArrives
  <2>2. CASE LateEstopArrives
    BY <1>0, <2>2 DEF LateEstopArrives
  <2>3. CASE FrameGoesStale
    BY <1>0, <2>3 DEF FrameGoesStale
  <2> QED BY <1>1, <2>1, <2>2, <2>3 DEF TeleopNext
<1>2. CASE ObserveAndArbitrate
  <2>1. /\ loop.pc = "sampled" /\ UNCHANGED <<prevSource, lastMover>>
        /\ loop'.pc \in InTick
        /\ loop'.source = IF GraceHolds(Decided) THEN "graceHold" ELSE Decided
        /\ grace' = GraceAfter(Decided)
    BY <1>0, <1>2, Arbitration
  <2>4. primed' = IF Decided = "estop" \/ EngageEdge(Decided) THEN FALSE ELSE primed
    BY <1>0, <1>2, Arbitration
  <2>2. CASE Decided = "intervention"
    <3>1. ~primed'
      BY <1>0, <2>1, <2>2, <2>4 DEF EngageEdge
    <3>2. loop'.source = "intervention"
      BY <2>1, <2>2 DEF GraceHolds
    <3> QED BY <1>0, <2>1, <3>1, <3>2
  <2>3. CASE Decided # "intervention"
    <3>1. loop'.source # "intervention"
      BY <2>1, <2>3 DEF GraceHolds
    <3>2. grace' > 0 => grace > 0
      BY <1>0, <2>1, <2>3 DEF GraceAfter, GraceHolds
    <3>3. primed' => primed
      BY <2>4
    <3> QED BY <1>0, <2>1, <3>1, <3>2, <3>3
  <2> QED BY <2>2, <2>3
<1>3. CASE LoopStops
  BY <1>0, <1>3 DEF LoopStops, LoopTypeOK
<1>4. CASE GuardEndsEpisode
  BY <1>0, <1>4 DEF GuardEndsEpisode, LoopTypeOK
<1>5. CASE GuardHolds
  <2>1. ~primed' /\ UNCHANGED <<loop, prevSource, grace, lastMover>>
    BY <1>5 DEF GuardHolds
  <2> QED BY <1>0, <2>1
<1>6. CASE SampleTeleop
  <2>1. /\ loop.pc = "top" /\ loop'.pc = "sampled"
        /\ UNCHANGED <<primed, prevSource, grace, lastMover>>
    BY <1>6 DEF SampleTeleop, MayTick
  <2> QED BY <1>0, <2>1
<1>7. CASE TakeBarrier
  BY <1>0, <1>7 DEF TakeBarrier, LoopTypeOK
<1>8. CASE ApplyBarrier
  BY <1>0, <1>8 DEF ApplyBarrier, LoopTypeOK
<1>9. CASE LoopStepBegin
  BY <1>0, <1>9 DEF LoopStepBegin
<1>10. CASE LoopStepGate
  BY <1>0, <1>10 DEF LoopStepGate
<1>11. CASE LoopEncodeFails
  BY <1>0, <1>11 DEF LoopEncodeFails, LoopTypeOK
<1>12. CASE LoopStepPop
  BY <1>0, <1>12 DEF LoopStepPop, LoopTypeOK
<1>13. CASE SendPolicyAction
  <2>1. grace' = 0
    BY <1>0, <1>13 DEF SendPolicyAction, GraceIsCounted
  <2>2. lastMover' = "policy" /\ prevSource' = "policy" /\ loop'.pc = "top"
    BY <1>13 DEF SendPolicyAction, FinishTick
  <2> QED BY <2>1, <2>2
<1>14. CASE SendNothing
  BY <1>0, <1>14 DEF SendNothing, FinishTick
<1>15. CASE HoldPose
  BY <1>0, <1>15 DEF HoldPose, FinishTick
<1>16. CASE SendHumanTarget
  BY <1>0, <1>16 DEF SendHumanTarget, FinishTick, GateSteps
<1>17. CASE SendTeleopTarget
  BY <1>0, <1>17 DEF SendTeleopTarget, FinishTick, GateSteps
<1>18. CASE CommandFails
  BY <1>0, <1>18 DEF CommandFails, LoopTypeOK
<1>19. CASE SenderStep \/ CloseClient \/ EpisodeOver \/ UNCHANGED vars
  BY <1>0, <1>19 DEF SenderStep, CloseClient, EpisodeOver, vars
<1> QED
  BY <1>1, <1>2, <1>3, <1>4, <1>5, <1>6, <1>7, <1>8, <1>9, <1>10, <1>11, <1>12,
     <1>13, <1>14, <1>15, <1>16, <1>17, <1>18, <1>19
     DEF Next, LoopNext

(* What a handback resumes from.                                            *)
LEMMA TakeoverStep ==
    ASSUME LoopInv, Inv, [Next]_vars
    PROVE  TakeoverIsFenced' /\ PolicyPlansAfterTakeover'
<1>0. /\ TakeoverIsFenced /\ PolicyPlansAfterTakeover /\ MovesLast /\ HumanStillDrives
      /\ GraceIsCounted /\ LoopTypeOK /\ Inv
      /\ takeover \in Nat /\ grace \in Nat
      /\ sched.floor \in Nat /\ sched'.floor \in Nat /\ sched.floor =< sched'.floor
      /\ clock \in Nat /\ clock' \in Nat /\ clock =< clock'
  BY FloorRises DEF LoopInv, LoopTypeOK
<1> USE DEF TakeoverIsFenced, PolicyPlansAfterTakeover, InTick, busVars, linkVars, histVars, Top,
        clientVars, schedVars
<1>1. CASE TeleopNext
  <2>1. ASSUME NEW f \in Frames \ {"none"}, FrameArrives(f) PROVE  TakeoverIsFenced' /\ PolicyPlansAfterTakeover'
    BY <1>0, <2>1 DEF FrameArrives
  <2>2. CASE LateEstopArrives
    BY <1>0, <2>2 DEF LateEstopArrives
  <2>3. CASE FrameGoesStale
    BY <1>0, <2>3 DEF FrameGoesStale
  <2> QED BY <1>1, <2>1, <2>2, <2>3 DEF TeleopNext
<1>2. CASE ObserveAndArbitrate
  <2>1. /\ loop.pc = "sampled" /\ loop'.pc \in InTick
        /\ loop'.source = IF GraceHolds(Decided) THEN "graceHold" ELSE Decided
        /\ takeover' = IF Decided = "intervention" /\ lastMover # "human"
                       THEN clock ELSE takeover
        /\ UNCHANGED <<caller, popped, moved>>
    BY <1>0, <1>2, Arbitration
  <2>2. moved' = "none" /\ caller.pc # "flush"
    BY <1>0, <2>1 DEF MovesLast, LoopTypeOK
  <2>3. ~(loop'.pc = "send" /\ loop'.source = "policy")
    <3>1. CASE GraceHolds(Decided)
      BY <2>1, <3>1
    <3>2. CASE Decided # "policy"
      BY <2>1, <3>2
    <3>3. CASE Decided = "policy" /\ ~GraceHolds(Decided)
      <4>1. StepsClient(Decided)
        BY <3>3 DEF StepsClient
      <4> QED BY <1>0, <1>2, <4>1, Arbitration
    <3> QED BY <3>1, <3>2, <3>3
  <2>4. CASE Decided = "intervention" /\ lastMover # "human"
    <3>1. EngageEdge(Decided)
      <4>1. prevSource # "intervention" /\ ~(grace > 0)
        BY <1>0, <2>1, <2>4 DEF HumanStillDrives
      <4> QED BY <1>0, <2>4, <4>1 DEF EngageEdge, LoopTypeOK
    <3>2. loop'.pc = "act"
      BY <1>0, <1>2, <3>1, Arbitration
    <3>3. loop'.source = "intervention"
      BY <2>1, <2>4 DEF GraceHolds
    <3> QED BY <1>0, <2>1, <2>2, <2>4, <3>2, <3>3
  <2>5. CASE ~(Decided = "intervention" /\ lastMover # "human")
    <3>1. takeover' = takeover
      BY <2>1, <2>5
    <3> QED BY <1>0, <2>1, <2>2, <2>3, <3>1
  <2> QED BY <2>4, <2>5
<1>3. CASE LoopStops
  <2>1. /\ loop.pc = "top" /\ loop'.pc = "ended" /\ moved' = "none"
        /\ UNCHANGED <<takeover, caller, popped>>
    BY <1>0, <1>3 DEF LoopStops, LoopTypeOK
  <2> QED BY <1>0, <2>1
<1>4. CASE GuardEndsEpisode
  <2>1. /\ loop.pc = "top" /\ loop'.pc = "ended" /\ moved' = "none"
        /\ UNCHANGED <<takeover, caller, popped>>
    BY <1>0, <1>4 DEF GuardEndsEpisode, FlushPlain, LoopTypeOK
  <2> QED BY <1>0, <2>1
<1>5. CASE GuardHolds
  <2>1. moved' = "none" /\ UNCHANGED <<takeover, caller, popped, loop>>
    BY <1>5 DEF GuardHolds
  <2> QED BY <1>0, <2>1
<1>6. CASE SampleTeleop
  <2>1. /\ loop.pc = "top" /\ loop'.pc = "sampled" /\ moved' = "none"
        /\ UNCHANGED <<takeover, caller, popped>>
    BY <1>6 DEF SampleTeleop, MayTick
  <2> QED BY <1>0, <2>1
<1>7. CASE TakeBarrier
  <2>1. /\ loop.pc = "act" /\ caller'.pc = "flush" /\ caller'.ts = clock + 1
        /\ UNCHANGED <<takeover, popped, loop, moved>>
    BY <1>7 DEF TakeBarrier, BarrierTick
  <2> QED BY <1>0, <2>1
<1>8. CASE ApplyBarrier
  <2>1. /\ loop.pc = "act" /\ caller.pc = "flush" /\ caller'.pc = "out"
        /\ sched' = FlushBarrier(sched, caller.ts)
        /\ UNCHANGED <<takeover, popped, moved>>
    BY <1>8 DEF ApplyBarrier, BarrierFlush, Out
  <2>2. sched'.floor = caller.ts
    <3>1. sched.floor < caller.ts
      BY <1>0, <2>1 DEF Inv, StampsAreOrdered
    <3>2. IsSchedule(sched) /\ caller.ts \in Nat
      BY <1>0 DEF Inv, TypeOK
    <3> QED BY <2>1, <3>1, <3>2, FlushSchedule
  <2>3. loop'.pc = "top" \/ (loop'.pc \in {"step", "send"} /\ loop'.source # "policy")
    <3>1. loop.source # "policy"
      BY <1>0, <2>1 DEF GraceIsCounted
    <3> QED BY <1>0, <1>8, <3>1 DEF ApplyBarrier, LoopTypeOK
  <2> QED BY <1>0, <2>1, <2>2, <2>3
<1>9. CASE LoopStepBegin
  <2>1. loop.pc = "step" /\ caller'.pc = "gate" /\ UNCHANGED <<takeover, popped, loop, moved>>
    BY <1>9 DEF LoopStepBegin, StepBegin
  <2> QED BY <1>0, <2>1
<1>10. CASE LoopStepGate
  <2>1. loop.pc = "step" /\ caller'.pc = "pop" /\ UNCHANGED <<takeover, popped, loop, moved>>
    <3>1. caller' = [caller EXCEPT !.pc = "pop"]
      BY <1>10 DEF LoopStepGate, StepSubmit, StepNoSubmit
    <3>2. caller'.pc = "pop"
      BY <1>0, <3>1 DEF LoopTypeOK, TypeOK
    <3> QED BY <1>10, <3>2 DEF LoopStepGate, StepSubmit, StepNoSubmit
  <2> QED BY <1>0, <2>1
<1>11. CASE LoopEncodeFails
  <2>1. /\ loop.pc = "step" /\ caller'.pc = "out"
        /\ UNCHANGED <<takeover, moved>>
    BY <1>11 DEF LoopEncodeFails, StepEncodeFails, Out
  <2>2. loop'.pc = "ended" \/ (loop'.pc = "send" /\ loop'.source # "policy")
    BY <1>0, <1>11 DEF LoopEncodeFails, LoopTypeOK
  <2>3. moved' = "none"
    BY <1>0, <2>1 DEF MovesLast, LoopTypeOK
  <2> QED BY <1>0, <2>1, <2>2, <2>3
<1>12. CASE LoopStepPop
  <2>1. /\ loop.pc = "step" /\ loop' = [loop EXCEPT !.pc = "send"]
        /\ caller'.pc = "out"
        /\ popped' = IF CanPop(sched)
                     THEN [step |-> sched.cursor, ts |-> sched.data[sched.cursor]]
                     ELSE NoAction
        /\ UNCHANGED <<takeover, moved>>
    BY <1>12 DEF LoopStepPop, StepPop, Out
  <2>2. moved' = "none"
    BY <1>0, <2>1 DEF MovesLast, LoopTypeOK
  <2>3. loop'.pc = "send"
    BY <1>0, <2>1 DEF LoopTypeOK
  <2>4. ASSUME CanPop(sched) PROVE takeover < popped'.ts
    <3>1. /\ sched.data[sched.cursor] \in Nat
          /\ sched.floor < sched.data[sched.cursor]
      BY <1>0, <2>4 DEF CanPop, Inv, TypeOK, IsSchedule, PlanAboveFloor, AboveFloor
    <3>2. popped'.ts = sched.data[sched.cursor]
      BY <2>1, <2>4
    <3> QED BY <1>0, <2>1, <3>1, <3>2
  <2>5. popped' # NoAction => takeover' < popped'.ts
    BY <2>1, <2>4
  <2> QED BY <1>0, <2>1, <2>2, <2>3, <2>5
<1>13. CASE SendPolicyAction
  <2>1. /\ loop.pc = "send" /\ loop.source = "policy" /\ popped # NoAction
        /\ loop'.pc = "top"
        /\ UNCHANGED <<takeover, caller, popped>>
    BY <1>13 DEF SendPolicyAction, FinishTick, clientVars, schedVars
  <2> QED BY <1>0, <2>1
<1>14. CASE SendNothing
  <2>1. /\ loop.pc = "send" /\ loop'.pc = "top"
        /\ UNCHANGED <<takeover, caller, popped, moved>>
    BY <1>14 DEF SendNothing, FinishTick
  <2> QED BY <1>0, <2>1
<1>15. CASE HoldPose
  <2>1. /\ loop.pc = "send" /\ loop'.pc = "top"
        /\ UNCHANGED <<takeover, caller, popped, moved>>
    BY <1>15 DEF HoldPose, FinishTick
  <2> QED BY <1>0, <2>1
<1>16. CASE SendHumanTarget
  <2>1. /\ loop.pc = "send" /\ loop'.pc = "top" /\ moved' = "human"
        /\ UNCHANGED <<takeover, caller, popped>>
    BY <1>16 DEF SendHumanTarget, FinishTick
  <2> QED BY <1>0, <2>1
<1>17. CASE SendTeleopTarget
  <2>1. /\ loop.pc = "send" /\ loop'.pc = "top" /\ moved' = "human"
        /\ UNCHANGED <<takeover, caller, popped>>
    BY <1>17 DEF SendTeleopTarget, FlushPlain, FinishTick
  <2> QED BY <1>0, <2>1
<1>18. CASE CommandFails
  <2>1. /\ loop.pc = "send" /\ loop'.pc = "ended"
        /\ UNCHANGED <<takeover, caller, popped, moved>>
    BY <1>0, <1>18 DEF CommandFails, LoopTypeOK
  <2> QED BY <1>0, <2>1
<1>19. CASE SenderStep \/ CloseClient \/ EpisodeOver \/ UNCHANGED vars
  <2>1. UNCHANGED <<takeover, caller, popped, loop, moved>>
    BY <1>19, SenderLeaves DEF SenderStep, CloseClient, Stop, EpisodeOver, Terminating, vars
  <2> QED BY <1>0, <2>1
<1> QED
  BY <1>1, <1>2, <1>3, <1>4, <1>5, <1>6, <1>7, <1>8, <1>9, <1>10, <1>11, <1>12,
     <1>13, <1>14, <1>15, <1>16, <1>17, <1>18, <1>19
     DEF Next, LoopNext

-----------------------------------------------------------------------------

LEMMA LoopInit == Init => LoopInv
<1> SUFFICES ASSUME Init PROVE LoopInv
  OBVIOUS
<1>1. TypeOK
  BY InitInv DEF Init, Inv
<1>2. LoopTypeOK
  <2>1. GraceTicks \in Nat
    BY LoopAssumption
  <2>2. /\ pressed \in BOOLEAN /\ sticky \in BOOLEAN /\ latched \in BOOLEAN
        /\ forwarded \in BOOLEAN /\ primed \in BOOLEAN /\ anchored \in BOOLEAN
        /\ stopSeen \in BOOLEAN
    BY DEF Init
  <2>3. loop \in [pc : {"top"}, frame : {"none"}, source : {"none"}]
    BY DEF Init, Top
  <2>4. /\ setup \in Setups /\ held = "none" /\ prevSource = "none" /\ moved = "none"
        /\ lastMover = "none" /\ grace = 0 /\ quiet = Released /\ takeover = 0 /\ forwards = 0
    BY DEF Init
  <2> QED BY <1>1, <2>1, <2>2, <2>3, <2>4 DEF LoopTypeOK, Frames, Released
<1>3. EstopIsCarried /\ EstopStopsMotion /\ MovesLast
  BY DEF Init, EstopIsCarried, EstopStopsMotion, MovesLast, Top, InTick
<1>4. GraceIsCounted /\ PolicyWaitsForHandback
  BY DEF Init, GraceIsCounted, PolicyWaitsForHandback, Top, InTick
<1>5. GateIsFresh /\ GateTrajectoryIsCurrent
  BY DEF Init, GateIsFresh, GateTrajectoryIsCurrent
<1>6. FilterIsFresh /\ HumanStillDrives /\ FilterIsPolicyOnly
  BY DEF Init, FilterIsFresh, HumanStillDrives, FilterIsPolicyOnly
<1>7. TakeoverIsFenced /\ PolicyPlansAfterTakeover
  BY DEF Init, TakeoverIsFenced, PolicyPlansAfterTakeover, ClientInit, Out, Top
<1> QED
  BY <1>2, <1>3, <1>4, <1>5, <1>6, <1>7 DEF LoopInv

(* The client's invariant and the loop's, in every state.                   *)
THEOREM LoopInvariant == Spec => [](Inv /\ LoopInv)
<1>1. Init => Inv /\ LoopInv
  BY InitInv, LoopInit DEF Init
<1>2. Inv /\ LoopInv /\ [Next]_vars => (Inv /\ LoopInv)'
  <2> SUFFICES ASSUME Inv, LoopInv, [Next]_vars PROVE Inv' /\ LoopInv'
    OBVIOUS
  <2>1. Inv'
    BY ClientKeepsInv
  <2>2. LoopInv'
    BY LoopTypeStep, EstopStep, HandbackStep, GateStep, FilterStep, TakeoverStep DEF LoopInv
  <2> QED BY <2>1, <2>2
<1> QED BY <1>1, <1>2, PTL DEF Spec

(* Every variable of the loop, its client included, keeps its type.         *)
THEOREM LoopTypeCorrect == Spec => []LoopTypeOK
BY LoopInvariant, PTL DEF LoopInv

(* Once an e-stop has reached the node of a gated robot, a tick that        *)
(* samples its frame afterwards commands nothing, however many frames are   *)
(* lost, duplicated or dropped and however long the grace.                  *)
THEOREM EstopIsAHardStop == Spec => []EstopStopsMotion
BY LoopInvariant, PTL DEF LoopInv

(* For every length of the grace: the policy moves the robot only after a   *)
(* released deadman, or after that many stale ticks.                        *)
THEOREM HandbackTakesTheGrace == Spec => []PolicyWaitsForHandback
BY LoopInvariant, PTL DEF LoopInv

(* For every latency and every interleaving with the sender: no action of a *)
(* plan stamped before the human took over is executed after it.            *)
THEOREM HandbackResumesFresh == Spec => []PolicyPlansAfterTakeover
BY LoopInvariant, PTL DEF LoopInv

(* The gate's trajectory is never one of an earlier engagement.             *)
THEOREM GateStartsFresh == Spec => []GateTrajectoryIsCurrent
BY LoopInvariant, PTL DEF LoopInv

(* The filter's delay line never carries policy motion over a human's.      *)
THEOREM FilterStartsFresh == Spec => []FilterIsPolicyOnly
BY LoopInvariant, PTL DEF LoopInv

=============================================================================
