--------------------------- MODULE ActionSchedule ---------------------------
(***************************************************************************)
(* The last-write-wins action schedule of the DRTC client                  *)
(* (inference/client/merge.py).  A schedule maps action steps to the       *)
(* control timestamp of the chunk that planned them; the action vector     *)
(* itself is a function of (chunk, step), so the timestamp stands for it.  *)
(* `cursor` is the next step the robot will execute and `floor` the merge  *)
(* barrier raised by flush(barrier_ts).                                    *)
(*                                                                         *)
(* Every method takes the schedule's lock for its whole body, so each is   *)
(* one operator from a schedule to a schedule.                             *)
(***************************************************************************)
EXTENDS Naturals, FiniteSets

NoActions == [k \in {} |-> 0]

EmptySchedule == [data |-> NoActions, cursor |-> 0, floor |-> 0]

\* A chunk answers one observation: `len` consecutive steps from `start`, all
\* stamped with the observation's control timestamp.
Chunk == [ts : Nat, start : Nat, len : Nat]

Span(c) == c.start .. (c.start + c.len - 1)

Scheduled(S) == DOMAIN S.data

QueueDepth(S) == Cardinality(Scheduled(S))

IsSchedule(S) ==
    /\ S = [data |-> S.data, cursor |-> S.cursor, floor |-> S.floor]
    /\ S.cursor \in Nat
    /\ S.floor \in Nat
    /\ Scheduled(S) \subseteq Nat
    /\ IsFiniteSet(Scheduled(S))
    /\ S.data \in [Scheduled(S) -> Nat]

-----------------------------------------------------------------------------
(* merge: a step is installed when it is not executed yet, its stamp is     *)
(* above the barrier, and nothing newer is already planned for it.          *)

\* Mutant: the executed cursor included one step late.
InstallsPastCursor(S, c) ==
    {k \in Span(c) : /\ k > S.cursor
                     /\ c.ts > S.floor
                     /\ k \in Scheduled(S) => c.ts > S.data[k]}

Installs(S, c) ==
    {k \in Span(c) : /\ k >= S.cursor
                     /\ c.ts > S.floor
                     /\ k \in Scheduled(S) => c.ts > S.data[k]}

Merge(S, c) ==
    [S EXCEPT !.data = [k \in Scheduled(S) \cup Installs(S, c) |->
                            IF k \in Installs(S, c) THEN c.ts ELSE S.data[k]]]

(* pop_next: the action at the cursor, or nothing (and the cursor stays).   *)

CanPop(S) == S.cursor \in Scheduled(S)

\* Mutant: a starved pop moves the cursor on.
PopNextSkips(S) ==
    [S EXCEPT !.data = [k \in Scheduled(S) \ {S.cursor} |-> S.data[k]],
              !.cursor = @ + 1]

PopNext(S) ==
    IF CanPop(S)
    THEN [S EXCEPT !.data = [k \in Scheduled(S) \ {S.cursor} |-> S.data[k]],
                   !.cursor = @ + 1]
    ELSE S

(* pop_due: everything up to a step at once, the cursor past the last one.  *)

PopDue(S, upTo) ==
    LET due  == {k \in Scheduled(S) : k <= upTo}
        last == CHOOSE k \in due : \A j \in due : j <= k
    IN  IF due = {}
        THEN S
        ELSE [S EXCEPT !.data = [k \in Scheduled(S) \ due |-> S.data[k]],
                       !.cursor = IF last + 1 > @ THEN last + 1 ELSE @]

(* flush: drop the plan, keep the cursor; with a barrier, raise the floor.  *)

Flush(S) == [S EXCEPT !.data = NoActions]

\* Mutant: the plan dropped under a floor that stays.
FlushBarrierKeepsFloor(S, ts) == Flush(S)

FlushBarrier(S, ts) ==
    [Flush(S) EXCEPT !.floor = IF ts > @ THEN ts ELSE @]

-----------------------------------------------------------------------------
(* What holds of every schedule the client reaches.                         *)

\* The plan is one unbroken run that starts at the cursor: the robot never
\* waits on a hole while later steps are queued behind it.
NoHole(S) == \A k \in Scheduled(S) : k >= S.cursor /\ (S.cursor .. k) \subseteq Scheduled(S)

\* Nothing stamped at or below the barrier is planned.
AboveFloor(S) == \A k \in Scheduled(S) : S.data[k] > S.floor

=============================================================================
