-------------------------- MODULE SessionRecorder --------------------------
(***************************************************************************)
(* One episode recorder of the GPU box (server/recorder.py): admission of  *)
(* ticks on the RPC path, the writer task, and the close that builds the   *)
(* dataset; Publishing.tla takes over from there.  It lives on one event   *)
(* loop: a method runs without interruption up to its first await.         *)
(*                                                                         *)
(* A tick is known by its control step.  `queue` holds the items the       *)
(* writer has not written, `rows` the steps staged on disk, `failed` those *)
(* whose write raised, `seen` the steps ever admitted (its size is the     *)
(* step count).  The order of the rows is left out: they are sorted by     *)
(* step before the dataset is built.                                       *)
(***************************************************************************)
EXTENDS Naturals, FiniteSets

CONSTANTS
    QueueMax,   \* the writer queue's size
    StepCap     \* steps one recorder admits

ASSUME RecorderAssumption ==
    /\ QueueMax \in Nat \ {0}
    /\ StepCap \in Nat \ {0}

NewRecorder ==
    [state |-> "recording", seen |-> {}, queue |-> {}, rows |-> {}, failed |-> {}]

\* A closed recorder ends with a dataset to publish, without one because the build
\* failed, or with nothing recorded.
Ends == {"built", "lost", "empty"}

RecorderStates == {"none", "recording", "draining"} \cup Ends

Reusable(rec) == rec.state = "recording"

Ended(rec) == rec.state \in Ends

-----------------------------------------------------------------------------
(* Admission.  Ticks of a batch are taken in order until one is refused: a  *)
(* step seen before is acknowledged and not staged again, a new one needs a *)
(* place in the queue and below the cap.                                    *)

HasRoomFor(rec, ticks) ==
    /\ Cardinality(rec.queue) + Cardinality(ticks \ rec.seen) <= QueueMax
    /\ Cardinality(rec.seen) + Cardinality(ticks \ rec.seen) <= StepCap

\* Mutant: a step seen before is refused, not acknowledged again.
AcceptedNew(rec, batch) ==
    {t \in batch : /\ rec.state = "recording"
                   /\ {u \in batch : u <= t} \cap rec.seen = {}
                   /\ HasRoomFor(rec, {u \in batch : u <= t})}

AcceptedPrefix(rec, batch) ==
    {t \in batch : rec.state = "recording" /\ HasRoomFor(rec, {u \in batch : u <= t})}

\* Mutant: no memory of the steps already staged.
StageAgain(rec, accepted) ==
    [rec EXCEPT !.queue = @ \cup accepted, !.seen = @ \cup accepted]

Stage(rec, accepted) ==
    [rec EXCEPT !.queue = @ \cup (accepted \ rec.seen), !.seen = @ \cup accepted]

-----------------------------------------------------------------------------
(* The writer task: a row that cannot be written is logged and skipped.     *)

Write(rec, tick) == [rec EXCEPT !.queue = @ \ {tick}, !.rows = @ \cup {tick}]

FailWrite(rec, tick) == [rec EXCEPT !.queue = @ \ {tick}, !.failed = @ \cup {tick}]

(* upload() and discard(): no tick is admitted any more, the writer drains  *)
(* its queue, then the dataset is built from the rows.                      *)

Close(rec) == [rec EXCEPT !.state = "draining"]

\* Mutant: the build does not wait for the writer.
DrainedEarly(rec) == rec.state = "draining"

Drained(rec) == rec.state = "draining" /\ rec.queue = {}

BuildResults(rec) ==
    IF rec.seen = {} THEN {"empty"}
    ELSE IF rec.rows = {} THEN {"lost"} ELSE {"built", "lost"}

=============================================================================
