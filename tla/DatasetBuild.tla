---------------------------- MODULE DatasetBuild ----------------------------
(***************************************************************************)
(* How one recorder turns its ticks into a dataset: the writer's staging   *)
(* on disk (recorder.py), the live builder fed after it                    *)
(* (storage/lerobot_live.py), and the rebuild from staging that takes over *)
(* whenever the live lane gives up (storage/lerobot_rebuild.py).           *)
(*                                                                         *)
(* A session's ticks are numbered by their control step; `shots` says      *)
(* which cameras delivered an image at which step, `clock` what the node's *)
(* monotonic clock showed: it may stand still, and starts again when the   *)
(* node does.  A video frame is the step it shows, or Black where a camera *)
(* had nothing; `labels` says who drove at which step.  Vectors and pixels *)
(* are left out.  The dataset library and the disk may fail, or drop a     *)
(* video frame, at any of their calls.                                     *)
(***************************************************************************)
EXTENDS Integers, FiniteSets, Sequences, SequencesExt

CONSTANTS
    Cameras,      \* the cameras of the robot
    Labels,       \* the control sources a session sends in turn
    MaxTicks,     \* bound: ticks the session offers
    WriterQueue,  \* size of the writer's queue
    PendingMax,   \* steps the live builder holds back while no camera showed
    Fps,          \* config.fps, the declared rate
    Tolerance,    \* the part of it the measured rate may differ by: <<numerator, denominator>>
    Second,       \* units of the node's clock in a second
    Clocks,       \* what the clock may show at each step
    MaxFailures   \* bound: failing calls of the library and the disk

ASSUME DatasetAssumption ==
    /\ IsFiniteSet(Cameras)
    /\ Labels \in Seq(STRING) /\ Labels # <<>>
    /\ MaxTicks \in Nat /\ WriterQueue \in Nat \ {0} /\ PendingMax \in Nat
    /\ Fps \in Nat \ {0} /\ Tolerance \in Nat \X (Nat \ {0}) /\ Second \in Nat \ {0}
    /\ Clocks \subseteq [1 .. MaxTicks -> Nat]
    /\ MaxFailures \in Nat

Steps == 1 .. MaxTicks
Black == 0

\* "off" without the option; "waiting" for the first camera image; "open" once the
\* dataset is created; "dead" after any failure.
NewLive(state) == [state |-> state, pending |-> <<>>, rows |-> <<>>, video |-> <<>>]

NoDataset == [rows |-> <<>>, labels |-> <<>>, video |-> <<>>, fps |-> 0]

NewBuild(liveState, shots, clock) ==
    [phase |-> "recording", lane |-> liveState, shots |-> shots, clock |-> clock, next |-> 1,
     queue |-> <<>>, noted |-> {}, files |-> {}, rows |-> <<>>,
     live |-> NewLive(liveState), dataset |-> NoDataset, failures |-> 0]

NewBuilds ==
    {NewBuild(l, s, c) :
        l \in {"off", "waiting"}, s \in [Steps -> SUBSET Cameras], c \in Clocks}

Failed(b) == [b EXCEPT !.failures = @ + 1]
MayFail(b) == b.failures < MaxFailures

Admitted(b) == b.next - 1

-----------------------------------------------------------------------------
(* The control source of a row is written as a number and turned back into a *)
(* name once the file is closed.  A row without one, or with one this build  *)
(* does not know, counts as the policy's.                                    *)

LabelOf(step) == Labels[1 + (step % Len(Labels))]

Sources == <<"policy", "teleop", "hold", "intervention">>

Known == [i \in 0 .. 3 |-> Sources[i + 1]]

IdOf(label) == IF \E i \in 0 .. 3 : Known[i] = label
               THEN CHOOSE i \in 0 .. 3 : Known[i] = label ELSE 0

LabelColumn(rows) == [i \in DOMAIN rows |-> IdOf(LabelOf(rows[i]))]

Named(column) == [i \in DOMAIN column |-> Known[column[i]]]

-----------------------------------------------------------------------------
(* Admission.  The cameras of a tick are noted before the queue is asked, so *)
(* those of a refused tick count too; the node offers a refused tick again.  *)

HasRoom(b) == Len(b.queue) < WriterQueue

Note(b) == [b EXCEPT !.noted = @ \cup b.shots[b.next]]

Admit(b) == [Note(b) EXCEPT !.queue = Append(@, b.next), !.next = @ + 1]

-----------------------------------------------------------------------------
(* The live builder, fed one staged step at a time.                          *)

Aborted == NewLive("dead")

Frame(b, step, c) == IF c \in b.shots[step] THEN step ELSE Black

\* The first step with images creates the dataset, with the cameras of that step;
\* the steps held back until then are added with black images.
Created(b, step) ==
    [state |-> "open", pending |-> <<>>,
     rows |-> Append(b.live.pending, step),
     video |-> [c \in b.shots[step] |->
                   Append([i \in 1 .. Len(b.live.pending) |-> Black], step)]]

\* The encoder of a camera in `dropped` had no room for its frame.
Added(b, step, dropped) ==
    [b.live EXCEPT !.rows = Append(@, step),
                   !.video = [c \in DOMAIN @ |-> IF c \in dropped THEN @[c]
                                                 ELSE Append(@[c], Frame(b, step, c))]]

HeldBack(b, step) ==
    IF Len(b.live.pending) < PendingMax THEN [b.live EXCEPT !.pending = Append(@, step)]
    ELSE Aborted

\* add_step: a camera the dataset was not created with ends the live lane.
Fed(b, step) ==
    CASE b.live.state = "waiting" /\ b.shots[step] = {} -> HeldBack(b, step)
      [] b.live.state = "waiting" /\ b.shots[step] # {} -> Created(b, step)
      [] b.live.state = "open" /\ b.shots[step] \subseteq DOMAIN b.live.video ->
             Added(b, step, {})
      [] b.live.state = "open" -> Aborted
      [] OTHER -> b.live

-----------------------------------------------------------------------------
(* The writer: the images, then the row, then the live builder.              *)

StagedFiles(b, step) == {<<step, c>> : c \in b.shots[step]}

\* The row of a failing write is lost, the live builder does not see it; some of the
\* images may already be there.
FailedRow(b) == [b EXCEPT !.queue = Tail(@)]

Writes(b) ==
    LET step == Head(b.queue)
        staged == [b EXCEPT !.queue = Tail(@),
                            !.files = @ \cup StagedFiles(b, step),
                            !.rows = Append(@, step)]
    IN  {[staged EXCEPT !.live = Fed(b, step)]}
        \cup (IF ~MayFail(b) \/ b.live.state \notin {"waiting", "open"} THEN {}
              ELSE {Failed([staged EXCEPT !.live = Aborted])}
                   \cup (IF Fed(b, step).state # "open" \/ b.live.state # "open" THEN {}
                         ELSE {Failed([staged EXCEPT !.live = Added(b, step, dropped)]) :
                                  dropped \in SUBSET DOMAIN b.live.video \ {{}}}))

WritesFail(b) ==
    {Failed([FailedRow(b) EXCEPT !.files = @ \cup written]) :
        written \in SUBSET StagedFiles(b, Head(b.queue))}

-----------------------------------------------------------------------------
(* upload(): seal the live dataset, or rebuild.  The measured rate is the    *)
(* quotient of Intervals * Second and Elapsed, over the ticks that were      *)
(* admitted (not those that were written); it is none when the clock stood   *)
(* still or went back between the first and the last of them.                *)

Intervals(b) == Admitted(b) - 1

Elapsed(b) == b.clock[Admitted(b)] - b.clock[1]

Measurable(b) == Admitted(b) >= 2 /\ Elapsed(b) > 0

AtLeastOne(b) == Intervals(b) * Second >= Elapsed(b)

Distance(m, n) == IF m < n THEN n - m ELSE m - n

\* How far a rate is from the measured one, in units of 1 / Elapsed.
OffBy(b, fps) == Distance(fps * Elapsed(b), Intervals(b) * Second)

\* Mutant: the measured rate is not looked at.
NeverDiverges(b) == FALSE

\* A measured rate below one frame a second is not compared.
FpsDiverges(b) ==
    /\ Measurable(b) /\ AtLeastOne(b)
    /\ Tolerance[2] * OffBy(b, Fps) > Tolerance[1] * (Fps * Elapsed(b))

\* Python's round() of m / n: to the nearest number, from the middle to an even one.
Rounded(m, n) ==
    LET down == m \div n
        rest == m % n
    IN  IF 2 * rest < n \/ (2 * rest = n /\ down % 2 = 0) THEN down ELSE down + 1

RebuildFps(b) ==
    CASE ~Measurable(b) -> Fps
      [] Measurable(b) /\ AtLeastOne(b) -> Rounded(Intervals(b) * Second, Elapsed(b))
      [] OTHER -> 1

\* Mutant: the frames are not counted.
CountsUnchecked(b) == TRUE

FrameCountsMatch(b) == \A c \in DOMAIN b.live.video : Len(b.live.video[c]) = Len(b.live.rows)

\* The recorder has its dataset and needs nothing else of what it kept.
Built(b, dataset) ==
    [b EXCEPT !.phase = "built", !.dataset = dataset, !.noted = {}, !.files = {},
              !.live = Aborted, !.failures = MaxFailures]

Sealable(b) ==
    /\ b.live.state = "open"
    /\ ~FpsDiverges(b)
    /\ FrameCountsMatch(b)

Sealed(b) ==
    Built(b, [rows |-> b.live.rows, labels |-> Named(LabelColumn(b.live.rows)),
              video |-> b.live.video, fps |-> Fps])

\* The live output is removed whatever was wrong with it.
FallsBack(b) == [b EXCEPT !.phase = "rebuilding", !.live = Aborted]

\* The rows in the order of their steps: the i-th has i - 1 others before it.
StagedRows(b) ==
    [i \in DOMAIN b.rows |->
        b.rows[CHOOSE k \in DOMAIN b.rows :
                  Cardinality({q \in DOMAIN b.rows : b.rows[q] < b.rows[k]}) = i - 1]]

\* The noted cameras, or no video at all when no image was staged; and the image that
\* is on the disk for a step.

SchemaCameras(b) == IF b.files = {} THEN {} ELSE b.noted

FrameOnDisk(b, step, c) == IF <<step, c>> \in b.files THEN step ELSE Black

Rebuilt(b) ==
    LET rows == StagedRows(b)
    IN  Built(b, [rows |-> rows, labels |-> Named(LabelColumn(rows)),
                  video |-> [c \in SchemaCameras(b) |->
                                [i \in DOMAIN rows |-> FrameOnDisk(b, rows[i], c)]],
                  fps |-> RebuildFps(b)])

=============================================================================
