------------------------------ MODULE Shipping ------------------------------
(***************************************************************************)
(* SessionRecorder.upload() as a whole on one box: the recorder of job     *)
(* `Watched` records, closes and builds its dataset (DatasetBuild.tla)     *)
(* while the other recorders, already built, publish into the same         *)
(* destination (Publishing.tla); then it publishes too.                    *)
(***************************************************************************)
EXTENDS Publishing, DatasetBuild

VARIABLE build   \* the recorder of the watched job

shipVars == <<vars, build>>

Watched == 1

\* A recorder that ends without a dataset publishes nothing.
NothingToShip == {"lost", "empty"}

ShipInit == Init /\ build \in NewBuilds

Building(b) == build' = b /\ UNCHANGED vars

-----------------------------------------------------------------------------

Enqueue ==
    /\ build.phase = "recording"
    /\ build.next \in Steps
    /\ Building(IF HasRoom(build) THEN Admit(build) ELSE Note(build))

WriteOne ==
    /\ build.phase \in {"recording", "draining"}
    /\ build.queue # <<>>
    /\ \E b \in Writes(build) \cup (IF MayFail(build) THEN WritesFail(build) ELSE {}) :
           Building(b)

\* CloseSession, the idle GC or the drain of the box.
CloseRecorder ==
    /\ build.phase = "recording"
    /\ Building([build EXCEPT !.phase = "draining"])

\* The writer is done: seal the live dataset if there is one.
Drained ==
    /\ build.phase = "draining"
    /\ build.queue = <<>>
    /\ Building([build EXCEPT
           !.phase = CASE Admitted(build) = 0 -> "empty"
                       [] build.live.state \in {"waiting", "open"} -> "sealing"
                       [] OTHER -> "rebuilding"])

Seal ==
    /\ build.phase = "sealing"
    /\ \/ Building(IF Sealable(build) THEN Sealed(build) ELSE FallsBack(build))
       \/ MayFail(build) /\ Building(Failed(FallsBack(build)))

\* A rebuild that raises, or finds no row, takes the staging with it.
Rebuild ==
    /\ build.phase = "rebuilding"
    /\ \/ build.rows # <<>> /\ Building(Rebuilt(build))
       \/ build.rows = <<>> /\ Building([build EXCEPT !.phase = "lost"])
       \/ MayFail(build) /\ Building(Failed([build EXCEPT !.phase = "lost"]))

BuildNext == Enqueue \/ WriteOne \/ CloseRecorder \/ Drained \/ Seal \/ Rebuild

\* A crash takes the recorder along; the job then stands for one of the next process,
\* on the same robot.
Restarted(b) == NewBuild(b.lane, b.shots, b.clock)

CrashBox ==
    /\ Crash
    /\ build' = IF pc[Watched] = "built" THEN Restarted(build) ELSE build

PublishNext ==
    /\ \E j \in Jobs : JobNext(j) /\ (j = Watched => build.phase = "built")
    /\ UNCHANGED build

ShipNext == BuildNext \/ PublishNext \/ CrashBox

ShipSpec ==
    /\ ShipInit /\ [][ShipNext]_shipVars
    /\ WF_shipVars(WriteOne) /\ WF_shipVars(Drained \/ Seal \/ Rebuild)
    /\ WF_shipVars(CloseRecorder)
    /\ \A j \in Jobs : /\ WF_shipVars(JobNext(j) /\ PublishNext)
                       /\ SF_shipVars(Acquire(j) /\ PublishNext)

-----------------------------------------------------------------------------

(* Whichever lane built it, the dataset holds the staged rows in the order  *)
(* of their steps with who drove at each, no camera that delivered an image *)
(* is missing, and the frame beside a row is the one its camera delivered   *)
(* at that very step, or black where there was none (lerobot_live.py:11-22: *)
(* "Corrupt or misaligned data can never ship").                            *)
DatasetIsTheStaging ==
    build.phase = "built" =>
        LET d == build.dataset
        IN  /\ d.rows = build.rows
            /\ \A i \in DOMAIN d.rows :
                   \/ d.labels[i] = LabelOf(d.rows[i])
                   \/ d.labels[i] = "policy" /\ LabelOf(d.rows[i]) \notin Range(Sources)
            /\ \A i \in DOMAIN d.rows : build.shots[d.rows[i]] \subseteq DOMAIN d.video
            /\ \A c \in DOMAIN d.video :
                   d.video[c] = [i \in DOMAIN d.rows |-> Frame(build, d.rows[i], c)]

(* The dataset plays at the speed the session was captured at, also when    *)
(* the live lane had already stamped it with the declared rate: its rate is *)
(* the measured one rounded to a whole number, or the declared one within   *)
(* the tolerance, and the declared one when none could be measured          *)
(* (recorder.py:607-609, lerobot_live.py:94-103).  A session of less than   *)
(* one frame a second is excepted: see SlowSessionsPlaySlowly.              *)
PlaysAtCapturedSpeed ==
    build.phase = "built" =>
        LET fps == build.dataset.fps
        IN  /\ ~Measurable(build) => fps = Fps
            /\ Measurable(build) /\ AtLeastOne(build) =>
                   \/ 2 * OffBy(build, fps) <= Elapsed(build)
                   \/ /\ fps = Fps
                      /\ Tolerance[2] * OffBy(build, Fps) <= Tolerance[1] * (Fps * Elapsed(build))

(* "Measured fps wins over the requested config.fps" (recorder.py:607) of a *)
(* session slower than one frame a second too, which a rebuild stamps with  *)
(* the rate 1.  A live dataset keeps the declared rate, since               *)
(* lerobot_live.py:210 compares no measured rate below 1.                   *)
SlowSessionsPlaySlowly ==
    build.phase = "built" /\ Measurable(build) /\ ~AtLeastOne(build) => build.dataset.fps = 1

(* A recorder that was closed ends: published, quarantined, cut off by a    *)
(* crash, or with nothing to ship, and leaves the destination's lock free   *)
(* for the others (recorder.py:574-760).                                    *)
EveryUploadEnds ==
    \A j \in Jobs :
        <>(pc[j] \in {"over", "dead"} \/ (j = Watched /\ build.phase \in NothingToShip))

=============================================================================
