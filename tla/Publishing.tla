----------------------------- MODULE Publishing -----------------------------
(***************************************************************************)
(* Publishing built datasets into one local destination (server/sinks.py   *)
(* and the end of SessionRecorder.upload()).  Every recorder of the box    *)
(* publishes on its own; a lock per destination makes the read-merge-swap  *)
(* exclusive.  The file operations of a publish are steps of their own,    *)
(* any of them may raise, and the box may die between them.                *)
(*                                                                         *)
(* A dataset is the set of the jobs whose episodes it holds; a dataset     *)
(* that is not there is the empty set.                                     *)
(***************************************************************************)
EXTENDS Naturals, FiniteSets

CONSTANTS
    MaxJobs,      \* bound: recorders that publish
    SharedName,   \* the recorders belong to one episode (a reconnect after a close)
    MaxCrashes    \* bound: deaths of the box

ASSUME PublishingAssumption ==
    /\ MaxJobs \in Nat \ {0}
    /\ SharedName \in BOOLEAN
    /\ MaxCrashes \in Nat

Jobs == 1 .. MaxJobs
NoJob == 0

EpisodeOf(j) == IF SharedName THEN 1 ELSE j

VARIABLES
    pc,          \* where each job is
    working,     \* datasets in their recorder's working directory
    lock,        \* the job that holds the destination's lock
    dest,        \* the accumulated dataset
    tmp,         \* the aggregate being swapped in
    bak,         \* the accumulated dataset moved aside
    orphans,     \* what a crash left in the directories of an unfinished swap
    sibling,     \* the dataset beside the destination, by episode
    quarantine,  \* datasets kept after a failed publish
    lost,        \* datasets the failed quarantine could not keep
    crashes,     \* deaths of the box so far
    merged       \* history: jobs whose publish merged them into the destination

files == <<working, dest, tmp, bak, orphans, sibling, quarantine, lost>>
vars == <<pc, lock, files, crashes, merged>>

\* "built" waits for the lock, "failed" is past a publish that raised, "over" has
\* cleaned up, "dead" was interrupted by a crash.
JobStates == {"built", "merging", "aggregated", "aside", "restoring", "swapped",
              "rejected", "published", "failed", "over", "dead"}

TypeOK ==
    /\ pc \in [Jobs -> JobStates]
    /\ working \subseteq Jobs
    /\ lock \in Jobs \cup {NoJob}
    /\ dest \subseteq Jobs
    /\ tmp \subseteq Jobs
    /\ bak \subseteq Jobs
    /\ orphans \subseteq Jobs
    /\ sibling \in [Jobs -> SUBSET Jobs]
    /\ quarantine \subseteq Jobs
    /\ lost \subseteq Jobs
    /\ crashes \in 0 .. MaxCrashes
    /\ merged \subseteq Jobs

Init ==
    /\ pc = [j \in Jobs |-> "built"]
    /\ working = Jobs
    /\ lock = NoJob
    /\ dest = {}
    /\ tmp = {}
    /\ bak = {}
    /\ orphans = {}
    /\ sibling = [e \in Jobs |-> {}]
    /\ quarantine = {}
    /\ lost = {}
    /\ crashes = 0
    /\ merged = {}

Step(j, from, to) ==
    /\ pc[j] = from
    /\ pc' = [pc EXCEPT ![j] = to]

-----------------------------------------------------------------------------
(* merge_local_dataset under the destination's lock.                        *)

LockFree == lock = NoJob

Acquire(j) ==
    /\ LockFree
    /\ Step(j, "built", "merging")
    /\ lock' = j
    /\ UNCHANGED <<files, crashes, merged>>

\* The first dataset is moved into place.
MoveInFirst(j) ==
    /\ dest = {}
    /\ Step(j, "merging", "published")
    /\ dest' = {j}
    /\ working' = working \ {j}
    /\ merged' = merged \cup {j}
    /\ UNCHANGED <<lock, tmp, bak, orphans, sibling, quarantine, lost, crashes>>

Aggregate(j) ==
    /\ dest # {}
    /\ Step(j, "merging", "aggregated")
    /\ tmp' = dest \cup {j}
    /\ UNCHANGED <<lock, working, dest, bak, orphans, sibling, quarantine, lost, crashes, merged>>

MoveAside(j) ==
    /\ Step(j, "aggregated", "aside")
    /\ bak' = dest
    /\ dest' = {}
    /\ UNCHANGED <<lock, working, tmp, orphans, sibling, quarantine, lost, crashes, merged>>

SwapIn(j) ==
    /\ Step(j, "aside", "swapped")
    /\ dest' = tmp
    /\ tmp' = {}
    /\ merged' = merged \cup {j}
    /\ UNCHANGED <<lock, working, bak, orphans, sibling, quarantine, lost, crashes>>

\* Mutant: the original is not put back.
NotRestored == dest

Restored == bak

SwapFails(j) ==
    /\ Step(j, "aside", "restoring")
    /\ UNCHANGED <<lock, files, crashes, merged>>

Restore(j) ==
    /\ Step(j, "restoring", "rejected")
    /\ dest' = Restored
    /\ bak' = {}
    /\ tmp' = {}
    /\ UNCHANGED <<lock, working, orphans, sibling, quarantine, lost, crashes, merged>>

DropBackup(j) ==
    /\ Step(j, "swapped", "published")
    /\ bak' = {}
    /\ UNCHANGED <<lock, working, dest, tmp, orphans, sibling, quarantine, lost, crashes, merged>>

\* The two datasets do not fit (features, rate or robot), or the disk is full.
MergeFails(j) ==
    /\ dest # {}
    /\ \/ Step(j, "merging", "rejected")
       \/ Step(j, "aggregated", "rejected")
    /\ UNCHANGED <<lock, files, crashes, merged>>

\* A rejected dataset is written beside the destination, over what was there.
WriteSibling(j) ==
    /\ Step(j, "rejected", "published")
    /\ sibling' = [sibling EXCEPT ![EpisodeOf(j)] = {j}]
    /\ working' = working \ {j}
    /\ UNCHANGED <<lock, dest, tmp, bak, orphans, quarantine, lost, crashes, merged>>

\* The move itself raises: publish() raises and releases the lock.
\* Mutant: the exception leaves the lock held.
StillHeld == lock

Released == NoJob

PublishRaises(j) ==
    /\ \/ dest = {} /\ Step(j, "merging", "failed")
       \/ Step(j, "rejected", "failed")
    /\ lock' = Released
    /\ UNCHANGED <<files, crashes, merged>>

-----------------------------------------------------------------------------
(* The rest of upload(): quarantine after a failure, then clean up.         *)

\* Mutant: a failed publish goes straight to the clean-up.
QuarantinedNone(j) == quarantine

Quarantined(j) == quarantine \cup ({j} \cap working)

Quarantine(j) ==
    /\ Step(j, "failed", "over")
    /\ working' = working \ {j}
    /\ \/ quarantine' = Quarantined(j) /\ UNCHANGED lost
       \/ lost' = lost \cup {j} /\ UNCHANGED quarantine
    /\ UNCHANGED <<lock, dest, tmp, bak, orphans, sibling, crashes, merged>>

CleanUp(j) ==
    /\ Step(j, "published", "over")
    /\ lock' = NoJob
    /\ working' = working \ {j}
    /\ UNCHANGED <<dest, tmp, bak, orphans, sibling, quarantine, lost, crashes, merged>>

\* The box dies.  What was being published stays where it is on the disk; the next
\* process knows nothing of it and names its own directories afresh.  A job still at
\* "built" stands for one whose recorder closes after the restart.
Crash ==
    /\ crashes < MaxCrashes
    /\ \E j \in Jobs : pc[j] \notin {"built", "over", "dead"}
    /\ crashes' = crashes + 1
    /\ pc' = [j \in Jobs |-> IF pc[j] \in {"built", "over"} THEN pc[j] ELSE "dead"]
    /\ lock' = NoJob
    /\ orphans' = orphans \cup bak
    /\ bak' = {}
    /\ tmp' = {}
    /\ UNCHANGED <<working, dest, sibling, quarantine, lost, merged>>

-----------------------------------------------------------------------------

JobNext(j) ==
    \/ Acquire(j)
    \/ MoveInFirst(j)
    \/ Aggregate(j)
    \/ MoveAside(j)
    \/ SwapIn(j)
    \/ SwapFails(j)
    \/ Restore(j)
    \/ DropBackup(j)
    \/ MergeFails(j)
    \/ WriteSibling(j)
    \/ PublishRaises(j)
    \/ Quarantine(j)
    \/ CleanUp(j)

Next == (\E j \in Jobs : JobNext(j)) \/ Crash

\* The lock is first come first served, so no job waits for it for ever.
Fairness == \A j \in Jobs : WF_vars(JobNext(j)) /\ SF_vars(Acquire(j))

Spec == Init /\ [][Next]_vars /\ Fairness

-----------------------------------------------------------------------------

Quiet == \A j \in Jobs : pc[j] \in {"built", "failed", "over", "dead"}

(* One publish at a time works on the destination, also after one raised    *)
(* and after the box died (sinks.py:73-77).                                 *)
OnePublisher ==
    \A j \in Jobs :
        pc[j] \in {"merging", "aggregated", "aside", "restoring", "swapped", "rejected",
                  "published"} <=> lock = j

(* A later publish, finished or failed, never takes an episode out of the   *)
(* accumulated dataset: two sessions closing at once do not overwrite each  *)
(* other's merge, and a failed swap puts the original back (sinks.py:73-77, *)
(* 144-154).  A crash in the middle of the swap is the exception.           *)
AccumulatedIsKept == Quiet /\ orphans = {} => merged \subseteq dest

(* Every built dataset is still somewhere on the disk, whatever failed and  *)
(* wherever the box died: only a quarantine that fails too loses it         *)
(* (sinks.py:97-100, recorder.py:751-796).                                  *)
NeverDropsData ==
    Jobs = working \cup dest \cup bak \cup orphans \cup (UNION {sibling[e] : e \in Jobs})
              \cup quarantine \cup lost

(* Every publish ends, and the lock is free for the next one even when it   *)
(* raised.                                                                  *)
EveryPublishEnds == \A j \in Jobs : <>(pc[j] \in {"over", "dead"})

=============================================================================
