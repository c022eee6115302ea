-------------------------- MODULE Shipping_proofs --------------------------
(***************************************************************************)
(* From a recorder's staging to the accumulated dataset, for any number of *)
(* recorders, ticks, cameras, failing calls and crashes.  The publishers   *)
(* first, who share one destination, then the watched recorder's build.    *)
(***************************************************************************)
EXTENDS Shipping, FiniteSetTheorems, SequenceTheorems, TLAPS

Swapping == {"aside", "restoring", "swapped"}

Behind == {"built", "merging", "aggregated", "aside", "restoring", "swapped", "rejected",
           "failed"}

(* Where the data is during a swap.                                         *)
SwapState(j) ==
    /\ pc[j] = "aggregated" => tmp = dest \cup {j}
    /\ pc[j] = "aside" => dest = {} /\ tmp = bak \cup {j}
    /\ pc[j] = "restoring" => dest = {}
    /\ pc[j] = "swapped" => bak \subseteq dest /\ j \in dest
    /\ pc[j] = "published" => j \in dest \cup sibling[EpisodeOf(j)]
    /\ pc[j] \in Behind => j \in working

BackupInUse == bak # {} => \E j \in Jobs : pc[j] \in Swapping

MergedIsThere == orphans = {} => merged \subseteq dest \cup bak

IInv ==
    /\ TypeOK
    /\ OnePublisher
    /\ \A j \in Jobs : SwapState(j)
    /\ BackupInUse
    /\ MergedIsThere

LEMMA InitIInv == Init => IInv
BY PublishingAssumption DEF Init, IInv, TypeOK, JobStates, OnePublisher, SwapState, BackupInUse,
       MergedIsThere, Behind, Swapping, Jobs, NoJob

LEMMA EpisodeIsJob == \A j \in Jobs : EpisodeOf(j) \in Jobs
BY PublishingAssumption DEF EpisodeOf, Jobs

LEMMA NextIInv == IInv /\ [Next]_vars => IInv'
<1> SUFFICES ASSUME IInv, [Next]_vars PROVE IInv'
  OBVIOUS
<1> USE DEF IInv, TypeOK, JobStates, OnePublisher, Swapping, Behind, SwapState, BackupInUse,
            MergedIsThere, Step, files
<1>0. NoJob \notin Jobs
  BY DEF NoJob, Jobs
<1>1. ASSUME NEW j \in Jobs, Acquire(j) PROVE IInv'
  BY <1>1, <1>0 DEF Acquire, LockFree
<1>2. ASSUME NEW j \in Jobs, MoveInFirst(j) PROVE IInv'
  BY <1>2, <1>0 DEF MoveInFirst
<1>3. ASSUME NEW j \in Jobs, Aggregate(j) PROVE IInv'
  BY <1>3, <1>0 DEF Aggregate
<1>4. ASSUME NEW j \in Jobs, MoveAside(j) PROVE IInv'
  BY <1>4, <1>0 DEF MoveAside
<1>5. ASSUME NEW j \in Jobs, SwapIn(j) PROVE IInv'
  BY <1>5, <1>0 DEF SwapIn
<1>6. ASSUME NEW j \in Jobs, SwapFails(j) PROVE IInv'
  BY <1>6, <1>0 DEF SwapFails
<1>7. ASSUME NEW j \in Jobs, Restore(j) PROVE IInv'
  BY <1>7, <1>0 DEF Restore, Restored
<1>8. ASSUME NEW j \in Jobs, DropBackup(j) PROVE IInv'
  BY <1>8, <1>0 DEF DropBackup
<1>9. ASSUME NEW j \in Jobs, MergeFails(j) PROVE IInv'
  BY <1>9, <1>0 DEF MergeFails
<1>10. ASSUME NEW j \in Jobs, WriteSibling(j) PROVE IInv'
  BY <1>10, <1>0, EpisodeIsJob DEF WriteSibling
<1>11. ASSUME NEW j \in Jobs, PublishRaises(j) PROVE IInv'
  BY <1>11, <1>0 DEF PublishRaises, Released
<1>12. ASSUME NEW j \in Jobs, Quarantine(j) PROVE IInv'
  BY <1>12, <1>0 DEF Quarantine, Quarantined
<1>13. ASSUME NEW j \in Jobs, CleanUp(j) PROVE IInv'
  BY <1>13, <1>0 DEF CleanUp
<1>14. ASSUME Crash PROVE IInv'
  BY <1>14, <1>0, PublishingAssumption DEF Crash
<1>15. CASE UNCHANGED vars
  BY <1>15 DEF vars
<1>. QED
  BY <1>1, <1>2, <1>3, <1>4, <1>5, <1>6, <1>7, <1>8, <1>9, <1>10, <1>11, <1>12, <1>13,
     <1>14, <1>15 DEF Next, JobNext

(* The watched recorder's build comes before its publish: what the box does *)
(* as a whole are steps of the publishers, or none.                         *)
Publishes == Init /\ [][Next]_vars

LEMMA BoxPublishes == Spec \/ ShipSpec => Publishes
<1>1. ShipInit => Init
  BY DEF ShipInit
<1>2. [ShipNext]_shipVars => [Next]_vars
  BY DEF ShipNext, BuildNext, Enqueue, WriteOne, CloseRecorder, Drained, Seal, Rebuild, Building,
         PublishNext, CrashBox, Next, shipVars
<1> QED BY <1>1, <1>2, PTL DEF Spec, ShipSpec, Publishes

LEMMA AlwaysIInv == Publishes => []IInv
BY InitIInv, NextIInv, PTL DEF Publishes

(* The types of the publishing state, for any number of recorders.          *)
THEOREM PublishingTypes == Spec \/ ShipSpec => []TypeOK
BY AlwaysIInv, BoxPublishes, PTL DEF IInv

(* One recorder at a time works on the destination, whoever fails or dies   *)
(* (the lock of sinks.py:73-86).                                            *)
THEOREM PublishersExclude == Spec \/ ShipSpec => []OnePublisher
BY AlwaysIInv, BoxPublishes, PTL DEF IInv

(* The accumulated dataset never loses a merged episode to another publish, *)
(* unless the box died in the middle of a swap (sinks.py:127-154).          *)
THEOREM MergedStaysMerged == Spec \/ ShipSpec => []AccumulatedIsKept
<1>1. IInv => AccumulatedIsKept
  BY DEF IInv, AccumulatedIsKept, Quiet, BackupInUse, MergedIsThere, Swapping
<1>. QED
  BY <1>1, AlwaysIInv, BoxPublishes, PTL

-----------------------------------------------------------------------------
(* Where every dataset is, when no two recorders share their episode.       *)

Placed ==
    /\ \A e \in Jobs : sibling[e] \subseteq {e}
    /\ NeverDropsData

LEMMA InitPlaced == Init => Placed
BY DEF Init, Placed, NeverDropsData

LEMMA NextPlaced ==
    ASSUME ~SharedName, IInv, IInv', Placed, [Next]_vars PROVE Placed'
<1> USE DEF IInv, TypeOK, OnePublisher, Swapping, Behind, SwapState, BackupInUse, Placed,
            NeverDropsData, Step, files, EpisodeOf
<1>0. NoJob \notin Jobs
  BY DEF NoJob, Jobs
<1>1. ASSUME NEW j \in Jobs, Acquire(j) PROVE Placed'
  BY <1>1 DEF Acquire
<1>2. ASSUME NEW j \in Jobs, MoveInFirst(j) PROVE Placed'
  BY <1>2 DEF MoveInFirst
<1>3. ASSUME NEW j \in Jobs, Aggregate(j) PROVE Placed'
  BY <1>3 DEF Aggregate
<1>4. ASSUME NEW j \in Jobs, MoveAside(j) PROVE Placed'
  BY <1>4, <1>0 DEF MoveAside
<1>5. ASSUME NEW j \in Jobs, SwapIn(j) PROVE Placed'
  BY <1>5 DEF SwapIn
<1>6. ASSUME NEW j \in Jobs, SwapFails(j) PROVE Placed'
  BY <1>6 DEF SwapFails
<1>7. ASSUME NEW j \in Jobs, Restore(j) PROVE Placed'
  BY <1>7 DEF Restore, Restored
<1>8. ASSUME NEW j \in Jobs, DropBackup(j) PROVE Placed'
  BY <1>8 DEF DropBackup
<1>9. ASSUME NEW j \in Jobs, MergeFails(j) PROVE Placed'
  BY <1>9 DEF MergeFails
<1>10. ASSUME NEW j \in Jobs, WriteSibling(j) PROVE Placed'
  BY <1>10 DEF WriteSibling
<1>11. ASSUME NEW j \in Jobs, PublishRaises(j) PROVE Placed'
  BY <1>11 DEF PublishRaises
<1>12. ASSUME NEW j \in Jobs, Quarantine(j) PROVE Placed'
  BY <1>12 DEF Quarantine, Quarantined
<1>13. ASSUME NEW j \in Jobs, CleanUp(j) PROVE Placed'
  BY <1>13 DEF CleanUp
<1>14. ASSUME Crash PROVE Placed'
  BY <1>14 DEF Crash
<1>15. CASE UNCHANGED vars
  BY <1>15 DEF vars
<1>. QED
  BY <1>1, <1>2, <1>3, <1>4, <1>5, <1>6, <1>7, <1>8, <1>9, <1>10, <1>11, <1>12, <1>13,
     <1>14, <1>15 DEF Next, JobNext

(* No failure of a merge, a swap or a publish and no death of the box loses *)
(* a built dataset, when the episodes that publish have names of their own; *)
(* only a failed quarantine does (sinks.py:97-124, recorder.py:751-796).    *)
THEOREM NothingIsDropped == ASSUME ~SharedName PROVE Spec \/ ShipSpec => []NeverDropsData
<1>1. Placed /\ [Next]_vars /\ IInv /\ IInv' => Placed'
  BY NextPlaced
<1>2. Placed => NeverDropsData
  BY DEF Placed
<1>. QED
  BY <1>1, <1>2, InitPlaced, AlwaysIInv, BoxPublishes, PTL DEF Publishes

-----------------------------------------------------------------------------
(* The watched recorder's build.  Until it is built, its rows come from the *)
(* front of a queue of ascending steps;  every camera of an offered step   *)
(* is noted, every image of a row is on the disk; and the live builder, as  *)
(* long as it is not dead, has just the rows, in a video that either lacks  *)
(* a frame for good or shows every row's own.                               *)
Phases == {"recording", "draining", "sealing", "rebuilding", "built", "lost", "empty"}

IsBuild(b) ==
    /\ b = [phase |-> b.phase, lane |-> b.lane, shots |-> b.shots, clock |-> b.clock,
            next |-> b.next, queue |-> b.queue, noted |-> b.noted, files |-> b.files,
            rows |-> b.rows, live |-> b.live, dataset |-> b.dataset, failures |-> b.failures]
    /\ b.live = [state |-> b.live.state, pending |-> b.live.pending, rows |-> b.live.rows,
                 video |-> b.live.video]
    /\ b.phase \in Phases
    /\ b.lane \in {"off", "waiting"}
    /\ b.live.state \in {"off", "waiting", "open", "dead"}
    /\ b.shots \in [Steps -> SUBSET Cameras]
    /\ b.clock \in Clocks
    /\ b.next \in 1 .. MaxTicks + 1
    /\ b.queue \in Seq(Steps)
    /\ b.rows \in Seq(Steps)
    /\ b.noted \subseteq Cameras

InOrder(b) ==
    /\ \A i \in DOMAIN b.queue : b.queue[i] < b.next
    /\ \A i \in DOMAIN b.rows : b.rows[i] < b.next
    /\ \A i, j \in DOMAIN b.queue : i < j => b.queue[i] < b.queue[j]
    /\ \A i, j \in DOMAIN b.rows : i < j => b.rows[i] < b.rows[j]
    /\ \A i \in DOMAIN b.rows, j \in DOMAIN b.queue : b.rows[i] < b.queue[j]

OnDisk(b) ==
    /\ \A s \in Steps : s < b.next => b.shots[s] \subseteq b.noted
    /\ \A i \in DOMAIN b.rows : StagedFiles(b, b.rows[i]) \subseteq b.files
    /\ \A s \in Steps, c \in Cameras : <<s, c>> \in b.files => c \in b.shots[s]

Shows(b, v, c) ==
    /\ v \in Seq(Nat) /\ Len(v) =< Len(b.rows)
    /\ Len(v) = Len(b.rows) => v = [i \in DOMAIN b.rows |-> Frame(b, b.rows[i], c)]

LiveFollows(b) ==
    /\ b.live.state = "waiting" =>
          /\ b.live.pending = b.rows
          /\ \A i \in DOMAIN b.rows : b.shots[b.rows[i]] = {}
    /\ b.live.state = "open" =>
          /\ b.live.rows = b.rows
          /\ DOMAIN b.live.video \subseteq Cameras
          /\ b.live.video = [c \in DOMAIN b.live.video |-> b.live.video[c]]
          /\ \A i \in DOMAIN b.rows : b.shots[b.rows[i]] \subseteq DOMAIN b.live.video
          /\ \A c \in DOMAIN b.live.video : Shows(b, b.live.video[c], c)

Staging(b) ==
    /\ IsBuild(b)
    /\ b.phase # "built" => InOrder(b) /\ OnDisk(b) /\ LiveFollows(b)

(* What the queue and the rows go through.                                  *)
LEMMA Appended ==
    ASSUME NEW S, NEW s \in Seq(S), NEW e \in S
    PROVE  /\ Append(s, e) \in Seq(S) /\ Len(s) \in Nat /\ DOMAIN s = 1 .. Len(s)
           /\ Len(Append(s, e)) = Len(s) + 1 /\ DOMAIN Append(s, e) = 1 .. Len(s) + 1
           /\ \A i \in 1 .. Len(s) : Append(s, e)[i] = s[i]
           /\ Append(s, e)[Len(s) + 1] = e
BY AppendProperties, LenProperties

LEMMA HeadAndTail ==
    ASSUME NEW S, NEW s \in Seq(S), s # <<>>
    PROVE  /\ Head(s) \in S /\ Head(s) = s[1] /\ Tail(s) \in Seq(S)
           /\ Len(s) \in Nat \ {0} /\ DOMAIN s = 1 .. Len(s)
           /\ Len(Tail(s)) = Len(s) - 1 /\ DOMAIN Tail(s) = 1 .. Len(s) - 1
           /\ \A i \in 1 .. Len(s) - 1 : Tail(s)[i] = s[i + 1]
<1>1. Head(s) = s[1]
  OBVIOUS
<1> QED BY <1>1, HeadTailProperties, LenProperties, EmptySeq

(* In an ascending sequence, the element that i - 1 others precede is the   *)
(* i-th.                                                                    *)
LEMMA RankIsPlace ==
    ASSUME NEW s \in Seq(Nat), \A i, j \in DOMAIN s : i < j => s[i] < s[j],
           NEW i \in DOMAIN s
    PROVE  (CHOOSE k \in DOMAIN s : Cardinality({q \in DOMAIN s : s[q] < s[k]}) = i - 1) = i
<1> DEFINE before(k) == {q \in DOMAIN s : s[q] < s[k]}
           n == Len(s)
<1>1. n \in Nat /\ DOMAIN s = 1 .. n /\ \A k \in 1 .. n : s[k] \in Nat
  BY LenProperties
<1> HIDE DEF n
<1>2. ASSUME NEW k \in 1 .. n PROVE Cardinality(before(k)) = k - 1
  <2>1. before(k) = 1 .. k - 1
    <3>1. \A q \in 1 .. n : q < k => s[q] < s[k]
      BY <1>1
    <3>2. \A q \in 1 .. n : k < q => s[k] < s[q]
      BY <1>1
    <3> QED BY <1>1, <3>1, <3>2
  <2> HIDE DEF before
  <2>2. 0 \in Int /\ k - 1 \in Int /\ 1 \in Int
    BY <1>1
  <2> QED BY <1>1, <2>1, <2>2, FS_Interval
<1>3. \A k \in DOMAIN s : Cardinality(before(k)) = i - 1 <=> k = i
  <2> HIDE DEF before
  <2> QED BY <1>1, <1>2
<1>4. (CHOOSE k \in DOMAIN s : Cardinality(before(k)) = i - 1) \in DOMAIN s
      /\ Cardinality(before(CHOOSE k \in DOMAIN s : Cardinality(before(k)) = i - 1)) = i - 1
  <2> HIDE DEF before
  <2> QED BY <1>3, Zenon
<1> QED BY <1>3, <1>4

(* Rows that are in the order of their steps stay where they are.           *)
LEMMA SortedStay ==
    ASSUME NEW b, b.rows \in Seq(Steps),
           \A i, j \in DOMAIN b.rows : i < j => b.rows[i] < b.rows[j]
    PROVE  StagedRows(b) = b.rows
<1>1. b.rows \in Seq(Nat) /\ b.rows \in [DOMAIN b.rows -> Nat]
  <2>1. Steps \subseteq Nat
    BY DatasetAssumption DEF Steps
  <2> QED BY <2>1, SeqMonotonic, LenProperties
<1>2. \A i \in DOMAIN b.rows : b.rows[i] =
          b.rows[CHOOSE k \in DOMAIN b.rows :
                    Cardinality({q \in DOMAIN b.rows : b.rows[q] < b.rows[k]}) = i - 1]
  BY <1>1, RankIsPlace, Zenon
<1> DEFINE place(i) == CHOOSE k \in DOMAIN b.rows :
                          Cardinality({q \in DOMAIN b.rows : b.rows[q] < b.rows[k]}) = i - 1
<1>3. StagedRows(b) = [i \in DOMAIN b.rows |-> b.rows[place(i)]]
  BY Zenon DEF StagedRows
<1>4. \A i \in DOMAIN b.rows : b.rows[i] = b.rows[place(i)]
  BY <1>2, Zenon
<1> HIDE DEF place
<1> QED BY <1>1, <1>3, <1>4

-----------------------------------------------------------------------------

LEMMA NewStaging == ASSUME NEW b \in NewBuilds PROVE Staging(b)
<1>1. PICK l \in {"off", "waiting"}, s \in [Steps -> SUBSET Cameras], p \in Clocks :
          b = NewBuild(l, s, p)
  BY DEF NewBuilds
<1>2. /\ b.queue = <<>> /\ b.rows = <<>> /\ b.next = 1 /\ b.files = {} /\ b.shots = s
      /\ b.live = NewLive(l) /\ b.phase = "recording" /\ b.lane = l /\ b.clock = p
  BY <1>1 DEF NewBuild
<1>3. IsBuild(b)
  BY <1>1, DatasetAssumption DEF NewBuild, IsBuild, NewLive, Phases
<1>4. InOrder(b)
  BY <1>2 DEF InOrder
<1>5. OnDisk(b)
  BY <1>2, DatasetAssumption DEF OnDisk, Steps
<1>6. LiveFollows(b)
  BY <1>2 DEF LiveFollows, NewLive
<1> QED BY <1>3, <1>4, <1>5, <1>6 DEF Staging

(* A tick is admitted at the back, and noted in any case.                   *)
LEMMA EnqueueStages ==
    ASSUME NEW b, Staging(b), b.phase = "recording", b.next \in Steps
    PROVE  Staging(Admit(b)) /\ Staging(Note(b))
<1> USE DatasetAssumption
<1>1. IsBuild(b) /\ InOrder(b) /\ OnDisk(b) /\ LiveFollows(b)
  BY DEF Staging
<1>2. /\ Note(b) = [b EXCEPT !.noted = b.noted \cup b.shots[b.next]]
      /\ Admit(b) = [b EXCEPT !.noted = b.noted \cup b.shots[b.next],
                              !.queue = Append(b.queue, b.next), !.next = b.next + 1]
  BY <1>1 DEF Note, Admit, IsBuild
<1>3. IsBuild(Note(b)) /\ IsBuild(Admit(b))
  <2>1. Append(b.queue, b.next) \in Seq(Steps) /\ b.next + 1 \in 1 .. MaxTicks + 1
    BY <1>1 DEF IsBuild, Steps
  <2>2. IsBuild(Note(b))
    BY <1>1, <1>2 DEF IsBuild
  <2>3. IsBuild(Admit(b))
    BY <1>1, <1>2, <2>1 DEF IsBuild
  <2> QED BY <2>2, <2>3
<1>4. ASSUME NEW w \in {Note(b), Admit(b)}
      PROVE  LiveFollows(w)
  <2> DEFINE noted == b.noted \cup b.shots[b.next]
             queue == Append(b.queue, b.next)
             next == b.next + 1
  <2>1. b = [phase |-> b.phase, lane |-> b.lane, shots |-> b.shots, clock |-> b.clock,
             next |-> b.next, queue |-> b.queue, noted |-> b.noted, files |-> b.files,
             rows |-> b.rows, live |-> b.live, dataset |-> b.dataset, failures |-> b.failures]
    BY <1>1 DEF IsBuild
  <2>2. w = [b EXCEPT !.noted = noted] \/ w = [b EXCEPT !.noted = noted, !.queue = queue, !.next = next]
    BY <1>2, <1>4
  <2> HIDE DEF noted, queue, next
  <2>3. w.live = b.live /\ w.rows = b.rows /\ w.shots = b.shots
    BY ONLY <2>1, <2>2
  <2> QED BY <1>1, <2>3 DEF LiveFollows, Shows, Frame
<1>5. InOrder(Note(b)) /\ OnDisk(Note(b))
  BY <1>1, <1>2 DEF InOrder, OnDisk, IsBuild, StagedFiles
<1>6. InOrder(Admit(b))
  <2> DEFINE w == Admit(b)
             n == Len(b.queue)
  <2>1. w.queue = Append(b.queue, b.next) /\ w.next = b.next + 1 /\ w.rows = b.rows
    BY <1>1, <1>2 DEF IsBuild
  <2>2. /\ b.next \in Nat /\ n \in Nat /\ DOMAIN b.queue = 1 .. n /\ DOMAIN w.queue = 1 .. n + 1
        /\ \A i \in 1 .. n : w.queue[i] = b.queue[i] /\ b.queue[i] \in Nat
        /\ \A i \in DOMAIN b.rows : b.rows[i] \in Nat
        /\ w.queue[n + 1] = b.next
    <3>1. b.queue \in Seq(Steps) /\ b.rows \in Seq(Steps) /\ Steps \subseteq Nat
      BY <1>1 DEF IsBuild, Steps
    <3>2. /\ n \in Nat /\ b.queue \in [1 .. n -> Steps] /\ DOMAIN b.queue = 1 .. n
          /\ b.rows \in [1 .. Len(b.rows) -> Steps] /\ DOMAIN b.rows = 1 .. Len(b.rows)
      BY <3>1, LenProperties
    <3>3. /\ DOMAIN w.queue = 1 .. n + 1 /\ \A i \in 1 .. n : w.queue[i] = b.queue[i]
          /\ w.queue[n + 1] = b.next
      BY <2>1, <3>1, Appended
    <3>4. b.next \in Nat
      BY <3>1
    <3> HIDE DEF n, w
    <3> QED BY <3>1, <3>2, <3>3, <3>4
  <2> HIDE DEF w, n
  <2>3. InOrder(w)
    BY <1>1, <2>1, <2>2 DEF InOrder
  <2> QED BY <2>3 DEF w
<1>7. OnDisk(Admit(b))
  <2>1. /\ Admit(b).noted = b.noted \cup b.shots[b.next] /\ Admit(b).next = b.next + 1
        /\ Admit(b).rows = b.rows /\ Admit(b).shots = b.shots /\ Admit(b).files = b.files
    BY <1>1, <1>2 DEF IsBuild
  <2>2. \A s \in Steps : s < b.next + 1 => s < b.next \/ s = b.next
    BY DEF Steps
  <2> QED BY <1>1, <2>1, <2>2 DEF OnDisk, StagedFiles
<1> QED BY <1>3, <1>4, <1>5, <1>6, <1>7 DEF Staging

-----------------------------------------------------------------------------
(* The writer takes the front of the queue.                                 *)
LEMMA FrontIsNext ==
    ASSUME NEW b, IsBuild(b), InOrder(b), b.queue # <<>>,
           NEW w, w.queue = Tail(b.queue), w.next = b.next,
           w.rows = b.rows \/ w.rows = Append(b.rows, Head(b.queue))
    PROVE  /\ InOrder(w) /\ w.queue \in Seq(Steps) /\ w.rows \in Seq(Steps)
           /\ Head(b.queue) \in Steps /\ Head(b.queue) < b.next
<1> DEFINE step == Head(b.queue)
           m == Len(b.queue)
           n == Len(b.rows)
<1>1. b.queue \in Seq(Steps) /\ b.rows \in Seq(Steps) /\ Steps \subseteq Nat /\ b.next \in Nat
  BY DatasetAssumption DEF IsBuild, Steps
<1>2. /\ m \in Nat \ {0} /\ DOMAIN b.queue = 1 .. m /\ DOMAIN w.queue = 1 .. m - 1
      /\ w.queue \in Seq(Steps) /\ step \in Steps /\ step = b.queue[1]
      /\ \A i \in 1 .. m - 1 : w.queue[i] = b.queue[i + 1]
  <2> DEFINE q == b.queue
  <2>1. q \in Seq(Steps) /\ q # <<>> /\ w.queue = Tail(q)
    BY <1>1
  <2> HIDE DEF q
  <2>2. /\ Head(q) \in Steps /\ Head(q) = q[1] /\ Tail(q) \in Seq(Steps)
        /\ Len(q) \in Nat \ {0} /\ DOMAIN q = 1 .. Len(q) /\ DOMAIN Tail(q) = 1 .. Len(q) - 1
        /\ \A i \in 1 .. Len(q) - 1 : Tail(q)[i] = q[i + 1]
    BY <2>1, HeadAndTail
  <2> QED BY <2>1, <2>2 DEF q
<1>3. /\ n \in Nat /\ DOMAIN b.rows = 1 .. n
      /\ \A i \in 1 .. m : b.queue[i] \in Nat
      /\ \A i \in 1 .. n : b.rows[i] \in Nat
  BY <1>1, LenProperties
<1>4. w.rows = Append(b.rows, step) =>
          /\ w.rows \in Seq(Steps) /\ DOMAIN w.rows = 1 .. n + 1
          /\ \A i \in 1 .. n : w.rows[i] = b.rows[i]
          /\ w.rows[n + 1] = step
  <2> HIDE DEF step
  <2>1. /\ Append(b.rows, step) \in Seq(Steps)
        /\ DOMAIN Append(b.rows, step) = 1 .. Len(b.rows) + 1
        /\ \A i \in 1 .. Len(b.rows) : Append(b.rows, step)[i] = b.rows[i]
        /\ Append(b.rows, step)[Len(b.rows) + 1] = step
    BY <1>1, <1>2, Appended
  <2> QED BY <2>1
<1>5. w.rows = b.rows \/ w.rows = Append(b.rows, step)
  OBVIOUS
<1> HIDE DEF step, m, n
<1>6. 1 \in 1 .. m /\ step \in Nat /\ step < b.next
  <2>1. 1 \in 1 .. m
    BY <1>2
  <2> QED BY <1>2, <1>3, <2>1 DEF InOrder
<1>7. ASSUME NEW i \in 1 .. m - 1
      PROVE  /\ i + 1 \in 1 .. m /\ w.queue[i] = b.queue[i + 1] /\ w.queue[i] \in Nat
             /\ w.queue[i] < b.next /\ step < w.queue[i]
  <2>1. i + 1 \in 1 .. m /\ 1 < i + 1
    BY <1>2
  <2>2. b.queue[1] < b.queue[i + 1]
    BY <1>2, <1>6, <2>1 DEF InOrder
  <2> QED BY <1>2, <1>3, <2>1, <2>2 DEF InOrder
<1>8. ASSUME NEW i \in 1 .. m - 1, NEW j \in 1 .. m - 1, i < j
      PROVE  w.queue[i] < w.queue[j]
  <2>1. i + 1 \in 1 .. m /\ j + 1 \in 1 .. m /\ i + 1 < j + 1
    BY <1>2, <1>7, <1>8
  <2>2. b.queue[i + 1] < b.queue[j + 1]
    BY <1>2, <2>1 DEF InOrder
  <2> QED BY <1>2, <2>2
<1>9. \A i \in 1 .. n : b.rows[i] < step /\ b.rows[i] < b.next
  BY <1>2, <1>3, <1>6 DEF InOrder
<1>10. \A i \in 1 .. n, j \in 1 .. m - 1 : b.rows[i] < w.queue[j]
  BY <1>2, <1>3, <1>7 DEF InOrder
<1>11. \A i \in 1 .. n, j \in 1 .. n : i < j => b.rows[i] < b.rows[j]
  BY <1>3 DEF InOrder
<1>12. CASE w.rows = b.rows
  BY <1>1, <1>2, <1>3, <1>6, <1>7, <1>8, <1>9, <1>10, <1>11, <1>12 DEF InOrder, step
<1>13. ASSUME /\ w.rows \in Seq(Steps) /\ DOMAIN w.rows = 1 .. n + 1
              /\ \A i \in 1 .. n : w.rows[i] = b.rows[i]
              /\ w.rows[n + 1] = step
       PROVE  InOrder(w)
  <2>1. \A i \in 1 .. n + 1 : i \in 1 .. n \/ i = n + 1
    BY <1>3
  <2>2. \A i \in 1 .. n + 1 : w.rows[i] < b.next
    BY <1>6, <1>9, <1>13, <2>1
  <2>3. \A i \in 1 .. n + 1, j \in 1 .. n + 1 : i < j => w.rows[i] < w.rows[j]
    <3> TAKE i \in 1 .. n + 1, j \in 1 .. n + 1
    <3> HAVE i < j
    <3>1. i \in 1 .. n
      BY <1>3
    <3>2. CASE j \in 1 .. n
      BY <1>11, <1>13, <3>1, <3>2
    <3>3. CASE j = n + 1
      BY <1>9, <1>13, <3>1, <3>3
    <3> QED BY <2>1, <3>2, <3>3
  <2>4. \A i \in 1 .. n + 1, j \in 1 .. m - 1 : w.rows[i] < w.queue[j]
    BY <1>7, <1>10, <1>13, <2>1
  <2> QED BY <1>2, <1>7, <1>8, <1>13, <2>2, <2>3, <2>4 DEF InOrder
<1>14. InOrder(w) /\ w.rows \in Seq(Steps)
  BY <1>1, <1>4, <1>5, <1>12, <1>13
<1> QED BY <1>2, <1>6, <1>14 DEF step

(* What a row adds to a video: nothing, which is never made up for, or its  *)
(* own frame.                                                               *)
LEMMA ShowsMore ==
    ASSUME NEW b, b.rows \in Seq(Steps), NEW v, NEW c, Shows(b, v, c), NEW step \in Steps,
           NEW w, w.rows = Append(b.rows, step), w.shots = b.shots
    PROVE  Shows(w, v, c) /\ Shows(w, Append(v, Frame(b, step, c)), c)
<1> DEFINE n == Len(b.rows)
           m == Len(v)
           f == Frame(b, step, c)
           u == Append(v, f)
<1>1. /\ n \in Nat /\ DOMAIN b.rows = 1 .. n /\ Len(w.rows) = n + 1 /\ DOMAIN w.rows = 1 .. n + 1
      /\ \A i \in 1 .. n : w.rows[i] = b.rows[i]
      /\ w.rows[n + 1] = step
  BY Appended
<1>2. f \in Nat
  BY DatasetAssumption DEF Frame, Steps, Black
<1>3. v \in Seq(Nat) /\ m =< n
  BY DEF Shows
<1>4. /\ m \in Nat /\ u \in Seq(Nat) /\ Len(u) = m + 1 /\ DOMAIN u = 1 .. m + 1
      /\ \A i \in 1 .. m : u[i] = v[i]
      /\ u[m + 1] = f
  BY <1>2, <1>3, Appended
<1>5. u \in [1 .. m + 1 -> Nat]
  BY <1>4, LenProperties
<1>6. \A s : Frame(w, s, c) = Frame(b, s, c)
  BY DEF Frame
<1>7. m = n => \A i \in 1 .. n : v[i] = Frame(b, b.rows[i], c)
  BY <1>1 DEF Shows
<1> HIDE DEF n, f, u
<1>8. m = n => u = [i \in 1 .. n + 1 |-> Frame(w, w.rows[i], c)]
  <2> SUFFICES ASSUME m = n PROVE \A i \in 1 .. n + 1 : u[i] = Frame(w, w.rows[i], c)
    BY <1>5
  <2>1. \A i \in 1 .. n : u[i] = Frame(w, w.rows[i], c)
    BY <1>1, <1>4, <1>6, <1>7
  <2>2. u[n + 1] = Frame(w, w.rows[n + 1], c)
    BY <1>1, <1>4, <1>6 DEF f
  <2> QED BY <1>1, <2>1, <2>2
<1>9. Shows(w, v, c)
  BY <1>1, <1>3, <1>4 DEF Shows
<1>10. Shows(w, u, c)
  <2>1. Len(u) =< Len(w.rows) /\ (Len(u) = Len(w.rows) => m = n)
    BY <1>1, <1>3, <1>4
  <2> QED BY <1>1, <1>4, <1>8, <2>1 DEF Shows
<1> QED BY <1>9, <1>10 DEF u, f

(* The builder's first dataset has black frames for the rows held back.     *)
LEMMA ShowsCreated ==
    ASSUME NEW b, b.rows \in Seq(Steps), b.live.pending = b.rows,
           \A i \in DOMAIN b.rows : b.shots[b.rows[i]] = {},
           NEW step \in Steps, NEW c \in b.shots[step],
           NEW w, w.rows = Append(b.rows, step), w.shots = b.shots
    PROVE  Shows(w, Append([i \in 1 .. Len(b.live.pending) |-> Black], step), c)
<1> DEFINE n == Len(b.rows)
           v == [i \in 1 .. n |-> Black]
<1>1. n \in Nat /\ DOMAIN b.rows = 1 .. n
  BY LenProperties
<1>2. v \in Seq(Nat) /\ Len(v) = n
  BY <1>1 DEF Black
<1>3. \A i \in 1 .. n : Frame(b, b.rows[i], c) = Black
  BY <1>1 DEF Frame
<1>4. Shows(b, v, c)
  <2> HIDE DEF n
  <2>1. v = [i \in DOMAIN b.rows |-> Frame(b, b.rows[i], c)]
    BY <1>1, <1>3
  <2> HIDE DEF v
  <2>2. Len(v) =< Len(b.rows)
    BY <1>1, <1>2 DEF n
  <2> QED BY <1>2, <2>1, <2>2 DEF Shows
<1>5. Frame(b, step, c) = step
  BY DEF Frame
<1> QED BY <1>4, <1>5, ShowsMore

(* The builder that is fed with a row follows it.                           *)
LEMMA FedFollows ==
    ASSUME NEW b, IsBuild(b), LiveFollows(b), NEW step \in Steps,
           NEW w, w.rows = Append(b.rows, step), w.shots = b.shots,
           \/ w.live = Aborted
           \/ w.live = Fed(b, step)
           \/ /\ b.live.state = "open" /\ Fed(b, step).state = "open"
              /\ \E dropped : w.live = Added(b, step, dropped)
    PROVE  /\ LiveFollows(w)
           /\ w.live = [state |-> w.live.state, pending |-> w.live.pending,
                        rows |-> w.live.rows, video |-> w.live.video]
           /\ w.live.state \in {"off", "waiting", "open", "dead"}
<1> DEFINE IsLive(l) ==
              /\ l = [state |-> l.state, pending |-> l.pending, rows |-> l.rows, video |-> l.video]
              /\ l.state \in {"off", "waiting", "open", "dead"}
<1>1. IsLive(b.live) /\ b.rows \in Seq(Steps) /\ b.shots[step] \subseteq Cameras
  BY DEF IsBuild
<1>2. CASE w.live = Aborted
  BY <1>2 DEF LiveFollows, Aborted, NewLive
<1>3. /\ DOMAIN b.rows = 1 .. Len(b.rows) /\ Len(b.rows) \in Nat
      /\ DOMAIN w.rows = 1 .. Len(b.rows) + 1
      /\ \A i \in 1 .. Len(b.rows) : w.rows[i] = b.rows[i]
      /\ w.rows[Len(b.rows) + 1] = step
  BY <1>1, Appended
<1> DEFINE n == Len(b.rows)
<1> HIDE DEF n
<1>4. \A i \in DOMAIN w.rows :
          (i \in DOMAIN b.rows /\ w.rows[i] = b.rows[i]) \/ w.rows[i] = step
  <2>1. \A i \in DOMAIN w.rows : i \in DOMAIN b.rows \/ i = n + 1
    BY <1>3 DEF n
  <2> QED BY <1>3, <2>1 DEF n
<1>5. CASE b.live.state = "waiting" /\ b.shots[step] = {} /\ w.live = HeldBack(b, step)
  <2>1. CASE w.live = Aborted
    BY <2>1, <1>2
  <2>2. CASE w.live = [b.live EXCEPT !.pending = Append(@, step)]
    <3>1. w.live.state = "waiting" /\ w.live.pending = w.rows /\ IsLive(w.live)
      BY <1>1, <1>5, <2>2 DEF LiveFollows
    <3>2. \A i \in DOMAIN w.rows : w.shots[w.rows[i]] = {}
      BY <1>4, <1>5 DEF LiveFollows
    <3> QED BY <3>1, <3>2 DEF LiveFollows
  <2> QED BY <1>5, <2>1, <2>2 DEF HeldBack
<1>6. CASE b.live.state = "waiting" /\ w.live = Created(b, step)
  <2>1. b.live.pending = b.rows /\ \A i \in DOMAIN b.rows : b.shots[b.rows[i]] = {}
    BY <1>6 DEF LiveFollows
  <2>2. /\ w.live.state = "open" /\ w.live.rows = w.rows /\ DOMAIN w.live.video = b.shots[step]
        /\ IsLive(w.live) /\ w.live.video = [c \in DOMAIN w.live.video |-> w.live.video[c]]
    BY <1>6, <2>1 DEF Created
  <2>3. \A i \in DOMAIN w.rows : w.shots[w.rows[i]] \subseteq DOMAIN w.live.video
    BY <1>4, <2>1, <2>2
  <2>4. \A c \in b.shots[step] : Shows(w, w.live.video[c], c)
    <3> TAKE c \in b.shots[step]
    <3>1. w.live.video[c] = Append([i \in 1 .. Len(b.live.pending) |-> Black], step)
      BY <1>6 DEF Created
    <3>2. Shows(w, Append([i \in 1 .. Len(b.live.pending) |-> Black], step), c)
      BY <1>1, <2>1, ShowsCreated, Zenon
    <3> QED BY <3>1, <3>2, Zenon
  <2> QED BY <1>1, <2>2, <2>3, <2>4 DEF LiveFollows
<1>7. ASSUME b.live.state = "open", b.shots[step] \subseteq DOMAIN b.live.video,
             NEW dropped, w.live = Added(b, step, dropped)
      PROVE  LiveFollows(w) /\ IsLive(w.live)
  <2>1. /\ b.live.rows = b.rows /\ DOMAIN b.live.video \subseteq Cameras
        /\ \A i \in DOMAIN b.rows : b.shots[b.rows[i]] \subseteq DOMAIN b.live.video
        /\ \A c \in DOMAIN b.live.video : Shows(b, b.live.video[c], c)
    BY <1>7 DEF LiveFollows
  <2>2. /\ w.live.state = "open" /\ w.live.rows = w.rows /\ IsLive(w.live)
        /\ w.live.video = [c \in DOMAIN b.live.video |->
                              IF c \in dropped THEN b.live.video[c]
                              ELSE Append(b.live.video[c], Frame(b, step, c))]
    BY <1>1, <1>7, <2>1 DEF Added
  <2>3. \A i \in DOMAIN w.rows : w.shots[w.rows[i]] \subseteq DOMAIN w.live.video
    BY <1>4, <1>7, <2>1, <2>2
  <2>4. \A c \in DOMAIN b.live.video : Shows(w, w.live.video[c], c)
    <3> TAKE c \in DOMAIN b.live.video
    <3>1. Shows(b, b.live.video[c], c)
      BY <2>1
    <3>2. \/ w.live.video[c] = b.live.video[c]
          \/ w.live.video[c] = Append(b.live.video[c], Frame(b, step, c))
      BY <2>2
    <3>3. Shows(w, b.live.video[c], c) /\ Shows(w, Append(b.live.video[c], Frame(b, step, c)), c)
      BY <1>1, <3>1, ShowsMore
    <3> QED BY <3>2, <3>3
  <2>5. DOMAIN w.live.video = DOMAIN b.live.video
        /\ w.live.video = [c \in DOMAIN w.live.video |-> w.live.video[c]]
    BY <2>2
  <2> QED BY <2>1, <2>2, <2>3, <2>4, <2>5 DEF LiveFollows
<1>8. CASE w.live = b.live /\ b.live.state \in {"off", "dead"}
  BY <1>1, <1>8 DEF LiveFollows
<1>9. Added(b, step, {}).state = b.live.state /\ Aborted.state = "dead"
  BY <1>1 DEF Added, Aborted, NewLive
<1>10. CASE w.live = Fed(b, step)
  BY <1>1, <1>2, <1>5, <1>6, <1>7, <1>8, <1>10 DEF Fed
<1>11. CASE /\ b.live.state = "open" /\ Fed(b, step).state = "open"
            /\ \E dropped : w.live = Added(b, step, dropped)
  <2>1. b.shots[step] \subseteq DOMAIN b.live.video
    BY <1>9, <1>11 DEF Fed
  <2> QED BY <1>7, <1>11, <2>1
<1> QED BY <1>2, <1>10, <1>11

(* Only the rows, the cameras' images and the builder itself matter to it.   *)
LEMMA SameFollows ==
    ASSUME NEW b, LiveFollows(b),
           NEW w, w.rows = b.rows, w.shots = b.shots, w.live = b.live
    PROVE  LiveFollows(w)
<1>1. \A s, c : Frame(w, s, c) = Frame(b, s, c)
  BY DEF Frame
<1>2. \A c : [i \in DOMAIN w.rows |-> Frame(w, w.rows[i], c)]
                = [i \in DOMAIN b.rows |-> Frame(b, b.rows[i], c)]
  BY <1>1
<1>3. \A v, c : Shows(b, v, c) => Shows(w, v, c)
  BY <1>2, Zenon DEF Shows
<1> QED BY <1>3 DEF LiveFollows

(* A write takes the front of the queue to the disk and into the rows, or    *)
(* loses it.                                                                *)
LEMMA WriteKeeps ==
    ASSUME NEW b, Staging(b), b.phase \in {"recording", "draining"}, b.queue # <<>>,
           NEW w \in Writes(b) \cup WritesFail(b)
    PROVE  Staging(w) /\ w.phase = b.phase
<1> DEFINE step == Head(b.queue)
<1>1. IsBuild(b) /\ InOrder(b) /\ OnDisk(b) /\ LiveFollows(b) /\ b.phase # "built"
  BY DEF Staging
<1>2. /\ b.queue \in Seq(Steps) /\ b.rows \in Seq(Steps) /\ step \in Steps
      /\ b.rows \in [DOMAIN b.rows -> Steps]
  <2>1. b.queue \in Seq(Steps) /\ b.rows \in Seq(Steps)
    BY <1>1 DEF IsBuild
  <2>2. step \in Steps
    BY <2>1, HeadAndTail
  <2> QED BY <2>1, <2>2, LenProperties
<1> HIDE DEF step
<1>3. ASSUME w \in Writes(b)
      PROVE  /\ w = [b EXCEPT !.queue = Tail(b.queue), !.files = b.files \cup StagedFiles(b, step),
                              !.rows = Append(b.rows, step), !.live = w.live,
                              !.failures = w.failures]
             /\ \/ w.live = Aborted
                \/ w.live = Fed(b, step)
                \/ /\ b.live.state = "open" /\ Fed(b, step).state = "open"
                   /\ \E dropped : w.live = Added(b, step, dropped)
  <2> DEFINE staged == [b EXCEPT !.queue = Tail(b.queue),
                                 !.files = b.files \cup StagedFiles(b, step),
                                 !.rows = Append(b.rows, step)]
  <2>1. \/ w = [staged EXCEPT !.live = Fed(b, step)]
        \/ w = Failed([staged EXCEPT !.live = Aborted])
        \/ /\ b.live.state = "open" /\ Fed(b, step).state = "open"
           /\ \E dropped : w = Failed([staged EXCEPT !.live = Added(b, step, dropped)])
    BY <1>3 DEF Writes, step
  <2> QED BY <1>1, <2>1 DEF IsBuild, Failed
<1>4. CASE w \in Writes(b)
  <2>1. /\ w.phase = b.phase /\ w.lane = b.lane /\ w.shots = b.shots /\ w.clock = b.clock
        /\ w.next = b.next /\ w.queue = Tail(b.queue) /\ w.noted = b.noted
        /\ w.files = b.files \cup StagedFiles(b, step) /\ w.rows = Append(b.rows, step)
        /\ w = [phase |-> w.phase, lane |-> w.lane, shots |-> w.shots, clock |-> w.clock,
                next |-> w.next, queue |-> w.queue, noted |-> w.noted, files |-> w.files,
                rows |-> w.rows, live |-> w.live, dataset |-> w.dataset,
                failures |-> w.failures]
    BY <1>1, <1>3, <1>4 DEF IsBuild
  <2>2. InOrder(w) /\ w.queue \in Seq(Steps) /\ w.rows \in Seq(Steps) /\ step < b.next
    BY <1>1, <2>1, FrontIsNext DEF step
  <2>3. /\ LiveFollows(w)
        /\ w.live = [state |-> w.live.state, pending |-> w.live.pending,
                     rows |-> w.live.rows, video |-> w.live.video]
        /\ w.live.state \in {"off", "waiting", "open", "dead"}
    BY <1>1, <1>2, <1>3, <1>4, <2>1, FedFollows
  <2>4. IsBuild(w)
    BY <1>1, <2>1, <2>2, <2>3 DEF IsBuild
  <2>5. OnDisk(w)
    <3>1. \A s : StagedFiles(w, s) = StagedFiles(b, s)
      BY <2>1 DEF StagedFiles
    <3>2. \A i \in DOMAIN w.rows : (i \in DOMAIN b.rows /\ w.rows[i] = b.rows[i]) \/ w.rows[i] = step
      <4> DEFINE n == Len(b.rows)
      <4>1. /\ n \in Nat /\ DOMAIN b.rows = 1 .. n /\ DOMAIN w.rows = 1 .. n + 1
            /\ \A i \in 1 .. n : w.rows[i] = b.rows[i]
            /\ w.rows[n + 1] = step
        BY <1>2, <2>1, Appended
      <4> HIDE DEF n
      <4> QED BY <4>1
    <3>3. \A i \in DOMAIN w.rows : StagedFiles(w, w.rows[i]) \subseteq w.files
      BY <1>1, <2>1, <3>1, <3>2 DEF OnDisk
    <3>4. \A s \in Steps, c \in Cameras : <<s, c>> \in w.files => c \in w.shots[s]
      BY <1>1, <2>1 DEF OnDisk, StagedFiles
    <3>5. \A s \in Steps : s < w.next => w.shots[s] \subseteq w.noted
      BY <1>1, <2>1 DEF OnDisk
    <3> QED BY <3>3, <3>4, <3>5 DEF OnDisk
  <2> QED BY <2>1, <2>2, <2>3, <2>4, <2>5 DEF Staging
<1>5. CASE w \in WritesFail(b)
  <2>1. PICK written \in SUBSET StagedFiles(b, step) :
            w = Failed([FailedRow(b) EXCEPT !.files = b.files \cup written])
    BY <1>1, <1>5 DEF WritesFail, FailedRow, step, IsBuild
  <2>2. w = [b EXCEPT !.queue = Tail(b.queue), !.files = b.files \cup written,
                      !.failures = b.failures + 1]
    BY <1>1, <2>1 DEF Failed, FailedRow, IsBuild
  <2>3. /\ w.phase = b.phase /\ w.lane = b.lane /\ w.shots = b.shots /\ w.clock = b.clock
        /\ w.next = b.next /\ w.queue = Tail(b.queue) /\ w.noted = b.noted
        /\ w.files = b.files \cup written /\ w.rows = b.rows /\ w.live = b.live
        /\ w = [phase |-> w.phase, lane |-> w.lane, shots |-> w.shots, clock |-> w.clock,
                next |-> w.next, queue |-> w.queue, noted |-> w.noted, files |-> w.files,
                rows |-> w.rows, live |-> w.live, dataset |-> w.dataset,
                failures |-> w.failures]
    BY <1>1, <2>2 DEF IsBuild
  <2>4. InOrder(w) /\ w.queue \in Seq(Steps) /\ w.rows \in Seq(Steps)
    BY <1>1, <2>3, FrontIsNext
  <2>5. IsBuild(w)
    BY <1>1, <2>3, <2>4 DEF IsBuild
  <2>6. LiveFollows(w)
    BY <1>1, <2>3, SameFollows
  <2>7. OnDisk(w)
    <3>1. \A s : StagedFiles(w, s) = StagedFiles(b, s)
      BY <2>3 DEF StagedFiles
    <3>2. \A s, c : <<s, c>> \in written => s = step /\ c \in b.shots[s]
      BY DEF StagedFiles
    <3>3. \A i \in DOMAIN w.rows : StagedFiles(w, w.rows[i]) \subseteq w.files
      BY <1>1, <2>3, <3>1 DEF OnDisk
    <3>4. \A s \in Steps, c \in Cameras : <<s, c>> \in w.files => c \in w.shots[s]
      BY <1>1, <2>3, <3>2 DEF OnDisk
    <3>5. \A s \in Steps : s < w.next => w.shots[s] \subseteq w.noted
      BY <1>1, <2>3 DEF OnDisk
    <3> QED BY <3>3, <3>4, <3>5 DEF OnDisk
  <2> QED BY <2>3, <2>4, <2>5, <2>6, <2>7 DEF Staging
<1> QED BY <1>4, <1>5

(* What changes nothing but the phase, or puts the builder away.            *)
LEMMA PhaseKeeps ==
    ASSUME NEW b, Staging(b), b.phase # "built",
           NEW p \in Phases, NEW l \in {b.live, Aborted}, NEW f,
           NEW w, w = [b EXCEPT !.phase = p, !.live = l, !.failures = f]
    PROVE  Staging(w)
<1>1. IsBuild(b) /\ InOrder(b) /\ OnDisk(b) /\ LiveFollows(b)
  BY DEF Staging
<1>2. /\ w.phase = p /\ w.lane = b.lane /\ w.shots = b.shots /\ w.clock = b.clock
      /\ w.next = b.next /\ w.queue = b.queue /\ w.noted = b.noted
      /\ w.files = b.files /\ w.rows = b.rows /\ w.live = l
      /\ w = [phase |-> w.phase, lane |-> w.lane, shots |-> w.shots, clock |-> w.clock,
              next |-> w.next, queue |-> w.queue, noted |-> w.noted, files |-> w.files,
              rows |-> w.rows, live |-> w.live, dataset |-> w.dataset,
              failures |-> w.failures]
  BY <1>1 DEF IsBuild
<1>3. IsBuild(w)
  BY <1>1, <1>2 DEF IsBuild, Aborted, NewLive
<1>4. LiveFollows(w)
  <2>1. CASE l = b.live
    BY <1>1, <1>2, <2>1, SameFollows
  <2>2. CASE l = Aborted
    BY <1>2, <2>2 DEF LiveFollows, Aborted, NewLive
  <2> QED BY <2>1, <2>2
<1>5. InOrder(w) /\ OnDisk(w)
  BY <1>1, <1>2 DEF InOrder, OnDisk, StagedFiles
<1> QED BY <1>3, <1>4, <1>5 DEF Staging

-----------------------------------------------------------------------------
(* A source's name comes back from its number; one that has no number is    *)
(* read back as the policy's.                                               *)
LEMMA NamesComeBack ==
    ASSUME NEW rows, NEW i \in DOMAIN rows
    PROVE  LET name == Named(LabelColumn(rows))[i]
           IN  \/ name = LabelOf(rows[i])
               \/ name = "policy" /\ LabelOf(rows[i]) \notin Range(Sources)
<1> DEFINE label == LabelOf(rows[i])
<1>1. Named(LabelColumn(rows))[i] = Known[IdOf(label)]
  BY DEF Named, LabelColumn
<1> HIDE DEF label
<1>2. CASE \E k \in 0 .. 3 : Known[k] = label
  <2>1. Known[IdOf(label)] = label
    BY <1>2, Zenon DEF IdOf
  <2> QED BY <1>1, <2>1 DEF label
<1>3. CASE ~\E k \in 0 .. 3 : Known[k] = label
  <2>1. IdOf(label) = 0
    BY <1>3, Zenon DEF IdOf
  <2>2. Known[0] = "policy"
    BY DEF Known, Sources
  <2>3. label \notin Range(Sources)
    <3>1. \A k \in 1 .. 4 : k - 1 \in 0 .. 3 /\ Known[k - 1] = Sources[k]
      BY DEF Known
    <3>2. DOMAIN Sources = 1 .. 4
      BY DEF Sources
    <3>3. \A k \in DOMAIN Sources : Sources[k] # label
      BY <1>3, <3>1, <3>2
    <3> QED BY <3>3 DEF Range
  <2> QED BY <1>1, <2>1, <2>2, <2>3 DEF label
<1> QED BY <1>2, <1>3

(* What a built dataset must be, of any recorder.                           *)
IsTheStaging(b) ==
    b.phase = "built" =>
        LET d == b.dataset
        IN  /\ d.rows = b.rows
            /\ \A i \in DOMAIN d.rows :
                   \/ d.labels[i] = LabelOf(d.rows[i])
                   \/ d.labels[i] = "policy" /\ LabelOf(d.rows[i]) \notin Range(Sources)
            /\ \A i \in DOMAIN d.rows : b.shots[d.rows[i]] \subseteq DOMAIN d.video
            /\ \A c \in DOMAIN d.video :
                   d.video[c] = [i \in DOMAIN d.rows |-> Frame(b, d.rows[i], c)]

AtItsSpeed(b) ==
    b.phase = "built" =>
        LET fps == b.dataset.fps
        IN  /\ ~Measurable(b) => fps = Fps
            /\ Measurable(b) /\ AtLeastOne(b) =>
                   \/ 2 * OffBy(b, fps) <= Elapsed(b)
                   \/ /\ fps = Fps
                      /\ Tolerance[2] * OffBy(b, Fps) <= Tolerance[1] * (Fps * Elapsed(b))

Put(b, phase, dataset, noted, disk, live, failures) ==
    [b EXCEPT !.phase = phase, !.dataset = dataset, !.noted = noted, !.files = disk,
              !.live = live, !.failures = failures]

LEMMA PutFields ==
    ASSUME NEW b, IsBuild(b), NEW p, NEW d, NEW n, NEW fs, NEW l, NEW m
    PROVE  LET w == Put(b, p, d, n, fs, l, m)
           IN  /\ w.phase = p /\ w.lane = b.lane /\ w.shots = b.shots /\ w.clock = b.clock
               /\ w.next = b.next /\ w.queue = b.queue /\ w.noted = n /\ w.files = fs
               /\ w.rows = b.rows /\ w.live = l /\ w.dataset = d
               /\ w = [phase |-> w.phase, lane |-> w.lane, shots |-> w.shots,
                       clock |-> w.clock, next |-> w.next, queue |-> w.queue,
                       noted |-> w.noted, files |-> w.files, rows |-> w.rows,
                       live |-> w.live, dataset |-> w.dataset, failures |-> w.failures]
<1> DEFINE w == Put(b, p, d, n, fs, l, m)
<1>1. w = [b EXCEPT !.phase = p, !.dataset = d, !.noted = n, !.files = fs,
                    !.live = l, !.failures = m]
  BY DEF Put
<1> HIDE DEF w
<1>2. /\ w.phase = p /\ w.lane = b.lane /\ w.shots = b.shots /\ w.clock = b.clock
      /\ w.next = b.next /\ w.queue = b.queue /\ w.noted = n /\ w.files = fs
      /\ w.rows = b.rows /\ w.live = l /\ w.dataset = d
  BY <1>1 DEF IsBuild
<1>3. w = [phase |-> w.phase, lane |-> w.lane, shots |-> w.shots,
           clock |-> w.clock, next |-> w.next, queue |-> w.queue,
           noted |-> w.noted, files |-> w.files, rows |-> w.rows,
           live |-> w.live, dataset |-> w.dataset, failures |-> w.failures]
  BY <1>1 DEF IsBuild
<1> QED BY <1>2, <1>3 DEF w

LEMMA BuiltKeeps ==
    ASSUME NEW b, IsBuild(b), NEW d
    PROVE  /\ Staging(Built(b, d)) /\ Built(b, d).phase = "built" /\ Built(b, d).dataset = d
           /\ Built(b, d).rows = b.rows /\ Built(b, d).shots = b.shots
           /\ Built(b, d).clock = b.clock /\ Built(b, d).next = b.next
<1> DEFINE w == Built(b, d)
<1>1. w = Put(b, "built", d, {}, {}, Aborted, MaxFailures)
  BY DEF Built, Put
<1>2. /\ w.phase = "built" /\ w.lane = b.lane /\ w.shots = b.shots /\ w.clock = b.clock
      /\ w.next = b.next /\ w.queue = b.queue /\ w.noted = {} /\ w.rows = b.rows
      /\ w.live = Aborted /\ w.dataset = d
      /\ w = [phase |-> w.phase, lane |-> w.lane, shots |-> w.shots, clock |-> w.clock,
              next |-> w.next, queue |-> w.queue, noted |-> w.noted, files |-> w.files,
              rows |-> w.rows, live |-> w.live, dataset |-> w.dataset,
              failures |-> w.failures]
  <2> HIDE DEF w
  <2> QED BY <1>1, PutFields
<1> HIDE DEF w
<1>3. IsBuild(w)
  BY <1>2 DEF IsBuild, Aborted, NewLive, Phases
<1> QED BY <1>2, <1>3 DEF Staging, w

(* The sealed dataset: as many frames as rows means every row's own frame.  *)
LEMMA SealedIsTheStaging ==
    ASSUME NEW b, Staging(b), b.phase # "built", Sealable(b)
    PROVE  Staging(Sealed(b)) /\ IsTheStaging(Sealed(b))
<1> DEFINE w == Sealed(b)
<1>1. /\ IsBuild(b) /\ b.live.state = "open" /\ b.live.rows = b.rows
      /\ \A i \in DOMAIN b.rows : b.shots[b.rows[i]] \subseteq DOMAIN b.live.video
      /\ \A c \in DOMAIN b.live.video : Shows(b, b.live.video[c], c)
      /\ \A c \in DOMAIN b.live.video : Len(b.live.video[c]) = Len(b.live.rows)
  BY DEF Staging, LiveFollows, Sealable, FrameCountsMatch
<1>2. /\ Staging(w) /\ w.rows = b.rows /\ w.shots = b.shots
      /\ w.dataset = [rows |-> b.live.rows, labels |-> Named(LabelColumn(b.live.rows)),
                      video |-> b.live.video, fps |-> Fps]
  BY <1>1, BuiltKeeps DEF Sealed
<1>3. /\ w.dataset.rows = b.rows /\ w.dataset.labels = Named(LabelColumn(b.rows))
      /\ w.dataset.video = b.live.video
  BY <1>1, <1>2
<1> HIDE DEF w
<1>4. \A i \in DOMAIN b.rows : \/ w.dataset.labels[i] = LabelOf(b.rows[i])
                               \/ /\ w.dataset.labels[i] = "policy"
                                  /\ LabelOf(b.rows[i]) \notin Range(Sources)
  BY <1>3, NamesComeBack, Zenon
<1>5. \A c \in DOMAIN w.dataset.video :
          w.dataset.video[c] = [i \in DOMAIN b.rows |-> Frame(b, b.rows[i], c)]
  <2>1. \A c \in DOMAIN b.live.video : Len(b.live.video[c]) = Len(b.rows)
    BY <1>1
  <2>2. \A c \in DOMAIN b.live.video :
            b.live.video[c] = [i \in DOMAIN b.rows |-> Frame(b, b.rows[i], c)]
    BY <1>1, <2>1, Zenon DEF Shows
  <2> QED BY <1>3, <2>2, Zenon
<1>6. \A c, s : Frame(w, s, c) = Frame(b, s, c)
  BY <1>2 DEF Frame
<1>7. \A c \in DOMAIN w.dataset.video :
          w.dataset.video[c] = [i \in DOMAIN b.rows |-> Frame(w, b.rows[i], c)]
  BY <1>5, <1>6
<1>8. IsTheStaging(w)
  BY <1>1, <1>2, <1>3, <1>4, <1>7, Zenon DEF IsTheStaging
<1> QED BY <1>2, <1>8 DEF w

(* The rebuilt one: what is on the disk for a row is what its cameras       *)
(* delivered, and a schema that has no camera saw no image.                 *)
LEMMA RebuiltIsTheStaging ==
    ASSUME NEW b, Staging(b), b.phase # "built"
    PROVE  Staging(Rebuilt(b)) /\ IsTheStaging(Rebuilt(b))
<1> DEFINE w == Rebuilt(b)
<1>1. IsBuild(b) /\ InOrder(b) /\ OnDisk(b) /\ b.rows \in Seq(Steps)
  BY DEF Staging, IsBuild
<1>2. StagedRows(b) = b.rows
  BY <1>1, SortedStay DEF InOrder
<1>3. /\ Staging(w) /\ w.rows = b.rows /\ w.shots = b.shots /\ w.dataset.rows = b.rows
      /\ w.dataset.labels = Named(LabelColumn(b.rows))
      /\ w.dataset.video = [c \in SchemaCameras(b) |->
                               [i \in DOMAIN b.rows |-> FrameOnDisk(b, b.rows[i], c)]]
  BY <1>1, <1>2, BuiltKeeps DEF Rebuilt
<1> HIDE DEF w
<1>4. \A i \in DOMAIN b.rows : \/ w.dataset.labels[i] = LabelOf(b.rows[i])
                               \/ /\ w.dataset.labels[i] = "policy"
                                  /\ LabelOf(b.rows[i]) \notin Range(Sources)
  <2>1. w.dataset.labels = Named(LabelColumn(b.rows))
    BY <1>3
  <2> QED BY <2>1, NamesComeBack, Zenon
<1>5. \A i \in DOMAIN b.rows : b.rows[i] \in Steps /\ b.rows[i] < b.next
  BY <1>1, LenProperties DEF InOrder
<1>6. \A i \in DOMAIN b.rows : b.shots[b.rows[i]] \subseteq SchemaCameras(b)
  <2>1. \A i \in DOMAIN b.rows : b.shots[b.rows[i]] \subseteq b.noted
    BY <1>1, <1>5 DEF OnDisk
  <2>2. b.files = {} => \A i \in DOMAIN b.rows : b.shots[b.rows[i]] = {}
    BY <1>1 DEF OnDisk, StagedFiles
  <2> QED BY <2>1, <2>2 DEF SchemaCameras
<1>7. \A i \in DOMAIN b.rows, c \in Cameras : FrameOnDisk(b, b.rows[i], c) = Frame(w, b.rows[i], c)
  <2>1. \A i \in DOMAIN b.rows, c \in Cameras :
            <<b.rows[i], c>> \in b.files <=> c \in b.shots[b.rows[i]]
    <3> TAKE i \in DOMAIN b.rows, c \in Cameras
    <3>1. b.shots[b.rows[i]] \subseteq Cameras /\ b.rows[i] \in Steps
      BY <1>1, <1>5 DEF IsBuild
    <3>2. ASSUME c \in b.shots[b.rows[i]] PROVE <<b.rows[i], c>> \in b.files
      BY <1>1, <3>2 DEF OnDisk, StagedFiles
    <3>3. ASSUME <<b.rows[i], c>> \in b.files PROVE c \in b.shots[b.rows[i]]
      BY <1>1, <3>1, <3>3 DEF OnDisk
    <3> QED BY <3>2, <3>3
  <2> QED BY <1>3, <2>1 DEF FrameOnDisk, Frame
<1>8. \A c \in DOMAIN w.dataset.video :
          w.dataset.video[c] = [i \in DOMAIN b.rows |-> Frame(w, b.rows[i], c)]
  <2>1. SchemaCameras(b) \subseteq Cameras
    BY <1>1 DEF SchemaCameras, IsBuild
  <2>2. ASSUME NEW c \in SchemaCameras(b)
        PROVE  [i \in DOMAIN b.rows |-> FrameOnDisk(b, b.rows[i], c)]
                  = [i \in DOMAIN b.rows |-> Frame(w, b.rows[i], c)]
    BY <1>7, <2>1
  <2>3. w.dataset.video = [c \in SchemaCameras(b) |->
                               [i \in DOMAIN b.rows |-> FrameOnDisk(b, b.rows[i], c)]]
    BY <1>3
  <2> QED BY <2>2, <2>3, Zenon
<1>9. DOMAIN w.dataset.video = SchemaCameras(b)
  <2>1. w.dataset.video = [c \in SchemaCameras(b) |->
                               [i \in DOMAIN b.rows |-> FrameOnDisk(b, b.rows[i], c)]]
    BY <1>3
  <2> QED BY <2>1, Zenon
<1>10. IsTheStaging(w)
  BY <1>3, <1>4, <1>6, <1>8, <1>9, Zenon DEF IsTheStaging
<1> QED BY <1>3, <1>10 DEF w

(* Rounding is off by one half at most.                                     *)
LEMMA RoundedIsNearest ==
    ASSUME NEW m \in Nat, NEW n \in Nat \ {0}
    PROVE  Rounded(m, n) \in Nat /\ 2 * Distance(Rounded(m, n) * n, m) =< n
<1> DEFINE down == m \div n
           rest == m % n
<1>1. down \in Nat /\ rest \in Nat /\ rest < n /\ m = n * down + rest
  OBVIOUS
<1>2. Rounded(m, n) = IF 2 * rest < n \/ (2 * rest = n /\ down % 2 = 0) THEN down ELSE down + 1
  BY DEF Rounded
<1> HIDE DEF down, rest
<1>3. CASE Rounded(m, n) = down /\ 2 * rest =< n
  <2>1. Rounded(m, n) * n = n * down /\ n * down \in Nat
    BY <1>1, <1>3
  <2>2. Distance(Rounded(m, n) * n, m) = rest
    BY <1>1, <2>1 DEF Distance
  <2> QED BY <1>1, <1>3, <2>2
<1>4. CASE Rounded(m, n) = down + 1 /\ 2 * rest >= n
  <2>1. Rounded(m, n) * n = n * down + n /\ n * down \in Nat
    BY <1>1, <1>4
  <2>2. Distance(Rounded(m, n) * n, m) = n - rest
    BY <1>1, <2>1 DEF Distance
  <2> QED BY <1>1, <1>4, <2>2
<1> QED BY <1>1, <1>2, <1>3, <1>4

(* What is measured depends on the clock and on the ticks that were admitted.*)
LEMMA MeasuredAlike ==
    ASSUME NEW b, NEW w, w.clock = b.clock, w.next = b.next
    PROVE  /\ Measurable(w) <=> Measurable(b)
           /\ AtLeastOne(w) <=> AtLeastOne(b)
           /\ Elapsed(w) = Elapsed(b)
           /\ \A fps : OffBy(w, fps) = OffBy(b, fps)
BY DEF Measurable, AtLeastOne, Elapsed, Intervals, OffBy, Admitted

LEMMA MeasuredTypes ==
    ASSUME NEW b, IsBuild(b), Measurable(b)
    PROVE  /\ Elapsed(b) \in Nat \ {0} /\ Intervals(b) * Second \in Nat
           /\ OffBy(b, Fps) \in Nat
<1> USE DatasetAssumption
<1>1. b.next \in Nat /\ Admitted(b) \in Steps /\ 1 \in Steps /\ Intervals(b) \in Nat
  BY DEF IsBuild, Measurable, Admitted, Intervals, Steps
<1>2. b.clock \in [Steps -> Nat]
  BY DEF IsBuild, Steps
<1>3. Elapsed(b) \in Nat \ {0}
  BY <1>1, <1>2 DEF Elapsed, Measurable
<1>4. Intervals(b) * Second \in Nat /\ Fps * Elapsed(b) \in Nat
  BY <1>1, <1>3
<1> QED BY <1>3, <1>4 DEF OffBy, Distance

(* A dataset is only sealed when the declared rate is near the measured one,*)
(* or none was measured.                                                    *)
LEMMA SealedAtItsSpeed ==
    ASSUME NEW b, IsBuild(b), ~FpsDiverges(b)
    PROVE  AtItsSpeed(Sealed(b))
<1> DEFINE w == Sealed(b)
<1>1. /\ w.clock = b.clock /\ w.next = b.next
      /\ w.dataset = [rows |-> b.live.rows, labels |-> Named(LabelColumn(b.live.rows)),
                      video |-> b.live.video, fps |-> Fps]
  BY BuiltKeeps DEF Sealed
<1>2. w.dataset.fps = Fps
  BY <1>1
<1> HIDE DEF w
<1>3. ASSUME Measurable(b), AtLeastOne(b)
      PROVE  Tolerance[2] * OffBy(b, Fps) =< Tolerance[1] * (Fps * Elapsed(b))
  <2>1. OffBy(b, Fps) \in Nat /\ Elapsed(b) \in Nat
    BY <1>3, MeasuredTypes
  <2>2. Tolerance[1] \in Nat /\ Tolerance[2] \in Nat /\ Fps \in Nat
    BY DatasetAssumption
  <2>3. Tolerance[2] * OffBy(b, Fps) \in Nat /\ Tolerance[1] * (Fps * Elapsed(b)) \in Nat
    <3>1. Fps * Elapsed(b) \in Nat
      BY <2>1, <2>2
    <3> QED BY <2>1, <2>2, <3>1
  <2>4. ~(Tolerance[2] * OffBy(b, Fps) > Tolerance[1] * (Fps * Elapsed(b)))
    BY <1>3 DEF FpsDiverges
  <2>5. \A m, n \in Nat : ~(m > n) => m =< n
    OBVIOUS
  <2> QED BY <2>3, <2>4, <2>5
<1>4. AtItsSpeed(w)
  BY <1>1, <1>2, <1>3, MeasuredAlike DEF AtItsSpeed
<1> QED BY <1>4 DEF w

LEMMA RebuiltAtItsSpeed ==
    ASSUME NEW b, IsBuild(b)
    PROVE  AtItsSpeed(Rebuilt(b))
<1> DEFINE w == Rebuilt(b)
<1>1. w.clock = b.clock /\ w.next = b.next /\ w.dataset.fps = RebuildFps(b)
  BY BuiltKeeps DEF Rebuilt
<1> HIDE DEF w
<1>2. ~Measurable(b) => RebuildFps(b) = Fps
  BY DEF RebuildFps
<1>3. ASSUME Measurable(b), AtLeastOne(b) PROVE 2 * OffBy(b, RebuildFps(b)) =< Elapsed(b)
  <2>1. RebuildFps(b) = Rounded(Intervals(b) * Second, Elapsed(b))
    BY <1>3 DEF RebuildFps
  <2>2. Elapsed(b) \in Nat \ {0} /\ Intervals(b) * Second \in Nat
    BY <1>3, MeasuredTypes
  <2> QED BY <2>1, <2>2, RoundedIsNearest DEF OffBy
<1>4. AtItsSpeed(w)
  BY <1>1, <1>2, <1>3, MeasuredAlike DEF AtItsSpeed
<1> QED BY <1>4 DEF w

-----------------------------------------------------------------------------

BuildInv == /\ Staging(build)
            /\ IsTheStaging(build)
            /\ AtItsSpeed(build)

(* The dataset is only looked at once it is there.                          *)
LEMMA NotBuilt ==
    ASSUME NEW b, b.phase # "built"
    PROVE  IsTheStaging(b) /\ AtItsSpeed(b)
BY DEF IsTheStaging, AtItsSpeed

LEMMA InitBuild == ShipInit => BuildInv
<1> SUFFICES ASSUME build \in NewBuilds PROVE BuildInv
  BY DEF ShipInit
<1>1. build.phase = "recording"
  BY DEF NewBuilds, NewBuild
<1> QED BY <1>1, NewStaging, NotBuilt DEF BuildInv

LEMMA NextBuild == BuildInv /\ [ShipNext]_shipVars => BuildInv'
<1> SUFFICES ASSUME BuildInv, [ShipNext]_shipVars PROVE BuildInv'
  OBVIOUS
<1>1. Staging(build) /\ IsBuild(build)
  BY DEF BuildInv, Staging
<1>2. ASSUME Staging(build'), build'.phase # "built" PROVE BuildInv'
  BY <1>2, NotBuilt DEF BuildInv
<1>3. CASE build' = build
  BY <1>3 DEF BuildInv
<1>4. CASE Enqueue
  <2>1. \/ build' = Admit(build) \/ build' = Note(build)
    BY <1>4 DEF Enqueue, Building
  <2>2. Staging(build')
    BY <1>1, <1>4, <2>1, EnqueueStages DEF Enqueue
  <2>3. build'.phase = "recording"
    BY <1>1, <1>4, <2>1 DEF Enqueue, Admit, Note, IsBuild
  <2> QED BY <1>2, <2>2, <2>3
<1>5. CASE WriteOne
  <2>1. build' \in Writes(build) \cup WritesFail(build)
    BY <1>5 DEF WriteOne, Building
  <2>2. Staging(build') /\ build'.phase = build.phase
    BY <1>1, <1>5, <2>1, WriteKeeps DEF WriteOne
  <2> QED BY <1>2, <1>5, <2>2 DEF WriteOne
<1>6. CASE CloseRecorder
  <2>1. build.phase = "recording" /\ build' = [build EXCEPT !.phase = "draining"]
    BY <1>6 DEF CloseRecorder, Building
  <2> DEFINE l == build.live
             f == build.failures
  <2>2. build' = [build EXCEPT !.phase = "draining", !.live = l, !.failures = f]
    BY <1>1, <2>1 DEF IsBuild
  <2>3. Staging(build') /\ build'.phase = "draining"
    <3>1. build'.phase = "draining"
      BY <1>1, <2>1 DEF IsBuild
    <3> QED BY <1>1, <2>1, <2>2, <3>1, PhaseKeeps DEF Phases
  <2> QED BY <1>2, <2>3
<1>7. CASE Drained
  <2>1. PICK p \in {"empty", "sealing", "rebuilding"} : build' = [build EXCEPT !.phase = p]
    BY <1>7 DEF Drained, Building
  <2> DEFINE l == build.live
             f == build.failures
  <2>2. build' = [build EXCEPT !.phase = p, !.live = l, !.failures = f]
    BY <1>1, <2>1 DEF IsBuild
  <2>3. Staging(build') /\ build'.phase = p
    <3>1. build'.phase = p
      BY <1>1, <2>1 DEF IsBuild
    <3> QED BY <1>1, <1>7, <2>2, <3>1, PhaseKeeps DEF Phases, Drained
  <2> QED BY <1>2, <2>3
<1>8. CASE Seal
  <2>1. build.phase # "built"
    BY <1>8 DEF Seal
  <2>2. CASE Sealable(build) /\ build' = Sealed(build)
    <3>1. AtItsSpeed(Sealed(build))
      BY <1>1, <2>2, SealedAtItsSpeed DEF Sealable
    <3> QED BY <1>1, <2>1, <2>2, <3>1, SealedIsTheStaging DEF BuildInv
  <2>3. CASE build' = FallsBack(build) \/ build' = Failed(FallsBack(build))
    <3>1. CASE build' = FallsBack(build)
      <4> DEFINE f == build.failures
      <4>1. build' = [build EXCEPT !.phase = "rebuilding", !.live = Aborted, !.failures = f]
        BY <1>1, <3>1 DEF FallsBack, IsBuild
      <4>2. build'.phase = "rebuilding"
        BY <1>1, <4>1 DEF IsBuild
      <4> QED BY <1>1, <1>2, <2>1, <4>1, <4>2, PhaseKeeps DEF Phases
    <3>2. CASE build' = Failed(FallsBack(build))
      <4> DEFINE f == build.failures + 1
      <4>1. build' = [build EXCEPT !.phase = "rebuilding", !.live = Aborted, !.failures = f]
        BY <1>1, <3>2 DEF FallsBack, Failed, IsBuild
      <4>2. build'.phase = "rebuilding"
        BY <1>1, <4>1 DEF IsBuild
      <4> QED BY <1>1, <1>2, <2>1, <4>1, <4>2, PhaseKeeps DEF Phases
    <3> QED BY <2>3, <3>1, <3>2
  <2> QED BY <1>8, <2>2, <2>3 DEF Seal, Building
<1>9. CASE Rebuild
  <2>1. build.phase # "built"
    BY <1>9 DEF Rebuild
  <2>2. CASE build' = Rebuilt(build)
    BY <1>1, <2>1, <2>2, RebuiltIsTheStaging, RebuiltAtItsSpeed DEF BuildInv
  <2>3. CASE build' = [build EXCEPT !.phase = "lost"]
             \/ build' = Failed([build EXCEPT !.phase = "lost"])
    <3> DEFINE l == build.live
    <3>1. CASE build' = [build EXCEPT !.phase = "lost"]
      <4> DEFINE f == build.failures
      <4>1. build' = [build EXCEPT !.phase = "lost", !.live = l, !.failures = f]
        BY <1>1, <3>1 DEF IsBuild
      <4>2. build'.phase = "lost"
        BY <1>1, <3>1 DEF IsBuild
      <4> QED BY <1>1, <1>2, <2>1, <4>1, <4>2, PhaseKeeps DEF Phases
    <3>2. CASE build' = Failed([build EXCEPT !.phase = "lost"])
      <4> DEFINE f == build.failures + 1
      <4>1. build' = [build EXCEPT !.phase = "lost", !.live = l, !.failures = f]
        BY <1>1, <3>2 DEF Failed, IsBuild
      <4>2. build'.phase = "lost"
        BY <1>1, <4>1 DEF IsBuild
      <4> QED BY <1>1, <1>2, <2>1, <4>1, <4>2, PhaseKeeps DEF Phases
    <3> QED BY <2>3, <3>1, <3>2
  <2> QED BY <1>9, <2>2, <2>3 DEF Rebuild, Building
<1>10. CASE build' = Restarted(build)
  <2>1. Restarted(build) \in NewBuilds /\ Restarted(build).phase = "recording"
    <3>1. build.lane \in {"off", "waiting"} /\ build.shots \in [Steps -> SUBSET Cameras]
          /\ build.clock \in Clocks
      BY <1>1 DEF IsBuild
    <3>2. Restarted(build) \in NewBuilds
      <4> DEFINE l == build.lane
                 s == build.shots
                 p == build.clock
      <4>1. Restarted(build) = NewBuild(l, s, p)
        BY DEF Restarted
      <4> HIDE DEF l, s, p
      <4>2. l \in {"off", "waiting"} /\ s \in [Steps -> SUBSET Cameras] /\ p \in Clocks
        BY <3>1 DEF l, s, p
      <4> QED BY <4>1, <4>2 DEF NewBuilds
    <3> QED BY <3>2 DEF Restarted, NewBuild
  <2> QED BY <1>2, <1>10, <2>1, NewStaging
<1> QED BY <1>3, <1>4, <1>5, <1>6, <1>7, <1>8, <1>9, <1>10
        DEF ShipNext, BuildNext, PublishNext, CrashBox, shipVars

(* Whichever lane built a dataset, with whatever failures on the way, it is *)
(* what was staged: the rows in the order of their steps, who drove at      *)
(* each, and beside each row the frames its cameras delivered at that step  *)
(* (storage/lerobot_live.py:11-22, lerobot_rebuild.py:167-263).             *)
THEOREM DatasetsAreTheStaging == ShipSpec => []DatasetIsTheStaging
<1>1. BuildInv => DatasetIsTheStaging
  BY DEF BuildInv, IsTheStaging, DatasetIsTheStaging
<1> QED BY <1>1, InitBuild, NextBuild, PTL DEF ShipSpec

(* A dataset plays at the speed of its capture, whatever the clock showed,  *)
(* which ticks were refused and which lane built it: at the measured rate   *)
(* rounded to a whole number, or at the declared one within the tolerance,  *)
(* from one frame a second on; and at the declared rate when the clock gave *)
(* none (recorder.py:504-522, 605-664, lerobot_live.py:76-81, 210).         *)
THEOREM DatasetsPlayAtTheirSpeed == ShipSpec => []PlaysAtCapturedSpeed
<1>1. BuildInv => PlaysAtCapturedSpeed
  BY DEF BuildInv, AtItsSpeed, PlaysAtCapturedSpeed
<1> QED BY <1>1, InitBuild, NextBuild, PTL DEF ShipSpec

=============================================================================
