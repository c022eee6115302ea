----------------------------- MODULE NodeDaemon -----------------------------
(***************************************************************************)
(* The node daemons (node/daemon.py): each polls the coordinator for its   *)
(* assignment and converges to it, and the loop it starts holds a session  *)
(* on a GPU box.  A box answers calls only for keys its coordinator        *)
(* vouches for, and keeps each answer, good or bad, for a while.           *)
(*                                                                         *)
(* Left out: an assignment whose address changes under the same id, which  *)
(* this coordinator never produces, and an answer equal to what the daemon *)
(* knows, which does not converge.                                         *)
(***************************************************************************)
EXTENDS Coordinator

CONSTANTS
    Override,        \* INTERLATENT_DRTC_URL of each node, or Nothing
    Fallback,        \* drtc_url in each node's configuration, or Nothing
    OperatorKeyed,   \* nodes that present the operator's key, not their token
    MaxFaults        \* bound: losses, crashes, restarts and removals, together

ASSUME NodeDaemonAssumption ==
    /\ Override \in [Nodes -> Boxes \cup {Nothing}]
    /\ Fallback \in [Nodes -> Boxes \cup {Nothing}]
    /\ OperatorKeyed \subseteq Nodes
    /\ MaxFaults \in Nat

VARIABLES
    alive,      \* nodes whose daemon runs
    known,      \* _known_session_id; 0 is the empty one
    link,       \* the poll: "polling", "answered", or "converging"
    answer,     \* the assignment in the answer being converged to
    loop,       \* the session of _active; 0 is none
    endpoint,   \* _active_endpoint
    running,    \* nodes whose loop's thread runs
    boxUp,      \* boxes whose server runs
    open,       \* the sessions each box's server holds
    verdict,    \* what a box's validator remembers of a node's key
    faults      \* faults so far

daemonVars == <<alive, known, link, answer, loop, endpoint, running>>
boxVars == <<boxUp, open, verdict>>

Links == {"polling", "answered", "converging"}
Verdicts == {"unknown", "good", "refused"}

DaemonTypeOK ==
    /\ alive \subseteq Nodes
    /\ known \in [Nodes -> 0 .. MaxAssignments]
    /\ link \in [Nodes -> Links]
    /\ answer \in [Nodes -> AnyAssignment]
    /\ loop \in [Nodes -> 0 .. MaxAssignments]
    /\ endpoint \in [Nodes -> Boxes \cup {Nothing}]
    /\ running \subseteq Nodes
    /\ boxUp \subseteq Boxes
    /\ open \in [Boxes -> SUBSET Ids]
    /\ verdict \in [Boxes -> [Nodes -> Verdicts]]
    /\ faults \in 0 .. MaxFaults

DaemonInit ==
    /\ alive = {}
    /\ known = [n \in Nodes |-> 0]
    /\ link = [n \in Nodes |-> "polling"]
    /\ answer = [n \in Nodes |-> Unassigned]
    /\ loop = [n \in Nodes |-> 0]
    /\ endpoint = [n \in Nodes |-> Nothing]
    /\ running = {}
    /\ boxUp = {}
    /\ open = [b \in Boxes |-> {}]
    /\ verdict = [b \in Boxes |-> [n \in Nodes |-> "unknown"]]
    /\ faults = 0

Fault == faults < MaxFaults /\ faults' = faults + 1

-----------------------------------------------------------------------------
(* The box's validator.                                                     *)

\* authz: a key the coordinator issued and did not revoke, for a box it lists.
Vouched(b, n) == up /\ NamesOf(b) # {} /\ n \in nodes \cup OperatorKeyed

Calls(b, n) ==
    \/ n \in running /\ endpoint[n] = b
    \/ n \in alive /\ link[n] # "polling"

\* Mutant: a good verdict is kept for good.
KeptGood(b, n) == IF verdict[b][n] = "good" \/ Vouched(b, n) THEN "good" ELSE "refused"

Verdict(b, n) == IF Vouched(b, n) THEN "good" ELSE "refused"

\* A first call, or one after the verdict has expired, asks again; no
\* coordinator is a refusal like any other.
Probe(b, n) ==
    /\ b \in boxUp
    /\ Calls(b, n)
    /\ verdict[b][n] # Verdict(b, n)
    /\ verdict' = [verdict EXCEPT ![b][n] = Verdict(b, n)]
    /\ UNCHANGED <<coordinatorVars, daemonVars, boxUp, open, faults>>

Accepts(b, n) == b \in boxUp /\ verdict[b][n] = "good"

-----------------------------------------------------------------------------
(* The poll.                                                                *)

RouteOf(n, a) ==
    IF Override[n] # Nothing THEN Override[n]
    ELSE IF a.address # Nothing THEN a.address ELSE Fallback[n]

StartDaemon(n) ==
    /\ n \in nodes \ alive
    /\ alive' = alive \cup {n}
    /\ UNCHANGED <<coordinatorVars, known, link, answer, loop, endpoint, running,
                   boxVars, faults>>

\* The coordinator answers as soon as the assignment differs from what the
\* daemon knows.  A poll that returns nothing is followed by another.
Answer(n) ==
    /\ up
    /\ n \in alive
    /\ n \in nodes
    /\ link[n] = "polling"
    /\ sessions[n].id # known[n]
    /\ answer' = [answer EXCEPT ![n] = sessions[n]]
    /\ link' = [link EXCEPT ![n] = "answered"]
    /\ UNCHANGED <<coordinatorVars, alive, known, loop, endpoint, running, boxVars, faults>>

PollIsLost(n) ==
    /\ link[n] = "answered"
    /\ Fault
    /\ link' = [link EXCEPT ![n] = "polling"]
    /\ UNCHANGED <<coordinatorVars, alive, known, answer, loop, endpoint, running, boxVars>>

-----------------------------------------------------------------------------
(* Convergence to the answer.                                               *)

Converging(n) == link[n] \in {"answered", "converging"}

\* What client.close() comes to: a refused call, or one to a box that is down,
\* leaves the session open, and so does a call that is lost.
CloseSession(n) ==
    \E b \in Boxes :
        /\ endpoint[n] = b
        /\ b \in boxUp => verdict[b][n] # "unknown"
        /\ \/ Accepts(b, n) /\ open' = [open EXCEPT ![b] = @ \ {loop[n]}] /\ UNCHANGED faults
           \/ Accepts(b, n) /\ Fault /\ UNCHANGED open
           \/ ~Accepts(b, n) /\ UNCHANGED <<open, faults>>

\* The prior loop is stopped and joined, or closed by force; one that ended has
\* closed its client already.
StopActiveLoop(n) ==
    /\ loop' = [loop EXCEPT ![n] = 0]
    /\ running' = running \ {n}
    /\ IF n \in running THEN CloseSession(n) ELSE UNCHANGED <<open, faults>>

StopPrior(n) ==
    /\ Converging(n)
    /\ loop[n] # 0
    /\ StopActiveLoop(n)
    /\ link' = [link EXCEPT ![n] = "converging"]
    /\ UNCHANGED <<coordinatorVars, alive, known, answer, endpoint, boxUp, verdict>>

\* The end of a convergence that leaves no loop.
NoLoop(n, id) ==
    /\ known' = [known EXCEPT ![n] = id]
    /\ endpoint' = [endpoint EXCEPT ![n] = Nothing]
    /\ link' = [link EXCEPT ![n] = "polling"]
    /\ UNCHANGED <<coordinatorVars, alive, answer, loop, running, boxUp, verdict>>

ToStart(n) == Converging(n) /\ loop[n] = 0 /\ answer[n] # Unassigned

BecomesIdle(n) ==
    /\ Converging(n)
    /\ loop[n] = 0
    /\ answer[n] = Unassigned
    /\ NoLoop(n, 0)
    /\ UNCHANGED <<open, faults>>

RefuseForDisk(n) ==
    /\ ToStart(n)
    /\ Fault
    /\ NoLoop(n, 0)
    /\ UNCHANGED open

\* _start_loop returns without a loop and without an error, and the session
\* counts as known.
StartSilently(n) ==
    /\ ToStart(n)
    /\ RouteOf(n, answer[n]) = Nothing
    /\ NoLoop(n, answer[n].id)
    /\ UNCHANGED <<open, faults>>

StartLoop(n) ==
    /\ ToStart(n)
    /\ \E b \in Boxes :
          /\ RouteOf(n, answer[n]) = b
          /\ Accepts(b, n)
          /\ open' = [open EXCEPT ![b] = @ \cup {answer[n].id}]
          /\ endpoint' = [endpoint EXCEPT ![n] = b]
    /\ loop' = [loop EXCEPT ![n] = answer[n].id]
    /\ known' = [known EXCEPT ![n] = answer[n].id]
    /\ running' = running \cup {n}
    /\ link' = [link EXCEPT ![n] = "polling"]
    /\ UNCHANGED <<coordinatorVars, alive, answer, boxUp, verdict, faults>>

\* Mutant: a session that failed to start counts as known.
FailureIsKnown(n) == answer[n].id

KnownAfterFailure(n) == 0

\* No box, a refused key, or anything else that raises, before the session is
\* opened or after it, when the client is dropped without a close.
StartFails(n) ==
    /\ ToStart(n)
    /\ \E b \in Boxes :
          /\ RouteOf(n, answer[n]) = b
          /\ \/ /\ b \in boxUp => verdict[b][n] = "refused"
                /\ UNCHANGED <<open, faults>>
             \/ /\ Accepts(b, n)
                /\ Fault
                /\ open' \in {open, [open EXCEPT ![b] = @ \cup {answer[n].id}]}
    /\ NoLoop(n, KnownAfterFailure(n))

-----------------------------------------------------------------------------
(* Loops and daemons end.                                                   *)

\* The loop returns or raises; _active stays, so it is not started again.
LoopEnds(n) ==
    /\ n \in running
    /\ CloseSession(n)
    /\ running' = running \ {n}
    /\ UNCHANGED <<coordinatorVars, alive, known, link, answer, loop, endpoint,
                   boxUp, verdict>>

DaemonGone(n) ==
    /\ alive' = alive \ {n}
    /\ running' = running \ {n}
    /\ loop' = [loop EXCEPT ![n] = 0]
    /\ known' = [known EXCEPT ![n] = 0]
    /\ link' = [link EXCEPT ![n] = "polling"]
    /\ answer' = [answer EXCEPT ![n] = Unassigned]
    /\ endpoint' = [endpoint EXCEPT ![n] = Nothing]
    /\ UNCHANGED <<coordinatorVars, boxUp, verdict>>

\* The daemon's exit stops its loop first; nothing can follow a convergence in
\* progress, which runs in a thread of its own.
ExitDaemon(n) ==
    /\ n \in alive
    /\ link[n] # "converging"
    /\ IF n \in running THEN CloseSession(n) ELSE UNCHANGED <<open, faults>>
    /\ DaemonGone(n)

CrashDaemon(n) ==
    /\ n \in alive
    /\ Fault
    /\ DaemonGone(n)
    /\ UNCHANGED open

=============================================================================
