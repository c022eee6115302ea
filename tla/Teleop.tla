------------------------------- MODULE Teleop -------------------------------
(***************************************************************************)
(* Teleoperation of one node: the operator's pages, the network, the relay *)
(* (TeleopRelay) and the node's channel with its child process             *)
(* (QuicChannel).  Datagrams are lost, duplicated and overtaken; pages are *)
(* reloaded or closed; children crash and are respawned while stop() may   *)
(* run.                                                                    *)
(***************************************************************************)
EXTENDS QuicChannel

CONSTANTS
    MaxFaults,      \* bound: crashes, failed spawns and connects, connections the relay lost
    RelayMayDrop    \* the relay may lose the connection of a child that lives

ASSUME TeleopAssumption ==
    /\ MaxFaults \in Nat
    /\ RelayMayDrop \in BOOLEAN

VARIABLES
    page,       \* each page: "unopened", "open", "gone"
    faults      \* faults so far

vars == <<relayVars, child, inbox, proc, linkVars, storeVars, due, pc, stopVars, page,
          faults>>

Init ==
    /\ RelayInit
    /\ ChannelInit
    /\ page = [p \in Pages |-> "unopened"]
    /\ faults = 0

-----------------------------------------------------------------------------
(***************************************************************************)
(* The operator and the network.                                           *)
(***************************************************************************)
Opens(p) ==
    /\ page[p] = "unopened"
    /\ \A q \in Pages : q < p => page[q] # "unopened"
    /\ page' = [page EXCEPT ![p] = "open"]
    /\ AcceptBrowser(p)
    /\ UNCHANGED <<child, inbox, proc, linkVars, storeVars, due, pc, stopVars>>

\* A page closed, reloaded or cut off from the network.
Closes(p) ==
    /\ page[p] = "open"
    /\ page' = [page EXCEPT ![p] = "gone"]
    /\ UNCHANGED <<relayVars, child, inbox, proc, linkVars, storeVars, due, pc, stopVars>>

\* What the relay hands to the paired node reaches the parent's socket when
\* that child is pumping.
Forwarded(f) ==
    IF node # Nobody /\ child[node] = "pumping" THEN Delivered(Data(node, f)) ELSE inbox

\* The relay's _on_datagram, for the seq-th target of p, which the network
\* delivers never, once or again, before or after those sent later; the page
\* need not be the current one.
Arrives(p, seq) ==
    /\ p \in peers.browsers
    /\ inbox' = Forwarded([page |-> p, seq |-> seq])
    /\ UNCHANGED <<relayVars, child, proc, linkVars, storeVars, due, pc, stopVars, page>>

-----------------------------------------------------------------------------
(***************************************************************************)
(* The relay notices the end of a connection.                              *)
(***************************************************************************)
LosesPage(p) ==
    /\ TearDownBrowser(p)
    /\ inbox' = Forwarded(CloseFrame(p))
    /\ UNCHANGED <<child, proc, linkVars, storeVars, due, pc, stopVars, page>>

LosesChild(k) ==
    /\ TearDownNode(k)
    /\ UNCHANGED <<child, inbox, proc, linkVars, storeVars, due, pc, stopVars, page>>

-----------------------------------------------------------------------------
OperatorStep ==
    /\ \E p \in Pages : \/ Opens(p) \/ Closes(p)
                        \/ \E seq \in 1..Len(Script[p]) : Arrives(p, seq)
    /\ UNCHANGED faults

RelayNotices ==
    /\ \/ \E p \in Pages : page[p] = "gone" /\ LosesPage(p)
       \/ \E k \in Kids : child[k] = "dead" /\ LosesChild(k)
    /\ UNCHANGED faults

Fault ==
    /\ faults < MaxFaults
    /\ faults' = faults + 1
    /\ \/ \E k \in Kids : RelayMayDrop /\ child[k] = "pumping" /\ LosesChild(k)
       \/ \E k \in Kids : (Crash(k) \/ ConnectFails(k)) /\ UNCHANGED page
       \/ SpawnFails /\ UNCHANGED page

ChildStep == (\E k \in Kids : Hello(k) \/ Connects(k)) /\ UNCHANGED <<page, faults>>

SupervisorStep ==
    /\ Leaves \/ Reaps \/ BeginsSpawn \/ Spawn \/ Handle
    /\ UNCHANGED <<page, faults>>

Elapses == (BackoffElapses \/ GrowsStale) /\ UNCHANGED <<page, faults>>

LoopStep == ConsumeEstop /\ UNCHANGED <<page, faults>>

Stops == StopBegins /\ UNCHANGED <<page, faults>>

StopStep == (StopShutsChild \/ StopJoins \/ StopSweeps) /\ UNCHANGED <<page, faults>>

Next ==
    \/ OperatorStep \/ RelayNotices \/ Fault \/ ChildStep \/ SupervisorStep
    \/ Elapses \/ LoopStep \/ Stops \/ StopStep

\* The threads and processes run, the clock advances, and a dead connection
\* is noticed (QUIC's idle timeout).  Nothing is assumed of the operator, of
\* the network or of the faults.
Fairness ==
    /\ WF_vars(RelayNotices)
    /\ \A k \in Kids : WF_vars(Hello(k) /\ UNCHANGED <<page, faults>>)
    /\ WF_vars((\E k \in Kids : Connects(k)) /\ UNCHANGED <<page, faults>>)
    /\ WF_vars(SupervisorStep)
    /\ WF_vars(Elapses)
    /\ WF_vars(StopStep)

Spec == Init /\ [][Next]_vars /\ Fairness

-----------------------------------------------------------------------------
(***************************************************************************)
(* Properties.                                                             *)
(***************************************************************************)

\* An e-stop datagram that was read, late or duplicated or followed by a
\* disconnect or by the death of the child, is there for the control loop to
\* consume (ADR 0016).
EstopIsKept == pressed => estop

\* Of the targets of one page that reach the node over one connection, an
\* older one never replaces a newer one, however the network reorders them.
\* (CloseFrame is the relay's word for the page, not one of its targets.)
NewestTargetWins ==
    [][ /\ held # Nobody
        /\ held' # Nobody
        /\ held'.page = held.page
        /\ held'.seq # 0
        /\ held'.via = held.via
        => held'.seq >= held.seq ]_vars

\* The relay serves whoever came last: while the connection accepted last on
\* a side lives, the departure of those it superseded leaves it paired.
SuccessorIsServed ==
    /\ latest.browser \in peers.browsers => browser = latest.browser
    /\ latest.node \in peers.nodes => node = latest.node

\* Once every page is gone the arm is not driven any more: whatever is still
\* queued and whatever close frame was lost, the target held goes stale.
SilenceStopsMotion ==
    (\A p \in Pages : page[p] = "gone") ~> [](~Driving)

\* Whatever child dies and however often it does, a channel that is not
\* being stopped comes back: its child is the relay's node and the parent
\* listens to it.
ChannelRecovers ==
    <>[](phase # "running" \/ (connected /\ node # Nobody /\ node = childAddr))

\* stop() leaves no child behind.
StopLeavesNoChild == phase = "stopped" => Living = {}
=============================================================================
