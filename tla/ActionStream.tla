---------------------------- MODULE ActionStream ----------------------------
(***************************************************************************)
(* What the DRTC client promises the control loop: a stream of actions.    *)
(* Steps are executed one after the other, none skipped and none twice;    *)
(* each comes from a plan at least as recent as the plan of the step       *)
(* before it; and once a fence is raised, only plans stamped after the     *)
(* fence are executed.                                                     *)
(***************************************************************************)
EXTENDS Naturals

VARIABLES
    next,     \* the next step to execute
    newest,   \* the stamp of the plan the last executed step came from
    fence     \* plans stamped at or below it are cancelled

streamVars == <<next, newest, fence>>

TypeOK == next \in Nat /\ newest \in Nat /\ fence \in Nat

Init == next = 0 /\ newest = 0 /\ fence = 0

\* One step is executed, from a live plan that is not older than the last one.
Execute ==
    /\ next' = next + 1
    /\ newest' \in Nat
    /\ newest' > fence
    /\ newest' >= newest
    /\ UNCHANGED fence

\* Every plan made so far is cancelled.
Cancel ==
    /\ fence' \in Nat
    /\ fence' > fence
    /\ fence' >= newest
    /\ UNCHANGED <<next, newest>>

Next == Execute \/ Cancel

Spec == Init /\ [][Next]_streamVars

=============================================================================
