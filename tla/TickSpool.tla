----------------------------- MODULE TickSpool -----------------------------
(***************************************************************************)
(* The write-through journal of captured ticks on the node's disk          *)
(* (inference/client/spool.py).  A tick is known by its control step: the  *)
(* journal's own sequence numbers grow with the steps, so both orders are  *)
(* the same.  Sizes are counted in ticks.  `blocked` is the hard stop of   *)
(* capture, which ends only below the resume line.                         *)
(***************************************************************************)
EXTENDS Naturals, FiniteSets

CONSTANTS
    SpoolCap,   \* the journal's byte cap, in ticks
    ResumeAt    \* the resume line: capture restarts below it

ASSUME SpoolAssumption ==
    /\ SpoolCap \in Nat \ {0}
    /\ ResumeAt \in 1 .. SpoolCap

NewSpool == [pending |-> {}, blocked |-> FALSE]

OverCap(spool) ==
    \/ Cardinality(spool.pending) >= SpoolCap
    \/ spool.blocked /\ Cardinality(spool.pending) >= ResumeAt

\* The `blocked` property decides and remembers.
CheckBlocked(spool, lowDisk) ==
    [spool EXCEPT !.blocked = OverCap(spool) \/ lowDisk]

Append(spool, tick) == [spool EXCEPT !.pending = @ \cup {tick}]

\* The oldest ticks, at most `max` of them.
PeekBatch(spool, max) ==
    {t \in spool.pending : Cardinality({u \in spool.pending : u < t}) < max}

\* Mutant: the whole batch is deleted on a partial answer.
AckBatch(spool, batch, accepted) == [spool EXCEPT !.pending = @ \ batch]

\* Delete after the answer: every tick up to the last of the accepted prefix.
Ack(spool, batch, accepted) ==
    [spool EXCEPT !.pending = {t \in @ : \A a \in accepted : a < t}]

=============================================================================
