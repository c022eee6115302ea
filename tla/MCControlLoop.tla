---------------------------- MODULE MCControlLoop ----------------------------
(***************************************************************************)
(* The episodes TLC explores ControlLoop with.                             *)
(***************************************************************************)
EXTENDS ControlLoop

\* A policy episode and a teleop-recording one, on a robot with a profile.
MCPolicy == [policy |-> TRUE, gated |-> TRUE, schemaOk |-> TRUE, hardLatch |-> FALSE]
MCTeleop == [MCPolicy EXCEPT !.policy = FALSE, !.hardLatch = TRUE]

\* A robot kind without a profile: no gate, so no human motion either.
MCNoProfile == [MCPolicy EXCEPT !.gated = FALSE, !.schemaOk = FALSE]

MCSetups == {MCPolicy, MCTeleop, MCNoProfile}
MCNoProfileSetups == {MCNoProfile}

=============================================================================
