----------------------------- MODULE MCShipping -----------------------------
(***************************************************************************)
(* The instance of Shipping.tla that TLC checks: rows without a label, of  *)
(* the policy and of a human correction take turns; the ticks come at the  *)
(* declared rate, at others, and at times that give none.                  *)
(***************************************************************************)
EXTENDS Shipping

MCLabels == <<"unlabelled", "policy", "intervention">>

\* At 4 frames a second of 120 units, after two ticks and after three: 2.5, half way between
\* two rates, and, the last time repeated, 5; a clock that stands still, and 0.8, below one
\* frame a second; 3.87, within the tolerance, and a clock that starts again.
MCClocks == {<<0, 48, 48>>, <<0, 0, 300>>, <<200, 231, 100>>}

\* _FPS_REL_TOLERANCE.
MCTolerance == <<1, 20>>

=============================================================================
