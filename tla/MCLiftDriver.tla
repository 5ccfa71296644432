---------------------------- MODULE MCLiftDriver ----------------------------
(* Instances of LiftDriver for TLC. *)
EXTENDS LiftDriver

\* Relative moves of one step in either direction.
OneStep == {-1, 1}
=============================================================================
