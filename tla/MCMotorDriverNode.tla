-------------------------- MODULE MCMotorDriverNode --------------------------
(* Instances of MotorDriverNode for TLC. *)
EXTENDS MotorDriverNode, TLC

\* The nodes are interchangeable in safety runs.
NodeSymmetry == Permutations(Nodes)
=============================================================================
