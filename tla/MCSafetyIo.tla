----------------------------- MODULE MCSafetyIo -----------------------------
(* An instance of SafetyIo for TLC: an emergency stop, a bumper, and the name of a *)
(* source that is no input. *)
EXTENDS SafetyIo

CONSTANTS Emergency, Bumper, Unknown

MCInputs         == {Emergency, Bumper}
MCNormallyClosed == {Emergency}
MCConfigured     == {Emergency, Bumper, Unknown}
=============================================================================
