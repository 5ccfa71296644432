---------------------------- MODULE MCDriveChain ----------------------------
(* Instances of DriveChain for TLC. *)
EXTENDS DriveChain

\* One velocity beyond the limit in either direction.
MCCmdVels == {-3, 2}
MCCommands == {-1, 0, 1}
=============================================================================
