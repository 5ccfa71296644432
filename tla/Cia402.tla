------------------------------- MODULE Cia402 -------------------------------
(***************************************************************************)
(* The CiA 402 servo drive as motor_controller.cpp sees it: the statusword  *)
(* the host decodes (get_cia402_state) and the reaction of the Kinco drive  *)
(* to the controlwords the host sends.  The drive is hardware outside the   *)
(* repository; its reactions are the ones the code relies on and comments.  *)
(***************************************************************************)

\* The bits of the statusword that get_cia402_state looks at.
StatusBit == {"ready", "on", "operation", "fault", "quickStop", "disabled"}

\* The states of the drive the host tells apart.
DriveState == {"notReady", "disabled", "ready", "switchedOn", "enabled", "fault"}

\* The controlwords change_motor_state is called with.
Controlword == {"faultReset", "shutdown", "switchOn", "enableOperation"}

\* The statusword a drive in state s reports.
Statusword(s) ==
    [notReady   |-> {},
     disabled   |-> {"disabled"},
     ready      |-> {"ready", "quickStop"},
     switchedOn |-> {"ready", "on", "quickStop"},
     enabled    |-> {"ready", "on", "operation", "quickStop"},
     fault      |-> {"fault"}][s]

\* get_cia402_state, test by test.  A statusword with the operation bit counts as
\* QUICK_STOP_ACTIVE only if the ready or the on bit is missing; with all three
\* it is OPERATION_ENABLED whatever the quick-stop bit says.
Decode(w) ==
    LET motion == w \cap {"ready", "on", "operation"}
    IN  CASE "fault" \in w -> "fault"
          [] "fault" \notin w /\ "disabled" \in w -> "disabled"
          [] OTHER ->
               CASE motion = {"ready"}                    -> "ready"
                 [] motion = {"ready", "on"}              -> "switchedOn"
                 [] motion = {"ready", "on", "operation"} -> "enabled"
                 [] "operation" \in motion /\ motion # {"ready", "on", "operation"}
                    /\ "quickStop" \notin w              -> "quickStopActive"
                 [] OTHER                                 -> "notReady"

\* The state a drive in state s moves to on controlword cw.  Without traction
\* power (the E-stop circuit open, "STO") it follows no command towards
\* operation.  faultReset clears the enable bits of the controlword, so it also
\* throws a healthy drive out of operation.
Respond(s, cw, traction) ==
    CASE cw = "faultReset" -> "disabled"
      [] cw # "faultReset" /\ (s = "fault" \/ ~traction) -> s
      [] cw = "shutdown" /\ s # "fault" /\ traction -> "ready"
      [] cw = "switchOn" /\ s # "fault" /\ traction ->
             IF s \in {"ready", "enabled"} THEN "switchedOn" ELSE s
      [] cw = "enableOperation" /\ s # "fault" /\ traction ->
             IF s = "switchedOn" THEN "enabled" ELSE s
=============================================================================
