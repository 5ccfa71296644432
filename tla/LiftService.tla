----------------------------- MODULE LiftService -----------------------------
(***************************************************************************)
(* What the lift driver promises its user: the drive is given something to  *)
(* do only as the last command wants it.  All the node may do without being *)
(* told is to withdraw a job, to go on descending in a homing and to take   *)
(* up a move again after an alarm, a limited number of times.  A frame that *)
(* is lost leaves the drive with the job it had.                            *)
(***************************************************************************)
EXTENDS Integers

CONSTANTS MaxResumes,  \* alarm_resume_max_cycles
          Descent      \* the job of a homing

VARIABLES wish,     \* what the user wants, or "lost": a stop the drive did not hear
          job,      \* what the drive has been told to do
          alarm,    \* the node knows of an alarm
          resumed   \* moves taken up again since the user last spoke

vars == <<wish, job, alarm, resumed>>

Rest == [kind |-> "velocity", arg |-> 0]

Told(kind) == job' = job \/ job'.kind = kind
ToldToRest == job' = job \/ job' = Rest

\* The user speaks.

Speed == /\ wish' = "move" /\ resumed' = 0
         /\ Told("velocity")
         /\ UNCHANGED alarm

\* Neither a move nor a homing is accepted in an alarm.
Goto == /\ ~alarm
        /\ wish' = "goto" /\ resumed' = 0
        /\ Told("position")
        /\ UNCHANGED alarm

Home == /\ ~alarm
        /\ wish' = "home" /\ resumed' = 0
        /\ UNCHANGED <<job, alarm>>

\* A node that ends counts as a stop; the next one knows of no alarm.
Stop == /\ resumed' = 0
        /\ \/ wish' = "stop" /\ job' = Rest
           \/ wish' = "lost" /\ ToldToRest
        /\ alarm' \in {alarm, FALSE}

\* The reset, or the end of a homing that is over: the wish stays what it was.
Confirm == /\ resumed' = 0
           /\ ToldToRest
           /\ UNCHANGED <<wish, alarm>>

\* The node acts by itself.

Withdraw == ToldToRest /\ UNCHANGED <<wish, alarm, resumed>>

AlarmSeen == /\ ~alarm /\ alarm' = TRUE
             /\ ToldToRest
             /\ UNCHANGED <<wish, resumed>>

AlarmGone == /\ alarm /\ alarm' = FALSE
             /\ UNCHANGED <<wish, job, resumed>>

Resume == /\ alarm /\ alarm' = FALSE
          /\ wish = "goto" /\ resumed < MaxResumes
          /\ resumed' = resumed + 1
          /\ Told("position")
          /\ UNCHANGED wish

Descend == /\ wish = "home" /\ ~alarm
           /\ job' = Descent
           /\ UNCHANGED <<wish, alarm, resumed>>

Init == wish = "stop" /\ job = Rest /\ alarm = FALSE /\ resumed = 0

Next == \/ Speed \/ Goto \/ Home \/ Stop \/ Confirm
        \/ Withdraw \/ AlarmSeen \/ AlarmGone \/ Resume \/ Descend

Spec == Init /\ [][Next]_vars
=============================================================================
