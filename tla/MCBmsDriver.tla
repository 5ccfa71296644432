----------------------------- MODULE MCBmsDriver -----------------------------
(* Instances of BmsDriver for TLC. *)
EXTENDS BmsDriver

\* A sound battery in use, and a faulty one on the charger: all four answers differ.
InUse == [full |-> FALSE, cd |-> "discharge", charger |-> FALSE, fault |-> FALSE]
MCConditions == {InUse, [full |-> TRUE, cd |-> "charge", charger |-> TRUE, fault |-> TRUE]}
MCAnswer == Queries \cup {"other"}
MCFrame == [id : MCAnswer, of : MCConditions]
=============================================================================
