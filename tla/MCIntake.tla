------------------------------ MODULE MCIntake ------------------------------
(* Instance of Intake for TLC. *)
EXTENDS Intake, TLC

\* One message from anywhere, and one of a channel that always acknowledges.
CONSTANTS m1, m2
MCMixes == {(m1 :> k) @@ (m2 :> "whatsapp") : k \in Kinds}
=============================================================================
