------------------------------ MODULE MCIntake ------------------------------
(* Small instances of Intake for TLC. *)
EXTENDS Intake

MCRefOrder == <<"b", "t">>
=============================================================================
