----------------------------- MODULE MCCIIssues -----------------------------
(* Small instances of CIIssues for TLC. *)
EXTENDS CIIssues
=============================================================================
