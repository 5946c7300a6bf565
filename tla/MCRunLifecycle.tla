--------------------------- MODULE MCRunLifecycle ---------------------------
(* Instances of RunLifecycle: one or two runs of one branch. *)
EXTENDS RunLifecycle

CONSTANTS r1, r2

OneBranch == [r \in Runs |-> "main"]

=============================================================================
