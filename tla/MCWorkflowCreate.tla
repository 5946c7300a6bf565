-------------------------- MODULE MCWorkflowCreate --------------------------
(* The creation of one Workflow with the number of requests the code allows. *)
EXTENDS WorkflowCreate
=============================================================================
