-------------------------- MODULE MCAdmissionGate --------------------------
(* Small instances of AdmissionGate for TLC. *)
EXTENDS AdmissionGate

MCRuns == 1..3
MCGroups == {"g"}
MCOneGroup == [r \in MCRuns |-> "g"]
MCGroupOf == [r \in MCRuns |-> IF r \in {1, 2} THEN "g" ELSE "none"]
=============================================================================
