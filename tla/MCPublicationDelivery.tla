----------------------- MODULE MCPublicationDelivery -----------------------
(***************************************************************************)
(* One publication of each kind: its commit, and what the ref may be.      *)
(***************************************************************************)
EXTENDS PublicationDelivery

OnePub == {"p1"}
OneResult == [p \in OnePub |-> "c1"]
OneKinds == {[p \in OnePub |-> k] : k \in {"feature", "direct", "tag", "promotion"}}

MCCommits == {"base", "other", "c1", "c2"}

\* c2 was built on c1; "other" is somebody else's commit on the base.
MCContains == [c \in MCCommits |-> CASE c = "base" -> {"base"}
                                     [] c = "other" -> {"base", "other"}
                                     [] c = "c1" -> {"base", "c1"}
                                     [] c = "c2" -> {"base", "c1", "c2"}]
=============================================================================
