---------------------------- MODULE MCPromotions ----------------------------
(* Small instances of Promotions for TLC. *)
EXTENDS Promotions

TwoMembers == [t \in Trains |-> Sources]
OneA == [g \in Grants |-> "a"]
=============================================================================
