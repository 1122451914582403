----------------------------- MODULE MCRelation -----------------------------
(* Instances of RelationService: which couples the requests are about.            *)
EXTENDS RelationService

\* Both directions of every couple.
BothWays == Pairs
=============================================================================
