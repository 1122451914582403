----------------------------- MODULE MCIncrSync -----------------------------
(* Instances of IncrSync: which partition each primary key hashes to.      *)
EXTENDS IncrSync, TLC

CONSTANTS r1, r2, p1, p2

OwnPartitions == r1 :> p1 @@ r2 :> p2
OnePartition == r1 :> p1 @@ r2 :> p1
=============================================================================
