------------------------------ MODULE Replica ------------------------------
(***************************************************************************)
(* What the engines of the migrator promise while they work: a target      *)
(* whose rows only move forward and never past the source, so that a row   *)
(* which has come up with the source stays with it until the source        *)
(* changes it again.  Contents are numbers that grow with the changes of   *)
(* the source; 0 is no row.  Nothing is promised of the rows whose         *)
(* deletion may still be acted upon: deletions carry no version.           *)
(***************************************************************************)
EXTENDS Naturals

CONSTANT Keys

VARIABLES source, target,
          loose   \* the rows of which nothing is promised

replicaVars == <<source, target, loose>>

NotAhead == \A k \in Keys \ loose : target[k] <= source[k]

ReplicaInit ==
    /\ source \in [Keys -> Nat] /\ target \in [Keys -> Nat]
    /\ loose \in SUBSET Keys
    /\ NotAhead

\* The source changes; rows that it deletes come loose.
Moves ==
    /\ \A k \in Keys :
          \/ source'[k] >= source[k]
          \/ source'[k] = 0 /\ k \in loose'
    /\ \A k \in loose' \ loose : source'[k] = 0
    /\ UNCHANGED target

\* The target follows with any of its rows, as far as each may come.
Follows ==
    /\ \A k \in Keys \ loose : target'[k] >= target[k]
    /\ loose' \subseteq loose
    /\ UNCHANGED source

ReplicaNext == (Moves \/ Follows) /\ NotAhead'

ReplicaSpec == ReplicaInit /\ [][ReplicaNext]_replicaVars
=============================================================================
