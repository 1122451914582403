----------------------------- MODULE FencedLease -----------------------------
(***************************************************************************)
(* What package redislock promises to a resource that checks fencing       *)
(* tokens.  The lock goes through tenures, one after the other, numbered   *)
(* in the order they are granted.  A tenure may end without its owner      *)
(* noticing, so a write can come from any past tenure; but the writes that *)
(* take effect do so in the order of their tenures, once per tenure.       *)
(***************************************************************************)
EXTENDS Integers

CONSTANTS Owners, Nobody

VARIABLES owner,    \* who holds the lock, by the server's account
          tenures,  \* tenures granted so far
          written   \* the tenure of the last write that took effect

leaseVars == <<owner, tenures, written>>

LeaseInit ==
    /\ owner = Nobody
    /\ tenures = 0
    /\ written = 0

Grant ==
    /\ owner = Nobody
    /\ owner' \in Owners
    /\ tenures' = tenures + 1
    /\ UNCHANGED written

End ==
    /\ owner # Nobody
    /\ owner' = Nobody
    /\ UNCHANGED <<tenures, written>>

Write ==
    /\ written' \in written + 1 .. tenures
    /\ UNCHANGED <<owner, tenures>>

LeaseNext == Grant \/ End \/ Write

LeaseSpec == LeaseInit /\ [][LeaseNext]_leaseVars
=============================================================================
