---------------------------- MODULE MCFencedLock ----------------------------
(* Instances of FencedLock: who shares an owner token with whom.           *)
EXTENDS FencedLock, TLC

CONSTANTS a, b, c, t1, t2, t3

TokenEach == a :> t1 @@ b :> t2 @@ c :> t3
TokenShared == a :> t1 @@ b :> t1
=============================================================================
