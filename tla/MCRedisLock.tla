----------------------------- MODULE MCRedisLock -----------------------------
(* Instances of RedisLock: who shares an owner token with whom.            *)
EXTENDS RedisLock, TLC

CONSTANTS a, b, t1, t2

TokenEach == a :> t1 @@ b :> t2
=============================================================================
