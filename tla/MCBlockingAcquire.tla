-------------------------- MODULE MCBlockingAcquire --------------------------
(* Instances of BlockingAcquire: who shares a token, and whose clock is off. *)
EXTENDS BlockingAcquire, TLC

CONSTANTS a, b, c, t1, t2, t3

TokenEach == a :> t1 @@ b :> t2 @@ c :> t3
TokenShared == a :> t1 @@ b :> t2 @@ c :> t2
NoSkew == [w \in Waiters |-> 0]
SkewOfC == [w \in Waiters |-> IF w = c THEN 1 ELSE 0]
=============================================================================
