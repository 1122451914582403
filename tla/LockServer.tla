----------------------------- MODULE LockServer -----------------------------
(***************************************************************************)
(* One lock key of package redislock as Redis stores it, and the Lua       *)
(* scripts that act on it.  A script runs atomically on the server, so     *)
(* each is one action.  Time is relative: pttl is what PTTL returns, the   *)
(* milliseconds the key still has to live, counted in ticks.               *)
(***************************************************************************)
EXTENDS Integers, FiniteSets

CONSTANTS Tokens,     \* owner tokens: a fresh uuid per acquisition, or an ownerId
          Interval    \* ticks between two refreshes by a watchdog

ASSUME IntervalAssumption == Interval \in Nat \ {0}

VARIABLES hash,       \* redislock:{k}:lock, a hash of token |-> re-entrance count
          pttl,       \* ticks before that key expires, 0 when it does not exist
          fenceKey    \* redislock:{k}:fence, the counter of fencing tokens

server == <<hash, pttl, fenceKey>>

\* The watchdog refreshes three times per lease.
Lease == 3 * Interval

\* A hash without fields: Redis has no such key.
NoKey == [t \in Tokens |-> 0]

Free == hash = NoKey

Owns(t) == hash[t] > 0

ServerTypeOK ==
    /\ hash \in [Tokens -> Nat]
    /\ pttl \in 0 .. Lease
    /\ fenceKey \in Nat

ServerInit ==
    /\ hash = NoKey
    /\ pttl = 0
    /\ fenceKey = 0

(***************************************************************************)
(* acquire.lua and fence.lua, on the branches that succeed: the key does   *)
(* not exist, or the token already owns it.  Only a fresh acquisition of   *)
(* fence.lua draws a fencing token.                                        *)
(***************************************************************************)
Acquirable(t) == Free \/ Owns(t)

\* Mutants: a script that does not look who owns the key, and one that
\* forgets PEXPIRE.
AcquireUnchecked(t) ==
    /\ hash' = [hash EXCEPT ![t] = @ + 1]
    /\ pttl' = Lease
    /\ UNCHANGED fenceKey

AcquireWithoutLease(t) ==
    /\ Acquirable(t)
    /\ hash' = [hash EXCEPT ![t] = @ + 1]
    /\ UNCHANGED <<pttl, fenceKey>>

AcquireScript(t) ==
    /\ Acquirable(t)
    /\ hash' = [hash EXCEPT ![t] = @ + 1]
    /\ pttl' = Lease
    /\ UNCHANGED fenceKey

FenceScript(t) ==
    /\ Acquirable(t)
    /\ hash' = [hash EXCEPT ![t] = @ + 1]
    /\ pttl' = Lease
    /\ fenceKey' = IF Free THEN fenceKey + 1 ELSE fenceKey

\* What fence.lua answers: a new token, or 0 when the owner re-enters.
FenceAnswer == IF Free THEN fenceKey + 1 ELSE 0

\* release.lua: count down the holds of t and delete the key at zero.  The
\* script publishes exactly in the last branch, when FullRelease(t).
FullRelease(t) == hash[t] = 1

ReleaseScript(t) ==
    /\ hash' = IF FullRelease(t) THEN NoKey
               ELSE IF Owns(t) THEN [hash EXCEPT ![t] = @ - 1] ELSE hash
    /\ pttl' = IF FullRelease(t) THEN 0
               ELSE IF Owns(t) THEN Lease ELSE pttl
    /\ UNCHANGED fenceKey

\* refresh.lua: a new lease, provided that t still owns the key.
RefreshScript(t) ==
    /\ pttl' = IF Owns(t) THEN Lease ELSE pttl
    /\ UNCHANGED <<hash, fenceKey>>

\* DEL of the lock key, whoever owns it.
DelKey ==
    /\ hash' = NoKey
    /\ pttl' = 0
    /\ UNCHANGED fenceKey

\* One tick of Redis's clock; the key expires with its last tick.
ServerTick ==
    /\ pttl' = IF pttl > 0 THEN pttl - 1 ELSE 0
    /\ hash' = IF pttl = 1 THEN NoKey ELSE hash
    /\ UNCHANGED fenceKey
=============================================================================
