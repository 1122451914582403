----------------------------- MODULE FencedLock -----------------------------
(***************************************************************************)
(* RedisLock together with the resource it protects.  A holder sends       *)
(* writes that carry its fencing token; they reach the resource after any  *)
(* delay, and the resource applies FenceAccepted to each.                  *)
(***************************************************************************)
EXTENDS RedisLock

CONSTANT Nobody

ASSUME FencedAssumption ==
    /\ Fencing = TRUE
    /\ Nobody \notin Tokens
    /\ Nobody \notin Handles

VARIABLES inflight,  \* handles with a write on its way to the resource
          lastFence, \* the largest token the resource has accepted
          writer,    \* the handle whose write was accepted last
          granted,   \* history: tenures the server has granted
          tenureOf   \* history: the tenure each handle was granted or entered

resourceVars == <<inflight, lastFence, writer>>
history == <<granted, tenureOf>>
fencedVars == <<vars, resourceVars, history>>

FencedTypeOK ==
    /\ TypeOK
    /\ inflight \subseteq Handles
    /\ lastFence \in Nat
    /\ writer \in Handles \union {Nobody}
    /\ granted \in Nat
    /\ tenureOf \in [Handles -> Nat]

FencedInit ==
    /\ Init
    /\ inflight = {}
    /\ lastFence = 0
    /\ writer = Nobody
    /\ granted = 0
    /\ tenureOf = [h \in Handles |-> 0]

\* Mutant: only an equal token is refused.
FenceDiffers(incoming, stored) == incoming # stored

\* The resource's side of the protocol.
FenceAccepted(incoming, stored) == incoming > stored

SendWrite(h) ==
    /\ pc[h] = "held"
    /\ h \notin paused \union inflight
    /\ inflight' = inflight \union {h}
    /\ UNCHANGED <<vars, lastFence, writer, history>>

ArriveWrite(h) ==
    /\ h \in inflight
    /\ inflight' = inflight \ {h}
    /\ IF FenceAccepted(fence[h], lastFence)
         THEN lastFence' = fence[h] /\ writer' = h
         ELSE UNCHANGED <<lastFence, writer>>
    /\ UNCHANGED <<vars, history>>

\* A tenure begins when a key comes into existence, whether or not the
\* caller learns of it.
RecordTenure ==
    /\ granted' = IF Free /\ hash' # NoKey THEN granted + 1 ELSE granted
    /\ tenureOf' = [h \in Handles |-> IF pc[h] = "idle" /\ pc'[h] = "held"
                                         THEN granted' ELSE tenureOf[h]]

LockStep == Next /\ RecordTenure /\ UNCHANGED resourceVars

FencedNext ==
    \/ LockStep
    \/ \E h \in Handles : SendWrite(h) \/ ArriveWrite(h)

FencedSpec == FencedInit /\ [][FencedNext]_fencedVars

-----------------------------------------------------------------------------
(* The token that owns the key, and the promise this module keeps.         *)

OwnerOf(counts) == IF counts = NoKey THEN Nobody
                   ELSE CHOOSE t \in Tokens : counts[t] > 0

Promise == INSTANCE FencedLease WITH
              Owners <- Tokens,
              owner <- OwnerOf(hash),
              tenures <- granted,
              written <- IF writer = Nobody THEN 0 ELSE tenureOf[writer]

\* Writes take effect in the order in which the server granted the tenures
\* they were made in, whatever was suspended, lost or late: no holder whose
\* lease ran out overwrites its successor (fence.go's only real safety).
PromiseKept == Promise!LeaseSpec

\* "The fencing token of this hold: > 0 with WithFencing" (redislock.go:53).
FencePositive == \A h \in Handles : pc[h] = "held" => fence[h] > 0
=============================================================================
