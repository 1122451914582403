----------------------------- MODULE LockProofs -----------------------------
(***************************************************************************)
(* Proofs about RedisLock for every set of handles and tokens, every       *)
(* assignment of tokens, with or without watchdogs, fencing, suspended     *)
(* processes and lost requests; and that FencedLock, the same lock with    *)
(* handles that write to a fenced resource, keeps the promise of           *)
(* FencedLease.  The argument for the latter: the fence counter counts the *)
(* tenures, so a handle's token is 0 or the number of its tenure; the      *)
(* largest accepted token is the writer's, hence the number of the         *)
(* writer's tenure; a larger token is a later tenure.                      *)
(***************************************************************************)
EXTENDS FencedLock, TLAPS

\* What a step does to the key, as far as its owner is concerned: nothing, or
\* it deletes it, or it changes the count of a token that owns it, or it
\* creates it for one token.
Keeps == hash' = hash
Deletes == hash' = NoKey
Recounts == \E t \in Tokens : /\ Owns(t)
                             /\ hash' = [hash EXCEPT ![t] = hash'[t]]
                             /\ hash'[t] \in Nat \ {0}
Creates == Free /\ \E t \in Tokens : hash' = [hash EXCEPT ![t] = 1]

KeyStep == Keeps \/ Deletes \/ Recounts \/ Creates

LEMMA AcquireIsKeyStep ==
    ASSUME ServerTypeOK, NEW t \in Tokens, AcquireScript(t) \/ FenceScript(t)
    PROVE  /\ KeyStep /\ hash' \in [Tokens -> Nat] /\ hash' # NoKey
           /\ pttl' \in 0 .. Lease
           /\ ~ Free => Recounts
<1> USE IntervalAssumption DEF ServerTypeOK, Lease
<1>1. hash' = [hash EXCEPT ![t] = hash[t] + 1] /\ pttl' = Lease
  BY DEF AcquireScript, FenceScript
<1>2. hash'[t] = hash[t] + 1 /\ hash' \in [Tokens -> Nat]
  BY <1>1
<1>3. hash' # NoKey
  BY <1>2 DEF NoKey
<1>4. CASE Free
  <2>1. hash' = [hash EXCEPT ![t] = 1]
    BY <1>1, <1>4 DEF Free, NoKey
  <2>2. Creates
    BY <1>4, <2>1 DEF Creates
  <2> QED
    BY <1>1, <1>2, <1>3, <1>4, <2>2 DEF KeyStep
<1>5. CASE ~ Free
  <2>1. Owns(t)
    BY <1>5 DEF AcquireScript, FenceScript, Acquirable
  <2>2. hash' = [hash EXCEPT ![t] = hash'[t]] /\ hash'[t] \in Nat \ {0}
    BY <1>1, <1>2
  <2>3. Recounts
    BY <2>1, <2>2 DEF Recounts
  <2> QED
    BY <1>1, <1>2, <1>3, <1>5, <2>3 DEF KeyStep
<1> QED
  BY <1>4, <1>5

LEMMA ReleaseIsKeyStep ==
    ASSUME ServerTypeOK, NEW t \in Tokens, ReleaseScript(t)
    PROVE  /\ KeyStep /\ hash' \in [Tokens -> Nat] /\ pttl' \in 0 .. Lease
           /\ Keeps \/ Deletes \/ Recounts
<1> USE IntervalAssumption DEF ServerTypeOK, Lease
<1>1. CASE FullRelease(t)
  BY <1>1 DEF ReleaseScript, KeyStep, Deletes, NoKey
<1>2. CASE ~ FullRelease(t) /\ Owns(t)
  <2>1. hash' = [hash EXCEPT ![t] = hash[t] - 1] /\ pttl' = Lease
    BY <1>2 DEF ReleaseScript
  <2>2. hash'[t] = hash[t] - 1 /\ hash[t] - 1 \in Nat \ {0}
    BY <1>2, <2>1 DEF FullRelease, Owns
  <2>3. hash' = [hash EXCEPT ![t] = hash'[t]] /\ hash'[t] \in Nat \ {0}
    BY <2>1, <2>2
  <2>4. Recounts
    BY <1>2, <2>3 DEF Recounts
  <2> QED
    BY <2>1, <2>2, <2>4 DEF KeyStep
<1>3. CASE ~ FullRelease(t) /\ ~ Owns(t)
  BY <1>3 DEF ReleaseScript, KeyStep, Keeps
<1> QED
  BY <1>1, <1>2, <1>3

LEMMA RefreshIsKeyStep ==
    ASSUME ServerTypeOK, NEW t \in Tokens, RefreshScript(t)
    PROVE  Keeps /\ hash' \in [Tokens -> Nat] /\ pttl' \in 0 .. Lease
BY IntervalAssumption DEF ServerTypeOK, Lease, RefreshScript, Keeps

LEMMA TickIsKeyStep ==
    ASSUME ServerTypeOK, ServerTick
    PROVE  (Keeps \/ Deletes) /\ hash' \in [Tokens -> Nat] /\ pttl' \in 0 .. Lease
BY IntervalAssumption
   DEF ServerTypeOK, Lease, ServerTick, Keeps, Deletes, NoKey

\* Every step of the module is a step of the key, and leaves a server state
\* of the right type.
LEMMA NextIsKeyStep ==
    ASSUME TypeOK, Next
    PROVE  KeyStep /\ ServerTypeOK'
<1> USE LockAssumption DEF TypeOK, server
<1>a. ServerTypeOK
  OBVIOUS
<1>b. \A h \in Handles : TokenOf[h] \in Tokens
  OBVIOUS
<1>c. hash' = hash /\ pttl' = pttl /\ fenceKey' = fenceKey => KeyStep /\ ServerTypeOK'
  BY <1>a DEF ServerTypeOK, KeyStep, Keeps
<1>1. ASSUME NEW h \in Handles, AcquireOnServer(h)
      PROVE  KeyStep /\ ServerTypeOK'
  <2>1. AcquireScript(TokenOf[h]) \/ FenceScript(TokenOf[h])
    BY <1>1 DEF AcquireOnServer
  <2>2. fenceKey' \in Nat
    BY <2>1, <1>a DEF AcquireScript, FenceScript, ServerTypeOK
  <2> QED
    BY <1>a, <1>b, <2>1, <2>2, AcquireIsKeyStep DEF ServerTypeOK
<1>2. ASSUME NEW h \in Handles, ReleaseScript(TokenOf[h])
      PROVE  KeyStep /\ ServerTypeOK'
  BY <1>2, <1>a, <1>b, ReleaseIsKeyStep DEF ServerTypeOK, ReleaseScript
<1>3. ASSUME NEW h \in Handles, RefreshScript(TokenOf[h])
      PROVE  KeyStep /\ ServerTypeOK'
  BY <1>3, <1>a, <1>b, RefreshIsKeyStep DEF ServerTypeOK, RefreshScript, KeyStep
<1>4. ASSUME ServerTick
      PROVE  KeyStep /\ ServerTypeOK'
  BY <1>4, <1>a, TickIsKeyStep DEF ServerTypeOK, ServerTick, KeyStep
<1>5. ASSUME DelKey
      PROVE  KeyStep /\ ServerTypeOK'
  BY <1>5, <1>a, IntervalAssumption
     DEF ServerTypeOK, DelKey, KeyStep, Deletes, NoKey, Lease
<1>6. ASSUME NEW h \in Handles, CallerStep(h)
      PROVE  KeyStep /\ ServerTypeOK'
  BY <1>6, <1>c, <1>1, <1>2, <1>3, <1>5
     DEF CallerStep, TryLock, TryLockLost, UnlockBegin, ForceUnlock,
         CallSend, CallServed, CallScript, CallEnds
<1>7. ASSUME NEW h \in Handles, DogStep(h)
      PROVE  KeyStep /\ ServerTypeOK'
  BY <1>7, <1>c, <1>3
     DEF DogStep, DogStop, DogFire, DogGetsMu, DogServed, DogRenewed, DogLost,
         DogError, DogTooLate
<1>8. ASSUME NEW h \in Handles, ProcessStep(h)
      PROVE  KeyStep /\ ServerTypeOK'
  BY <1>8, <1>c DEF ProcessStep, Crash, Pause, Resume
<1>9. ASSUME NEW k \in Kinds, NEW h \in Handles, LateRequest(k, h)
      PROVE  KeyStep /\ ServerTypeOK'
  BY <1>9, <1>2, <1>3 DEF LateRequest, Kinds
<1>10. CASE Tick
  BY <1>10, <1>4 DEF Tick
<1> QED
  BY <1>6, <1>7, <1>8, <1>9, <1>10 DEF Next

-----------------------------------------------------------------------------
(* Type correctness.                                                       *)

\* The part of TypeOK about the callers, the watchdogs and the network.
ClientTypeOK ==
    /\ pc \in [Handles -> {"idle", "held", "unlocking", "done", "dead"}]
    /\ fence \in [Handles -> Nat]
    /\ stop \in [Handles -> BOOLEAN]
    /\ lost \in [Handles -> BOOLEAN]
    /\ request \in [Handles -> {"none", "sent", "served"}]
    /\ late \subseteq Kinds \X Handles
    /\ paused \subseteq Pausable

DogTypeOK ==
    /\ wd \in [Handles -> {"off", "select", "waiting", "calling"}]
    /\ answer \in [Handles -> {"none", "ok", "notHeld"}]
    /\ since \in [Handles -> 0 .. MaxSince]
    /\ ticker \in [Handles -> 1 .. Interval]
    /\ due \in [Handles -> BOOLEAN]
    /\ callAge \in [Handles -> 0 .. Interval]

LEMMA TypeOKSplits == TypeOK <=> ServerTypeOK /\ ClientTypeOK /\ DogTypeOK
BY DEF TypeOK, ClientTypeOK, DogTypeOK

LEMMA DogExitTypes ==
    ASSUME DogTypeOK, NEW h \in Handles, DogExit(h)
    PROVE  DogTypeOK'
BY IntervalAssumption DEF DogTypeOK, DogExit, MaxSince, Lease

LEMMA DogTypeStep ==
    ASSUME TypeOK, Next
    PROVE  DogTypeOK'
<1>a. DogTypeOK
  BY TypeOKSplits
<1>b. UNCHANGED dogVars => DogTypeOK'
  BY <1>a DEF dogVars, DogTypeOK
<1>1. ASSUME NEW h \in Handles, CallerStep(h)
      PROVE  DogTypeOK'
  <2>1. CASE TryLock(h)
    BY <2>1, <1>a DEF TryLock, NewLock, DogTypeOK
  <2>2. CASE ~ TryLock(h)
    BY <1>1, <2>2, <1>b
       DEF CallerStep, TryLockLost, UnlockBegin, ForceUnlock, CallSend,
           CallServed, CallEnds
  <2> QED
    BY <2>1, <2>2
<1>2. ASSUME NEW h \in Handles, DogStep(h)
      PROVE  DogTypeOK'
  <2>1. CASE DogStop(h) \/ DogLost(h)
    BY <2>1, <1>a, DogExitTypes DEF DogStop, DogLost
  <2>2. CASE DogFire(h)
    BY <2>2, <1>a, IntervalAssumption DEF DogFire, DogTypeOK
  <2>3. CASE DogServed(h)
    BY <2>3, <1>a DEF DogServed, DogTypeOK
  <2>4. CASE DogRenewed(h)
    BY <2>4, <1>a, IntervalAssumption DEF DogRenewed, DogTypeOK, MaxSince, Lease
  <2>5. CASE DogGetsMu(h)
    BY <2>5, <1>a DEF DogGetsMu, DogTypeOK
  <2>6. CASE DogError(h) \/ DogTooLate(h)
    <3>1. DogFailed(h)
      BY <2>6 DEF DogError, DogTooLate
    <3>2. CASE LeaseOverdue(h)
      BY <3>1, <3>2, <1>a, DogExitTypes DEF DogFailed
    <3>3. CASE ~ LeaseOverdue(h)
      BY <3>1, <3>3, <1>a DEF DogFailed, DogTypeOK
    <3> QED
      BY <3>2, <3>3
  <2> QED
    BY <1>2, <2>1, <2>2, <2>3, <2>4, <2>5, <2>6 DEF DogStep
<1>3. ASSUME NEW h \in Handles, ProcessStep(h)
      PROVE  DogTypeOK'
  BY <1>3, <1>a, <1>b, DogExitTypes DEF ProcessStep, Crash, Pause, Resume
<1>4. ASSUME NEW k \in Kinds, NEW h \in Handles, LateRequest(k, h)
      PROVE  DogTypeOK'
  BY <1>4, <1>b DEF LateRequest
<1>5. CASE Tick
  BY <1>5, <1>a, IntervalAssumption
     DEF Tick, DogTypeOK, AtMost, MaxSince, Lease
<1> QED
  BY <1>1, <1>2, <1>3, <1>4, <1>5 DEF Next

LEMMA ClientTypeStep ==
    ASSUME TypeOK, Next
    PROVE  ClientTypeOK'
<1>a. ClientTypeOK /\ ServerTypeOK
  BY TypeOKSplits
<1>b. ASSUME UNCHANGED <<clientVars, late, paused>>
      PROVE  ClientTypeOK'
  BY <1>a, <1>b DEF clientVars, ClientTypeOK
<1>c. ASSUME NEW k \in Kinds, NEW h \in Handles, Abandon(k, h)
      PROVE  late' \subseteq Kinds \X Handles
  BY <1>a, <1>c DEF Abandon, ClientTypeOK
<1>1. ASSUME NEW h \in Handles, CallerStep(h)
      PROVE  ClientTypeOK'
  <2>1. CASE TryLock(h)
    BY <2>1, <1>a DEF TryLock, NewLock, FenceAnswer, ClientTypeOK, ServerTypeOK
  <2>2. CASE TryLockLost(h)
    BY <2>2, <1>a DEF TryLockLost, ClientTypeOK
  <2>3. CASE UnlockBegin(h) \/ ForceUnlock(h)
    BY <2>3, <1>a DEF UnlockBegin, ForceUnlock, ClientTypeOK
  <2>4. CASE CallEnds(h)
    <3>1. late' \subseteq Kinds \X Handles
      BY <2>4, <1>a, <1>c DEF CallEnds, CallKind, Kinds, ClientTypeOK
    <3> QED
      BY <2>4, <3>1, <1>a DEF CallEnds, ClientTypeOK
  <2>5. CASE CallSend(h) \/ CallServed(h)
    BY <2>5, <1>a DEF CallSend, CallServed, ClientTypeOK
  <2> QED
    BY <1>1, <2>1, <2>2, <2>3, <2>4, <2>5 DEF CallerStep
<1>2. ASSUME NEW h \in Handles, DogStep(h)
      PROVE  ClientTypeOK'
  <2>1. CASE DogStop(h) \/ DogFire(h) \/ DogGetsMu(h) \/ DogServed(h) \/ DogRenewed(h)
    BY <2>1, <1>b DEF DogStop, DogFire, DogGetsMu, DogServed, DogRenewed
  <2>2. CASE DogLost(h)
    BY <2>2, <1>a DEF DogLost, ClientTypeOK
  <2>3. CASE DogError(h)
    <3>1. late' \subseteq Kinds \X Handles
      BY <2>3, <1>a, <1>c DEF DogError, Kinds, ClientTypeOK
    <3> QED
      BY <2>3, <3>1, <1>a DEF DogError, DogFailed, ClientTypeOK
  <2>4. CASE DogTooLate(h)
    BY <2>4, <1>a DEF DogTooLate, DogFailed, ClientTypeOK
  <2> QED
    BY <1>2, <2>1, <2>2, <2>3, <2>4 DEF DogStep
<1>3. ASSUME NEW h \in Handles, ProcessStep(h)
      PROVE  ClientTypeOK'
  <2>1. CASE Crash(h)
    <3>1. late' \subseteq Kinds \X Handles
      BY <2>1, <1>a, <1>c DEF Crash, CallKind, Kinds, ClientTypeOK
    <3> QED
      BY <2>1, <3>1, <1>a DEF Crash, ClientTypeOK
  <2>2. CASE Pause(h) \/ Resume(h)
    BY <2>2, <1>a DEF Pause, Resume, clientVars, ClientTypeOK
  <2> QED
    BY <1>3, <2>1, <2>2 DEF ProcessStep
<1>4. ASSUME NEW k \in Kinds, NEW h \in Handles, LateRequest(k, h)
      PROVE  ClientTypeOK'
  BY <1>4, <1>a DEF LateRequest, clientVars, ClientTypeOK
<1>5. CASE Tick
  BY <1>5, <1>b DEF Tick
<1> QED
  BY <1>1, <1>2, <1>3, <1>4, <1>5 DEF Next

LEMMA TypeStep == TypeOK /\ [Next]_vars => TypeOK'
<1>1. ASSUME TypeOK, Next
      PROVE  TypeOK'
  BY <1>1, TypeOKSplits, NextIsKeyStep, ClientTypeStep, DogTypeStep
     DEF TypeOK, ServerTypeOK, ClientTypeOK, DogTypeOK
<1>2. ASSUME TypeOK, UNCHANGED vars
      PROVE  TypeOK'
  BY <1>2 DEF vars, server, clientVars, dogVars, TypeOK, ServerTypeOK
<1> QED
  BY <1>1, <1>2

LEMMA TypeInit == Init => TypeOK
BY IntervalAssumption
   DEF Init, ServerInit, TypeOK, ServerTypeOK, NoKey, Lease, MaxSince

\* The state of the lock and of its handles is always well formed: counts and
\* fencing tokens are naturals (no release takes a count below zero), and
\* no remaining lease is longer than a lease.
THEOREM TypeCorrect == Spec => []TypeOK
BY TypeInit, TypeStep, PTL DEF Spec

-----------------------------------------------------------------------------
(* Mutual exclusion on the server.                                         *)

LEMMA OneOwnerStep == TypeOK /\ OneOwner /\ [Next]_vars => OneOwner'
<1>1. ASSUME TypeOK, OneOwner, Next
      PROVE  OneOwner'
  <2>a. hash \in [Tokens -> Nat]
    BY <1>1 DEF TypeOK, ServerTypeOK
  <2>1. CASE Keeps
    BY <2>1, <1>1 DEF Keeps, OneOwner, Owns
  <2>2. CASE Deletes
    BY <2>2 DEF Deletes, OneOwner, Owns, NoKey
  <2>3. CASE Recounts
    BY <2>3, <2>a, <1>1 DEF Recounts, OneOwner, Owns
  <2>4. CASE Creates
    BY <2>4 DEF Creates, Free, OneOwner, Owns, NoKey
  <2> QED
    BY <1>1, <2>1, <2>2, <2>3, <2>4, NextIsKeyStep DEF KeyStep
<1>2. ASSUME OneOwner, UNCHANGED vars
      PROVE  OneOwner'
  BY <1>2 DEF vars, server, OneOwner, Owns
<1> QED
  BY <1>1, <1>2

\* Whatever the number of callers, however they share tokens, and whatever is
\* lost, late or suspended, the key never has two owners.
THEOREM OneOwnerAlways == Spec => []OneOwner
<1>1. Init => OneOwner
  BY DEF Init, ServerInit, OneOwner, Owns, NoKey
<1> QED
  BY <1>1, TypeCorrect, OneOwnerStep, PTL DEF Spec

-----------------------------------------------------------------------------
(* No silent loss, and loss in time.                                       *)

\* A watchdog is only told to stop by a caller that has given the handle up,
\* and only an acquisition starts one: what makes NoSilentLoss inductive.
StopMeansLeft == \A h \in Handles : stop[h] => pc[h] \notin {"idle", "held"}
IdleHasNoDog == \A h \in Handles : pc[h] = "idle" => wd[h] = "off"

\* How far since may be, counted on from the last refresh answered: a watchdog
\* in select has a tick to wait for unless one is buffered, one in a call has
\* been in it for callAge ticks, and one that waits for innerMu has been in it
\* for callAge ticks unless its context is over.
Timely(h) ==
    /\ wd[h] = "off" => since[h] = 0
    /\ wd[h] = "select" /\ due[h] => since[h] < Lease + Interval
    /\ wd[h] = "select" /\ ~ due[h] => since[h] + ticker[h] < Lease + Interval
    /\ wd[h] = "waiting" /\ callAge[h] < Interval
          => since[h] < Lease + Interval + callAge[h]
    /\ wd[h] = "calling" => since[h] < Lease + Interval + callAge[h]

AllTimely == \A h \in Handles \ Pausable : Timely(h)

LEMMA StopMeansLeftStep ==
    ASSUME TypeOK, StopMeansLeft, Next
    PROVE  StopMeansLeft'
<1>a. /\ pc \in [Handles -> {"idle", "held", "unlocking", "done", "dead"}]
      /\ stop \in [Handles -> BOOLEAN]
  BY DEF TypeOK
<1>b. UNCHANGED <<pc, stop>> => StopMeansLeft'
  BY DEF StopMeansLeft
<1>1. ASSUME NEW h \in Handles, CallerStep(h)
      PROVE  StopMeansLeft'
  <2>1. CASE TryLock(h)
    BY <2>1, <1>a DEF TryLock, NewLock, StopMeansLeft
  <2>2. CASE TryLockLost(h) \/ CallEnds(h)
    BY <2>2, <1>a DEF TryLockLost, CallEnds, StopMeansLeft
  <2>3. CASE UnlockBegin(h) \/ ForceUnlock(h)
    BY <2>3, <1>a DEF UnlockBegin, ForceUnlock, StopMeansLeft
  <2>4. CASE CallSend(h) \/ CallServed(h)
    BY <2>4, <1>b DEF CallSend, CallServed
  <2> QED
    BY <1>1, <2>1, <2>2, <2>3, <2>4 DEF CallerStep
<1>2. ASSUME NEW h \in Handles, DogStep(h)
      PROVE  StopMeansLeft'
  BY <1>2, <1>b
     DEF DogStep, DogStop, DogFire, DogGetsMu, DogServed, DogRenewed, DogLost,
         DogError, DogTooLate, clientVars
<1>3. ASSUME NEW h \in Handles, ProcessStep(h)
      PROVE  StopMeansLeft'
  BY <1>3, <1>a, <1>b
     DEF ProcessStep, Crash, Pause, Resume, clientVars, StopMeansLeft
<1>4. ASSUME NEW k \in Kinds, NEW h \in Handles, LateRequest(k, h)
      PROVE  StopMeansLeft'
  BY <1>4, <1>b DEF LateRequest, clientVars
<1>5. CASE Tick
  BY <1>5, <1>b DEF Tick, clientVars
<1> QED
  BY <1>1, <1>2, <1>3, <1>4, <1>5 DEF Next

LEMMA IdleHasNoDogStep ==
    ASSUME TypeOK, IdleHasNoDog, Next
    PROVE  IdleHasNoDog'
<1>a. /\ pc \in [Handles -> {"idle", "held", "unlocking", "done", "dead"}]
      /\ wd \in [Handles -> {"off", "select", "waiting", "calling"}]
  BY DEF TypeOK
<1>b. UNCHANGED <<pc, wd>> => IdleHasNoDog'
  BY DEF IdleHasNoDog
<1>1. ASSUME NEW h \in Handles, CallerStep(h)
      PROVE  IdleHasNoDog'
  BY <1>1, <1>a
     DEF CallerStep, TryLock, NewLock, TryLockLost, UnlockBegin, ForceUnlock,
         CallSend, CallServed, CallEnds, dogVars, IdleHasNoDog
<1>2. ASSUME NEW h \in Handles, DogStep(h)
      PROVE  IdleHasNoDog'
  BY <1>2, <1>a
     DEF DogStep, DogStop, DogFire, DogGetsMu, DogServed, DogRenewed, DogLost,
         DogError, DogTooLate, DogFailed, DogExit, clientVars, IdleHasNoDog
<1>3. ASSUME NEW h \in Handles, ProcessStep(h)
      PROVE  IdleHasNoDog'
  BY <1>3, <1>a
     DEF ProcessStep, Crash, Pause, Resume, DogExit, clientVars, dogVars,
         IdleHasNoDog
<1>4. ASSUME NEW k \in Kinds, NEW h \in Handles, LateRequest(k, h)
      PROVE  IdleHasNoDog'
  BY <1>4, <1>b DEF LateRequest, clientVars, dogVars
<1>5. CASE Tick
  BY <1>5, <1>b DEF Tick, clientVars
<1> QED
  BY <1>1, <1>2, <1>3, <1>4, <1>5 DEF Next

LEMMA NoSilentLossStep ==
    ASSUME TypeOK, StopMeansLeft, NoSilentLoss, Next
    PROVE  NoSilentLoss'
<1>a. /\ pc \in [Handles -> {"idle", "held", "unlocking", "done", "dead"}]
      /\ wd \in [Handles -> {"off", "select", "waiting", "calling"}]
      /\ lost \in [Handles -> BOOLEAN]
      /\ Watched \subseteq Handles
  BY LockAssumption DEF TypeOK
<1>b. UNCHANGED <<pc, wd, lost>> => NoSilentLoss'
  BY DEF NoSilentLoss
<1>1. ASSUME NEW h \in Handles, CallerStep(h)
      PROVE  NoSilentLoss'
  <2>1. CASE TryLock(h)
    BY <2>1, <1>a DEF TryLock, NewLock, NoSilentLoss
  <2>2. CASE ~ TryLock(h)
    BY <1>1, <2>2, <1>a
       DEF CallerStep, TryLockLost, UnlockBegin, ForceUnlock, CallSend,
           CallServed, CallEnds, dogVars, NoSilentLoss
  <2> QED
    BY <2>1, <2>2
<1>2. ASSUME NEW h \in Handles, DogStep(h)
      PROVE  NoSilentLoss'
  <2>1. CASE DogStop(h)
    BY <2>1, <1>a
       DEF DogStop, DogExit, clientVars, StopMeansLeft, NoSilentLoss
  <2>2. CASE DogFire(h) \/ DogGetsMu(h) \/ DogServed(h) \/ DogRenewed(h)
    BY <2>2, <1>a
       DEF DogFire, DogGetsMu, DogServed, DogRenewed, clientVars, NoSilentLoss
  <2>3. CASE DogLost(h) \/ DogError(h) \/ DogTooLate(h)
    BY <2>3, <1>a DEF DogLost, DogError, DogTooLate, DogFailed, DogExit, NoSilentLoss
  <2> QED
    BY <1>2, <2>1, <2>2, <2>3 DEF DogStep
<1>3. ASSUME NEW h \in Handles, ProcessStep(h)
      PROVE  NoSilentLoss'
  BY <1>3, <1>a
     DEF ProcessStep, Crash, Pause, Resume, DogExit, clientVars, dogVars,
         NoSilentLoss
<1>4. ASSUME NEW k \in Kinds, NEW h \in Handles, LateRequest(k, h)
      PROVE  NoSilentLoss'
  BY <1>4, <1>b DEF LateRequest, clientVars, dogVars
<1>5. CASE Tick
  BY <1>5, <1>b DEF Tick, clientVars
<1> QED
  BY <1>1, <1>2, <1>3, <1>4, <1>5 DEF Next

LEMMA AllTimelyStep ==
    ASSUME TypeOK, IdleHasNoDog, AllTimely, Next
    PROVE  AllTimely'
<1> USE IntervalAssumption DEF Lease
<1>a. DogTypeOK /\ paused \subseteq Pausable
  BY DEF TypeOK, DogTypeOK
<1>b. SUFFICES ASSUME NEW g \in Handles \ Pausable
               PROVE  Timely(g)'
  BY DEF AllTimely
<1>c. Timely(g) /\ g \in Handles /\ g \notin paused
  BY <1>a DEF AllTimely
<1>d. UNCHANGED <<wd, since, ticker, due, callAge>> => Timely(g)'
  BY <1>c DEF Timely
<1>e. ASSUME NEW h \in Handles, DogExit(h)
      PROVE  Timely(g)'
  BY <1>a, <1>c, <1>e DEF DogTypeOK, DogExit, Timely
<1>1. ASSUME NEW h \in Handles, CallerStep(h)
      PROVE  Timely(g)'
  <2>1. CASE TryLock(h)
    BY <2>1, <1>a, <1>c DEF TryLock, NewLock, IdleHasNoDog, DogTypeOK, Timely
  <2>2. CASE ~ TryLock(h)
    BY <1>1, <2>2, <1>d
       DEF CallerStep, TryLockLost, UnlockBegin, ForceUnlock, CallSend,
           CallServed, CallEnds, dogVars
  <2> QED
    BY <2>1, <2>2
<1>2. ASSUME NEW h \in Handles, DogStep(h)
      PROVE  Timely(g)'
  <2>1. CASE DogStop(h) \/ DogLost(h)
    BY <2>1, <1>e DEF DogStop, DogLost
  <2>2. CASE DogFire(h)
    BY <2>2, <1>a, <1>c DEF DogFire, DogTypeOK, Timely
  <2>3. CASE DogServed(h)
    BY <2>3, <1>d DEF DogServed
  <2>4. CASE DogRenewed(h)
    BY <2>4, <1>a, <1>c DEF DogRenewed, DogTypeOK, Timely
  <2>5. CASE DogGetsMu(h)
    BY <2>5, <1>a, <1>c DEF DogGetsMu, DogTypeOK, Timely
  <2>6. CASE DogError(h) \/ DogTooLate(h)
    <3>1. DogFailed(h)
      BY <2>6 DEF DogError, DogTooLate
    <3>2. CASE LeaseOverdue(h)
      BY <3>1, <3>2, <1>e DEF DogFailed
    <3>3. CASE ~ LeaseOverdue(h)
      BY <3>1, <3>3, <1>a, <1>c DEF DogFailed, LeaseOverdue, DogTypeOK, MaxSince, Timely
    <3> QED
      BY <3>2, <3>3
  <2> QED
    BY <1>2, <2>1, <2>2, <2>3, <2>4, <2>5, <2>6 DEF DogStep
<1>3. ASSUME NEW h \in Handles, ProcessStep(h)
      PROVE  Timely(g)'
  BY <1>3, <1>d, <1>e DEF ProcessStep, Crash, Pause, Resume, dogVars
<1>4. ASSUME NEW k \in Kinds, NEW h \in Handles, LateRequest(k, h)
      PROVE  Timely(g)'
  BY <1>4, <1>d DEF LateRequest, dogVars
<1>5. CASE Tick
  <2>1. Punctual(g)
    BY <1>5 DEF Tick
  <2>2. CASE wd[g] = "off"
    BY <1>5, <2>2, <1>a, <1>c DEF Tick, DogTypeOK, Timely
  <2>3. CASE wd[g] = "select"
    <3>1. ~ due[g] /\ since[g] + ticker[g] < 4 * Interval
      BY <2>1, <2>3, <1>c DEF Punctual, Timely
    <3>2. since'[g] = since[g] + 1
      BY <1>5, <2>3, <3>1, <1>a, <1>c DEF Tick, AtMost, MaxSince, DogTypeOK
    <3>3. CASE ticker[g] = 1
      BY <1>5, <2>3, <3>1, <3>2, <3>3, <1>a, <1>c DEF Tick, DogTypeOK, Timely
    <3>4. CASE ticker[g] # 1
      BY <1>5, <2>3, <3>1, <3>2, <3>4, <1>a, <1>c DEF Tick, DogTypeOK, Timely
    <3> QED
      BY <3>3, <3>4
  <2>4. CASE wd[g] = "calling"
    <3>1. callAge[g] < Interval /\ since[g] < 4 * Interval + callAge[g]
      BY <2>1, <2>4, <1>a, <1>c DEF Punctual, DogTypeOK, Timely
    <3>2. since'[g] = since[g] + 1
      BY <1>5, <2>4, <3>1, <1>a, <1>c DEF Tick, AtMost, MaxSince, DogTypeOK
    <3>3. callAge'[g] = callAge[g] + 1
      BY <1>5, <2>4, <3>1, <1>a, <1>c DEF Tick, AtMost, DogTypeOK
    <3> QED
      BY <1>5, <2>4, <3>1, <3>2, <3>3, <1>a, <1>c DEF Tick, DogTypeOK, Timely
  <2>5. CASE wd[g] = "waiting"
    <3>1. callAge'[g] = AtMost(callAge[g] + 1, Interval)
      BY <1>5, <2>5, <1>a, <1>c DEF Tick, DogTypeOK
    <3>2. since'[g] = AtMost(since[g] + 1, MaxSince) /\ wd'[g] = "waiting"
      BY <1>5, <2>5, <1>a, <1>c DEF Tick, DogTypeOK
    <3>3. /\ callAge[g] \in 0 .. Interval /\ since[g] \in 0 .. MaxSince
          /\ callAge[g] < Interval => since[g] < Lease + Interval + callAge[g]
      BY <2>5, <1>a, <1>c DEF DogTypeOK, Timely
    <3>4. callAge'[g] < Interval => since'[g] < Lease + Interval + callAge'[g]
      BY <3>1, <3>2, <3>3 DEF AtMost, MaxSince
    <3> QED
      BY <3>2, <3>4 DEF Timely
  <2> QED
    BY <2>2, <2>3, <2>4, <2>5, <1>a, <1>c DEF DogTypeOK
<1> QED
  BY <1>1, <1>2, <1>3, <1>4, <1>5 DEF Next

LEMMA DogInvStep ==
    TypeOK /\ StopMeansLeft /\ IdleHasNoDog /\ NoSilentLoss /\ AllTimely /\ [Next]_vars
        => StopMeansLeft' /\ IdleHasNoDog' /\ NoSilentLoss' /\ AllTimely'
<1>1. CASE Next
  BY <1>1, StopMeansLeftStep, IdleHasNoDogStep, NoSilentLossStep, AllTimelyStep
<1>2. CASE UNCHANGED vars
  BY <1>2
     DEF vars, clientVars, dogVars, StopMeansLeft, IdleHasNoDog, NoSilentLoss,
         AllTimely, Timely
<1> QED
  BY <1>1, <1>2

LEMMA DogInvInit ==
    Init => StopMeansLeft /\ IdleHasNoDog /\ NoSilentLoss /\ AllTimely
BY IntervalAssumption, LockAssumption
   DEF Init, StopMeansLeft, IdleHasNoDog, NoSilentLoss, AllTimely, Timely, Lease

\* Whatever the callers, the network and the scheduler do, no watchdog leaves
\* a holder in the belief that its lock is still being renewed.
THEOREM NoSilentLossAlways == Spec => []NoSilentLoss
BY DogInvInit, DogInvStep, TypeCorrect, PTL DEF Spec

LEMMA TimelyIsInTime == TypeOK /\ AllTimely => LossNoticedInTime
<1> SUFFICES ASSUME TypeOK, AllTimely, NEW h \in Handles \ Pausable
             PROVE  since[h] < Lease + 2 * Interval \/ wd[h] = "waiting"
  BY DEF LossNoticedInTime
<1>1. Timely(h)
  BY DEF AllTimely
<1> QED
  BY <1>1, IntervalAssumption DEF TypeOK, Timely, Lease

\* For every interval, a watchdog whose process runs gives the lock up within
\* two intervals of its lease's end, however slowly or wrongly the server
\* answers, and only the wait for a caller inside innerMu puts that off.
THEOREM LossNoticedInTimeAlways == Spec => []LossNoticedInTime
BY DogInvInit, DogInvStep, TypeCorrect, TimelyIsInTime, PTL DEF Spec

-----------------------------------------------------------------------------
(* FencedLock implements FencedLease.                                      *)

\* No handle goes back to idle, so nobody overwrites the token that a write
\* under way, or the last accepted one, carries.
FenceInv ==
    /\ fenceKey = granted
    /\ \A h \in Handles :
          /\ fence[h] \in {0, tenureOf[h]}
          /\ tenureOf[h] <= granted
          /\ pc[h] = "idle" => h \notin inflight /\ h # writer
    /\ writer = Nobody => lastFence = 0
    /\ writer # Nobody => lastFence = fence[writer] /\ lastFence > 0

FInv == FencedTypeOK /\ OneOwner /\ FenceInv

-----------------------------------------------------------------------------
(* The owner of a key.                                                     *)

LEMMA OwnerIsUnique ==
    ASSUME NEW counts \in [Tokens -> Nat], NEW t \in Tokens, counts[t] > 0,
           \A s \in Tokens : counts[s] > 0 => s = t
    PROVE  OwnerOf(counts) = t
BY DEF OwnerOf, NoKey

\* A key that exists is owned by a token, which is not Nobody.
LEMMA OwnerExists ==
    ASSUME NEW counts \in [Tokens -> Nat], counts # NoKey
    PROVE  OwnerOf(counts) \in Tokens /\ OwnerOf(counts) # Nobody
<1>1. PICK t \in Tokens : counts[t] # 0
  BY DEF NoKey
<1>2. counts[t] > 0
  BY <1>1
<1>3. OwnerOf(counts) \in Tokens
  BY <1>2 DEF OwnerOf
<1> QED
  BY <1>3, FencedAssumption

\* To count holds up or down leaves the owner as it is.
LEMMA RecountKeepsOwner ==
    ASSUME TypeOK, OneOwner, Recounts
    PROVE  OwnerOf(hash') = OwnerOf(hash) /\ hash' # NoKey /\ ~ Free
<1>a. hash \in [Tokens -> Nat]
  BY DEF TypeOK, ServerTypeOK
<1>1. PICK t \in Tokens : /\ Owns(t)
                          /\ hash' = [hash EXCEPT ![t] = hash'[t]]
                          /\ hash'[t] \in Nat \ {0}
  BY DEF Recounts
<1>2. \A s \in Tokens : hash[s] > 0 => s = t
  BY <1>1 DEF OneOwner, Owns
<1>3. hash' \in [Tokens -> Nat] /\ \A s \in Tokens : hash'[s] > 0 => s = t
  BY <1>a, <1>1, <1>2
<1>4. OwnerOf(hash) = t
  BY <1>a, <1>1, <1>2, OwnerIsUnique DEF Owns
<1>5. OwnerOf(hash') = t
  BY <1>1, <1>3, OwnerIsUnique
<1>6. hash' # NoKey /\ ~ Free
  BY <1>1 DEF NoKey, Free, Owns
<1> QED
  BY <1>4, <1>5, <1>6

-----------------------------------------------------------------------------
(* The steps of RedisLock that create a key, and those that do not.        *)

\* A step that acquires counts a tenure exactly if it draws a token.
LEMMA AcquireCounts ==
    ASSUME TypeOK, NEW h \in Handles, AcquireOnServer(h)
    PROVE  /\ hash' # NoKey
           /\ fenceKey' = IF Free THEN fenceKey + 1 ELSE fenceKey
<1>1. ServerTypeOK /\ TokenOf[h] \in Tokens
  BY LockAssumption DEF TypeOK
<1>2. FenceScript(TokenOf[h])
  BY FencedAssumption DEF AcquireOnServer
<1> QED
  BY <1>1, <1>2, AcquireIsKeyStep DEF FenceScript

\* Every other step creates no key, draws no token and enters no tenure.
OtherStep ==
    /\ Free => hash' = NoKey
    /\ fenceKey' = fenceKey
    /\ fence' = fence
    /\ \A h \in Handles : pc[h] = "idle" <=> pc'[h] = "idle"

LEMMA NextIsAcquireOrOther ==
    ASSUME TypeOK, Next
    PROVE  OtherStep \/ \E h \in Handles : TryLock(h) \/ TryLockLost(h)
<1>a. /\ pc \in [Handles -> {"idle", "held", "unlocking", "done", "dead"}]
      /\ hash \in [Tokens -> Nat]
  BY DEF TypeOK, ServerTypeOK
<1>1. ASSUME NEW h \in Handles, ReleaseScript(TokenOf[h])
      PROVE  (Free => hash' = NoKey) /\ fenceKey' = fenceKey
  BY <1>1, LockAssumption DEF ReleaseScript, Free, NoKey, FullRelease, Owns
<1>2. ASSUME NEW h \in Handles, RefreshScript(TokenOf[h])
      PROVE  (Free => hash' = NoKey) /\ fenceKey' = fenceKey
  BY <1>2 DEF RefreshScript, Free
<1>3. ASSUME UNCHANGED server
      PROVE  (Free => hash' = NoKey) /\ fenceKey' = fenceKey
  BY <1>3 DEF server, Free
<1>4. ASSUME NEW h \in Handles, CallerStep(h), ~ TryLock(h), ~ TryLockLost(h)
      PROVE  OtherStep
  <2>1. CASE UnlockBegin(h) \/ CallSend(h) \/ CallEnds(h)
    BY <2>1, <1>a, <1>3 DEF UnlockBegin, CallSend, CallEnds, OtherStep
  <2>2. CASE CallServed(h)
    BY <2>2, <1>1, <1>2 DEF CallServed, CallScript, OtherStep
  <2>3. CASE ForceUnlock(h)
    BY <2>3, <1>a DEF ForceUnlock, DelKey, OtherStep
  <2> QED
    BY <1>4, <2>1, <2>2, <2>3 DEF CallerStep
<1>5. ASSUME NEW h \in Handles, DogStep(h)
      PROVE  OtherStep
  <2>1. CASE DogServed(h)
    BY <2>1, <1>2 DEF DogServed, clientVars, OtherStep
  <2>2. CASE ~ DogServed(h)
    BY <1>5, <2>2, <1>3
       DEF DogStep, DogStop, DogFire, DogGetsMu, DogRenewed, DogLost, DogError,
           DogTooLate, clientVars, OtherStep
  <2> QED
    BY <2>1, <2>2
<1>6. ASSUME NEW h \in Handles, ProcessStep(h)
      PROVE  OtherStep
  BY <1>6, <1>a, <1>3
     DEF ProcessStep, Crash, Pause, Resume, clientVars, OtherStep
<1>7. ASSUME NEW k \in Kinds, NEW h \in Handles, LateRequest(k, h)
      PROVE  OtherStep
  BY <1>7, <1>1, <1>2 DEF LateRequest, Kinds, clientVars, OtherStep
<1>8. CASE Tick
  BY <1>8 DEF Tick, ServerTick, Free, clientVars, OtherStep
<1> QED
  BY <1>4, <1>5, <1>6, <1>7, <1>8 DEF Next

-----------------------------------------------------------------------------
(* The invariant.                                                          *)

LEMMA FInvInit == FencedInit => FInv
<1> SUFFICES ASSUME FencedInit
             PROVE  FInv
  OBVIOUS
<1>1. TypeOK /\ OneOwner
  BY TypeInit DEF FencedInit, Init, ServerInit, OneOwner, Owns, NoKey
<1>2. FencedTypeOK
  BY <1>1 DEF FencedInit, FencedTypeOK
<1>3. FenceInv
  BY FencedAssumption DEF FencedInit, Init, ServerInit, FenceInv
<1> QED
  BY <1>1, <1>2, <1>3 DEF FInv

LEMMA LockStepTypes ==
    ASSUME FInv, LockStep
    PROVE  FencedTypeOK' /\ OneOwner'
<1>1. TypeOK' /\ OneOwner'
  BY TypeStep, OneOwnerStep DEF FInv, FencedTypeOK, LockStep
<1>2. granted' \in Nat
  BY DEF FInv, FencedTypeOK, LockStep, RecordTenure
<1>3. tenureOf' \in [Handles -> Nat]
  BY <1>2 DEF FInv, FencedTypeOK, LockStep, RecordTenure
<1> QED
  BY <1>1, <1>2, <1>3 DEF FInv, FencedTypeOK, LockStep, resourceVars

LEMMA FenceInvLockStep ==
    ASSUME FInv, LockStep
    PROVE  FenceInv'
<1> USE DEF FInv, FencedTypeOK, FenceInv, LockStep, RecordTenure
<1>a. /\ TypeOK
      /\ pc \in [Handles -> {"idle", "held", "unlocking", "done", "dead"}]
      /\ fence \in [Handles -> Nat]
      /\ hash \in [Tokens -> Nat]
  BY DEF TypeOK, ServerTypeOK
<1>b. inflight' = inflight /\ lastFence' = lastFence /\ writer' = writer
  BY DEF resourceVars
<1>1. CASE OtherStep
  <2>1. granted' = granted /\ fenceKey' = granted'
    BY <1>1 DEF OtherStep
  <2>2. \A h \in Handles : tenureOf'[h] = tenureOf[h]
    BY <1>1 DEF OtherStep
  <2> QED
    BY <1>1, <1>b, <2>1, <2>2 DEF OtherStep
<1>2. ASSUME NEW h \in Handles, TryLock(h) \/ TryLockLost(h)
      PROVE  FenceInv'
  <2>1. AcquireOnServer(h) /\ pc[h] = "idle"
    BY <1>2 DEF TryLock, TryLockLost
  <2>2. /\ granted' = IF Free THEN granted + 1 ELSE granted
        /\ fenceKey' = granted'
    BY <2>1, <1>a, AcquireCounts
  <2>3. granted <= granted' /\ granted' \in Nat
    BY <2>2
  <2>4. \A i \in Handles \ {h} : /\ tenureOf'[i] = tenureOf[i]
                                 /\ fence'[i] = fence[i]
                                 /\ pc'[i] = pc[i]
    BY <1>2, <1>a DEF TryLock, NewLock, TryLockLost
  <2>5. fence'[h] \in {0, tenureOf'[h]} /\ tenureOf'[h] <= granted' /\ pc'[h] # "idle"
    <3>1. CASE TryLock(h)
      <4>1. /\ pc'[h] = "held" /\ tenureOf'[h] = granted'
            /\ fence'[h] = IF Free THEN fenceKey + 1 ELSE 0
        BY <3>1, <1>a, FencedAssumption DEF TryLock, NewLock, FenceAnswer
      <4> QED
        BY <4>1, <2>2, <2>3
    <3>2. CASE TryLockLost(h)
      <4>1. pc'[h] = "done" /\ tenureOf'[h] = tenureOf[h] /\ fence'[h] = fence[h]
        BY <3>2, <1>a DEF TryLockLost
      <4> QED
        BY <4>1, <2>3
    <3> QED
      BY <1>2, <3>1, <3>2
  <2>6. \A i \in Handles : /\ fence'[i] \in {0, tenureOf'[i]}
                           /\ tenureOf'[i] <= granted'
                           /\ pc'[i] = "idle" => i \notin inflight /\ i # writer
    BY <2>3, <2>4, <2>5
  <2>7. writer # Nobody => fence'[writer] = fence[writer]
    BY <2>1, <2>4
  <2> QED
    BY <1>b, <2>2, <2>6, <2>7
<1> QED
  BY <1>1, <1>2, <1>a, NextIsAcquireOrOther

LEMMA FInvStep == FInv /\ [FencedNext]_fencedVars => FInv'
<1> SUFFICES ASSUME FInv, [FencedNext]_fencedVars
             PROVE  FInv'
  OBVIOUS
<1>1. CASE LockStep
  BY <1>1, LockStepTypes, FenceInvLockStep DEF FInv
<1>2. ASSUME UNCHANGED vars, UNCHANGED history
      PROVE  TypeOK' /\ OneOwner' /\ granted' = granted /\ tenureOf' = tenureOf
             /\ fenceKey' = fenceKey /\ fence' = fence /\ pc' = pc
  BY <1>2, TypeStep, OneOwnerStep
     DEF FInv, FencedTypeOK, history, vars, server, clientVars
<1>3. ASSUME NEW h \in Handles, SendWrite(h)
      PROVE  FInv'
  BY <1>2, <1>3 DEF SendWrite, FInv, FencedTypeOK, FenceInv
<1>4. ASSUME NEW h \in Handles, ArriveWrite(h)
      PROVE  FInv'
  <2>1. CASE fence[h] > lastFence
    <3>1. h \in inflight /\ pc[h] # "idle" /\ h # Nobody /\ fence[h] > 0
      BY <1>4, <2>1, FencedAssumption
         DEF ArriveWrite, FInv, FenceInv, FencedTypeOK, TypeOK
    <3> QED
      BY <1>2, <1>4, <2>1, <3>1
         DEF ArriveWrite, FenceAccepted, FInv, FencedTypeOK, FenceInv
  <2>2. CASE ~ (fence[h] > lastFence)
    BY <1>2, <1>4, <2>2
       DEF ArriveWrite, FenceAccepted, FInv, FencedTypeOK, FenceInv
  <2> QED
    BY <2>1, <2>2
<1>5. CASE UNCHANGED fencedVars
  BY <1>2, <1>5 DEF fencedVars, resourceVars, FInv, FencedTypeOK, FenceInv
<1> QED
  BY <1>1, <1>3, <1>4, <1>5 DEF FencedNext

\* The lock, the resource and the history are well formed in every state.
THEOREM FencedTypeCorrect == FencedSpec => []FencedTypeOK
BY FInvInit, FInvStep, PTL DEF FencedSpec, FInv

-----------------------------------------------------------------------------
(* The refinement.                                                         *)

LEMMA LockStepRefines ==
    ASSUME FInv, LockStep
    PROVE  Promise!Grant \/ Promise!End \/ UNCHANGED Promise!leaseVars
<1>a. hash \in [Tokens -> Nat] /\ hash' \in [Tokens -> Nat] /\ TypeOK /\ OneOwner
  BY LockStepTypes DEF FInv, FencedTypeOK, TypeOK, ServerTypeOK
<1>b. /\ writer' = writer
      /\ granted' = IF Free /\ hash' # NoKey THEN granted + 1 ELSE granted
  BY DEF LockStep, RecordTenure, resourceVars
<1>c. writer # Nobody => tenureOf'[writer] = tenureOf[writer]
  BY DEF LockStep, RecordTenure, FInv, FencedTypeOK, FenceInv
<1> DEFINE Written == IF writer = Nobody THEN 0 ELSE tenureOf[writer]
<1>d. Written' = Written
  BY <1>b, <1>c
<1>e. OwnerOf(NoKey) = Nobody
  BY DEF OwnerOf
<1>1. CASE Keeps
  BY <1>1, <1>b, <1>d DEF Keeps, Free, Promise!leaseVars
<1>2. CASE Deletes
  <2>1. CASE Free
    BY <1>2, <2>1, <1>b, <1>d DEF Deletes, Free, Promise!leaseVars
  <2>2. CASE ~ Free
    BY <1>2, <2>2, <1>a, <1>b, <1>d, <1>e, OwnerExists
       DEF Deletes, Free, Promise!End
  <2> QED
    BY <2>1, <2>2
<1>3. CASE Recounts
  BY <1>3, <1>a, <1>b, <1>d, RecountKeepsOwner DEF Promise!leaseVars
<1>4. CASE Creates
  <2>1. Free /\ hash' # NoKey
    BY <1>4 DEF Creates, Free, NoKey
  <2> QED
    BY <2>1, <1>a, <1>b, <1>d, <1>e, OwnerExists DEF Free, Promise!Grant
<1> QED
  BY <1>1, <1>2, <1>3, <1>4, NextIsKeyStep, <1>a DEF LockStep, KeyStep

LEMMA WriteRefines ==
    ASSUME FInv, NEW h \in Handles, ArriveWrite(h)
    PROVE  Promise!Write \/ UNCHANGED Promise!leaseVars
<1>1. hash' = hash /\ granted' = granted /\ tenureOf' = tenureOf
  BY DEF ArriveWrite, vars, server, history
<1>2. CASE ~ (fence[h] > lastFence)
  BY <1>1, <1>2 DEF ArriveWrite, FenceAccepted, Promise!leaseVars
<1>3. CASE fence[h] > lastFence
  <2>1. writer' = h /\ h # Nobody
    BY <1>3, FencedAssumption DEF ArriveWrite, FenceAccepted
  <2>2. fence[h] = tenureOf[h] /\ tenureOf[h] \in lastFence + 1 .. granted
    BY <1>3 DEF FInv, FencedTypeOK, FenceInv, TypeOK
  <2>3. (IF writer = Nobody THEN 0 ELSE tenureOf[writer]) = lastFence
    BY DEF FInv, FencedTypeOK, FenceInv
  <2> QED
    BY <1>1, <2>1, <2>2, <2>3 DEF Promise!Write
<1> QED
  BY <1>2, <1>3

\* FencedLock implements FencedLease: for every number of handles and every
\* sharing of tokens, with requests lost or late and processes suspended or
\* dead, the writes that take effect do so in the order of their tenures.
THEOREM WritesInTenureOrder == FencedSpec => PromiseKept
<1>1. FencedInit => Promise!LeaseInit
  BY DEF FencedInit, Init, ServerInit, OwnerOf, Promise!LeaseInit
<1>2. FInv /\ [FencedNext]_fencedVars => [Promise!LeaseNext]_Promise!leaseVars
  <2> SUFFICES ASSUME FInv, [FencedNext]_fencedVars
               PROVE  [Promise!LeaseNext]_Promise!leaseVars
    OBVIOUS
  <2>1. CASE LockStep
    BY <2>1, LockStepRefines DEF Promise!LeaseNext
  <2>2. ASSUME NEW h \in Handles, SendWrite(h)
        PROVE  UNCHANGED Promise!leaseVars
    BY <2>2 DEF SendWrite, vars, server, history, Promise!leaseVars
  <2>3. ASSUME NEW h \in Handles, ArriveWrite(h)
        PROVE  [Promise!LeaseNext]_Promise!leaseVars
    BY <2>3, WriteRefines DEF Promise!LeaseNext
  <2>4. CASE UNCHANGED fencedVars
    BY <2>4 DEF fencedVars, vars, server, resourceVars, history, Promise!leaseVars
  <2> QED
    BY <2>1, <2>2, <2>3, <2>4 DEF FencedNext
<1> QED
  BY <1>1, <1>2, FInvInit, FInvStep, PTL DEF FencedSpec, PromiseKept, Promise!LeaseSpec
=============================================================================
