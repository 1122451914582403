------------------------ MODULE BlockingAcquireProofs ------------------------
(***************************************************************************)
(* Proofs about BlockingAcquire for every set of callers, with and without *)
(* a WaitTime and any polling interval: no wake-up is lost, the state      *)
(* keeps its types, and, when no two callers share a token and the clocks  *)
(* differ by less than two intervals, a fair lock is given in the order of *)
(* the queue, which nobody loses his place in before he leaves it.         *)
(***************************************************************************)
EXTENDS BlockingAcquire, FiniteSetTheorems, WellFoundedInduction, TLAPS

\* Who polls is subscribed or has sent its SUBSCRIBE: Begin does so before the
\* first attempt, and only a return unsubscribes.
Subscribed ==
    \A w \in Waiters :
        \/ pc[w] = "sleeping"
        \/ pc[w] = "trying" /\ w \notin Once
        => w \in asking \union subscribed

\* owed speaks of a free plain key, and nothing but TryTakes takes it.
FreedIsFree == owed # {} => Free /\ ~ fair

WakeShape ==
    /\ fair \in BOOLEAN
    /\ hash \in [Tokens -> Nat]
    /\ pc \in [Waiters -> Pcs]
    /\ owed \subseteq Waiters

WakeInv == WakeShape /\ Subscribed /\ FreedIsFree /\ NoLostWakeup

-----------------------------------------------------------------------------
(* The shape of the variables the argument speaks of.                      *)

LEMMA ScriptsKeepHash ==
    ASSUME hash \in [Tokens -> Nat], NEW t \in Tokens,
           \/ AcquireScript(t) \/ ReleaseScript(t) \/ RefreshScript(t) \/ ServerTick
    PROVE  hash' \in [Tokens -> Nat]
<1>1. CASE ReleaseScript(t)
  <2>1. Owns(t) => hash[t] - 1 \in Nat
    BY DEF Owns
  <2> QED
    BY <1>1, <2>1 DEF ReleaseScript, NoKey
<1>2. CASE AcquireScript(t) \/ RefreshScript(t) \/ ServerTick
  BY <1>2 DEF AcquireScript, RefreshScript, ServerTick, NoKey
<1> QED
  BY <1>1, <1>2

LEMMA ShapeStep ==
    ASSUME WakeShape, Next
    PROVE  WakeShape'
<1> USE DEF WakeShape, Pcs
<1>a. \A w \in Waiters : TokenOf[w] \in Tokens
  BY WaitAssumption
<1>1. ASSUME NEW w \in Waiters, Take(w)
      PROVE  hash' \in [Tokens -> Nat] /\ fair' = fair
  BY <1>1, <1>a, ScriptsKeepHash DEF Take, FairTake, queueVars
<1>2. ASSUME NEW w \in Waiters, Busy(w)
      PROVE  hash' = hash /\ fair' = fair
  BY <1>2 DEF Busy, FairQueue, server, queueVars
<1>3. ASSUME NEW w \in Waiters,
             NEW where \in {"held", "leaving", "gone", "dead"}, Return(w, where)
      PROVE  pc' \in [Waiters -> Pcs]
  BY <1>3 DEF Return
<1>4. ASSUME NEW w \in Waiters, GiveUp(w)
      PROVE  pc' \in [Waiters -> Pcs]
  BY <1>3, <1>4 DEF GiveUp
<1>5. ASSUME NEW w \in Waiters, TryTakes(w) \/ TryFails(w)
      PROVE  WakeShape'
  BY <1>1, <1>2, <1>3, <1>5 DEF TryTakes, TryFails, server, queueVars
<1>6. ASSUME NEW w \in Waiters, TryWaits(w)
      PROVE  WakeShape'
  BY <1>2, <1>4, <1>6 DEF TryWaits
<1>7. ASSUME NEW w \in Waiters,
             \/ Begin(w) \/ SubscribeArrives(w) \/ WakeByMessage(w) \/ WakeByTimer(w)
             \/ Restart(w) \/ Renew(w)
      PROVE  WakeShape'
  BY <1>7, <1>a, ScriptsKeepHash
     DEF Begin, SubscribeArrives, WakeByMessage, WakeByTimer, Restart, Renew, server, queueVars, waitVars
<1>8. ASSUME NEW w \in Waiters, Cancel(w) \/ Crash(w)
      PROVE  WakeShape'
  BY <1>3, <1>4, <1>8 DEF Cancel, Crash, server, queueVars
<1>9. ASSUME NEW w \in Waiters, Leave(w)
      PROVE  WakeShape'
  BY <1>9 DEF Leave, FairCancel, server, queueVars
<1>10. ASSUME NEW w \in Waiters, Unlock(w)
       PROVE  WakeShape'
  BY <1>10, <1>a, ScriptsKeepHash DEF Unlock, Publish, queueVars
<1>11. CASE Tick
  <2>1. hash' \in [Tokens -> Nat]
    BY <1>11 DEF Tick, ServerTick, NoKey
  <2> QED
    BY <1>11, <2>1 DEF Tick
<1> QED
  BY <1>5, <1>6, <1>7, <1>8, <1>9, <1>10, <1>11 DEF Next, CallerStep

-----------------------------------------------------------------------------
(* The steps.                                                              *)

\* What a caller's return leaves of the invariant.
LEMMA ReturnKeeps ==
    ASSUME WakeInv, NEW w \in Waiters,
           NEW where \in {"held", "leaving", "gone", "dead"}, Return(w, where)
    PROVE  /\ Subscribed'
           /\ \A v \in Waiters :
                 pc'[v] = "sleeping" => pc[v] = "sleeping" /\ (v \in message => v \in message')
BY DEF WakeInv, WakeShape, Return, Subscribed

LEMMA TakesKeeps ==
    ASSUME WakeInv, NEW w \in Waiters, TryTakes(w)
    PROVE  Subscribed' /\ FreedIsFree' /\ NoLostWakeup'
<1>1. Subscribed'
  BY ReturnKeeps DEF TryTakes
<1>2. owed' = {}
  BY DEF TryTakes
<1> QED
  BY <1>1, <1>2 DEF FreedIsFree, NoLostWakeup

\* Who goes to sleep on a plain lock has found it owned.
LEMMA WaitsKeeps ==
    ASSUME WakeInv, NEW w \in Waiters, TryWaits(w)
    PROVE  Subscribed' /\ FreedIsFree' /\ NoLostWakeup'
<1> USE DEF WakeInv, WakeShape
<1>1. UNCHANGED <<hash, fair, owed>>
  BY DEF TryWaits, Busy, FairQueue, server, queueVars
<1>2. FreedIsFree'
  BY <1>1 DEF FreedIsFree, Free, NoKey
<1>3. CASE w \in Once \/ BlockWait(w) = 0
  <2>1. Return(w, IF fair THEN "leaving" ELSE "gone")
    BY <1>3 DEF TryWaits, GiveUp
  <2>2. Subscribed' /\ \A v \in Waiters :
            pc'[v] = "sleeping" => pc[v] = "sleeping" /\ (v \in message => v \in message')
    BY <2>1, ReturnKeeps
  <2> QED
    BY <1>1, <1>2, <2>2 DEF NoLostWakeup, Free, NoKey, Lossy
<1>4. CASE ~ (w \in Once \/ BlockWait(w) = 0)
  <2>1. /\ pc[w] = "trying" /\ pc' = [pc EXCEPT ![w] = "sleeping"]
        /\ UNCHANGED <<asking, subscribed, message>>
    BY <1>4 DEF TryWaits
  <2>2. Subscribed'
    BY <1>4, <2>1 DEF Subscribed
  <2>3. fair \/ ~ Free
    BY DEF TryWaits, Succeeds, Acquirable
  <2>4. NoLostWakeup'
    BY <1>1, <2>1, <2>3 DEF NoLostWakeup, FreedIsFree, Free, NoKey, Lossy
  <2> QED
    BY <1>2, <2>2, <2>4
<1> QED
  BY <1>3, <1>4

LEMMA FailsKeeps ==
    ASSUME WakeInv, NEW w \in Waiters, TryFails(w)
    PROVE  Subscribed' /\ FreedIsFree' /\ NoLostWakeup'
<1>1. Subscribed' /\ \A v \in Waiters :
          pc'[v] = "sleeping" => pc[v] = "sleeping" /\ (v \in message => v \in message')
  BY ReturnKeeps DEF TryFails
<1>2. CASE owed' = {}
  BY <1>1, <1>2 DEF FreedIsFree, NoLostWakeup
<1>3. CASE UNCHANGED <<hash, fair, owed>>
  BY <1>1, <1>3 DEF WakeInv, FreedIsFree, NoLostWakeup, Free, NoKey, Lossy
<1> QED
  BY <1>2, <1>3 DEF TryFails, Busy, FairQueue, server, queueVars

\* Steps that neither touch the key nor let anybody sleep.
LEMMA QuietKeeps ==
    ASSUME WakeInv, NEW w \in Waiters,
           \/ Begin(w) \/ SubscribeArrives(w) \/ WakeByMessage(w) \/ WakeByTimer(w)
           \/ Cancel(w) \/ Leave(w) \/ Crash(w) \/ Restart(w) \/ Renew(w)
    PROVE  Subscribed' /\ FreedIsFree' /\ NoLostWakeup'
<1> USE DEF WakeInv, WakeShape
<1>1. UNCHANGED <<hash, fair, owed>>
  BY DEF Begin, SubscribeArrives, WakeByMessage, WakeByTimer, Cancel, Leave, FairCancel, Crash,
         Restart, Renew, RefreshScript, server, queueVars
<1>2. FreedIsFree'
  BY <1>1 DEF FreedIsFree, Free, NoKey
<1>3. Subscribed' /\ \A v \in Waiters :
          pc'[v] = "sleeping" => pc[v] = "sleeping" /\ (v \in message => v \in message')
  <2>1. CASE Begin(w) \/ SubscribeArrives(w)
    BY <2>1 DEF Begin, SubscribeArrives, Subscribed
  <2>2. CASE WakeByMessage(w) \/ WakeByTimer(w)
    BY <2>2 DEF WakeByMessage, WakeByTimer, Subscribed
  <2>3. CASE Cancel(w) \/ Crash(w)
    BY <2>3, ReturnKeeps DEF Cancel, GiveUp, Crash
  <2>4. CASE Leave(w) \/ Restart(w)
    BY <2>4 DEF Leave, Restart, Subscribed
  <2>5. CASE Renew(w)
    BY <2>5 DEF Renew, waitVars, Subscribed
  <2> QED
    BY <2>1, <2>2, <2>3, <2>4, <2>5
<1>4. NoLostWakeup'
  BY <1>1, <1>3 DEF NoLostWakeup, Free, NoKey, Lossy
<1> QED
  BY <1>2, <1>3, <1>4

\* A release reaches every caller that is subscribed, so all that sleep and
\* whose SUBSCRIBE is not under way.
LEMMA UnlockKeeps ==
    ASSUME WakeInv, NEW w \in Waiters, Unlock(w)
    PROVE  Subscribed' /\ FreedIsFree' /\ NoLostWakeup'
<1> USE DEF WakeInv, WakeShape
<1> DEFINE t == TokenOf[w]
<1>1. /\ pc' = [pc EXCEPT ![w] = "gone"]
      /\ UNCHANGED <<fair, asking, subscribed>>
      /\ ReleaseScript(t) /\ Publish(t) /\ t \in Tokens
  BY WaitAssumption DEF Unlock, queueVars
<1>2. Subscribed'
  BY <1>1 DEF Subscribed
<1>3. CASE FullRelease(t)
  <2>1. hash' = NoKey
    BY <1>1, <1>3 DEF ReleaseScript
  <2>2. FreedIsFree'
    BY <1>1, <1>3, <2>1 DEF FreedIsFree, Free, NoKey, Publish
  <2>3. /\ ~ Lossy => message' = message \union subscribed
        /\ \A v \in owed' : v \notin asking
    BY <1>1, <1>3 DEF Publish
  <2>4. NoLostWakeup'
    BY <1>1, <1>2, <2>3 DEF NoLostWakeup, Subscribed, Lossy
  <2> QED
    BY <1>2, <2>2, <2>4
<1>4. CASE ~ FullRelease(t)
  <2>1. UNCHANGED <<message, owed>>
    BY <1>1, <1>4 DEF Publish
  <2>2. owed # {} => hash' = hash
    <3>1. Free => ~ Owns(t)
      BY <1>1 DEF Free, NoKey, Owns
    <3> QED
      BY <1>1, <1>4, <3>1 DEF ReleaseScript, FreedIsFree
  <2>3. FreedIsFree'
    BY <1>1, <2>1, <2>2 DEF FreedIsFree, Free, NoKey
  <2>4. \A v \in Waiters : pc'[v] = "sleeping" => pc[v] = "sleeping"
    BY <1>1
  <2>5. NoLostWakeup'
    BY <1>1, <2>1, <2>2, <2>4 DEF NoLostWakeup, FreedIsFree, Free, NoKey, Lossy
  <2> QED
    BY <1>2, <2>3, <2>5
<1> QED
  BY <1>3, <1>4

\* A lease that runs out frees the key, but that is no release.
LEMMA TickKeeps ==
    ASSUME WakeInv, Tick
    PROVE  Subscribed' /\ FreedIsFree' /\ NoLostWakeup'
<1> USE DEF WakeInv, WakeShape
<1>1. UNCHANGED <<fair, pc, asking, subscribed, message, owed>>
  BY DEF Tick
<1>2. hash' \in {hash, NoKey}
  BY DEF Tick, ServerTick
<1>3. Subscribed'
  BY <1>1 DEF Subscribed
<1>4. FreedIsFree'
  BY <1>1, <1>2 DEF FreedIsFree, Free, NoKey
<1>5. NoLostWakeup'
  BY <1>1 DEF NoLostWakeup, FreedIsFree, Lossy
<1> QED
  BY <1>3, <1>4, <1>5

LEMMA WakeStep == WakeInv /\ [Next]_vars => WakeInv'
<1>1. ASSUME WakeInv, Next
      PROVE  WakeInv'
  <2>1. WakeShape'
    BY <1>1, ShapeStep DEF WakeInv
  <2>2. ASSUME NEW w \in Waiters, TryTakes(w) \/ TryWaits(w) \/ TryFails(w) \/ Unlock(w)
        PROVE  Subscribed' /\ FreedIsFree' /\ NoLostWakeup'
    BY <1>1, <2>2, TakesKeeps, WaitsKeeps, FailsKeeps, UnlockKeeps
  <2>3. ASSUME NEW w \in Waiters,
               \/ Begin(w) \/ SubscribeArrives(w) \/ WakeByMessage(w)
               \/ WakeByTimer(w) \/ Cancel(w) \/ Leave(w) \/ Crash(w) \/ Restart(w)
               \/ Renew(w)
        PROVE  Subscribed' /\ FreedIsFree' /\ NoLostWakeup'
    BY <1>1, <2>3, QuietKeeps
  <2>4. Subscribed' /\ FreedIsFree' /\ NoLostWakeup'
    BY <1>1, <2>2, <2>3, TickKeeps DEF Next, CallerStep
  <2> QED
    BY <2>1, <2>4 DEF WakeInv
<1>2. ASSUME WakeInv, UNCHANGED vars
      PROVE  WakeInv'
  BY <1>2
     DEF vars, server, queueVars, waitVars, WakeInv, WakeShape, Subscribed,
         FreedIsFree, Free, NoKey, NoLostWakeup, Lossy
<1> QED
  BY <1>1, <1>2

\* Nobody sleeps through the release of a plain lock once Redis has got its
\* SUBSCRIBE: for any number of callers that come, time out, are cancelled, die
\* and come back.
THEOREM NoWakeupIsLost == Spec => []NoLostWakeup
<1>1. ASSUME Init
      PROVE  WakeInv
  <2>1. fair \in BOOLEAN /\ owed = {}
    BY <1>1, WaitAssumption DEF Init
  <2>2. hash \in [Tokens -> Nat]
    BY <1>1 DEF Init, ServerInit, NoKey
  <2>3. pc = [w \in Waiters |-> "idle"]
    BY <1>1 DEF Init
  <2> QED
    BY <2>1, <2>2, <2>3
       DEF WakeInv, WakeShape, Pcs, Subscribed, FreedIsFree, NoLostWakeup
<1>2. WakeInv => NoLostWakeup
  BY DEF WakeInv
<1> QED
  BY <1>1, <1>2, WakeStep, PTL DEF Spec

-----------------------------------------------------------------------------
(* Sequences: the queue of tokens, and the line of callers.                *)

Before(s, x, y) == \E i, j \in DOMAIN s : i < j /\ s[i] = x /\ s[j] = y

LEMMA Entries ==
    ASSUME NEW T, NEW s \in Seq(T)
    PROVE  Len(s) \in Nat /\ DOMAIN s = 1 .. Len(s) /\ \A i \in 1 .. Len(s) : s[i] \in T
  OBVIOUS

LEMMA Joined ==
    ASSUME NEW T, NEW s \in Seq(T), NEW t \in Seq(T)
    PROVE  /\ s \o t \in Seq(T) /\ Len(s \o t) = Len(s) + Len(t)
           /\ \A i \in 1 .. Len(s) + Len(t) :
                 (s \o t)[i] = IF i <= Len(s) THEN s[i] ELSE t[i - Len(s)]
  OBVIOUS

\* A sequence without its first d entries.
LEMMA Shifted ==
    ASSUME NEW T, NEW s \in Seq(T), IsInjective(s), NEW d \in 0 .. Len(s),
           NEW r \in Seq(T), Len(r) = Len(s) - d, \A i \in 1 .. Len(s) - d : r[i] = s[i + d]
    PROVE  /\ IsInjective(r)
           /\ Range(r) = Range(s) \ {s[i] : i \in 1 .. d}
           /\ \A x, y : Before(s, x, y) /\ (\A i \in 1 .. d : s[i] # x) => Before(r, x, y)
<1>1. /\ Len(s) \in Nat /\ DOMAIN s = 1 .. Len(s) /\ d \in Nat /\ d <= Len(s)
      /\ DOMAIN r = 1 .. Len(s) - d
  BY Entries
<1>2. \A i, j \in 1 .. Len(s) : s[i] = s[j] => i = j
  BY <1>1 DEF IsInjective
<1>3. \A i \in 1 .. Len(s) - d : i + d \in 1 .. Len(s) /\ ~ (i + d \in 1 .. d) /\ r[i] = s[i + d]
  BY <1>1
<1>4. \A i \in 1 .. Len(s) : i \notin 1 .. d => i - d \in 1 .. Len(s) - d /\ r[i - d] = s[i]
  <2>1. ASSUME NEW i \in 1 .. Len(s), i \notin 1 .. d
        PROVE  i - d \in 1 .. Len(s) - d /\ (i - d) + d = i
    BY <1>1, <2>1
  <2> QED
    BY <2>1
<1>5. IsInjective(r)
  <2>1. \A i, j \in 1 .. Len(s) - d : i + d = j + d => i = j
    BY <1>1
  <2> QED
    BY <1>1, <1>2, <1>3, <2>1 DEF IsInjective
<1>6. Range(r) = Range(s) \ {s[i] : i \in 1 .. d}
  <2>1. ASSUME NEW x \in Range(r)
        PROVE  x \in Range(s) \ {s[i] : i \in 1 .. d}
    <3>1. PICK i \in 1 .. Len(s) - d : x = r[i]
      BY <1>1, <2>1 DEF Range
    <3>2. x = s[i + d] /\ i + d \in 1 .. Len(s) /\ i + d \notin 1 .. d
      BY <1>3, <3>1
    <3>3. \A j \in 1 .. d : j \in 1 .. Len(s) /\ s[j] # x
      BY <1>1, <1>2, <3>2
    <3> QED
      BY <1>1, <3>2, <3>3 DEF Range
  <2>2. ASSUME NEW x \in Range(s), x \notin {s[i] : i \in 1 .. d}
        PROVE  x \in Range(r)
    <3>1. PICK i \in 1 .. Len(s) : x = s[i]
      BY <1>1, <2>2 DEF Range
    <3>2. i \notin 1 .. d
      BY <2>2, <3>1
    <3> QED
      BY <1>1, <1>4, <3>1, <3>2 DEF Range
  <2> QED
    BY <2>1, <2>2
<1>7. ASSUME NEW x, NEW y, Before(s, x, y), \A i \in 1 .. d : s[i] # x
      PROVE  Before(r, x, y)
  <2>1. PICK i \in 1 .. Len(s), j \in 1 .. Len(s) : i < j /\ s[i] = x /\ s[j] = y
    BY <1>1, <1>7 DEF Before
  <2>2. i \notin 1 .. d /\ j \notin 1 .. d
    BY <1>1, <1>7, <2>1
  <2>3. i - d \in 1 .. Len(s) - d /\ r[i - d] = x /\ j - d \in 1 .. Len(s) - d /\ r[j - d] = y
    BY <1>4, <2>1, <2>2
  <2>4. i - d < j - d
    BY <1>1, <2>1
  <2> QED
    BY <1>1, <2>3, <2>4 DEF Before
<1> QED
  BY <1>5, <1>6, <1>7

LEMMA Dropped ==
    ASSUME NEW T, NEW s \in Seq(T), NEW d \in 0 .. Len(s)
    PROVE  /\ SubSeq(s, d + 1, Len(s)) \in Seq(T)
           /\ Len(SubSeq(s, d + 1, Len(s))) = Len(s) - d
           /\ \A i \in 1 .. Len(s) - d : SubSeq(s, d + 1, Len(s))[i] = s[i + d]
           /\ Range(SubSeq(s, 1, d)) = {s[i] : i \in 1 .. d}
<1>1. Len(s) \in Nat /\ d \in Nat /\ d <= Len(s)
  BY Entries
<1>2. SubSeq(s, d + 1, Len(s)) \in Seq(T) /\ Len(SubSeq(s, d + 1, Len(s))) = Len(s) - d
  BY <1>1
<1>3. ASSUME NEW i \in 1 .. Len(s) - d
      PROVE  SubSeq(s, d + 1, Len(s))[i] = s[i + d]
  BY <1>1
<1>4. DOMAIN SubSeq(s, 1, d) = 1 .. d /\ \A i \in 1 .. d : SubSeq(s, 1, d)[i] = s[i]
  BY <1>1
<1> QED
  BY <1>2, <1>3, <1>4 DEF Range

\* A sequence without one of its elements.
LEMMA Removed ==
    ASSUME NEW T, NEW s \in Seq(T), IsInjective(s), NEW e
    PROVE  /\ RemoveFirst(s, e) \in Seq(T)
           /\ IsInjective(RemoveFirst(s, e))
           /\ Range(RemoveFirst(s, e)) = Range(s) \ {e}
           /\ \A x, y : Before(RemoveFirst(s, e), x, y) <=> Before(s, x, y) /\ x # e /\ y # e
<1>1. Len(s) \in Nat /\ DOMAIN s = 1 .. Len(s) /\ \A i \in 1 .. Len(s) : s[i] \in T
  BY Entries
<1>2. CASE e \notin Range(s)
  <2>1. ~ \E i \in 1 .. Len(s) : s[i] = e
    BY <1>1, <1>2 DEF Range
  <2>2. RemoveFirst(s, e) = s
    BY <2>1 DEF RemoveFirst
  <2> QED
    BY <1>1, <1>2, <2>1, <2>2 DEF Before
<1>3. CASE e \in Range(s)
  <2>1. PICK k \in 1 .. Len(s) : s[k] = e
    BY <1>1, <1>3 DEF Range
  <2>2. \A i \in 1 .. Len(s) : s[i] = e <=> i = k
    BY <1>1, <2>1 DEF IsInjective
  <2>3. {i \in 1 .. Len(s) : s[i] = e} = {k}
    BY <2>2
  <2>4. Min({k}) = k
    BY <2>1 DEF Min
  <2>5. SelectInSeq(s, LAMBDA v : v = e) = k
    BY <2>3, <2>4 DEF SelectInSeq
  <2>6. RemoveFirst(s, e) = SubSeq(s, 1, k - 1) \o SubSeq(s, k + 1, Len(s))
    BY <2>1, <2>5 DEF RemoveFirst, RemoveAt
  <2>7. PICK r : r = RemoveFirst(s, e)
    OBVIOUS
  <2>8. /\ SubSeq(s, 1, k - 1) \in Seq(T) /\ Len(SubSeq(s, 1, k - 1)) = k - 1
        /\ \A i \in 1 .. k - 1 : SubSeq(s, 1, k - 1)[i] = s[i]
    BY <1>1, <2>1
  <2>9. /\ SubSeq(s, k + 1, Len(s)) \in Seq(T) /\ Len(SubSeq(s, k + 1, Len(s))) = Len(s) - k
        /\ \A i \in 1 .. Len(s) - k : SubSeq(s, k + 1, Len(s))[i] = s[i + k]
    <3>1. k \in 0 .. Len(s)
      BY <1>1, <2>1
    <3> QED
      BY <3>1, Dropped
  <2>10. PICK before \in Seq(T), after \in Seq(T) :
             before = SubSeq(s, 1, k - 1) /\ after = SubSeq(s, k + 1, Len(s))
    BY <2>8, <2>9
  <2>11. r \in Seq(T) /\ Len(r) = Len(s) - 1
         /\ \A i \in 1 .. Len(s) - 1 : r[i] = IF i < k THEN s[i] ELSE s[i + 1]
    <3>1. Len(before) = k - 1 /\ Len(after) = Len(s) - k /\ r = before \o after
      BY <2>6, <2>7, <2>8, <2>9, <2>10
    <3>2. Len(before) + Len(after) = Len(s) - 1
      BY <1>1, <2>1, <3>1
    <3>3. r \in Seq(T) /\ Len(r) = Len(s) - 1
          /\ \A i \in 1 .. Len(s) - 1 : r[i] = IF i <= Len(before) THEN before[i]
                                               ELSE after[i - Len(before)]
      <4>1. /\ before \o after \in Seq(T)
            /\ Len(before \o after) = Len(before) + Len(after)
            /\ \A i \in 1 .. Len(before) + Len(after) :
                  (before \o after)[i] = IF i <= Len(before) THEN before[i]
                                         ELSE after[i - Len(before)]
        BY Joined
      <4> QED
        BY <3>1, <3>2, <4>1
    <3>4. ASSUME NEW i \in 1 .. Len(s) - 1
          PROVE  r[i] = IF i < k THEN s[i] ELSE s[i + 1]
      <4>1. CASE i < k
        <5>1. i \in 1 .. k - 1 /\ i <= Len(before)
          BY <1>1, <2>1, <3>1, <4>1
        <5> QED
          BY <2>8, <2>10, <3>3, <4>1, <5>1
      <4>2. CASE ~ (i < k)
        <5>1. ~ (i <= Len(before)) /\ i - (k - 1) \in 1 .. Len(s) - k
              /\ (i - (k - 1)) + k = i + 1
          BY <1>1, <2>1, <3>1, <4>2
        <5>2. r[i] = after[i - (k - 1)]
          BY <3>1, <3>3, <5>1
        <5> QED
          BY <2>9, <2>10, <4>2, <5>1, <5>2
      <4> QED
        BY <4>1, <4>2
    <3> QED
      BY <3>3, <3>4
  <2>12. DOMAIN r = 1 .. Len(s) - 1
    BY <2>11, Entries
\* Where an entry comes from, and where it goes.
  <2> DEFINE from(i) == IF i < k THEN i ELSE i + 1
             to(i) == IF i < k THEN i ELSE i - 1
  <2>13. \A i \in 1 .. Len(s) - 1 :
             from(i) \in 1 .. Len(s) /\ from(i) # k /\ r[i] = s[from(i)]
    BY <1>1, <2>1, <2>11
  <2>14. \A i \in 1 .. Len(s) : i # k => to(i) \in 1 .. Len(s) - 1 /\ r[to(i)] = s[i]
    <3>1. \A i \in 1 .. Len(s) : i # k => to(i) \in 1 .. Len(s) - 1 /\ from(to(i)) = i
      BY <1>1, <2>1
    <3> QED
      BY <2>13, <3>1
  <2>15. \A i, j \in 1 .. Len(s) - 1 : i < j <=> from(i) < from(j)
    BY <1>1, <2>1
  <2>16. \A i, j \in 1 .. Len(s) : i # k /\ j # k => (i < j <=> to(i) < to(j))
    BY <1>1, <2>1
  <2>17. \A i, j \in 1 .. Len(s) - 1 : from(i) = from(j) => i = j
    BY <1>1, <2>1
  <2> HIDE DEF from, to
  <2>18. IsInjective(r)
    BY <1>1, <2>12, <2>13, <2>17 DEF IsInjective
  <2>19. Range(r) = Range(s) \ {e}
    <3>1. \A x \in Range(r) : x \in Range(s) /\ x # e
      BY <1>1, <2>2, <2>12, <2>13 DEF Range
    <3>2. \A x \in Range(s) : x # e => x \in Range(r)
      BY <1>1, <2>2, <2>12, <2>14 DEF Range
    <3> QED
      BY <3>1, <3>2
  <2>20. ASSUME NEW x, NEW y
         PROVE  Before(r, x, y) <=> Before(s, x, y) /\ x # e /\ y # e
    <3>1. ASSUME Before(r, x, y)
          PROVE  Before(s, x, y) /\ x # e /\ y # e
      <4>1. PICK i \in 1 .. Len(s) - 1, j \in 1 .. Len(s) - 1 : i < j /\ r[i] = x /\ r[j] = y
        BY <2>12, <3>1 DEF Before
      <4>2. from(i) < from(j) /\ s[from(i)] = x /\ s[from(j)] = y
            /\ from(i) \in 1 .. Len(s) /\ from(j) \in 1 .. Len(s)
        BY <2>13, <2>15, <4>1
      <4>3. x # e /\ y # e
        BY <2>2, <2>13, <4>1
      <4> QED
        BY <1>1, <4>2, <4>3 DEF Before
    <3>2. ASSUME Before(s, x, y), x # e, y # e
          PROVE  Before(r, x, y)
      <4>1. PICK i \in 1 .. Len(s), j \in 1 .. Len(s) : i < j /\ s[i] = x /\ s[j] = y
        BY <1>1, <3>2 DEF Before
      <4>2. i # k /\ j # k
        BY <2>2, <3>2, <4>1
      <4>3. to(i) < to(j) /\ r[to(i)] = x /\ r[to(j)] = y
            /\ to(i) \in 1 .. Len(s) - 1 /\ to(j) \in 1 .. Len(s) - 1
        BY <2>14, <2>16, <4>1, <4>2
      <4> QED
        BY <2>12, <4>3 DEF Before
    <3> QED
      BY <3>1, <3>2
  <2> QED
    BY <2>7, <2>11, <2>18, <2>19, <2>20
<1> QED
  BY <1>2, <1>3

\* A sequence with a new last element.
LEMMA Queued ==
    ASSUME NEW T, NEW s \in Seq(T), IsInjective(s), NEW e \in T, e \notin Range(s)
    PROVE  /\ Append(s, e) \in Seq(T)
           /\ IsInjective(Append(s, e))
           /\ Range(Append(s, e)) = Range(s) \union {e}
           /\ \A x, y : Before(Append(s, e), x, y) <=>
                           Before(s, x, y) \/ (x \in Range(s) /\ y = e)
<1>1. Len(s) \in Nat /\ DOMAIN s = 1 .. Len(s) /\ \A i \in 1 .. Len(s) : s[i] # e
  BY Entries DEF Range
<1>2. PICK r : r = Append(s, e)
  OBVIOUS
<1>3. /\ r \in Seq(T) /\ DOMAIN r = 1 .. Len(s) + 1
      /\ \A i \in 1 .. Len(s) : r[i] = s[i]
      /\ r[Len(s) + 1] = e
  BY <1>1, <1>2
<1>4. \A i \in 1 .. Len(s) + 1 : i \in 1 .. Len(s) \/ i = Len(s) + 1
  BY <1>1
<1>5. \A i \in 1 .. Len(s) : i \in 1 .. Len(s) + 1 /\ i < Len(s) + 1
  BY <1>1
<1>6. Len(s) + 1 \in 1 .. Len(s) + 1 /\ ~ (Len(s) + 1 < Len(s) + 1)
  BY <1>1
<1>7. IsInjective(r)
  <2>1. \A i, j \in 1 .. Len(s) : s[i] = s[j] => i = j
    BY <1>1 DEF IsInjective
  <2>2. \A i, j \in 1 .. Len(s) + 1 : r[i] = r[j] => i = j
    BY <1>1, <1>3, <1>4, <2>1
  <2> QED
    BY <1>3, <2>2 DEF IsInjective
<1>8. Range(r) = Range(s) \union {e}
  BY <1>1, <1>3, <1>4, <1>5, <1>6 DEF Range
<1>9. ASSUME NEW x, NEW y
      PROVE  Before(r, x, y) <=> Before(s, x, y) \/ (x \in Range(s) /\ y = e)
  <2>1. ASSUME Before(r, x, y)
        PROVE  Before(s, x, y) \/ (x \in Range(s) /\ y = e)
    <3>1. PICK i \in 1 .. Len(s) + 1, j \in 1 .. Len(s) + 1 : i < j /\ r[i] = x /\ r[j] = y
      BY <1>3, <2>1 DEF Before
    <3>2. i \in 1 .. Len(s)
      BY <1>1, <3>1
    <3>3. CASE j \in 1 .. Len(s)
      BY <1>1, <1>3, <3>1, <3>2, <3>3 DEF Before
    <3>4. CASE j = Len(s) + 1
      BY <1>1, <1>3, <3>1, <3>2, <3>4 DEF Range
    <3> QED
      BY <1>4, <3>3, <3>4
  <2>2. ASSUME Before(s, x, y)
        PROVE  Before(r, x, y)
    BY <1>1, <1>3, <1>5, <2>2 DEF Before
  <2>3. ASSUME x \in Range(s), y = e
        PROVE  Before(r, x, y)
    <3>1. PICK i \in 1 .. Len(s) : s[i] = x
      BY <1>1, <2>3 DEF Range
    <3> QED
      BY <1>3, <1>5, <1>6, <2>3, <3>1 DEF Before
  <2> QED
    BY <2>1, <2>2, <2>3
<1> QED
  BY <1>2, <1>3, <1>7, <1>8, <1>9

-----------------------------------------------------------------------------
(* Finite sets of naturals: the longest deadline, and the dead heads.      *)

LEMMA LeastExists ==
    ASSUME NEW S \in SUBSET Nat, S # {}
    PROVE  \E x \in S : \A y \in S : x <= y
<1>1. PICK x \in S : \A y \in S : ~ (<<y, x>> \in OpToRel(<, Nat))
  BY NatLessThanWellFounded, WFMin
<1>2. \A y \in S : ~ (y < x)
  BY <1>1 DEF OpToRel
<1> QED
  BY <1>2

\* A function into the naturals has a greatest value on a finite set.
LEMMA GreatestExists ==
    ASSUME NEW S, IsFiniteSet(S), S # {}, NEW f \in [S -> Nat]
    PROVE  \E x \in S : \A y \in S : f[y] <= f[x]
<1> DEFINE Without(T) == T # {} /\ ~ \E x \in T : \A y \in T : f[y] <= f[x]
           Sizes == {n \in Nat : \E T \in SUBSET S : Without(T) /\ Cardinality(T) = n}
<1>1. \A T \in SUBSET S : IsFiniteSet(T) /\ Cardinality(T) \in Nat
  BY FS_Subset, FS_CardinalityType
<1>2. SUFFICES ASSUME Sizes # {}
               PROVE  FALSE
  <2>1. Without(S) => Cardinality(S) \in Sizes
    BY <1>1
  <2> QED
    BY <1>2, <2>1
<1>3. PICK n \in Sizes : \A m \in Sizes : n <= m
  BY <1>2, LeastExists
<1>4. PICK T \in SUBSET S : Without(T) /\ Cardinality(T) = n
  BY <1>3
<1>5. PICK x \in T : TRUE
  BY <1>4
<1>6. Cardinality(T \ {x}) = n - 1 /\ T \ {x} \in SUBSET S
  BY <1>1, <1>4, <1>5, FS_RemoveElement
<1>7. ~ Without(T \ {x})
  <2>1. n - 1 \in Sizes => FALSE
    BY <1>3
  <2> QED
    BY <1>1, <1>6, <2>1
<1>8. CASE T \ {x} = {}
  <2>1. \A y \in T : y = x
    BY <1>8
  <2> QED
    BY <1>4, <1>5, <2>1
<1>9. CASE T \ {x} # {}
  <2>1. PICK z \in T \ {x} : \A y \in T \ {x} : f[y] <= f[z]
    BY <1>7, <1>9
  <2>2. CASE f[z] <= f[x]
    <3>1. \A y \in T : f[y] <= f[x]
      BY <1>4, <1>5, <2>1, <2>2
    <3> QED
      BY <1>4, <1>5, <3>1
  <2>3. CASE f[x] <= f[z]
    <3>1. \A y \in T : f[y] <= f[z]
      BY <1>4, <1>5, <2>1, <2>3
    <3> QED
      BY <1>4, <2>1, <3>1
  <2> QED
    BY <1>4, <1>5, <2>1, <2>2, <2>3
<1> QED
  BY <1>8, <1>9

\* No deadline is set beyond the longest one.
LEMMA DeadlinesBounded ==
    /\ Heartbeat \in Nat /\ LongestDeadline \in Nat
    /\ \A w \in Waiters : /\ Skew[w] \in Nat
                          /\ Heartbeat + Skew[w] \in 0 .. LongestDeadline
<1>1. Heartbeat \in Nat /\ Skew \in [Waiters -> Nat]
  BY WaitAssumption DEF Heartbeat
<1>2. PICK w \in Waiters : \A v \in Waiters : Skew[v] <= Skew[w]
  BY <1>1, WaitAssumption, GreatestExists
<1> DEFINE S == {Skew[v] : v \in Waiters}
<1>3. \E x \in S : \A y \in S : x >= y
  BY <1>1, <1>2
<1>4. Max(S) \in S /\ \A y \in S : Max(S) >= y
  BY <1>3 DEF Max
<1>5. Max(S) \in Nat /\ \A v \in Waiters : Skew[v] <= Max(S)
  BY <1>1, <1>4
<1> QED
  BY <1>1, <1>5 DEF LongestDeadline

\* A set of positions closed downwards is the first so many of them.
LEMMA Heads ==
    ASSUME NEW n \in Nat, NEW S \in SUBSET (1 .. n), \A i \in S : \A j \in 1 .. i : j \in S
    PROVE  Cardinality(S) \in 0 .. n /\ S = 1 .. Cardinality(S)
<1>1. \A m \in Nat : IsFiniteSet(1 .. m) /\ Cardinality(1 .. m) = m
  <2>1. ASSUME NEW m \in Nat
        PROVE  IsFiniteSet(1 .. m) /\ Cardinality(1 .. m) = m
    <3>1. m \in Int /\ 1 \in Int
      OBVIOUS
    <3>2. IsFiniteSet(1 .. m) /\ Cardinality(1 .. m) = IF 1 > m THEN 0 ELSE m - 1 + 1
      BY <3>1, FS_Interval
    <3> QED
      BY <3>2
  <2> QED
    BY <2>1
<1>2. CASE S = {}
  <2>1. Cardinality(S) = 0
    BY <1>2, FS_EmptySet
  <2>2. 1 .. 0 = {} /\ 0 \in 0 .. n
    OBVIOUS
  <2> QED
    BY <1>2, <2>1, <2>2
<1>3. CASE S # {}
  <2> DEFINE f == [i \in S |-> i]
  <2>1. f \in [S -> Nat]
    OBVIOUS
  <2>2. PICK m \in S : \A i \in S : f[i] <= f[m]
    <3>1. IsFiniteSet(S)
      BY <1>1, FS_Subset
    <3> QED
      BY <1>3, <2>1, <3>1, GreatestExists
  <2>3. S = 1 .. m /\ m \in 1 .. n
    <3>1. \A i \in S : i \in 1 .. n /\ i <= m
      BY <2>2
    <3>2. S \subseteq 1 .. m
      BY <3>1
    <3>3. 1 .. m \subseteq S
      OBVIOUS
    <3> QED
      BY <3>1, <3>2, <3>3
  <2>4. Cardinality(S) = m
    BY <1>1, <2>3
  <2>5. m \in 0 .. n
    BY <2>3
  <2> QED
    BY <2>3, <2>4, <2>5
<1> QED
  BY <1>2, <1>3

-----------------------------------------------------------------------------
(* What the scripts of a fair lock do to the queue.                        *)

QueueShape ==
    /\ queue \in Seq(Tokens)
    /\ \E S \in SUBSET Tokens : qts \in [S -> 0 .. LongestDeadline]
    /\ QueueConsistent

\* Everything an element may be asked about the queue and its deadlines.
LEMMA QueueParts ==
    QueueShape <=> /\ queue \in Seq(Tokens)
                   /\ IsInjective(queue)
                   /\ Range(queue) = DOMAIN qts
                   /\ qts = [t \in DOMAIN qts |-> qts[t]]
                   /\ DOMAIN qts \subseteq Tokens
                   /\ \A t \in DOMAIN qts : qts[t] \in 0 .. LongestDeadline
<1>1. ASSUME NEW S \in SUBSET Tokens, qts \in [S -> 0 .. LongestDeadline]
      PROVE  /\ qts = [t \in DOMAIN qts |-> qts[t]]
             /\ DOMAIN qts \subseteq Tokens
             /\ \A t \in DOMAIN qts : qts[t] \in 0 .. LongestDeadline
  BY <1>1
<1>2. ASSUME qts = [t \in DOMAIN qts |-> qts[t]], DOMAIN qts \subseteq Tokens,
             \A t \in DOMAIN qts : qts[t] \in 0 .. LongestDeadline
      PROVE  \E S \in SUBSET Tokens : qts \in [S -> 0 .. LongestDeadline]
  BY <1>2
<1> QED
  BY <1>1, <1>2 DEF QueueShape, QueueConsistent

\* Step 1 removes dead tokens only, and keeps the rest in order.
LEMMA CleanedIs ==
    ASSUME QueueShape, NEW w \in Waiters
    PROVE  /\ Cleaned(w) \in Seq(Tokens)
           /\ IsInjective(Cleaned(w))
           /\ Range(Cleaned(w)) = DOMAIN CleanedQts(w)
           /\ CleanedQts(w) = [t \in DOMAIN CleanedQts(w) |-> qts[t]]
           /\ DOMAIN CleanedQts(w) \subseteq DOMAIN qts
           /\ \A t \in DOMAIN qts : ~ Dead(t, w) => t \in DOMAIN CleanedQts(w)
           /\ \A x, y : Before(queue, x, y) /\ ~ Dead(x, w) => Before(Cleaned(w), x, y)
<1>1. PICK old \in Seq(Tokens) : old = queue /\ IsInjective(old) /\ Range(old) = DOMAIN qts
  BY QueueParts
<1>2. PICK heads : heads = {i \in 1 .. Len(queue) : \A j \in 1 .. i : Dead(queue[j], w)}
  OBVIOUS
<1>3. DeadHeads(w) = Cardinality(heads)
  BY <1>2 DEF DeadHeads
<1>4. PICK n \in Nat : n = Len(old) /\ DOMAIN old = 1 .. n
  BY Entries
<1>5. heads \in SUBSET (1 .. n) /\ \A i \in heads : \A j \in 1 .. i : j \in heads
  BY <1>1, <1>2, <1>4
<1>6. Cardinality(heads) \in 0 .. n /\ heads = 1 .. Cardinality(heads)
  BY <1>5, Heads
<1>7. PICK d \in 0 .. Len(old) : d = DeadHeads(w) /\ heads = 1 .. d
  BY <1>3, <1>4, <1>6
<1>8. \A i \in 1 .. d : Dead(old[i], w)
  BY <1>1, <1>2, <1>7
<1>9. PICK new : new = SubSeq(old, d + 1, Len(old)) /\ new = Cleaned(w)
  BY <1>1, <1>7 DEF Cleaned
<1>10. /\ new \in Seq(Tokens) /\ Len(new) = Len(old) - d
       /\ \A i \in 1 .. Len(old) - d : new[i] = old[i + d]
       /\ Range(SubSeq(old, 1, d)) = {old[i] : i \in 1 .. d}
  BY <1>9, Dropped
<1>11. /\ IsInjective(new)
       /\ Range(new) = Range(old) \ {old[i] : i \in 1 .. d}
       /\ \A x, y : Before(old, x, y) /\ (\A i \in 1 .. d : old[i] # x) => Before(new, x, y)
  BY <1>1, <1>10, Shifted
<1>12. CleanedQts(w) = [t \in DOMAIN qts \ {old[i] : i \in 1 .. d} |-> qts[t]]
  BY <1>1, <1>7, <1>10 DEF CleanedQts, Restrict
<1>13. DOMAIN CleanedQts(w) = DOMAIN qts \ {old[i] : i \in 1 .. d}
  BY <1>12
<1>14. \A t : ~ Dead(t, w) => \A i \in 1 .. d : old[i] # t
  BY <1>8
<1>15. \A t \in DOMAIN qts : ~ Dead(t, w) => t \in DOMAIN CleanedQts(w)
  BY <1>13, <1>14
<1>16. \A x, y : Before(queue, x, y) /\ ~ Dead(x, w) => Before(Cleaned(w), x, y)
  BY <1>1, <1>9, <1>11, <1>14
<1> QED
  BY <1>1, <1>9, <1>10, <1>11, <1>12, <1>13, <1>15, <1>16

LEMMA FairTakeIs ==
    ASSUME QueueShape, NEW w \in Waiters, MayTake(w), FairTake(w)
    PROVE  /\ QueueShape'
           /\ \A t \in DOMAIN qts' : t \in DOMAIN qts /\ qts'[t] = qts[t]
           /\ \A t \in DOMAIN qts : ~ Dead(t, w) /\ t # TokenOf[w] => t \in DOMAIN qts'
           /\ \A x, y : Before(queue, x, y) /\ ~ Dead(x, w) /\ x # TokenOf[w]
                           => Before(queue', x, y)
<1>1. PICK rest \in Seq(Tokens) :
          /\ rest = Cleaned(w) /\ IsInjective(rest)
          /\ Range(rest) = DOMAIN CleanedQts(w)
          /\ \A x, y : Before(queue, x, y) /\ ~ Dead(x, w) => Before(rest, x, y)
  BY CleanedIs
<1>2. /\ CleanedQts(w) = [t \in DOMAIN CleanedQts(w) |-> qts[t]]
      /\ DOMAIN CleanedQts(w) \subseteq DOMAIN qts
      /\ \A t \in DOMAIN qts : ~ Dead(t, w) => t \in DOMAIN CleanedQts(w)
  BY CleanedIs
<1>3. /\ DOMAIN qts \subseteq Tokens
      /\ \A t \in DOMAIN qts : qts[t] \in 0 .. LongestDeadline
  BY QueueParts
<1>4. \A t \in DOMAIN CleanedQts(w) : CleanedQts(w)[t] = qts[t]
  BY <1>2
<1>5. CASE Owns(TokenOf[w])
  <2>1. queue' = rest /\ qts' = CleanedQts(w)
    BY <1>1, <1>5 DEF FairTake
  <2>2. QueueShape'
    BY <1>1, <1>2, <1>3, <1>4, <2>1 DEF QueueShape, QueueConsistent
  <2> QED
    BY <1>1, <1>2, <1>4, <2>1, <2>2
<1>6. CASE ~ Owns(TokenOf[w])
  <2>1. rest = <<>> \/ Head(rest) = TokenOf[w]
    BY <1>1, <1>6 DEF MayTake
  <2>2. queue' = (IF rest = <<>> THEN <<>> ELSE Tail(rest))
    BY <1>1, <1>6 DEF FairTake
  <2>3. /\ DOMAIN qts' = DOMAIN CleanedQts(w) \ {TokenOf[w]}
        /\ qts' = [t \in DOMAIN CleanedQts(w) \ {TokenOf[w]} |-> qts[t]]
    <3>1. qts' = [t \in DOMAIN CleanedQts(w) \ {TokenOf[w]} |-> CleanedQts(w)[t]]
      BY <1>6 DEF FairTake, Restrict
    <3> QED
      BY <1>4, <3>1
  <2>4. /\ queue' \in Seq(Tokens) /\ IsInjective(queue')
        /\ Range(queue') = Range(rest) \ {TokenOf[w]}
        /\ \A x, y : Before(rest, x, y) /\ x # TokenOf[w] => Before(queue', x, y)
    <3>1. CASE rest = <<>>
      <4>1. queue' = rest /\ Range(rest) = {}
        BY <2>2, <3>1 DEF Range
      <4> QED
        BY <1>1, <4>1
    <3>2. CASE rest # <<>>
      <4>1. PICK new \in Seq(Tokens) : new = Tail(rest) /\ new = queue'
        BY <2>2, <3>2
      <4>2. /\ Len(rest) \in Nat /\ 1 \in 0 .. Len(rest) /\ Len(new) = Len(rest) - 1
            /\ \A i \in 1 .. Len(rest) - 1 : new[i] = rest[i + 1]
            /\ rest[1] = TokenOf[w]
        BY <2>1, <3>2, <4>1
      <4>3. /\ IsInjective(new)
            /\ Range(new) = Range(rest) \ {rest[i] : i \in 1 .. 1}
            /\ \A x, y : Before(rest, x, y) /\ (\A i \in 1 .. 1 : rest[i] # x)
                           => Before(new, x, y)
        BY <1>1, <4>2, Shifted
      <4>4. {rest[i] : i \in 1 .. 1} = {TokenOf[w]} /\ \A i \in 1 .. 1 : rest[i] = TokenOf[w]
        BY <4>2
      <4>5. Range(new) = Range(rest) \ {TokenOf[w]}
        BY <4>3, <4>4
      <4>6. \A x, y : Before(rest, x, y) /\ x # TokenOf[w] => Before(new, x, y)
        BY <4>3, <4>4
      <4> QED
        BY <4>1, <4>3, <4>5, <4>6
    <3> QED
      BY <3>1, <3>2
  <2>5. QueueShape'
    BY <1>1, <1>2, <1>3, <2>3, <2>4 DEF QueueShape, QueueConsistent
  <2> QED
    BY <1>1, <1>2, <2>3, <2>4, <2>5
<1> QED
  BY <1>5, <1>6

LEMMA FairQueueIs ==
    ASSUME QueueShape, NEW w \in Waiters, FairQueue(w)
    PROVE  /\ QueueShape'
           /\ TokenOf[w] \in DOMAIN qts' /\ qts'[TokenOf[w]] = Heartbeat + Skew[w]
           /\ \A t \in DOMAIN qts' : t # TokenOf[w] => t \in DOMAIN qts /\ qts'[t] = qts[t]
           /\ \A t \in DOMAIN qts : ~ Dead(t, w) => t \in DOMAIN qts'
           /\ \A x, y : Before(queue, x, y) /\ ~ Dead(x, w) => Before(queue', x, y)
           /\ \A x \in DOMAIN qts :
                 ~ Dead(x, w) /\ TokenOf[w] \notin DOMAIN qts => Before(queue', x, TokenOf[w])
<1>1. PICK rest \in Seq(Tokens) :
          /\ rest = Cleaned(w) /\ IsInjective(rest)
          /\ Range(rest) = DOMAIN CleanedQts(w)
          /\ \A x, y : Before(queue, x, y) /\ ~ Dead(x, w) => Before(rest, x, y)
  BY CleanedIs
<1>2. /\ CleanedQts(w) = [t \in DOMAIN CleanedQts(w) |-> qts[t]]
      /\ DOMAIN CleanedQts(w) \subseteq DOMAIN qts
      /\ \A t \in DOMAIN qts : ~ Dead(t, w) => t \in DOMAIN CleanedQts(w)
  BY CleanedIs
<1>3. /\ DOMAIN qts \subseteq Tokens
      /\ \A t \in DOMAIN qts : qts[t] \in 0 .. LongestDeadline
  BY QueueParts
<1>4. PICK e \in Tokens : e = TokenOf[w]
  BY WaitAssumption
<1>5. Heartbeat + Skew[w] \in 0 .. LongestDeadline
  BY DeadlinesBounded
<1>6. /\ DOMAIN qts' = DOMAIN CleanedQts(w) \union {e}
      /\ qts' = [t \in DOMAIN CleanedQts(w) \union {e} |->
                   IF t = e THEN Heartbeat + Skew[w] ELSE CleanedQts(w)[t]]
  BY <1>4 DEF FairQueue
<1>7. \A t \in DOMAIN CleanedQts(w) : CleanedQts(w)[t] = qts[t]
  BY <1>2
<1>8. qts'[e] = Heartbeat + Skew[w]
      /\ \A t \in DOMAIN qts' : t # e => t \in DOMAIN qts /\ qts'[t] = qts[t]
  BY <1>2, <1>6, <1>7
<1>9. qts' \in [DOMAIN CleanedQts(w) \union {e} -> 0 .. LongestDeadline]
  BY <1>2, <1>3, <1>5, <1>6, <1>7
<1>10. /\ queue' \in Seq(Tokens) /\ IsInjective(queue')
       /\ Range(queue') = Range(rest) \union {e}
       /\ \A x, y : Before(rest, x, y) => Before(queue', x, y)
       /\ e \notin Range(rest) => \A x \in Range(rest) : Before(queue', x, e)
  <2>1. CASE e \in Range(rest)
    <3>1. queue' = rest
      BY <1>1, <1>4, <2>1 DEF FairQueue
    <3> QED
      BY <1>1, <2>1, <3>1
  <2>2. CASE e \notin Range(rest)
    <3>1. PICK new : new = Append(rest, e) /\ new = queue'
      <4>1. queue' = Append(rest, e)
        BY <1>1, <1>4, <2>2 DEF FairQueue
      <4> QED
        BY <4>1
    <3>2. /\ new \in Seq(Tokens) /\ IsInjective(new)
          /\ Range(new) = Range(rest) \union {e}
          /\ \A x, y : Before(new, x, y) <=> Before(rest, x, y) \/ (x \in Range(rest) /\ y = e)
      <4>1. IsInjective(rest)
        BY <1>1
      <4>2. /\ Append(rest, e) \in Seq(Tokens) /\ IsInjective(Append(rest, e))
            /\ Range(Append(rest, e)) = Range(rest) \union {e}
            /\ \A x, y : Before(Append(rest, e), x, y) <=>
                            Before(rest, x, y) \/ (x \in Range(rest) /\ y = e)
        BY <2>2, <4>1, Queued
      <4> QED
        BY <3>1, <4>2
    <3> QED
      BY <3>1, <3>2
  <2> QED
    BY <2>1, <2>2
<1>11. QueueShape'
  <2>1. DOMAIN CleanedQts(w) \union {e} \in SUBSET Tokens
    BY <1>2, <1>3
  <2> QED
    BY <1>1, <1>6, <1>9, <1>10, <2>1 DEF QueueShape, QueueConsistent
<1>12. \A x \in DOMAIN qts : ~ Dead(x, w) /\ e \notin DOMAIN qts => Before(queue', x, e)
  BY <1>1, <1>2, <1>10
<1> QED
  BY <1>1, <1>2, <1>4, <1>6, <1>8, <1>10, <1>11, <1>12

LEMMA FairCancelIs ==
    ASSUME QueueShape, NEW e \in Tokens, FairCancel(e)
    PROVE  /\ QueueShape'
           /\ \A t \in DOMAIN qts' : t \in DOMAIN qts /\ qts'[t] = qts[t]
           /\ \A t \in DOMAIN qts : t # e => t \in DOMAIN qts'
           /\ \A x, y : Before(queue, x, y) /\ x # e /\ y # e => Before(queue', x, y)
<1>1. PICK old \in Seq(Tokens) : old = queue /\ IsInjective(old) /\ Range(old) = DOMAIN qts
  BY QueueParts
<1>2. PICK new : new = RemoveFirst(old, e) /\ new = queue'
  <2>1. queue' = RemoveFirst(old, e)
    BY <1>1 DEF FairCancel
  <2> QED
    BY <2>1
<1>3. /\ new \in Seq(Tokens) /\ IsInjective(new)
      /\ Range(new) = Range(old) \ {e}
      /\ \A x, y : Before(new, x, y) <=> Before(old, x, y) /\ x # e /\ y # e
  <2>1. IsInjective(old)
    BY <1>1
  <2>2. /\ RemoveFirst(old, e) \in Seq(Tokens) /\ IsInjective(RemoveFirst(old, e))
        /\ Range(RemoveFirst(old, e)) = Range(old) \ {e}
        /\ \A x, y : Before(RemoveFirst(old, e), x, y) <=> Before(old, x, y) /\ x # e /\ y # e
    BY <2>1, Removed
  <2> QED
    BY <1>2, <2>2
<1>4. qts' = [t \in DOMAIN qts \ {e} |-> qts[t]]
  BY DEF FairCancel, Restrict
<1>5. /\ DOMAIN qts \subseteq Tokens
      /\ \A t \in DOMAIN qts : qts[t] \in 0 .. LongestDeadline
  BY QueueParts
<1>6. DOMAIN qts' = DOMAIN qts \ {e} /\ qts' \in [DOMAIN qts \ {e} -> 0 .. LongestDeadline]
      /\ DOMAIN qts \ {e} \in SUBSET Tokens
  BY <1>4, <1>5
<1>7. QueueShape'
  BY <1>1, <1>2, <1>3, <1>6 DEF QueueShape, QueueConsistent
<1> QED
  BY <1>1, <1>2, <1>3, <1>4, <1>6, <1>7

-----------------------------------------------------------------------------
(* Types.                                                                  *)

CallerShape ==
    /\ pc \in [Waiters -> Pcs]
    /\ asking \subseteq Waiters
    /\ subscribed \subseteq Waiters
    /\ message \subseteq subscribed
    /\ timer \in [Waiters -> 0 .. Retry]
    /\ left \in [Waiters -> 0 .. WaitTime]
    /\ line \in Seq(Waiters)
    /\ IsInjective(line)

WaitShape ==
    /\ ServerTypeOK
    /\ fair \in FairModes
    /\ owed \subseteq Waiters
    /\ QueueShape
    /\ CallerShape

LEMMA ServerShape ==
    ASSUME ServerTypeOK, NEW t \in Tokens,
           \/ AcquireScript(t) \/ ReleaseScript(t) \/ RefreshScript(t) \/ ServerTick
    PROVE  ServerTypeOK'
<1>1. hash' \in [Tokens -> Nat]
  BY ScriptsKeepHash DEF ServerTypeOK
<1>2. Lease \in Nat /\ 0 \in 0 .. Lease /\ Lease \in 0 .. Lease
  BY IntervalAssumption DEF Lease
<1>3. pttl' \in 0 .. Lease
  BY <1>2 DEF ServerTypeOK, AcquireScript, ReleaseScript, RefreshScript, ServerTick
<1>4. fenceKey' \in Nat
  BY DEF ServerTypeOK, AcquireScript, ReleaseScript, RefreshScript, ServerTick
<1> QED
  BY <1>1, <1>3, <1>4 DEF ServerTypeOK

LEMMA ReturnShape ==
    ASSUME CallerShape, NEW w \in Waiters, NEW where \in Pcs, Return(w, where)
    PROVE  CallerShape'
<1>1. PICK old \in Seq(Waiters) : old = line /\ IsInjective(old)
  BY DEF CallerShape
<1>2. IsInjective(old)
  BY <1>1
<1>3. RemoveFirst(old, w) \in Seq(Waiters) /\ IsInjective(RemoveFirst(old, w))
  BY <1>2, Removed
<1>4. line' \in Seq(Waiters) /\ IsInjective(line')
  <2>1. line' = RemoveFirst(old, w)
    BY <1>1 DEF Return
  <2> QED
    BY <1>3, <2>1
<1>5. pc' \in [Waiters -> Pcs]
  BY DEF CallerShape, Return
<1>6. asking' \subseteq Waiters /\ subscribed' \subseteq Waiters /\ message' \subseteq subscribed'
  BY DEF CallerShape, Return
<1>7. timer' \in [Waiters -> 0 .. Retry] /\ left' \in [Waiters -> 0 .. WaitTime]
  <2>1. 1 \in 0 .. Retry /\ 0 \in 0 .. WaitTime
    BY WaitAssumption
  <2> QED
    BY <2>1 DEF CallerShape, Return
<1> QED
  BY <1>4, <1>5, <1>6, <1>7 DEF CallerShape

LEMMA GiveUpShape ==
    ASSUME CallerShape, NEW w \in Waiters, GiveUp(w)
    PROVE  CallerShape'
<1>1. (IF fair THEN "leaving" ELSE "gone") \in Pcs
  BY DEF Pcs
<1> QED
  BY <1>1, ReturnShape DEF GiveUp

LEMMA BlockWaitIs ==
    ASSUME WaitShape, NEW w \in Waiters
    PROVE  BlockWait(w) \in 0 .. Retry
<1>1. pttl \in Nat /\ Retry \in Nat /\ left[w] \in Nat
  BY IntervalAssumption, WaitAssumption DEF WaitShape, ServerTypeOK, Lease, CallerShape
<1> DEFINE polled == IF pttl > 0 THEN Smaller(Retry, pttl) ELSE Retry
<1>2. polled \in 0 .. Retry
  BY <1>1 DEF Smaller
<1>3. Smaller(polled, left[w]) \in 0 .. Retry
  BY <1>1, <1>2 DEF Smaller
<1> QED
  BY <1>2, <1>3 DEF BlockWait

\* What an attempt does to the key and to the queue.
LEMMA TakeShape ==
    ASSUME WaitShape, NEW w \in Waiters, Succeeds(w), Take(w)
    PROVE  ServerTypeOK' /\ fair' = fair /\ QueueShape'
<1>1. TokenOf[w] \in Tokens
  BY WaitAssumption
<1>2. CASE fair
  <2>1. FairTake(w) /\ MayTake(w)
    BY <1>2 DEF Take, Succeeds
  <2>2. QueueShape'
    BY <2>1, FairTakeIs DEF WaitShape
  <2>3. AcquireScript(TokenOf[w]) /\ fair' = fair
    BY <2>1 DEF FairTake
  <2>4. ServerTypeOK'
    BY <1>1, <2>3, ServerShape DEF WaitShape
  <2> QED
    BY <2>2, <2>3, <2>4
<1>3. CASE ~ fair
  <2>1. AcquireScript(TokenOf[w]) /\ UNCHANGED queueVars
    BY <1>3 DEF Take
  <2>2. ServerTypeOK'
    BY <1>1, <2>1, ServerShape DEF WaitShape
  <2> QED
    BY <2>1, <2>2 DEF WaitShape, QueueShape, QueueConsistent, queueVars
<1> QED
  BY <1>2, <1>3

LEMMA BusyShape ==
    ASSUME WaitShape, NEW w \in Waiters, Busy(w)
    PROVE  ServerTypeOK' /\ fair' = fair /\ QueueShape'
<1>1. CASE fair
  <2>1. FairQueue(w)
    BY <1>1 DEF Busy
  <2>2. QueueShape'
    BY <2>1, FairQueueIs DEF WaitShape
  <2>3. UNCHANGED <<server, fair>>
    BY <2>1 DEF FairQueue
  <2> QED
    BY <2>2, <2>3 DEF WaitShape, ServerTypeOK, server
<1>2. CASE ~ fair
  BY <1>2 DEF Busy, WaitShape, QueueShape, QueueConsistent, queueVars, ServerTypeOK, server
<1> QED
  BY <1>1, <1>2

LEMMA SameQueue ==
    ASSUME QueueShape, UNCHANGED <<queue, qts>>
    PROVE  QueueShape'
BY DEF QueueShape, QueueConsistent

LEMMA SameServer ==
    ASSUME ServerTypeOK, UNCHANGED server
    PROVE  ServerTypeOK'
BY DEF ServerTypeOK, server

LEMMA TriesShape ==
    ASSUME WaitShape, NEW w \in Waiters, TryTakes(w) \/ TryWaits(w) \/ TryFails(w)
    PROVE  WaitShape'
<1>1. CallerShape /\ fair \in FairModes /\ owed \subseteq Waiters /\ ServerTypeOK /\ QueueShape
  BY DEF WaitShape
<1>2. CASE TryTakes(w)
  <2>1. ServerTypeOK' /\ fair' = fair /\ QueueShape'
    BY <1>2, TakeShape DEF TryTakes
  <2>2. "held" \in Pcs /\ Return(w, "held") /\ owed' = {}
    BY <1>2 DEF TryTakes, Pcs
  <2>3. CallerShape'
    BY <1>1, <2>2, ReturnShape
  <2> QED
    BY <1>1, <2>1, <2>2, <2>3 DEF WaitShape
<1>3. CASE TryWaits(w)
  <2>1. ServerTypeOK' /\ fair' = fair /\ QueueShape'
    BY <1>3, BusyShape DEF TryWaits
  <2>2. owed' = owed
    BY <1>3 DEF TryWaits
  <2>3. CASE w \in Once \/ BlockWait(w) = 0
    <3>1. GiveUp(w)
      BY <1>3, <2>3 DEF TryWaits
    <3>2. CallerShape'
      BY <1>1, <3>1, GiveUpShape
    <3> QED
      BY <1>1, <2>1, <2>2, <3>2 DEF WaitShape
  <2>4. CASE ~ (w \in Once \/ BlockWait(w) = 0)
    <3>1. /\ pc' = [pc EXCEPT ![w] = "sleeping"]
          /\ timer' = [timer EXCEPT ![w] = BlockWait(w)]
          /\ line' = IF w \in Range(line) THEN line ELSE Append(line, w)
          /\ UNCHANGED <<asking, subscribed, message, left>>
      BY <1>3, <2>4 DEF TryWaits
    <3>2. pc' \in [Waiters -> Pcs] /\ timer' \in [Waiters -> 0 .. Retry]
      BY <1>1, <3>1, BlockWaitIs DEF CallerShape, Pcs
    <3>3. line' \in Seq(Waiters) /\ IsInjective(line')
      <4>1. PICK old \in Seq(Waiters) : old = line /\ IsInjective(old)
        BY <1>1 DEF CallerShape
      <4>2. CASE w \in Range(old)
        <5>1. line' = old
          BY <3>1, <4>1, <4>2
        <5> QED
          BY <4>1, <5>1
      <4>3. CASE w \notin Range(old)
        <5>1. line' = Append(old, w) /\ IsInjective(old)
          BY <3>1, <4>1, <4>3
        <5>2. Append(old, w) \in Seq(Waiters) /\ IsInjective(Append(old, w))
          BY <4>3, <5>1, Queued
        <5> QED
          BY <5>1, <5>2
      <4> QED
        BY <4>2, <4>3
    <3>4. CallerShape'
      BY <1>1, <3>1, <3>2, <3>3 DEF CallerShape
    <3> QED
      BY <1>1, <2>1, <2>2, <3>4 DEF WaitShape
  <2> QED
    BY <2>3, <2>4
<1>4. CASE TryFails(w)
  <2>1. "gone" \in Pcs /\ Return(w, "gone")
    BY <1>4 DEF TryFails, Pcs
  <2>2. CallerShape'
    BY <1>1, <2>1, ReturnShape
  <2>3. ServerTypeOK' /\ fair' = fair /\ QueueShape' /\ owed' \subseteq Waiters
    <3>1. CASE Succeeds(w) /\ Take(w) /\ owed' = {}
      BY <3>1, TakeShape
    <3>2. CASE ~ Succeeds(w) /\ Busy(w) /\ UNCHANGED owed
      BY <1>1, <3>2, BusyShape
    <3>3. CASE UNCHANGED <<server, queueVars, owed>>
      BY <1>1, <3>3, SameQueue, SameServer DEF queueVars
    <3> QED
      BY <1>4, <3>1, <3>2, <3>3 DEF TryFails
  <2> QED
    BY <1>1, <2>2, <2>3 DEF WaitShape
<1> QED
  BY <1>2, <1>3, <1>4

LEMMA WakesShape ==
    ASSUME WaitShape, NEW w \in Waiters,
           \/ Begin(w) \/ SubscribeArrives(w) \/ WakeByMessage(w) \/ WakeByTimer(w)
           \/ Restart(w)
    PROVE  WaitShape'
<1>1. CallerShape /\ ServerTypeOK /\ QueueShape
  BY DEF WaitShape
<1>2. UNCHANGED <<server, queueVars, owed>>
  BY DEF Begin, SubscribeArrives, WakeByMessage, WakeByTimer, Restart
<1>3. ServerTypeOK' /\ QueueShape' /\ fair' = fair /\ owed' = owed
  BY <1>1, <1>2, SameServer, SameQueue DEF queueVars
<1>4. 0 \in 0 .. Retry /\ 0 \in 0 .. WaitTime /\ WaitTime \in 0 .. WaitTime
  BY WaitAssumption
<1>5. CallerShape'
  <2>1. UNCHANGED line
    BY DEF Begin, SubscribeArrives, WakeByMessage, WakeByTimer, Restart
  <2>2. pc' \in [Waiters -> Pcs]
    BY <1>1 DEF Begin, SubscribeArrives, WakeByMessage, WakeByTimer, Restart, CallerShape, Pcs
  <2>3. asking' \subseteq Waiters /\ subscribed' \subseteq Waiters /\ message' \subseteq subscribed'
    BY <1>1 DEF Begin, SubscribeArrives, WakeByMessage, WakeByTimer, Restart, CallerShape
  <2>4. timer' \in [Waiters -> 0 .. Retry]
    BY <1>1, <1>4 DEF Begin, SubscribeArrives, WakeByMessage, WakeByTimer, Restart, CallerShape
  <2>5. left' \in [Waiters -> 0 .. WaitTime]
    BY <1>1, <1>4 DEF Begin, SubscribeArrives, WakeByMessage, WakeByTimer, Restart, CallerShape
  <2> QED
    BY <1>1, <2>1, <2>2, <2>3, <2>4, <2>5 DEF CallerShape
<1> QED
  BY <1>3, <1>5 DEF WaitShape

LEMMA LeavesShape ==
    ASSUME WaitShape, NEW w \in Waiters, Cancel(w) \/ Crash(w) \/ Leave(w)
    PROVE  WaitShape'
<1>1. CallerShape /\ ServerTypeOK /\ QueueShape
  BY DEF WaitShape
<1>2. UNCHANGED <<server, fair, owed>>
  BY DEF Cancel, Crash, Leave, FairCancel, queueVars
<1>3. ServerTypeOK'
  BY <1>1, <1>2, SameServer
<1>4. QueueShape'
  <2>1. CASE UNCHANGED queueVars
    BY <1>1, <2>1, SameQueue DEF queueVars
  <2>2. CASE FairCancel(TokenOf[w])
    <3>1. TokenOf[w] \in Tokens
      BY WaitAssumption
    <3> QED
      BY <1>1, <2>2, <3>1, FairCancelIs
  <2> QED
    BY <2>1, <2>2 DEF Cancel, Crash, Leave
<1>5. CallerShape'
  <2>1. CASE Cancel(w)
    BY <1>1, <2>1, GiveUpShape DEF Cancel
  <2>2. CASE Crash(w)
    <3>1. "dead" \in Pcs /\ Return(w, "dead")
      BY <2>2 DEF Crash, Pcs
    <3> QED
      BY <1>1, <3>1, ReturnShape
  <2>3. CASE Leave(w)
    BY <1>1, <2>3 DEF Leave, CallerShape, Pcs
  <2> QED
    BY <2>1, <2>2, <2>3
<1> QED
  BY <1>2, <1>3, <1>4, <1>5 DEF WaitShape

LEMMA HoldsShape ==
    ASSUME WaitShape, NEW w \in Waiters, Unlock(w) \/ Renew(w)
    PROVE  WaitShape'
<1>1. CallerShape /\ ServerTypeOK /\ QueueShape
  BY DEF WaitShape
<1>2. TokenOf[w] \in Tokens
  BY WaitAssumption
<1>3. ServerTypeOK'
  BY <1>1, <1>2, ServerShape DEF Unlock, Renew
<1>4. UNCHANGED queueVars
  BY DEF Unlock, Renew
<1>5. QueueShape' /\ fair' = fair
  BY <1>1, <1>4, SameQueue DEF queueVars
<1>6. owed' \subseteq Waiters
  BY DEF Unlock, Renew, Publish, WaitShape
<1>7. CallerShape'
  <2>1. CASE Unlock(w)
    <3>1. pc' \in [Waiters -> Pcs] /\ UNCHANGED <<asking, subscribed, timer, left, line>>
      BY <1>1, <2>1 DEF Unlock, CallerShape, Pcs
    <3>2. message' \subseteq subscribed
      BY <1>1, <2>1 DEF Unlock, Publish, CallerShape
    <3> QED
      BY <1>1, <3>1, <3>2 DEF CallerShape
  <2>2. CASE Renew(w)
    BY <1>1, <2>2 DEF Renew, waitVars, CallerShape
  <2> QED
    BY <2>1, <2>2
<1> QED
  BY <1>3, <1>5, <1>6, <1>7 DEF WaitShape

LEMMA TickShape ==
    ASSUME WaitShape, Tick
    PROVE  WaitShape'
<1>1. CallerShape /\ ServerTypeOK /\ QueueShape
  BY DEF WaitShape
<1>2. ServerTypeOK'
  <2>1. PICK w \in Waiters : TokenOf[w] \in Tokens
    BY WaitAssumption
  <2> QED
    BY <1>1, <2>1, ServerShape DEF Tick
<1>3. \A m \in Nat : \A n \in 0 .. m : Less(n) \in 0 .. m
  BY DEF Less
<1>4. QueueShape'
  <2>1. queue' = queue /\ qts' = [t \in DOMAIN qts |-> Less(qts[t])]
    BY DEF Tick
  <2>2. DOMAIN qts' = DOMAIN qts
    BY <2>1
  <2>3. DOMAIN qts \in SUBSET Tokens /\ \A t \in DOMAIN qts : qts[t] \in 0 .. LongestDeadline
    BY <1>1, QueueParts
  <2>4. qts' \in [DOMAIN qts -> 0 .. LongestDeadline]
    BY <1>3, <2>1, <2>3, DeadlinesBounded
  <2> QED
    BY <1>1, <2>1, <2>2, <2>3, <2>4 DEF QueueShape, QueueConsistent
<1>5. timer' \in [Waiters -> 0 .. Retry] /\ left' \in [Waiters -> 0 .. WaitTime]
  <2>1. Retry \in Nat /\ WaitTime \in Nat
    BY WaitAssumption
  <2>2. timer' = [w \in Waiters |-> Less(timer[w])] /\ left' = [w \in Waiters |-> Less(left[w])]
    BY DEF Tick
  <2>3. \A w \in Waiters : Less(timer[w]) \in 0 .. Retry /\ Less(left[w]) \in 0 .. WaitTime
    BY <1>1, <1>3, <2>1 DEF CallerShape
  <2> QED
    BY <2>2, <2>3
<1>6. UNCHANGED <<fair, pc, asking, subscribed, message, line, owed>>
  BY DEF Tick
<1> QED
  BY <1>1, <1>2, <1>4, <1>5, <1>6 DEF WaitShape, CallerShape

LEMMA WaitShapeStep == WaitShape /\ [Next]_vars => WaitShape'
<1>1. ASSUME WaitShape, NEW w \in Waiters,
             \/ Begin(w) \/ SubscribeArrives(w) \/ CallerStep(w) \/ Cancel(w)
             \/ Unlock(w) \/ Renew(w) \/ Crash(w) \/ Restart(w)
      PROVE  WaitShape'
  BY <1>1, TriesShape, WakesShape, LeavesShape, HoldsShape DEF CallerStep
<1>2. ASSUME WaitShape, UNCHANGED vars
      PROVE  WaitShape'
  <2>1. ServerTypeOK' /\ QueueShape'
    BY <1>2, SameServer, SameQueue DEF WaitShape, vars, queueVars
  <2>2. UNCHANGED <<fair, owed>>
    BY <1>2 DEF vars, queueVars
  <2>3. CallerShape'
    BY <1>2 DEF WaitShape, CallerShape, vars, waitVars
  <2> QED
    BY <1>2, <2>1, <2>2, <2>3 DEF WaitShape
<1> QED
  BY <1>1, <1>2, TickShape DEF Next

LEMMA WaitShapeInit == Init => WaitShape
<1> SUFFICES ASSUME Init
             PROVE  WaitShape
  OBVIOUS
<1>1. ServerTypeOK
  <2>1. 0 \in 0 .. Lease
    BY IntervalAssumption DEF Lease
  <2> QED
    BY <2>1 DEF Init, ServerInit, ServerTypeOK, NoKey
<1>2. QueueShape
  <2>1. queue = <<>> /\ qts = [t \in {} |-> 0]
    BY DEF Init
  <2>2. qts \in [{} -> 0 .. LongestDeadline] /\ {} \in SUBSET Tokens /\ DOMAIN qts = {}
    BY <2>1
  <2>3. queue \in Seq(Tokens) /\ Range(queue) = {} /\ IsInjective(queue)
    BY <2>1 DEF Range, IsInjective
  <2> QED
    BY <2>2, <2>3 DEF QueueShape, QueueConsistent
<1>3. CallerShape
  <2>1. 0 \in 0 .. Retry /\ 0 \in 0 .. WaitTime
    BY WaitAssumption
  <2>2. line = <<>> /\ asking = {} /\ subscribed = {} /\ message = {}
    BY DEF Init
  <2>3. line \in Seq(Waiters) /\ IsInjective(line)
    BY <2>2 DEF IsInjective
  <2>4. pc \in [Waiters -> Pcs] /\ timer \in [Waiters -> 0 .. Retry]
        /\ left \in [Waiters -> 0 .. WaitTime]
    BY <2>1 DEF Init, Pcs
  <2> QED
    BY <2>2, <2>3, <2>4 DEF CallerShape
<1>4. fair \in FairModes /\ owed \subseteq Waiters
  BY DEF Init
<1> QED
  BY <1>1, <1>2, <1>3, <1>4 DEF WaitShape

\* The types of the waiting callers, and QueueConsistent: the list of a fair
\* lock and the zset of its deadlines speak of the same tokens, each once,
\* whatever attempts fail half-way and whoever dies.
THEOREM WaitTypeCorrect == Spec => []WaitTypeOK
<1>1. WaitShape => WaitTypeOK
  BY DEF WaitShape, QueueShape, CallerShape, WaitTypeOK
<1> QED
  BY <1>1, WaitShapeInit, WaitShapeStep, PTL DEF Spec

-----------------------------------------------------------------------------
(* Whoever waits for a fair lock stands in the queue as in the line.       *)

\* No two callers share a token, and no clock is two polls ahead of another:
\* a deadline is renewed by the poll, one interval before it can look dead.
TokensApart == \A v, w \in Waiters : TokenOf[v] = TokenOf[w] => v = w
ClocksClose == \A v, w \in Waiters : Skew[v] < 2 * Retry + Skew[w]

\* The line is the callers that poll, whose tokens are queued with deadlines
\* that outlive the next poll on every clock; a caller that begins has none.
Placed(w) ==
    /\ pc[w] = "sleeping" => w \in Range(line)
    /\ w \in Range(line) => pc[w] \in {"sleeping", "trying"}
    /\ fair /\ (pc[w] = "idle" \/ (pc[w] = "trying" /\ w \notin Range(line)))
          => TokenOf[w] \notin DOMAIN qts
    /\ fair /\ w \in Range(line)
          => /\ TokenOf[w] \in DOMAIN qts
             /\ qts[TokenOf[w]] >= 2 * Retry + Skew[w] + timer[w]

SameOrder ==
    fair => \A u, v \in Waiters :
               Before(line, u, v) => Before(queue, TokenOf[u], TokenOf[v])

LineInv ==
    /\ \A w \in Waiters : Placed(w)
    /\ SameOrder
    /\ ~ fair => queue = <<>>

LEMMA BeforeInRange ==
    ASSUME NEW s, NEW x, NEW y, Before(s, x, y)
    PROVE  x \in Range(s) /\ y \in Range(s)
BY DEF Before, Range

\* On nobody's clock does a waiting caller look dead.
LEMMA WaitersLookAlive ==
    ASSUME WaitShape, LineInv, ClocksClose, fair, NEW v \in Waiters, v \in Range(line)
    PROVE  TokenOf[v] \in DOMAIN qts /\ \A w \in Waiters : ~ Dead(TokenOf[v], w)
<1>1. TokenOf[v] \in DOMAIN qts /\ qts[TokenOf[v]] >= 2 * Retry + Skew[v] + timer[v]
  BY DEF LineInv, Placed
<1>2. qts[TokenOf[v]] \in Nat /\ timer[v] \in Nat /\ Retry \in Nat
  BY <1>1, QueueParts, WaitAssumption, DeadlinesBounded DEF WaitShape, CallerShape
<1>3. \A w \in Waiters : Skew[w] \in Nat /\ Skew[w] < 2 * Retry + Skew[v]
  BY DeadlinesBounded DEF ClocksClose
<1>4. \A w \in Waiters : ~ (qts[TokenOf[v]] <= Skew[w])
  BY <1>1, <1>2, <1>3, DeadlinesBounded
<1> QED
  BY <1>1, <1>4 DEF Dead

\* What a step of w may do to the tokens of the others ...
KeepsOthers(w) ==
    /\ \A t \in DOMAIN qts' : t # TokenOf[w] => t \in DOMAIN qts /\ qts'[t] = qts[t]
    /\ \A t \in DOMAIN qts : ~ Dead(t, w) /\ t # TokenOf[w] => t \in DOMAIN qts'
    /\ \A x, y : Before(queue, x, y) /\ ~ Dead(x, w) /\ x # TokenOf[w] /\ y # TokenOf[w]
                    => Before(queue', x, y)

\* ... and to the others themselves.
KeepsCallers(w) ==
    /\ \A v \in Waiters : v # w =>
          /\ pc'[v] = pc[v] /\ timer'[v] = timer[v]
          /\ v \in Range(line') <=> v \in Range(line)
    /\ \A u, v \in Waiters : u # w /\ v # w /\ Before(line', u, v) => Before(line, u, v)

LEMMA OthersKeepTheirPlace ==
    ASSUME WaitShape, LineInv, TokensApart, ClocksClose, NEW w \in Waiters,
           fair' = fair, fair => KeepsOthers(w), KeepsCallers(w)
    PROVE  /\ \A v \in Waiters : v # w => Placed(v)'
           /\ fair => \A u, v \in Waiters : u # w /\ v # w /\ Before(line', u, v)
                                              => Before(queue', TokenOf[u], TokenOf[v])
<1>1. \A v \in Waiters : v # w => TokenOf[v] # TokenOf[w]
  BY DEF TokensApart
<1>2. ASSUME NEW v \in Waiters, v # w
      PROVE  Placed(v)'
  <2>1. /\ pc'[v] = pc[v] /\ timer'[v] = timer[v]
        /\ v \in Range(line') <=> v \in Range(line)
    BY <1>2 DEF KeepsCallers
  <2>2. Placed(v)
    BY DEF LineInv
  <2>3. ASSUME fair, TokenOf[v] \notin DOMAIN qts
        PROVE  TokenOf[v] \notin DOMAIN qts'
    BY <1>1, <1>2, <2>3 DEF KeepsOthers
  <2>4. ASSUME fair, v \in Range(line)
        PROVE  TokenOf[v] \in DOMAIN qts' /\ qts'[TokenOf[v]] = qts[TokenOf[v]]
    <3>1. TokenOf[v] \in DOMAIN qts /\ ~ Dead(TokenOf[v], w)
      BY <2>4, WaitersLookAlive
    <3> QED
      BY <1>1, <1>2, <2>4, <3>1 DEF KeepsOthers
  <2> QED
    BY <2>1, <2>2, <2>3, <2>4 DEF Placed
<1>3. ASSUME fair, NEW u \in Waiters, NEW v \in Waiters, u # w, v # w, Before(line', u, v)
      PROVE  Before(queue', TokenOf[u], TokenOf[v])
  <2>1. Before(line, u, v)
    BY <1>3 DEF KeepsCallers
  <2>2. u \in Range(line)
    BY <2>1, BeforeInRange
  <2>3. ~ Dead(TokenOf[u], w)
    BY <1>3, <2>2, WaitersLookAlive
  <2>4. Before(queue, TokenOf[u], TokenOf[v])
    BY <1>3, <2>1 DEF LineInv, SameOrder
  <2> QED
    BY <1>1, <1>3, <2>3, <2>4 DEF KeepsOthers
<1> QED
  BY <1>2, <1>3

\* Every attempt, and every withdrawal, leaves the others alone.
LEMMA AttemptKeepsOthers ==
    ASSUME WaitShape, LineInv, NEW w \in Waiters,
           \/ Succeeds(w) /\ Take(w)
           \/ Busy(w)
           \/ FairCancel(TokenOf[w])
           \/ UNCHANGED queueVars
    PROVE  /\ fair' = fair
           /\ fair => KeepsOthers(w)
           /\ ~ fair => queue' = <<>>
<1>1. fair' = fair
  BY DEF Take, FairTake, Busy, FairQueue, FairCancel, queueVars
<1>2. ASSUME fair
      PROVE  KeepsOthers(w)
  <2>1. QueueShape /\ TokenOf[w] \in Tokens
    BY WaitAssumption DEF WaitShape
  <2>2. CASE Succeeds(w) /\ Take(w)
    <3>1. MayTake(w) /\ FairTake(w)
      BY <1>2, <2>2 DEF Succeeds, Take
    <3> QED
      BY <2>1, <3>1, FairTakeIs DEF KeepsOthers
  <2>3. CASE Busy(w)
    <3>1. FairQueue(w)
      BY <1>2, <2>3 DEF Busy
    <3> QED
      BY <2>1, <3>1, FairQueueIs DEF KeepsOthers
  <2>4. CASE FairCancel(TokenOf[w])
    BY <2>1, <2>4, FairCancelIs DEF KeepsOthers
  <2>5. CASE UNCHANGED queueVars
    BY <2>5 DEF KeepsOthers, queueVars
  <2> QED
    BY <2>2, <2>3, <2>4, <2>5
<1>3. ASSUME ~ fair
      PROVE  queue' = <<>>
  <2>1. queue = <<>>
    BY <1>3 DEF LineInv
  <2>2. CASE FairCancel(TokenOf[w])
    <3>1. queue' = RemoveFirst(<<>>, TokenOf[w])
      BY <2>1, <2>2 DEF FairCancel
    <3>2. ~ \E i \in 1 .. Len(<<>>) : <<>>[i] = TokenOf[w]
      OBVIOUS
    <3> QED
      BY <3>1, <3>2 DEF RemoveFirst
  <2>3. CASE ~ FairCancel(TokenOf[w])
    BY <1>3, <2>1, <2>3 DEF Take, Busy, queueVars
  <2> QED
    BY <2>2, <2>3
<1> QED
  BY <1>1, <1>2, <1>3

\* Who returns leaves the line, and nobody else does.
LEMMA ReturnKeepsCallers ==
    ASSUME CallerShape, NEW w \in Waiters, NEW where, Return(w, where)
    PROVE  KeepsCallers(w) /\ w \notin Range(line') /\ pc'[w] = where
<1>1. PICK old \in Seq(Waiters) : old = line /\ IsInjective(old)
  BY DEF CallerShape
<1>2. IsInjective(old)
  BY <1>1
<1>3. /\ Range(RemoveFirst(old, w)) = Range(old) \ {w}
      /\ \A x, y : Before(RemoveFirst(old, w), x, y) <=> Before(old, x, y) /\ x # w /\ y # w
  BY <1>2, Removed
<1>4. line' = RemoveFirst(old, w)
  BY <1>1 DEF Return
<1>5. pc'[w] = where /\ \A v \in Waiters : v # w => pc'[v] = pc[v] /\ timer'[v] = timer[v]
  BY DEF CallerShape, Return
<1>6. Range(line') = Range(line) \ {w}
  BY <1>1, <1>3, <1>4
<1>7. \A x, y : Before(line', x, y) => Before(line, x, y)
  BY <1>1, <1>3, <1>4
<1> QED
  BY <1>5, <1>6, <1>7 DEF KeepsCallers

\* A step of a caller that is not in the line after it.
LEMMA OutOfLine ==
    ASSUME WaitShape, LineInv, TokensApart, ClocksClose, NEW w \in Waiters,
           \/ Succeeds(w) /\ Take(w)
           \/ Busy(w)
           \/ FairCancel(TokenOf[w])
           \/ UNCHANGED queueVars,
           KeepsCallers(w), w \notin Range(line'), pc'[w] # "sleeping",
           fair /\ pc'[w] \in {"idle", "trying"} => TokenOf[w] \notin DOMAIN qts'
    PROVE  LineInv'
<1>1. fair' = fair /\ (fair => KeepsOthers(w)) /\ (~ fair => queue' = <<>>)
  BY AttemptKeepsOthers
<1>2. /\ \A v \in Waiters : v # w => Placed(v)'
      /\ fair => \A u, v \in Waiters : u # w /\ v # w /\ Before(line', u, v)
                                         => Before(queue', TokenOf[u], TokenOf[v])
  BY <1>1, OthersKeepTheirPlace
<1>3. Placed(w)'
  BY <1>1 DEF Placed
<1>4. SameOrder'
  <2>1. \A u, v \in Waiters : Before(line', u, v) => u # w /\ v # w
    BY BeforeInRange
  <2> QED
    BY <1>1, <1>2, <2>1 DEF SameOrder
<1> QED
  BY <1>1, <1>2, <1>3, <1>4 DEF LineInv

\* A step that leaves the line as it is, and the timers of the others.
LEMMA SameLineKeepsCallers ==
    ASSUME NEW w \in Waiters, CallerShape, UNCHANGED line,
           \A v \in Waiters : v # w => pc'[v] = pc[v] /\ timer'[v] = timer[v]
    PROVE  KeepsCallers(w)
BY DEF KeepsCallers

LEMMA ReturnsKeepLine ==
    ASSUME WaitShape, LineInv, TokensApart, ClocksClose, NEW w \in Waiters,
           \/ Succeeds(w) /\ Take(w)
           \/ Busy(w)
           \/ UNCHANGED queueVars,
           NEW where \in {"held", "leaving", "gone", "dead"}, Return(w, where)
    PROVE  LineInv'
<1>1. KeepsCallers(w) /\ w \notin Range(line') /\ pc'[w] = where
  BY ReturnKeepsCallers DEF WaitShape
<1>2. pc'[w] # "sleeping" /\ pc'[w] \notin {"idle", "trying"}
  BY <1>1
<1> QED
  BY <1>1, <1>2, OutOfLine

LEMMA SleepKeepsLine ==
    ASSUME WaitShape, LineInv, TokensApart, ClocksClose, NEW w \in Waiters,
           TryWaits(w), ~ (w \in Once \/ BlockWait(w) = 0)
    PROVE  LineInv'
<1>1. /\ Busy(w) /\ pc[w] = "trying"
      /\ pc' = [pc EXCEPT ![w] = "sleeping"]
      /\ timer' = [timer EXCEPT ![w] = BlockWait(w)]
      /\ line' = IF w \in Range(line) THEN line ELSE Append(line, w)
  BY DEF TryWaits
<1>2. PICK old \in Seq(Waiters) : old = line /\ IsInjective(old)
  BY DEF WaitShape, CallerShape
<1>3. /\ Range(line') = Range(line) \union {w}
      /\ \A u, v : Before(line', u, v) =>
             Before(line, u, v) \/ (w \notin Range(line) /\ u \in Range(line) /\ v = w)
  <2>1. CASE w \in Range(line)
    BY <1>1, <2>1
  <2>2. CASE w \notin Range(line)
    <3>1. IsInjective(old) /\ w \notin Range(old)
      BY <1>2, <2>2
    <3>2. /\ Range(Append(old, w)) = Range(old) \union {w}
          /\ \A x, y : Before(Append(old, w), x, y) <=>
                          Before(old, x, y) \/ (x \in Range(old) /\ y = w)
      BY <3>1, Queued
    <3>3. line' = Append(old, w)
      BY <1>1, <1>2, <2>2
    <3> QED
      BY <1>2, <2>2, <3>2, <3>3
  <2> QED
    BY <2>1, <2>2
<1>4. pc'[w] = "sleeping" /\ timer'[w] = BlockWait(w)
      /\ \A v \in Waiters : v # w => pc'[v] = pc[v] /\ timer'[v] = timer[v]
  BY <1>1 DEF WaitShape, CallerShape
<1>5. KeepsCallers(w)
  <2>1. \A u, v \in Waiters : u # w /\ v # w /\ Before(line', u, v) => Before(line, u, v)
    BY <1>3
  <2> QED
    BY <1>3, <1>4, <2>1 DEF KeepsCallers
<1>6. fair' = fair /\ (fair => KeepsOthers(w)) /\ (~ fair => queue' = <<>>)
  BY <1>1, AttemptKeepsOthers
<1>7. \A v \in Waiters : v # w => Placed(v)'
  BY <1>5, <1>6, OthersKeepTheirPlace
<1>8. CASE ~ fair
  <2>1. Placed(w)'
    BY <1>3, <1>4, <1>6, <1>8 DEF Placed
  <2> QED
    BY <1>6, <1>7, <1>8, <2>1 DEF LineInv, SameOrder
<1>9. CASE fair
  <2>1. FairQueue(w) /\ QueueShape
    BY <1>1, <1>9 DEF Busy, WaitShape
  <2>2. /\ TokenOf[w] \in DOMAIN qts' /\ qts'[TokenOf[w]] = Heartbeat + Skew[w]
        /\ \A x, y : Before(queue, x, y) /\ ~ Dead(x, w) => Before(queue', x, y)
        /\ \A x \in DOMAIN qts :
              ~ Dead(x, w) /\ TokenOf[w] \notin DOMAIN qts => Before(queue', x, TokenOf[w])
    BY <2>1, FairQueueIs
  <2>3. qts'[TokenOf[w]] >= 2 * Retry + Skew[w] + timer'[w]
    <3>1. BlockWait(w) \in 0 .. Retry
      BY BlockWaitIs
    <3>2. Retry \in Nat /\ Skew[w] \in Nat
      BY WaitAssumption
    <3> QED
      BY <1>4, <2>2, <3>1, <3>2 DEF Heartbeat
  <2>4. Placed(w)'
    BY <1>3, <1>4, <2>2, <2>3 DEF Placed
  <2>5. ASSUME NEW u \in Waiters, NEW v \in Waiters, Before(line', u, v)
        PROVE  Before(queue', TokenOf[u], TokenOf[v])
    <3>1. u \in Range(line)
      BY <1>3, <2>5, BeforeInRange
    <3>2. TokenOf[u] \in DOMAIN qts /\ ~ Dead(TokenOf[u], w)
      BY <1>9, <3>1, WaitersLookAlive
    <3>3. CASE Before(line, u, v)
      <4>1. Before(queue, TokenOf[u], TokenOf[v])
        BY <1>9, <3>3 DEF LineInv, SameOrder
      <4> QED
        BY <2>2, <3>2, <4>1
    <3>4. CASE w \notin Range(line) /\ v = w
      <4>1. TokenOf[w] \notin DOMAIN qts
        BY <1>1, <1>9, <3>4 DEF LineInv, Placed
      <4> QED
        BY <2>2, <3>2, <3>4, <4>1
    <3> QED
      BY <1>3, <2>5, <3>3, <3>4
  <2> QED
    BY <1>6, <1>7, <1>9, <2>4, <2>5 DEF LineInv, SameOrder
<1> QED
  BY <1>8, <1>9

LEMMA TriesKeepLine ==
    ASSUME WaitShape, LineInv, TokensApart, ClocksClose, NEW w \in Waiters,
           TryTakes(w) \/ TryWaits(w) \/ TryFails(w)
    PROVE  LineInv'
<1>1. CASE TryTakes(w)
  <2>1. Succeeds(w) /\ Take(w) /\ Return(w, "held")
    BY <1>1 DEF TryTakes
  <2> QED
    BY <2>1, ReturnsKeepLine
<1>2. CASE TryWaits(w) /\ (w \in Once \/ BlockWait(w) = 0)
  <2>1. Busy(w) /\ Return(w, IF fair THEN "leaving" ELSE "gone")
    BY <1>2 DEF TryWaits, GiveUp
  <2>2. PICK where \in {"leaving", "gone"} : Return(w, where)
    BY <2>1
  <2> QED
    BY <2>1, <2>2, ReturnsKeepLine
<1>3. CASE TryFails(w)
  <2>1. /\ Return(w, "gone")
        /\ \/ Succeeds(w) /\ Take(w)
           \/ Busy(w)
           \/ UNCHANGED queueVars
    BY <1>3 DEF TryFails
  <2> QED
    BY <2>1, ReturnsKeepLine
<1> QED
  BY <1>1, <1>2, <1>3, SleepKeepsLine

\* A caller that wakes stays in the line.
LEMMA WakesKeepLine ==
    ASSUME WaitShape, LineInv, TokensApart, ClocksClose, NEW w \in Waiters,
           WakeByMessage(w) \/ WakeByTimer(w)
    PROVE  LineInv'
<1>1. /\ pc[w] = "sleeping" /\ pc' = [pc EXCEPT ![w] = "trying"]
      /\ UNCHANGED <<queueVars, line>>
      /\ timer' = [timer EXCEPT ![w] = 0] \/ timer' = timer
  BY DEF WakeByMessage, WakeByTimer
<1>2. pc'[w] = "trying" /\ (timer'[w] = 0 \/ timer'[w] = timer[w])
      /\ \A v \in Waiters : v # w => pc'[v] = pc[v] /\ timer'[v] = timer[v]
  BY <1>1 DEF WaitShape, CallerShape
<1>3. KeepsCallers(w)
  BY <1>1, <1>2, SameLineKeepsCallers DEF WaitShape
<1>4. fair' = fair /\ (fair => KeepsOthers(w)) /\ (~ fair => queue' = <<>>)
  BY <1>1, AttemptKeepsOthers
<1>5. \A v \in Waiters : v # w => Placed(v)'
  BY <1>3, <1>4, OthersKeepTheirPlace
<1>6. Placed(w)'
  <2>1. w \in Range(line) /\ Placed(w)
    BY <1>1 DEF LineInv, Placed
  <2>2. ASSUME fair
        PROVE  /\ TokenOf[w] \in DOMAIN qts
               /\ qts[TokenOf[w]] >= 2 * Retry + Skew[w] + timer'[w]
    <3>1. TokenOf[w] \in DOMAIN qts /\ qts[TokenOf[w]] >= 2 * Retry + Skew[w] + timer[w]
      BY <2>1, <2>2 DEF Placed
    <3>2. qts[TokenOf[w]] \in Nat /\ timer[w] \in Nat /\ Retry \in Nat /\ Skew[w] \in Nat
      BY <3>1, QueueParts, WaitAssumption, DeadlinesBounded DEF WaitShape, CallerShape
    <3> QED
      BY <1>2, <3>1, <3>2
  <2> QED
    BY <1>1, <1>2, <2>1, <2>2 DEF Placed, queueVars
<1>7. SameOrder'
  BY <1>1 DEF LineInv, SameOrder, queueVars
<1> QED
  BY <1>4, <1>5, <1>6, <1>7 DEF LineInv

\* The steps of callers that are not in the line, and the ways to leave it.
LEMMA QuietKeepsLine ==
    ASSUME WaitShape, LineInv, TokensApart, ClocksClose, NEW w \in Waiters,
           \/ Begin(w) \/ Restart(w) \/ Leave(w) \/ Unlock(w) \/ Renew(w)
           \/ SubscribeArrives(w) \/ Cancel(w) \/ Crash(w)
    PROVE  LineInv'
<1>1. CASE Cancel(w)
  <2>1. UNCHANGED queueVars /\ Return(w, IF fair THEN "leaving" ELSE "gone")
    BY <1>1 DEF Cancel, GiveUp
  <2>2. PICK where \in {"leaving", "gone"} : Return(w, where)
    BY <2>1
  <2> QED
    BY <2>1, <2>2, ReturnsKeepLine
<1>2. CASE Crash(w)
  <2>1. UNCHANGED queueVars /\ Return(w, "dead")
    BY <1>2 DEF Crash
  <2> QED
    BY <2>1, ReturnsKeepLine
<1>3. CASE Begin(w) \/ Restart(w) \/ Leave(w) \/ Unlock(w) \/ Renew(w)
  <2>1. /\ UNCHANGED <<line, timer>>
        /\ UNCHANGED queueVars \/ FairCancel(TokenOf[w])
        /\ pc[w] \in {"idle", "gone", "leaving", "held"}
        /\ \/ pc' = [pc EXCEPT ![w] = "trying"] /\ pc[w] = "idle" /\ UNCHANGED queueVars
           \/ pc' = [pc EXCEPT ![w] = "idle"] /\ TokenOf[w] \notin DOMAIN qts
              /\ UNCHANGED queueVars
           \/ pc' = [pc EXCEPT ![w] = "gone"]
           \/ pc' = pc /\ pc[w] = "held"
    BY <1>3 DEF Begin, Restart, Leave, Unlock, Renew, waitVars
  <2>2. KeepsCallers(w)
    BY <2>1, SameLineKeepsCallers DEF WaitShape, CallerShape
  <2>3. w \notin Range(line')
    BY <2>1 DEF LineInv, Placed
  <2>4. /\ pc'[w] # "sleeping"
        /\ fair /\ pc'[w] \in {"idle", "trying"} => TokenOf[w] \notin DOMAIN qts'
    <3>1. fair /\ pc[w] = "idle" => TokenOf[w] \notin DOMAIN qts
      BY DEF LineInv, Placed
    <3> QED
      BY <2>1, <3>1 DEF WaitShape, CallerShape, queueVars
  <2> QED
    BY <2>1, <2>2, <2>3, <2>4, OutOfLine
<1>4. CASE SubscribeArrives(w)
  BY <1>4 DEF SubscribeArrives, LineInv, Placed, SameOrder, queueVars
<1> QED
  BY <1>1, <1>2, <1>3, <1>4

\* A caller in the line acts on its timer before the tick in which its
\* deadline would come closer than two polls.
LEMMA TickKeepsLine ==
    ASSUME WaitShape, LineInv, Tick
    PROVE  LineInv'
<1>1. /\ UNCHANGED <<fair, queue, pc, line>>
      /\ qts' = [t \in DOMAIN qts |-> Less(qts[t])]
      /\ timer' = [w \in Waiters |-> Less(timer[w])]
      /\ \A w \in Waiters : Punctual(w)
  BY DEF Tick
<1>2. ASSUME NEW w \in Waiters
      PROVE  Placed(w)'
  <2>1. Placed(w)
    BY DEF LineInv
  <2>2. DOMAIN qts' = DOMAIN qts
    BY <1>1
  <2>3. ASSUME fair, w \in Range(line)
        PROVE  qts'[TokenOf[w]] >= 2 * Retry + Skew[w] + timer'[w]
    <3>1. TokenOf[w] \in DOMAIN qts /\ qts[TokenOf[w]] >= 2 * Retry + Skew[w] + timer[w]
      BY <2>1, <2>3 DEF Placed
    <3>2. qts[TokenOf[w]] \in Nat /\ timer[w] \in Nat /\ Retry \in Nat \ {0} /\ Skew[w] \in Nat
      BY <3>1, QueueParts, WaitAssumption, DeadlinesBounded DEF WaitShape, CallerShape
    <3>3. timer[w] # 0
      BY <1>1, <2>1, <2>3 DEF Placed, Punctual
    <3>4. qts'[TokenOf[w]] = Less(qts[TokenOf[w]]) /\ timer'[w] = Less(timer[w])
      BY <1>1, <3>1
    <3>5. timer'[w] = timer[w] - 1 /\ qts'[TokenOf[w]] = qts[TokenOf[w]] - 1
      BY <3>1, <3>2, <3>3, <3>4 DEF Less
    <3> QED
      BY <3>1, <3>2, <3>5
  <2> QED
    BY <1>1, <2>1, <2>2, <2>3 DEF Placed
<1>3. SameOrder' /\ (~ fair' => queue' = <<>>)
  BY <1>1 DEF LineInv, SameOrder
<1> QED
  BY <1>2, <1>3 DEF LineInv

LEMMA LineStep ==
    ASSUME TokensApart, ClocksClose
    PROVE  WaitShape /\ LineInv /\ [Next]_vars => LineInv'
<1>1. ASSUME WaitShape, LineInv, NEW w \in Waiters,
             \/ Begin(w) \/ SubscribeArrives(w) \/ CallerStep(w) \/ Cancel(w)
             \/ Unlock(w) \/ Renew(w) \/ Crash(w) \/ Restart(w)
      PROVE  LineInv'
  BY <1>1, TriesKeepLine, WakesKeepLine, QuietKeepsLine DEF CallerStep
<1>2. ASSUME LineInv, UNCHANGED vars
      PROVE  LineInv'
  BY <1>2 DEF LineInv, Placed, SameOrder, vars, queueVars, waitVars
<1> QED
  BY <1>1, <1>2, TickKeepsLine DEF Next

LEMMA LineInit == Init => LineInv
<1> SUFFICES ASSUME Init
             PROVE  LineInv
  OBVIOUS
<1>1. /\ queue = <<>> /\ line = <<>> /\ DOMAIN qts = {}
      /\ pc = [w \in Waiters |-> "idle"]
  BY DEF Init
<1>2. Range(line) = {}
  BY <1>1 DEF Range
<1>3. ~ \E u, v : Before(line, u, v)
  BY <1>1 DEF Before
<1> QED
  BY <1>1, <1>2, <1>3 DEF LineInv, Placed, SameOrder

\* The steps keep the place of who sleeps on ...
LEMMA KeptStep ==
    ASSUME WaitShape, WaitShape', LineInv', [Next]_vars, NEW w \in Waiters,
           pc'[w] = "sleeping", TokenOf[w] \in Range(queue), LineInv
    PROVE  TokenOf[w] \in Range(queue')
<1>1. fair' = fair
  BY DEF Next, CallerStep, Begin, SubscribeArrives, TryTakes, TryWaits, TryFails, Take, FairTake, Busy,
         FairQueue, WakeByMessage, WakeByTimer, Cancel, Leave, FairCancel, Unlock,
         Renew, Crash, Restart, Tick, vars, queueVars
<1>2. CASE fair
  <2>1. TokenOf[w] \in DOMAIN qts'
    BY <1>1, <1>2 DEF LineInv, Placed
  <2> QED
    BY <2>1 DEF WaitShape, QueueShape, QueueConsistent
<1>3. CASE ~ fair
  BY <1>3 DEF LineInv, Range
<1> QED
  BY <1>2, <1>3

\* ... and let nobody in before the head of the line.
LEMMA FirstStep ==
    ASSUME WaitShape, LineInv, ClocksClose, TokensApart, NEW w \in Waiters, fair, Free,
           TryTakes(w), line # <<>>
    PROVE  TokenOf[Head(line)] = TokenOf[w]
<1>1. PICK old \in Seq(Waiters) : old = line /\ IsInjective(old)
  BY DEF WaitShape, CallerShape
<1>2. PICK u \in Waiters : u = Head(line) /\ u = old[1] /\ 1 \in DOMAIN old
  BY <1>1
<1>3. u \in Range(line)
  BY <1>1, <1>2 DEF Range
<1>4. SUFFICES ASSUME u # w
               PROVE  FALSE
  BY <1>2
<1>5. TokenOf[u] \in DOMAIN qts /\ ~ Dead(TokenOf[u], w)
  BY <1>3, WaitersLookAlive
<1>6. ~ Owns(TokenOf[w])
  <2>1. TokenOf[w] \in Tokens
    BY WaitAssumption
  <2> QED
    BY <2>1 DEF Free, NoKey, Owns
<1>7. PICK rest \in Seq(Tokens) :
          /\ rest = Cleaned(w) /\ IsInjective(rest)
          /\ TokenOf[u] \in Range(rest)
          /\ Range(rest) \subseteq DOMAIN qts
          /\ \A x, y : Before(queue, x, y) /\ ~ Dead(x, w) => Before(rest, x, y)
  BY <1>5, CleanedIs DEF WaitShape
<1>8. rest # <<>>
  BY <1>7 DEF Range
<1>9. Head(rest) = TokenOf[w] /\ rest[1] = TokenOf[w] /\ 1 \in DOMAIN rest
  BY <1>6, <1>7, <1>8 DEF TryTakes, Succeeds, MayTake
<1>10. w \in Range(line)
  <2>1. TokenOf[w] \in DOMAIN qts /\ pc[w] = "trying"
    BY <1>7, <1>9 DEF Range, TryTakes
  <2> QED
    BY <2>1 DEF LineInv, Placed
<1>11. Before(line, u, w)
  <2>1. PICK j \in DOMAIN old : old[j] = w
    BY <1>1, <1>10 DEF Range
  <2>2. 1 < j
    BY <1>2, <1>4, <2>1
  <2> QED
    BY <1>1, <1>2, <2>1, <2>2 DEF Before
<1>12. Before(rest, TokenOf[u], TokenOf[w])
  BY <1>5, <1>7, <1>11 DEF LineInv, SameOrder
<1>13. PICK i, j \in DOMAIN rest : i < j /\ rest[j] = TokenOf[w]
  BY <1>12 DEF Before
<1>14. j = 1
  BY <1>7, <1>9, <1>13 DEF IsInjective
<1> QED
  BY <1>13, <1>14

\* A fair lock goes to the callers in the order in which they began to wait:
\* for any number of callers, each with a token of its own and a clock less
\* than two polls apart from the others', that time out, cancel, die, lose
\* answers and come back.
THEOREM FirstInIsFirstOut ==
    ASSUME TokensApart, ClocksClose
    PROVE  Spec => FirstInFirstOut
<1>1. WaitShape /\ LineInv /\ [Next]_vars
        => [\A w \in Waiters :
              fair /\ Free /\ pc[w] # "held" /\ pc'[w] = "held"
                 => line = <<>> \/ TokenOf[Head(line)] = TokenOf[w]]_vars
  <2>1. ASSUME WaitShape, LineInv, Next, NEW w \in Waiters, fair, Free,
               pc[w] # "held", pc'[w] = "held", line # <<>>
        PROVE  TokenOf[Head(line)] = TokenOf[w]
    <3>1. TryTakes(w)
      <4>1. ASSUME NEW v \in Waiters, NEW where \in Pcs, Return(v, where), where # "held"
            PROVE  FALSE
        BY <2>1, <4>1 DEF Return, WaitShape, CallerShape
      <4>2. ASSUME NEW v \in Waiters, GiveUp(v)
            PROVE  FALSE
        BY <4>1, <4>2 DEF GiveUp, Pcs
      <4>3. ASSUME NEW v \in Waiters, TryTakes(v)
            PROVE  v = w
        BY <2>1, <4>3 DEF TryTakes, Return, WaitShape, CallerShape
      <4>4. ASSUME NEW v \in Waiters, TryFails(v) \/ Crash(v)
            PROVE  FALSE
        BY <4>1, <4>4 DEF TryFails, Crash, Pcs
      <4>5. ASSUME NEW v \in Waiters, TryWaits(v) \/ Cancel(v)
            PROVE  FALSE
        BY <2>1, <4>2, <4>5 DEF TryWaits, Cancel, WaitShape, CallerShape
      <4>6. ASSUME NEW v \in Waiters,
                   \/ Begin(v) \/ WakeByMessage(v) \/ WakeByTimer(v) \/ Leave(v)
                   \/ Unlock(v) \/ Renew(v) \/ Restart(v) \/ SubscribeArrives(v)
            PROVE  FALSE
        BY <2>1, <4>6 DEF Begin, SubscribeArrives, WakeByMessage, WakeByTimer, Leave, Unlock, Renew, Restart,
                          waitVars, WaitShape, CallerShape
      <4>7. ~ Tick
        BY <2>1 DEF Tick
      <4> QED
        BY <2>1, <4>3, <4>4, <4>5, <4>6, <4>7 DEF Next, CallerStep
    <3> QED
      BY <2>1, <3>1, FirstStep
  <2> QED
    BY <2>1
<1> QED
  BY <1>1, WaitShapeInit, WaitShapeStep, LineInit, LineStep, PTL DEF Spec, FirstInFirstOut

\* Nobody's clock, crash or withdrawal takes a polling caller out of the queue
\* of a fair lock, under the same assumptions.
THEOREM WaitersKeepTheirPlace ==
    ASSUME TokensApart, ClocksClose
    PROVE  Spec => KeepsPlace
<1>1. WaitShape /\ WaitShape' /\ LineInv /\ LineInv' /\ [Next]_vars
        => [\A w \in Waiters :
              pc[w] = "sleeping" /\ pc'[w] = "sleeping" /\ TokenOf[w] \in Range(queue)
                => TokenOf[w] \in Range(queue') \/ hash'[TokenOf[w]] > 0]_vars
  BY KeptStep
<1> QED
  BY <1>1, WaitShapeInit, WaitShapeStep, LineInit, LineStep, PTL DEF Spec, KeepsPlace
=============================================================================
