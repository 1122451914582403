--------------------------- MODULE BlockingAcquire ---------------------------
(***************************************************************************)
(* Waiting for a lock: Lock and TryLock of package redislock, with the     *)
(* subscribe-then-try loop of blockingAcquire, for plain locks and for     *)
(* fair ones (WithFair), whose callers stand in a queue that Redis keeps.  *)
(* A holder's lease is fixed or kept alive by its watchdog: Renew.         *)
(***************************************************************************)
EXTENDS LockServer, Sequences, SequencesExt

CONSTANTS Waiters,
          TokenOf,    \* the owner token of each caller
          FairModes,  \* whether the callers pass WithFair: TRUE, FALSE or either
          Once,       \* callers of TryLock without WaitTime
          Timed,      \* callers of TryLock with WaitTime; the others call Lock
          WaitTime,   \* ticks a Timed caller waits at most
          Retry,      \* retryInterval, in ticks
          Skew,       \* how far the clock of each caller is ahead
          Again,      \* callers that come back for another acquisition
          LossyWhen   \* the modes in which requests and answers can be lost

ASSUME WaitAssumption ==
    /\ IsFiniteSet(Waiters) /\ Waiters # {}
    /\ TokenOf \in [Waiters -> Tokens]
    /\ FairModes \subseteq BOOLEAN /\ FairModes # {} /\ LossyWhen \subseteq FairModes
    /\ Once \union Timed \union Again \subseteq Waiters
    /\ Once \intersect Timed = {}
    /\ WaitTime \in Nat \ {0} /\ Retry \in Nat \ {0}
    /\ Skew \in [Waiters -> Nat]

VARIABLES fair,       \* the mode of the key's callers: chosen once
          queue,      \* the list of waiting tokens
          qts,        \* the zset token |-> deadline, relative to true time
          pc,         \* where each caller is
          asking,     \* callers whose SUBSCRIBE is on its way to Redis
          subscribed, \* callers whom Redis has subscribed to the release channel
          message,    \* callers with a release message in their channel
          timer,      \* ticks before a sleeping caller polls again
          left,       \* ticks before the WaitTime of a caller is over
          line,       \* history: the waiting callers by their first attempt
          owed        \* history: once a release has freed the plain key, the
                      \* callers whose SUBSCRIBE was not on its way at the time

queueVars == <<fair, queue, qts>>
waitVars == <<pc, asking, subscribed, message, timer, left>>
vars == <<server, queueVars, waitVars, line, owed>>

\* Mutant: a deadline of one poll only.
HeartbeatOfOnePoll == Retry

Heartbeat == 3 * Retry

\* Deadlines are relative to a clock without skew, and saturate at 0.
LongestDeadline == Heartbeat + Max({Skew[w] : w \in Waiters})

Lossy == fair \in LossyWhen

Pcs == {"idle", "trying", "sleeping", "leaving", "held", "gone", "dead"}

\* queue and qts always speak of the same tokens, each once.  A token of the
\* queue without a deadline would block it for ever (step 1 stops there), and
\* one with a deadline only would never be let in (step 4 does not append it).
QueueConsistent ==
    /\ Range(queue) = DOMAIN qts
    /\ IsInjective(queue)

WaitTypeOK ==
    /\ ServerTypeOK
    /\ fair \in FairModes
    /\ queue \in Seq(Tokens)
    /\ \E S \in SUBSET Tokens : qts \in [S -> 0 .. LongestDeadline]
    /\ QueueConsistent
    /\ pc \in [Waiters -> Pcs]
    /\ asking \subseteq Waiters
    /\ subscribed \subseteq Waiters
    /\ message \subseteq subscribed
    /\ timer \in [Waiters -> 0 .. Retry]
    /\ left \in [Waiters -> 0 .. WaitTime]
    /\ line \in Seq(Waiters)
    /\ owed \subseteq Waiters

Init ==
    /\ ServerInit
    /\ fair \in FairModes
    /\ queue = <<>>
    /\ qts = [t \in {} |-> 0]
    /\ pc = [w \in Waiters |-> "idle"]
    /\ asking = {}
    /\ subscribed = {}
    /\ message = {}
    /\ timer = [w \in Waiters |-> 0]
    /\ left = [w \in Waiters |-> 0]
    /\ line = <<>>
    /\ owed = {}

-----------------------------------------------------------------------------
(* fair_acquire.lua.                                                       *)

\* The script compares deadlines with the clock of the caller that runs it.
Dead(t, w) == t \in DOMAIN qts /\ qts[t] <= Skew[w]

\* Mutant: step 1 left out.
NoDeadHeads(w) == 0

\* Step 1: how many of the tokens at the head of the queue are dead.
DeadHeads(w) ==
    Cardinality({i \in 1 .. Len(queue) :
                    \A j \in 1 .. i : Dead(queue[j], w)})

Cleaned(w) == SubSeq(queue, DeadHeads(w) + 1, Len(queue))

CleanedQts(w) ==
    LET removed == Range(SubSeq(queue, 1, DeadHeads(w)))
    IN  Restrict(qts, DOMAIN qts \ removed)

\* Mutant: a free key goes to whoever comes.
MayTakeAnyway(w) == Owns(TokenOf[w]) \/ Free

\* Steps 2 and 3: re-entrance, or a free key and nobody ahead.
MayTake(w) ==
    \/ Owns(TokenOf[w])
    \/ Free /\ IF Cleaned(w) = <<>> THEN TRUE ELSE Head(Cleaned(w)) = TokenOf[w]

FairTake(w) ==
    /\ IF Owns(TokenOf[w])
         THEN /\ queue' = Cleaned(w)
              /\ qts' = CleanedQts(w)
         ELSE /\ queue' = IF Cleaned(w) = <<>> THEN <<>> ELSE Tail(Cleaned(w))
              /\ qts' = Restrict(CleanedQts(w),
                                 DOMAIN CleanedQts(w) \ {TokenOf[w]})
    /\ AcquireScript(TokenOf[w]) /\ UNCHANGED fair

\* Step 4: join the tail, or stay where it is; renew the deadline.
FairQueue(w) ==
    /\ queue' = IF TokenOf[w] \in DOMAIN CleanedQts(w) THEN Cleaned(w)
                ELSE Append(Cleaned(w), TokenOf[w])
    /\ qts' = [t \in DOMAIN CleanedQts(w) \union {TokenOf[w]} |->
                 IF t = TokenOf[w] THEN Heartbeat + Skew[w]
                                   ELSE CleanedQts(w)[t]]
    /\ UNCHANGED <<server, fair>>

\* Mutant: the token leaves the queue but not the zset.
FairCancelHalf(t) ==
    /\ queue' = RemoveFirst(queue, t)
    /\ UNCHANGED <<fair, qts>>

\* fair_cancel.lua: all entries of the token go, and there is one at most
\* (QueueConsistent).
FairCancel(t) ==
    /\ queue' = RemoveFirst(queue, t)
    /\ qts' = Restrict(qts, DOMAIN qts \ {t})
    /\ UNCHANGED fair

Succeeds(w) == IF fair THEN MayTake(w) ELSE Acquirable(TokenOf[w])

Take(w) == IF fair THEN FairTake(w)
           ELSE AcquireScript(TokenOf[w]) /\ UNCHANGED queueVars

Busy(w) == IF fair THEN FairQueue(w) ELSE UNCHANGED <<server, queueVars>>

-----------------------------------------------------------------------------
(* The caller: pc, its subscription, and how it leaves.                    *)

\* Every return of blockingAcquire unsubscribes, by its defer.  The timer of a
\* caller that has returned only keeps it from coming back within the tick.
Return(w, where) ==
    /\ pc' = [pc EXCEPT ![w] = where]
    /\ asking' = asking \ {w}
    /\ subscribed' = subscribed \ {w}
    /\ message' = message \ {w}
    /\ timer' = [timer EXCEPT ![w] = 1]
    /\ left' = [left EXCEPT ![w] = 0]
    /\ line' = RemoveFirst(line, w)

\* A caller that gives up a fair lock takes its token out of the queue.
GiveUp(w) == Return(w, IF fair THEN "leaving" ELSE "gone")

Smaller(m, n) == IF m < n THEN m ELSE n

\* pttl of the answer: fair_acquire.lua gives 0 for a free key.
BlockWait(w) ==
    LET polled == IF pttl > 0 THEN Smaller(Retry, pttl) ELSE Retry
    IN  IF w \in Timed THEN Smaller(polled, left[w]) ELSE polled

\* Mutant: the caller polls without having subscribed.
BeginUnsubscribed(w) ==
    /\ pc[w] = "idle"
    /\ pc' = [pc EXCEPT ![w] = "trying"]
    /\ left' = [left EXCEPT ![w] = IF w \in Timed THEN WaitTime ELSE 0]
    /\ UNCHANGED <<server, queueVars, asking, subscribed, message, timer, line,
                   owed>>

\* Subscribe writes SUBSCRIBE on a connection of its own and waits for no
\* answer; the first attempt may be served before it.
Begin(w) ==
    /\ pc[w] = "idle"
    /\ pc' = [pc EXCEPT ![w] = "trying"]
    /\ asking' = IF w \in Once THEN asking ELSE asking \union {w}
    /\ left' = [left EXCEPT ![w] = IF w \in Timed THEN WaitTime ELSE 0]
    /\ UNCHANGED <<server, queueVars, subscribed, message, timer, line, owed>>

SubscribeArrives(w) ==
    /\ w \in asking
    /\ asking' = asking \ {w}
    /\ subscribed' = subscribed \union {w}
    /\ UNCHANGED <<server, queueVars, pc, message, timer, left, line, owed>>

TryTakes(w) ==
    /\ pc[w] = "trying"
    /\ Succeeds(w)
    /\ Take(w)
    /\ Return(w, "held")
    /\ owed' = {}

TryWaits(w) ==
    /\ pc[w] = "trying"
    /\ ~ Succeeds(w)
    /\ Busy(w)
    /\ IF w \in Once \/ BlockWait(w) = 0
         THEN GiveUp(w)
         ELSE /\ pc' = [pc EXCEPT ![w] = "sleeping"]
              /\ timer' = [timer EXCEPT ![w] = BlockWait(w)]
              /\ line' = IF w \in Range(line) THEN line ELSE Append(line, w)
              /\ UNCHANGED <<asking, subscribed, message, left>>
    /\ UNCHANGED owed

\* The attempt returns an error, the script having run or not: the caller
\* returns at once, without dequeueing.
TryFails(w) ==
    /\ Lossy
    /\ pc[w] = "trying"
    /\ \/ /\ Succeeds(w)
          /\ Take(w)
          /\ owed' = {}
       \/ /\ ~ Succeeds(w)
          /\ Busy(w)
          /\ UNCHANGED owed
       \/ UNCHANGED <<server, queueVars, owed>>
    /\ Return(w, "gone")

\* select: a release message, or the poll timer.
WakeByMessage(w) ==
    /\ pc[w] = "sleeping"
    /\ w \in message
    /\ pc' = [pc EXCEPT ![w] = "trying"]
    /\ message' = message \ {w}
    /\ timer' = [timer EXCEPT ![w] = 0]
    /\ UNCHANGED <<server, queueVars, asking, subscribed, left, line, owed>>

WakeByTimer(w) ==
    /\ pc[w] = "sleeping"
    /\ timer[w] = 0
    /\ pc' = [pc EXCEPT ![w] = "trying"]
    /\ UNCHANGED <<server, queueVars, asking, subscribed, message, timer, left, line,
                   owed>>

\* select: ctx.Done.
Cancel(w) ==
    /\ pc[w] = "sleeping"
    /\ GiveUp(w)
    /\ UNCHANGED <<server, queueVars, owed>>

\* dequeueFair, whose failure nobody hears of.
Leave(w) ==
    /\ pc[w] = "leaving"
    /\ \/ FairCancel(TokenOf[w])
       \/ Lossy /\ UNCHANGED queueVars
    /\ pc' = [pc EXCEPT ![w] = "gone"]
    /\ UNCHANGED <<server, asking, subscribed, message, timer, left, line, owed>>

-----------------------------------------------------------------------------
(* The holder.                                                             *)

\* Publish reaches the callers subscribed; pub/sub may drop a message.
Publish(t) ==
    IF FullRelease(t)
      THEN /\ IF Lossy THEN \E S \in SUBSET subscribed : message' = message \union S
                       ELSE message' = message \union subscribed
           /\ owed' = IF fair THEN {} ELSE Waiters \ asking
      ELSE UNCHANGED <<message, owed>>

Unlock(w) ==
    /\ pc[w] = "held"
    /\ ReleaseScript(TokenOf[w])
    /\ Publish(TokenOf[w])
    /\ pc' = [pc EXCEPT ![w] = "gone"]
    /\ UNCHANGED <<queueVars, asking, subscribed, timer, left, line>>

Renew(w) ==
    /\ pc[w] = "held"
    /\ RefreshScript(TokenOf[w])
    /\ UNCHANGED <<queueVars, waitVars, line, owed>>

\* A process dies wherever it is; its connection goes, its queue entry stays.
Crash(w) ==
    /\ pc[w] \in {"trying", "sleeping", "leaving", "held"}
    /\ Return(w, "dead")
    /\ UNCHANGED <<server, queueVars, owed>>

\* A new acquisition has a new token: one that Redis has no trace of.
Restart(w) ==
    /\ w \in Again
    /\ pc[w] = "gone"
    /\ timer[w] = 0
    /\ ~ Owns(TokenOf[w])
    /\ TokenOf[w] \notin DOMAIN qts
    /\ pc' = [pc EXCEPT ![w] = "idle"]
    /\ UNCHANGED <<server, queueVars, asking, subscribed, message, timer, left, line,
                   owed>>

\* A running caller acts on its timer within the tick.
Punctual(w) == /\ pc[w] \notin {"trying", "leaving"}
               /\ ~ (pc[w] = "sleeping" /\ (timer[w] = 0 \/ w \in message))

Less(n) == IF n > 0 THEN n - 1 ELSE 0

Tick ==
    /\ \A w \in Waiters : Punctual(w)
    /\ ServerTick
    /\ qts' = [t \in DOMAIN qts |-> Less(qts[t])]
    /\ timer' = [w \in Waiters |-> Less(timer[w])]
    /\ left' = [w \in Waiters |-> Less(left[w])]
    /\ UNCHANGED <<fair, queue, pc, asking, subscribed, message, line, owed>>

CallerStep(w) ==
    \/ TryTakes(w) \/ TryWaits(w) \/ TryFails(w)
    \/ WakeByMessage(w) \/ WakeByTimer(w) \/ Leave(w)

Next ==
    \/ \E w \in Waiters :
          Begin(w) \/ SubscribeArrives(w) \/ CallerStep(w) \/ Cancel(w) \/ Unlock(w)
            \/ Renew(w) \/ Crash(w) \/ Restart(w)
    \/ Tick

Spec == Init /\ [][Next]_vars

(***************************************************************************)
(* Fairness.  Time passes, running callers run, and whoever holds the lock *)
(* releases it in the end.  Nobody has to come, to come back or to cancel, *)
(* and a SUBSCRIBE need not arrive.                                        *)
(***************************************************************************)
LiveSpec ==
    /\ Spec
    /\ WF_vars(Tick)
    /\ \A w \in Waiters : WF_vars(CallerStep(w)) /\ WF_vars(Unlock(w))

-----------------------------------------------------------------------------
(* Properties.                                                             *)

\* "First in, first out by the time they began to wait" (WithFair): a free key
\* goes to the owner that has been waiting longest, and to a newcomer only if
\* nobody waits: no live waiter is evicted, or overtaken when it wakes late.
FirstInFirstOut ==
    [][\A w \in Waiters :
          fair /\ Free /\ pc[w] # "held" /\ pc'[w] = "held"
             => line = <<>> \/ TokenOf[Head(line)] = TokenOf[w]]_vars

\* A caller that waits keeps its place until its owner gets the key: as long
\* as it polls, neither a clock that is ahead nor anybody else's giving up
\* takes its token out of the queue.
KeepsPlace ==
    [][\A w \in Waiters :
          pc[w] = "sleeping" /\ pc'[w] = "sleeping" /\ TokenOf[w] \in Range(queue)
            => TokenOf[w] \in Range(queue') \/ hash'[TokenOf[w]] > 0]_vars

\* Subscribing before the first attempt leaves one window, the SUBSCRIBE's own
\* way to Redis, and no other: whoever sleeps while a released plain key is free
\* has the message of that release waiting, as long as pub/sub drops none,
\* unless Redis had not got its SUBSCRIBE when the key was released.  It then
\* sleeps for the rest of its poll timer, which is Retry at most (WaitTypeOK).
NoLostWakeup ==
    \A w \in Waiters :
       pc[w] = "sleeping" /\ Free /\ w \in owed => w \in message \/ Lossy

\* A caller in the fair queue gets the lock or gives up: neither newcomers nor
\* callers that died or gave up ahead of it make it wait for ever.
NoStarvation ==
    \A w \in Waiters :
       fair /\ pc[w] = "sleeping" ~> pc[w] \in {"held", "gone", "dead"}
=============================================================================
