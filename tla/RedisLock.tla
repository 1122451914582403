------------------------------ MODULE RedisLock ------------------------------
(***************************************************************************)
(* The handles of package redislock: TryLock, Unlock, ForceUnlock, Refresh *)
(* and the watchdog goroutine that keeps a lease alive, against one lock   *)
(* key.  A handle is one acquisition; handles that share a token are       *)
(* re-entrant acquisitions with one ownerId (WithReentrant).               *)
(*                                                                         *)
(* Lock.innerMu needs no variable: it is held for the whole network call   *)
(* of Refresh, of Unlock's release or of the watchdog's refresh, hence     *)
(* exactly while request[h] # "none" or wd[h] = "calling".  The deadline   *)
(* of a caller's call is the caller's own (ctx): nothing bounds it here.   *)
(***************************************************************************)
EXTENDS LockServer

CONSTANTS Handles,
          TokenOf,    \* the owner token of each handle
          Watched,    \* handles acquired without WithLeaseTime: a watchdog runs
          Refreshers, \* handles whose caller calls Refresh himself
          Fencing,    \* whether the callers of this key pass WithFencing
          Pausable,   \* handles whose process a GC or the host may suspend
          Lossy       \* whether a request or its answer can be lost

ASSUME LockAssumption ==
    /\ TokenOf \in [Handles -> Tokens]
    /\ Watched \subseteq Handles
    /\ Refreshers \subseteq Handles
    /\ Pausable \subseteq Handles
    /\ Fencing \in BOOLEAN
    /\ Lossy \in BOOLEAN

VARIABLES pc,       \* where the caller of each handle is
          fence,    \* Lock.fence
          stop,     \* Lock.stop is closed
          request,  \* the request of Refresh or Unlock under way, innerMu held
          wd,       \* the watchdog goroutine; "waiting" is blocked on innerMu
          answer,   \* what the server answered to the refresh under way
          since,    \* ticks since lastOK
          ticker,   \* ticks before the ticker fires next
          due,      \* a tick is buffered in ticker.C
          callAge,  \* ticks since the context of the refresh under way began
          lost,     \* onLost was called
          late,     \* requests given up by their client that may still run
          paused    \* handles whose process is suspended

clientVars == <<pc, fence, stop, lost, request>>
dogVars == <<wd, answer, since, ticker, due, callAge>>
vars == <<server, clientVars, dogVars, late, paused>>

Kinds == {"refresh", "release"}

\* since saturates here: past the last instant the properties tell apart.
MaxSince == Lease + 2 * Interval

TypeOK ==
    /\ ServerTypeOK
    /\ pc \in [Handles -> {"idle", "held", "unlocking", "done", "dead"}]
    /\ fence \in [Handles -> Nat]
    /\ stop \in [Handles -> BOOLEAN]
    /\ lost \in [Handles -> BOOLEAN]
    /\ request \in [Handles -> {"none", "sent", "served"}]
    /\ wd \in [Handles -> {"off", "select", "waiting", "calling"}]
    /\ answer \in [Handles -> {"none", "ok", "notHeld"}]
    /\ since \in [Handles -> 0 .. MaxSince]
    /\ ticker \in [Handles -> 1 .. Interval]
    /\ due \in [Handles -> BOOLEAN]
    /\ callAge \in [Handles -> 0 .. Interval]
    /\ late \subseteq Kinds \X Handles
    /\ paused \subseteq Pausable

Init ==
    /\ ServerInit
    /\ pc = [h \in Handles |-> "idle"]
    /\ fence = [h \in Handles |-> 0]
    /\ stop = [h \in Handles |-> FALSE]
    /\ lost = [h \in Handles |-> FALSE]
    /\ request = [h \in Handles |-> "none"]
    /\ wd = [h \in Handles |-> "off"]
    /\ answer = [h \in Handles |-> "none"]
    /\ since = [h \in Handles |-> 0]
    /\ ticker = [h \in Handles |-> Interval]
    /\ due = [h \in Handles |-> FALSE]
    /\ callAge = [h \in Handles |-> 0]
    /\ late = {}
    /\ paused = {}

-----------------------------------------------------------------------------
(* Acquisition.  A busy key leaves everything as it was: the caller of     *)
(* TryLock without WaitTime goes away, and may come back.                  *)

AcquireOnServer(h) == IF Fencing THEN FenceScript(TokenOf[h])
                                 ELSE AcquireScript(TokenOf[h])

\* newLock: the handle, and its watchdog unless the lease is fixed.
NewLock(h) ==
    /\ pc' = [pc EXCEPT ![h] = "held"]
    /\ fence' = [fence EXCEPT ![h] = IF Fencing THEN FenceAnswer ELSE 0]
    /\ wd' = [wd EXCEPT ![h] = IF h \in Watched THEN "select" ELSE "off"]
    /\ UNCHANGED <<stop, lost, request, answer, since, ticker, due, callAge>>

TryLock(h) ==
    /\ pc[h] = "idle"
    /\ h \notin paused
    /\ AcquireOnServer(h)
    /\ NewLock(h)
    /\ UNCHANGED <<late, paused>>

\* The script ran but its answer is lost: the caller gets an error and no
\* handle, and the key stays until its lease runs out.
TryLockLost(h) ==
    /\ Lossy
    /\ pc[h] = "idle"
    /\ h \notin paused
    /\ AcquireOnServer(h)
    /\ pc' = [pc EXCEPT ![h] = "done"]
    /\ UNCHANGED <<fence, stop, lost, request, dogVars, late, paused>>

-----------------------------------------------------------------------------
(* The caller's operations on a handle it holds, one after the other.      *)

\* A request its client has given up is lost, or reaches the server later.
Abandon(k, h) == late' \in {late, late \union {<<k, h>>}}

\* Nobody is inside a network call of this handle.
MuFree(h) == request[h] = "none" /\ wd[h] # "calling"

\* Unlock first stops the watchdog; innerMu may then make it wait.
UnlockBegin(h) ==
    /\ pc[h] = "held"
    /\ request[h] = "none"
    /\ h \notin paused
    /\ pc' = [pc EXCEPT ![h] = "unlocking"]
    /\ stop' = [stop EXCEPT ![h] = TRUE]
    /\ UNCHANGED <<server, fence, lost, request, dogVars, late, paused>>

\* What the caller has sent, and its script: Unlock's release or Refresh's.
CallKind(h) == IF pc[h] = "unlocking" THEN "release" ELSE "refresh"

CallScript(h) == IF pc[h] = "unlocking" THEN ReleaseScript(TokenOf[h])
                                        ELSE RefreshScript(TokenOf[h])

\* The caller takes innerMu and sends its request.
CallSend(h) ==
    /\ pc[h] = "unlocking" \/ (pc[h] = "held" /\ h \in Refreshers)
    /\ MuFree(h)
    /\ h \notin paused
    /\ request' = [request EXCEPT ![h] = "sent"]
    /\ UNCHANGED <<server, pc, fence, stop, lost, dogVars, late, paused>>

\* The server runs the script, even for a suspended client.
CallServed(h) ==
    /\ request[h] = "sent"
    /\ CallScript(h)
    /\ request' = [request EXCEPT ![h] = "served"]
    /\ UNCHANGED <<pc, fence, stop, lost, dogVars, late, paused>>

\* The answer arrives, or the caller's ctx ends the call: innerMu is free.  A
\* Refresh, whatever it returns, does not move the watchdog's lastOK.
CallEnds(h) ==
    /\ request[h] = "served" \/ (request[h] = "sent" /\ Lossy)
    /\ h \notin paused
    /\ request' = [request EXCEPT ![h] = "none"]
    /\ pc' = [pc EXCEPT ![h] = IF @ = "unlocking" THEN "done" ELSE @]
    /\ IF request[h] = "sent" THEN Abandon(CallKind(h), h) ELSE UNCHANGED late
    /\ UNCHANGED <<server, fence, stop, lost, dogVars, paused>>

\* DEL without innerMu.
ForceUnlock(h) ==
    /\ pc[h] = "held"
    /\ request[h] = "none"
    /\ h \notin paused
    /\ DelKey
    /\ pc' = [pc EXCEPT ![h] = "done"]
    /\ stop' = [stop EXCEPT ![h] = TRUE]
    /\ UNCHANGED <<fence, lost, request, dogVars, late, paused>>

-----------------------------------------------------------------------------
(* runWatchdog.  When stop is closed and a tick is buffered, Go's select   *)
(* takes either branch.                                                    *)

\* The goroutine returns, and its locals are gone.
DogExit(h) ==
    /\ wd' = [wd EXCEPT ![h] = "off"]
    /\ answer' = [answer EXCEPT ![h] = "none"]
    /\ since' = [since EXCEPT ![h] = 0]
    /\ ticker' = [ticker EXCEPT ![h] = Interval]
    /\ due' = [due EXCEPT ![h] = FALSE]
    /\ callAge' = [callAge EXCEPT ![h] = 0]

\* Mutant: a select without the stop branch.
DogDeaf(h) == FALSE

DogStop(h) ==
    /\ wd[h] = "select"
    /\ stop[h]
    /\ h \notin paused
    /\ DogExit(h)
    /\ UNCHANGED <<server, clientVars, late, paused>>

\* A tick: a context of one Interval begins, and doRefresh takes innerMu and
\* sends refresh.lua, or waits for innerMu.
DogFire(h) ==
    /\ wd[h] = "select"
    /\ due[h]
    /\ h \notin paused
    /\ wd' = [wd EXCEPT ![h] = IF MuFree(h) THEN "calling" ELSE "waiting"]
    /\ due' = [due EXCEPT ![h] = FALSE]
    /\ callAge' = [callAge EXCEPT ![h] = 0]
    /\ UNCHANGED <<server, clientVars, answer, since, ticker, late, paused>>

\* doRefresh gets innerMu within its context.
DogGetsMu(h) ==
    /\ wd[h] = "waiting"
    /\ MuFree(h)
    /\ callAge[h] < Interval
    /\ h \notin paused
    /\ wd' = [wd EXCEPT ![h] = "calling"]
    /\ UNCHANGED <<server, clientVars, answer, since, ticker, due, callAge, late, paused>>

\* The server runs the script, even for a suspended client.
DogServed(h) ==
    /\ wd[h] = "calling"
    /\ answer[h] = "none"
    /\ RefreshScript(TokenOf[h])
    /\ answer' = [answer EXCEPT ![h] = IF Owns(TokenOf[h]) THEN "ok" ELSE "notHeld"]
    /\ UNCHANGED <<clientVars, wd, since, ticker, due, callAge, late, paused>>

DogRenewed(h) ==
    /\ wd[h] = "calling"
    /\ answer[h] = "ok"
    /\ h \notin paused
    /\ wd' = [wd EXCEPT ![h] = "select"]
    /\ answer' = [answer EXCEPT ![h] = "none"]
    /\ since' = [since EXCEPT ![h] = 0]
    /\ UNCHANGED <<server, clientVars, ticker, due, callAge, late, paused>>

\* Mutant: the goroutine returns without calling onLost.
DogLostQuietly(h) ==
    /\ wd[h] = "calling"
    /\ answer[h] = "notHeld"
    /\ h \notin paused
    /\ DogExit(h)
    /\ UNCHANGED <<server, clientVars, late, paused>>

\* The token is gone: onLost, and the goroutine ends.
DogLost(h) ==
    /\ wd[h] = "calling"
    /\ answer[h] = "notHeld"
    /\ h \notin paused
    /\ DogExit(h)
    /\ lost' = [lost EXCEPT ![h] = TRUE]
    /\ UNCHANGED <<server, pc, fence, stop, request, late, paused>>

\* Mutant: errors are retried for ever.
LeaseNeverOverdue(h) == FALSE

LeaseOverdue(h) == since[h] >= Lease

\* doRefresh returned an error.
DogFailed(h) ==
    IF LeaseOverdue(h)
      THEN /\ DogExit(h)
           /\ lost' = [lost EXCEPT ![h] = TRUE]
      ELSE /\ wd' = [wd EXCEPT ![h] = "select"]
           /\ answer' = [answer EXCEPT ![h] = "none"]
           /\ UNCHANGED <<lost, since, ticker, due, callAge>>

\* No answer within the call's timeout of one Interval, or a network error
\* before it.  A request that the server has not run yet may still run later.
DogError(h) ==
    /\ wd[h] = "calling"
    /\ Lossy
    /\ h \notin paused
    /\ DogFailed(h)
    /\ IF answer[h] = "none" THEN Abandon("refresh", h) ELSE UNCHANGED late
    /\ UNCHANGED <<server, pc, fence, stop, request, paused>>

\* The context ended while doRefresh waited for innerMu: once it has innerMu,
\* the client fails without sending anything.
DogTooLate(h) ==
    /\ wd[h] = "waiting"
    /\ MuFree(h)
    /\ callAge[h] = Interval
    /\ h \notin paused
    /\ DogFailed(h)
    /\ UNCHANGED <<server, pc, fence, stop, request, late, paused>>

-----------------------------------------------------------------------------
(* The network, the processes and the clock.                               *)

LateRequest(k, h) ==
    /\ <<k, h>> \in late
    /\ late' = late \ {<<k, h>>}
    /\ CASE k = "refresh" -> RefreshScript(TokenOf[h])
         [] k = "release" -> ReleaseScript(TokenOf[h])
    /\ UNCHANGED <<clientVars, dogVars, paused>>

Crash(h) ==
    /\ pc[h] \in {"held", "unlocking"}
    /\ pc' = [pc EXCEPT ![h] = "dead"]
    /\ DogExit(h)
    /\ request' = [request EXCEPT ![h] = "none"]
    /\ paused' = paused \ {h}
    /\ IF request[h] = "sent" THEN Abandon(CallKind(h), h)
       ELSE IF wd[h] = "calling" /\ answer[h] = "none" THEN Abandon("refresh", h)
       ELSE UNCHANGED late
    /\ UNCHANGED <<server, fence, stop, lost>>

Pause(h) ==
    /\ h \in Pausable \ paused
    /\ pc[h] \in {"held", "unlocking"}
    /\ paused' = paused \union {h}
    /\ UNCHANGED <<server, clientVars, dogVars, late>>

Resume(h) ==
    /\ h \in paused
    /\ paused' = paused \ {h}
    /\ UNCHANGED <<server, clientVars, dogVars, late>>

\* A running process serves its timers within a tick: the clock waits for it.
Punctual(h) ==
    \/ h \in paused
    \/ /\ ~ (wd[h] = "select" /\ (due[h] \/ stop[h]))
       /\ ~ (wd[h] = "calling" /\ callAge[h] = Interval)
       /\ ~ (wd[h] = "waiting" /\ MuFree(h))

AtMost(n, max) == IF n > max THEN max ELSE n

Tick ==
    /\ \A h \in Handles : Punctual(h)
    /\ ServerTick
    /\ since' = [h \in Handles |-> IF wd[h] = "off" THEN since[h]
                                   ELSE AtMost(since[h] + 1, MaxSince)]
    /\ ticker' = [h \in Handles |-> IF wd[h] = "off" THEN ticker[h]
                                    ELSE IF ticker[h] = 1 THEN Interval
                                    ELSE ticker[h] - 1]
    /\ due' = [h \in Handles |-> due[h] \/ (wd[h] # "off" /\ ticker[h] = 1)]
    /\ callAge' = [h \in Handles |-> IF wd[h] \in {"waiting", "calling"}
                                       THEN AtMost(callAge[h] + 1, Interval)
                                       ELSE callAge[h]]
    /\ UNCHANGED <<clientVars, wd, answer, late, paused>>

CallerStep(h) ==
    \/ TryLock(h) \/ TryLockLost(h) \/ UnlockBegin(h) \/ ForceUnlock(h)
    \/ CallSend(h) \/ CallServed(h) \/ CallEnds(h)

DogStep(h) ==
    \/ DogStop(h) \/ DogFire(h) \/ DogGetsMu(h) \/ DogServed(h)
    \/ DogRenewed(h) \/ DogLost(h) \/ DogError(h) \/ DogTooLate(h)

\* What the runtime and the network owe to a caller: an Unlock that waits for
\* innerMu gets it, and a call under way returns.
CallGoesOn(h) ==
    \/ pc[h] = "unlocking" /\ CallSend(h)
    \/ CallServed(h) \/ CallEnds(h)

ProcessStep(h) == Crash(h) \/ Pause(h) \/ Resume(h)

Next ==
    \/ \E h \in Handles : CallerStep(h) \/ DogStep(h) \/ ProcessStep(h)
    \/ \E k \in Kinds, h \in Handles : LateRequest(k, h)
    \/ Tick

Spec == Init /\ [][Next]_vars

(***************************************************************************)
(* Fairness.  Time passes; a running goroutine runs; a call made under     *)
(* innerMu returns, by its context's deadline at the latest, and the next  *)
(* one who waits for innerMu gets it (sync.Mutex starves nobody).  Select  *)
(* chooses among the ready branches at random, so a watchdog that is again *)
(* and again in select with stop closed leaves sooner or later: strong     *)
(* fairness for DogStop.  Callers owe nothing: they may hold for ever.     *)
(***************************************************************************)
Fairness ==
    /\ WF_vars(Tick)
    /\ \A h \in Handles :
          /\ WF_vars(DogStep(h))
          /\ SF_vars(DogStop(h))
          /\ WF_vars(Resume(h))
          /\ WF_vars(CallGoesOn(h))

LiveSpec == Spec /\ Fairness

-----------------------------------------------------------------------------
(* Properties.                                                             *)

\* The key never has two owners: acquire.lua lets a second token in only
\* when no other is there, and nothing but a script writes the hash.
OneOwner == \A s, t \in Tokens : Owns(s) /\ Owns(t) => s = t

\* A holder whose watchdog has gone has been told so by onLost: runWatchdog
\* never returns silently while the handle is held ("lock lost, goroutine
\* gone, caller none the wiser" is the phantom hold of its P0 comment).
NoSilentLoss ==
    \A h \in Watched : pc[h] = "held" /\ wd[h] = "off" => lost[h]

\* As long as a process runs, and innerMu is not what keeps it, its watchdog
\* gives the lock up less than two intervals after the lease counted from the
\* last successful refresh has run out (one to the next tick, one for that call
\* to time out), however requests, answers and errors fall between the ticks.
\* Refresh and Unlock hold innerMu under the deadline of their caller, and
\* doRefresh waits for it outside its own: so long is the notice put off, and
\* not one tick longer, since the late doRefresh then fails at once.
LossNoticedInTime ==
    \A h \in Handles \ Pausable :
        since[h] < Lease + 2 * Interval \/ wd[h] = "waiting"

\* When no caller is left, because each has unlocked, failed or died, the key
\* does not stay: not after a lost acquisition, not after a lost release, not
\* by a watchdog that goes on refreshing a key its caller has given up.
LeaseReclaimed ==
    (\A h \in Handles : pc[h] \notin {"held", "unlocking"})
        ~> (Free \/ \E h \in Handles : pc[h] = "held")

\* Every watchdog told to stop ends: no goroutine leak.
WatchdogEnds == \A h \in Handles : stop[h] ~> (wd[h] = "off")
=============================================================================
