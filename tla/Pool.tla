-------------------------------- MODULE Pool --------------------------------
(***************************************************************************)
(* The worker pool of pkg/pool: a bounded queue, a fixed number of         *)
(* workers, three ways to refuse, and two ways to shut down.  The queue is *)
(* never closed; workers and blocked submitters learn of a shutdown from   *)
(* the channel done.                                                       *)
(***************************************************************************)
EXTENDS Naturals, Sequences, FiniteSets

CONSTANTS PoolWorkers, PoolTasks,
          QueueSize,    \* capacity of the channel, at least 1
          Policies      \* reject policies; "timed" is Block with a timeout

NoTask == "none"

ASSUME PoolAssumption ==
    /\ IsFiniteSet(PoolWorkers) /\ PoolWorkers # {}
    /\ IsFiniteSet(PoolTasks) /\ NoTask \notin PoolTasks
    /\ QueueSize \in Nat \ {0}
    /\ Policies \subseteq {"discard", "caller", "block", "timed"}

VARIABLES policy,
          tasks,    \* the channel
          fate,     \* what has become of each task
          worker,   \* where each worker is
          task,     \* the task each worker runs, or none
          closed, done, drain,
          closer,   \* the caller of Shutdown or ShutdownNow
          extra,    \* history: tasks a worker picked up after ShutdownNow
          late      \* history: tasks queued after done was closed

poolVars == <<policy, tasks, fate, worker, task, closed, done, drain, closer, extra, late>>

Fates == {"new", "entered", "blocked", "queued", "taken", "byCaller", "ran",
          "rejected", "dropped"}

PoolTypeOK ==
    /\ policy \in Policies
    /\ tasks \in Seq(PoolTasks) /\ Len(tasks) <= QueueSize
    /\ fate \in [PoolTasks -> Fates]
    /\ worker \in [PoolWorkers -> {"top", "select", "run", "drain", "runDrain", "exited"}]
    /\ task \in [PoolWorkers -> PoolTasks \union {NoTask}]
    /\ closed \in BOOLEAN /\ done \in BOOLEAN /\ drain \in BOOLEAN
    /\ closer \in {"none", "Shutdown", "ShutdownNow", "waiting", "returned"}
    /\ extra \in [PoolWorkers -> Nat] /\ late \subseteq PoolTasks
    /\ \A t \in PoolTasks : fate[t] = "queued" <=> \E i \in DOMAIN tasks : tasks[i] = t
    /\ \A w \in PoolWorkers : task[w] = NoTask <=> worker[w] \notin {"run", "runDrain"}

PoolInit ==
    /\ policy \in Policies
    /\ tasks = <<>> /\ fate = [t \in PoolTasks |-> "new"]
    /\ worker = [w \in PoolWorkers |-> "top"] /\ task = [w \in PoolWorkers |-> NoTask]
    /\ closed = FALSE /\ done = FALSE /\ drain = FALSE /\ closer = "none"
    /\ extra = [w \in PoolWorkers |-> 0] /\ late = {}

Becomes(t, f) == fate' = [fate EXCEPT ![t] = f]

-----------------------------------------------------------------------------
(* Submit.                                                                 *)

Submit(t) ==
    /\ fate[t] = "new"
    /\ Becomes(t, IF closed THEN "rejected" ELSE "entered")
    /\ UNCHANGED <<policy, tasks, worker, task, closed, done, drain, closer, extra, late>>

\* There is room: whether the pool has been closed since nobody asks.
Enqueue(t) ==
    /\ fate[t] \in {"entered", "blocked"}
    /\ Len(tasks) < QueueSize
    /\ tasks' = Append(tasks, t)
    /\ Becomes(t, "queued")
    /\ late' = IF done THEN late \union {t} ELSE late
    /\ UNCHANGED <<policy, worker, task, closed, done, drain, closer, extra>>

QueueFull(t) ==
    /\ fate[t] = "entered"
    /\ Len(tasks) = QueueSize
    /\ Becomes(t, CASE policy = "discard" -> "rejected"
                    [] policy = "caller" -> "byCaller"
                    [] OTHER -> "blocked")
    /\ UNCHANGED <<policy, tasks, worker, task, closed, done, drain, closer, extra, late>>

CallerRuns(t) ==
    /\ fate[t] = "byCaller"
    /\ Becomes(t, "ran")
    /\ UNCHANGED <<policy, tasks, worker, task, closed, done, drain, closer, extra, late>>

\* Mutant: the submitter waits for room, and for the timer, only.
BlockedDeaf(t) ==
    /\ fate[t] = "blocked"
    /\ policy = "timed"
    /\ Becomes(t, "rejected")
    /\ UNCHANGED <<policy, tasks, worker, task, closed, done, drain, closer, extra, late>>

\* submitBlocking: the timer, or done.
BlockedGivesUp(t) ==
    /\ fate[t] = "blocked"
    /\ policy = "timed" \/ done
    /\ Becomes(t, "rejected")
    /\ UNCHANGED <<policy, tasks, worker, task, closed, done, drain, closer, extra, late>>

-----------------------------------------------------------------------------
(* Workers.                                                                *)

Goes(w, where) == worker' = [worker EXCEPT ![w] = where]

\* Mutant: no look at done before the select.
TopBlind(w) ==
    /\ worker[w] = "top"
    /\ Goes(w, "select")
    /\ UNCHANGED <<policy, tasks, fate, task, closed, done, drain, closer, extra, late>>

\* The first select: a shutdown comes before any task.
Top(w) ==
    /\ worker[w] = "top"
    /\ Goes(w, IF ~ done THEN "select" ELSE IF drain THEN "drain" ELSE "exited")
    /\ UNCHANGED <<policy, tasks, fate, task, closed, done, drain, closer, extra, late>>

TakeFirst(w, running) ==
    /\ tasks # <<>>
    /\ tasks' = Tail(tasks)
    /\ Becomes(Head(tasks), "taken")
    /\ task' = [task EXCEPT ![w] = Head(tasks)]
    /\ Goes(w, running)

\* The second select, at random when a task and done are both ready.
SelectTask(w) ==
    /\ worker[w] = "select"
    /\ TakeFirst(w, "run")
    /\ extra' = IF done /\ ~ drain THEN [extra EXCEPT ![w] = @ + 1] ELSE extra
    /\ UNCHANGED <<policy, closed, done, drain, closer, late>>

\* Mutant: a worker that was waiting leaves without draining.
LeaveAtOnce(w) ==
    /\ worker[w] = "select" /\ done
    /\ Goes(w, "exited")
    /\ UNCHANGED <<policy, tasks, fate, task, closed, done, drain, closer, extra, late>>

SelectDone(w) ==
    /\ worker[w] = "select" /\ done
    /\ Goes(w, IF drain THEN "drain" ELSE "exited")
    /\ UNCHANGED <<policy, tasks, fate, task, closed, done, drain, closer, extra, late>>

\* drainQueue.
Drain(w) ==
    /\ worker[w] = "drain"
    /\ IF tasks # <<>> THEN TakeFirst(w, "runDrain")
       ELSE Goes(w, "exited") /\ UNCHANGED <<tasks, fate, task>>
    /\ UNCHANGED <<policy, closed, done, drain, closer, extra, late>>

\* run: a panic ends the task, not the worker.
RunTask(w) ==
    /\ worker[w] \in {"run", "runDrain"}
    /\ Becomes(task[w], "ran")
    /\ task' = [task EXCEPT ![w] = NoTask]
    /\ Goes(w, IF worker[w] = "run" THEN "top" ELSE "drain")
    /\ UNCHANGED <<policy, tasks, closed, done, drain, closer, extra, late>>

-----------------------------------------------------------------------------
(* Shutdown and ShutdownNow.                                               *)

Close(how) ==
    /\ closer = "none"
    /\ closed' = TRUE /\ closer' = how
    /\ UNCHANGED <<policy, tasks, fate, worker, task, done, drain, extra, late>>

CloseDone ==
    /\ closer \in {"Shutdown", "ShutdownNow"}
    /\ drain' = (closer = "Shutdown") /\ done' = TRUE
    /\ closer' = "waiting"
    /\ UNCHANGED <<policy, tasks, fate, worker, task, closed, extra, late>>

\* wg.Wait; ShutdownNow then throws away what is left.
Closed ==
    /\ closer = "waiting"
    /\ \A w \in PoolWorkers : worker[w] = "exited"
    /\ closer' = "returned"
    /\ IF drain THEN UNCHANGED <<tasks, fate>>
       ELSE /\ tasks' = <<>>
            /\ fate' = [t \in PoolTasks |-> IF fate[t] = "queued" THEN "dropped" ELSE fate[t]]
    /\ UNCHANGED <<policy, worker, task, closed, done, drain, extra, late>>

WorkerActs(w) == Top(w) \/ SelectTask(w) \/ SelectDone(w) \/ Drain(w) \/ RunTask(w)

SubmitterActs(t) == Enqueue(t) \/ QueueFull(t) \/ CallerRuns(t) \/ BlockedGivesUp(t)

PoolNext ==
    \/ \E t \in PoolTasks : Submit(t) \/ SubmitterActs(t)
    \/ \E w \in PoolWorkers : WorkerActs(w)
    \/ Close("Shutdown") \/ Close("ShutdownNow") \/ CloseDone \/ Closed

(***************************************************************************)
(* Fairness.  Goroutines are scheduled, and tasks end; nobody has to       *)
(* submit or to shut down.  A sender that waits for room is queued in the  *)
(* channel: strong fairness.                                               *)
(***************************************************************************)
PoolFairness ==
    /\ \A w \in PoolWorkers : WF_poolVars(WorkerActs(w))
    /\ \A t \in PoolTasks :
          WF_poolVars(SubmitterActs(t)) /\ SF_poolVars(Enqueue(t))
    /\ WF_poolVars(CloseDone) /\ WF_poolVars(Closed)

PoolSpec == PoolInit /\ [][PoolNext]_poolVars /\ PoolFairness

-----------------------------------------------------------------------------
(* Properties.                                                             *)

\* "Drains the tasks that are queued, then waits for the workers" (Shutdown):
\* when it returns, every task accepted before done was closed has run.  (late:
\* a Submit that had passed the check of closed may still queue a task, also
\* after the last worker has gone.)
DrainedWhenClosed ==
    closer = "returned" /\ drain =>
        \A t \in PoolTasks : fate[t] \in {"queued", "taken"} => t \in late

\* "After ShutdownNow no queued task is picked up" (worker): at most the one
\* that a worker's second select, already waiting, prefers to done.
AtMostOneMore == \A w \in PoolWorkers : extra[w] <= 1

\* Every submission ends: Submit returns, for nobody waits for ever for room in a
\* queue that no worker empties any more, and a task it has accepted runs, unless
\* ShutdownNow throws it away.
SubmissionsEnd ==
    \A t \in PoolTasks :
       /\ fate[t] = "entered" ~> fate[t] \notin {"entered", "blocked", "byCaller"}
       /\ fate[t] = "queued" ~> fate[t] \in {"ran", "dropped"} \/ t \in late
=============================================================================
