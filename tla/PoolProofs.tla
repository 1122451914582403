----------------------------- MODULE PoolProofs -----------------------------
(***************************************************************************)
(* Proofs about Pool for any number of workers and tasks, any capacity of  *)
(* the queue and every policy.                                             *)
(***************************************************************************)
EXTENDS Pool, TLAPS

\* A task is in the queue once, and a task that is taken is run by one worker.
EachOnce ==
    /\ \A i, j \in DOMAIN tasks : tasks[i] = tasks[j] => i = j
    /\ \A w \in PoolWorkers : task[w] # NoTask => fate[task[w]] = "taken"
    /\ \A v, w \in PoolWorkers : task[v] = task[w] /\ task[v] # NoTask => v = w
    /\ \A t \in PoolTasks : fate[t] = "taken" => \E w \in PoolWorkers : task[w] = t

\* The workers learn of a shutdown from done, and of its kind from drain.
Phases ==
    /\ done <=> closer \in {"waiting", "returned"}
    /\ drain => done
    /\ \A w \in PoolWorkers :
          /\ worker[w] \in {"drain", "runDrain"} => drain
          /\ worker[w] = "exited" => done
    /\ closer = "returned" => \A w \in PoolWorkers : worker[w] = "exited"

\* A worker that leaves after a drain has seen the queue empty.
LeftEmpty ==
    drain /\ (\E w \in PoolWorkers : worker[w] = "exited") =>
        \A t \in PoolTasks : fate[t] = "queued" => t \in late

\* Who has picked up a task after ShutdownNow does not come back to the select.
PickedOnce ==
    \A w \in PoolWorkers :
        /\ extra[w] <= 1
        /\ extra[w] > 0 => done /\ ~ drain /\ worker[w] # "select"

PoolInv == PoolTypeOK /\ EachOnce /\ Phases /\ LeftEmpty /\ PickedOnce

LEMMA PoolInvInit == PoolInit => PoolInv
<1> SUFFICES ASSUME PoolInit PROVE PoolInv
  OBVIOUS
<1>1. PoolTypeOK
  <2>1. tasks \in Seq(PoolTasks) /\ Len(tasks) = 0 /\ DOMAIN tasks = {}
    BY DEF PoolInit
  <2>2. Len(tasks) <= QueueSize
    BY <2>1, PoolAssumption
  <2>3. \A t \in PoolTasks : fate[t] = "queued" <=> \E i \in DOMAIN tasks : tasks[i] = t
    BY <2>1 DEF PoolInit
  <2> QED
    BY <2>1, <2>2, <2>3 DEF PoolInit, PoolTypeOK, Fates
<1>2. EachOnce
  BY DEF PoolInit, EachOnce
<1>3. Phases /\ LeftEmpty /\ PickedOnce
  BY DEF PoolInit, Phases, LeftEmpty, PickedOnce
<1> QED
  BY <1>1, <1>2, <1>3 DEF PoolInv

\* The steps of a task outside the queue, from and to neither queued nor taken.
OutsideMove(t) ==
    /\ fate[t] \notin {"queued", "taken"}
    /\ \E f \in Fates \ {"queued", "taken"} : Becomes(t, f)
    /\ UNCHANGED <<policy, tasks, worker, task, closed, done, drain, closer, extra, late>>

LEMMA OutsideSteps ==
    ASSUME NEW t \in PoolTasks,
           Submit(t) \/ QueueFull(t) \/ CallerRuns(t) \/ BlockedGivesUp(t)
    PROVE  OutsideMove(t)
<1>1. CASE Submit(t)
  BY <1>1 DEF Submit, OutsideMove, Fates
<1>2. CASE QueueFull(t)
  BY <1>2 DEF QueueFull, OutsideMove, Fates
<1>3. CASE CallerRuns(t)
  BY <1>3 DEF CallerRuns, OutsideMove, Fates
<1>4. CASE BlockedGivesUp(t)
  BY <1>4 DEF BlockedGivesUp, OutsideMove, Fates
<1> QED
  BY <1>1, <1>2, <1>3, <1>4

LEMMA OutsideKeeps ==
    ASSUME PoolInv, NEW t \in PoolTasks, OutsideMove(t)
    PROVE  PoolInv'
<1>1. PICK f \in Fates \ {"queued", "taken"} : fate' = [fate EXCEPT ![t] = f]
  BY DEF OutsideMove, Becomes
<1>2. /\ fate' \in [PoolTasks -> Fates]
      /\ \A u \in PoolTasks : /\ fate'[u] = "queued" <=> fate[u] = "queued"
                              /\ fate'[u] = "taken" <=> fate[u] = "taken"
  BY <1>1 DEF OutsideMove, PoolInv, PoolTypeOK, Fates
<1>3. UNCHANGED <<policy, tasks, worker, task, closed, done, drain, closer, extra, late>>
  BY DEF OutsideMove
<1>4. PoolTypeOK'
  BY <1>2, <1>3 DEF PoolInv, PoolTypeOK
<1>5. EachOnce'
  BY <1>2, <1>3 DEF PoolInv, PoolTypeOK, EachOnce
<1>6. Phases' /\ LeftEmpty' /\ PickedOnce'
  BY <1>2, <1>3 DEF PoolInv, Phases, LeftEmpty, PickedOnce
<1> QED
  BY <1>4, <1>5, <1>6 DEF PoolInv

LEMMA EnqueueKeeps ==
    ASSUME PoolInv, NEW t \in PoolTasks, Enqueue(t)
    PROVE  PoolInv'
<1>1. /\ tasks \in Seq(PoolTasks) /\ Len(tasks) \in Nat /\ Len(tasks) < QueueSize
      /\ tasks' = Append(tasks, t) /\ fate' = [fate EXCEPT ![t] = "queued"]
      /\ fate[t] \in {"entered", "blocked"}
      /\ UNCHANGED <<policy, worker, task, closed, done, drain, closer, extra>>
  BY DEF Enqueue, Becomes, PoolInv, PoolTypeOK
<1>2. /\ tasks' \in Seq(PoolTasks) /\ Len(tasks') = Len(tasks) + 1
      /\ DOMAIN tasks' = DOMAIN tasks \union {Len(tasks) + 1}
      /\ tasks'[Len(tasks) + 1] = t
      /\ \A i \in DOMAIN tasks : tasks'[i] = tasks[i] /\ i # Len(tasks) + 1
  BY <1>1
<1>3. \A i \in DOMAIN tasks : tasks[i] # t
  BY <1>1 DEF PoolInv, PoolTypeOK
<1>4. PoolTypeOK'
  <2>1. fate' \in [PoolTasks -> Fates]
    BY <1>1 DEF PoolInv, PoolTypeOK, Fates
  <2>2. \A u \in PoolTasks : fate'[u] = "queued" <=> \E i \in DOMAIN tasks' : tasks'[i] = u
    BY <1>1, <1>2 DEF PoolInv, PoolTypeOK
  <2>3. Len(tasks') <= QueueSize
    BY <1>1, <1>2, PoolAssumption
  <2>4. late' \subseteq PoolTasks
    BY DEF Enqueue, PoolInv, PoolTypeOK
  <2> QED
    BY <1>1, <1>2, <2>1, <2>2, <2>3, <2>4 DEF PoolInv, PoolTypeOK
<1>5. EachOnce'
  BY <1>1, <1>2, <1>3 DEF PoolInv, PoolTypeOK, EachOnce
<1>6. Phases' /\ PickedOnce'
  BY <1>1 DEF PoolInv, Phases, PickedOnce
<1>7. LeftEmpty'
  BY <1>1 DEF Enqueue, PoolInv, PoolTypeOK, Phases, LeftEmpty
<1> QED
  BY <1>4, <1>5, <1>6, <1>7 DEF PoolInv

\* A worker that takes the first task of the queue.
LEMMA TakeKeeps ==
    ASSUME PoolInv, NEW w \in PoolWorkers, NEW running \in {"run", "runDrain"},
           worker[w] \in {"select", "drain"}, TakeFirst(w, running),
           UNCHANGED <<policy, closed, done, drain, closer, late>>
    PROVE  /\ EachOnce' /\ LeftEmpty'
           /\ extra' \in [PoolWorkers -> Nat] => PoolTypeOK'
<1> DEFINE t == Head(tasks)
<1>1. /\ tasks \in Seq(PoolTasks) /\ tasks # <<>> /\ t \in PoolTasks
      /\ tasks' = Tail(tasks) /\ tasks' \in Seq(PoolTasks)
      /\ Len(tasks) \in Nat /\ Len(tasks) > 0 /\ t = tasks[1]
      /\ Len(tasks') = Len(tasks) - 1
      /\ DOMAIN tasks = 1 .. Len(tasks) /\ DOMAIN tasks' = 1 .. Len(tasks) - 1
      /\ \A i \in DOMAIN tasks' : tasks'[i] = tasks[i + 1]
  BY DEF TakeFirst, PoolInv, PoolTypeOK
<1>2. /\ fate' = [fate EXCEPT ![t] = "taken"] /\ task' = [task EXCEPT ![w] = t]
      /\ worker' = [worker EXCEPT ![w] = running]
  BY DEF TakeFirst, Becomes, Goes
<1> HIDE DEF t
<1>3. fate[t] = "queued" /\ t # NoTask /\ task[w] = NoTask
  BY <1>1, PoolAssumption DEF PoolInv, PoolTypeOK
<1>4. \A u \in PoolTasks : (\E i \in DOMAIN tasks' : tasks'[i] = u)
                              <=> u # t /\ \E i \in DOMAIN tasks : tasks[i] = u
  <2> SUFFICES ASSUME NEW u \in PoolTasks
               PROVE  (\E i \in DOMAIN tasks' : tasks'[i] = u)
                         <=> u # t /\ \E i \in DOMAIN tasks : tasks[i] = u
    OBVIOUS
  <2>1. ASSUME NEW i \in DOMAIN tasks', tasks'[i] = u
        PROVE  u # t /\ \E j \in DOMAIN tasks : tasks[j] = u
    BY <1>1, <2>1 DEF PoolInv, EachOnce
  <2>2. ASSUME NEW i \in DOMAIN tasks, tasks[i] = u, u # t
        PROVE  \E j \in DOMAIN tasks' : tasks'[j] = u
    <3>1. i - 1 \in DOMAIN tasks' /\ tasks'[i - 1] = u
      BY <1>1, <2>2
    <3> QED
      BY <3>1
  <2> QED
    BY <2>1, <2>2
<1>5. EachOnce'
  <2>1. \A i, j \in DOMAIN tasks' : tasks'[i] = tasks'[j] => i = j
    BY <1>1 DEF PoolInv, EachOnce
  <2>2. /\ \A v \in PoolWorkers : task'[v] = IF v = w THEN t ELSE task[v]
        /\ \A u \in PoolTasks : fate'[u] = IF u = t THEN "taken" ELSE fate[u]
    BY <1>1, <1>2 DEF PoolInv, PoolTypeOK
  <2>3. \A v \in PoolWorkers : task[v] # NoTask => task[v] \in PoolTasks /\ task[v] # t
    BY <1>3 DEF PoolInv, PoolTypeOK, EachOnce
  <2> QED
    <3>1. \A v \in PoolWorkers : task'[v] # NoTask => fate'[task'[v]] = "taken"
      BY <1>1, <2>2, <2>3 DEF PoolInv, EachOnce
    <3>2. \A u, v \in PoolWorkers : task'[u] = task'[v] /\ task'[u] # NoTask => u = v
      BY <2>2, <2>3 DEF PoolInv, EachOnce
    <3>3. ASSUME NEW u \in PoolTasks, fate'[u] = "taken"
          PROVE  \E v \in PoolWorkers : task'[v] = u
      <4>1. CASE u = t
        BY <2>2, <4>1
      <4>2. CASE u # t
        <5>1. PICK v \in PoolWorkers : task[v] = u
          BY <2>2, <3>3, <4>2 DEF PoolInv, EachOnce
        <5>2. v # w
          BY <1>3, <5>1, PoolAssumption
        <5> QED
          BY <2>2, <5>1, <5>2
      <4> QED
        BY <4>1, <4>2
    <3> QED
      BY <2>1, <3>1, <3>2, <3>3 DEF EachOnce
<1>6. LeftEmpty'
  BY <1>1, <1>2 DEF PoolInv, PoolTypeOK, LeftEmpty
<1>7. ASSUME extra' \in [PoolWorkers -> Nat]
      PROVE  PoolTypeOK'
  <2>1. fate' \in [PoolTasks -> Fates] /\ task' \in [PoolWorkers -> PoolTasks \union {NoTask}]
    BY <1>1, <1>2 DEF PoolInv, PoolTypeOK, Fates
  <2>2. \A u \in PoolTasks : fate'[u] = "queued" <=> \E i \in DOMAIN tasks' : tasks'[i] = u
    BY <1>1, <1>2, <1>4 DEF PoolInv, PoolTypeOK
  <2>3. Len(tasks') <= QueueSize
    BY <1>1, PoolAssumption DEF PoolInv, PoolTypeOK
  <2>4. \A v \in PoolWorkers : task'[v] = NoTask <=> worker'[v] \notin {"run", "runDrain"}
    BY <1>1, <1>2, <1>3 DEF PoolInv, PoolTypeOK
  <2> QED
    BY <1>1, <1>2, <1>7, <2>1, <2>2, <2>3, <2>4 DEF PoolInv, PoolTypeOK
<1> QED
  BY <1>5, <1>6, <1>7

LEMMA WorkerKeeps ==
    ASSUME PoolInv, NEW w \in PoolWorkers, WorkerActs(w)
    PROVE  PoolInv'
<1>1. CASE SelectTask(w)
  <2>1. /\ EachOnce' /\ LeftEmpty' /\ worker[w] = "select"
        /\ extra' \in [PoolWorkers -> Nat] => PoolTypeOK'
    BY <1>1, TakeKeeps DEF SelectTask
  <2>2. extra' \in [PoolWorkers -> Nat]
    BY <1>1 DEF SelectTask, PoolInv, PoolTypeOK
  <2>3. worker' = [worker EXCEPT ![w] = "run"] /\ UNCHANGED <<closed, done, drain, closer>>
    BY <1>1 DEF SelectTask, TakeFirst, Goes
  <2>4. Phases'
    BY <2>1, <2>3 DEF PoolInv, PoolTypeOK, Phases
  <2>5. PickedOnce'
    <3>1. extra[w] \in Nat /\ ~ (extra[w] > 0)
      BY <2>1 DEF PoolInv, PoolTypeOK, PickedOnce
    <3> QED
      BY <1>1, <2>1, <2>3, <3>1 DEF SelectTask, PoolInv, PoolTypeOK, PickedOnce
  <2> QED
    BY <2>1, <2>2, <2>4, <2>5 DEF PoolInv
<1>2. CASE Drain(w) /\ tasks # <<>>
  <2>1. /\ EachOnce' /\ LeftEmpty' /\ worker[w] = "drain" /\ PoolTypeOK'
    BY <1>2, TakeKeeps DEF Drain, PoolInv, PoolTypeOK
  <2>2. /\ worker' = [worker EXCEPT ![w] = "runDrain"]
        /\ UNCHANGED <<closed, done, drain, closer, extra>>
    BY <1>2 DEF Drain, TakeFirst, Goes
  <2>3. Phases' /\ PickedOnce'
    BY <2>1, <2>2 DEF PoolInv, PoolTypeOK, Phases, PickedOnce
  <2> QED
    BY <2>1, <2>3 DEF PoolInv
<1>3. CASE Top(w) \/ SelectDone(w) \/ (Drain(w) /\ tasks = <<>>)
  <2>1. /\ UNCHANGED <<policy, tasks, fate, task, closed, done, drain, closer, extra, late>>
        /\ worker[w] \in {"top", "select", "drain"}
        /\ \E where \in {"select", "drain", "exited"} :
              /\ worker' = [worker EXCEPT ![w] = where]
              /\ where = "select" => ~ done
              /\ where = "drain" => drain
              /\ where = "exited" => done /\ (drain => tasks = <<>>)
    BY <1>3 DEF Top, SelectDone, Drain, Goes, PoolInv, Phases
  <2>2. PoolTypeOK' /\ EachOnce' /\ Phases'
    BY <2>1 DEF PoolInv, PoolTypeOK, EachOnce, Phases
  <2>3. LeftEmpty'
    BY <2>1 DEF PoolInv, PoolTypeOK, LeftEmpty
  <2>4. PickedOnce'
    BY <2>1 DEF PoolInv, PoolTypeOK, PickedOnce
  <2> QED
    BY <2>2, <2>3, <2>4 DEF PoolInv
<1>4. CASE RunTask(w)
  <2>1. /\ worker[w] \in {"run", "runDrain"} /\ task[w] \in PoolTasks /\ task[w] # NoTask
        /\ fate[task[w]] = "taken"
        /\ fate' = [fate EXCEPT ![task[w]] = "ran"] /\ task' = [task EXCEPT ![w] = NoTask]
        /\ worker' = [worker EXCEPT ![w] = IF worker[w] = "run" THEN "top" ELSE "drain"]
        /\ UNCHANGED <<policy, tasks, closed, done, drain, closer, extra, late>>
    BY <1>4 DEF RunTask, Becomes, Goes, PoolInv, PoolTypeOK, EachOnce
  <2>2. \A t \in PoolTasks : fate'[t] = IF t = task[w] THEN "ran" ELSE fate[t]
    BY <2>1 DEF PoolInv, PoolTypeOK
  <2>3. PoolTypeOK'
    <3>1. \A t \in PoolTasks : fate'[t] = "queued" <=> fate[t] = "queued"
      BY <2>1, <2>2
    <3> QED
      BY <2>1, <3>1 DEF PoolInv, PoolTypeOK, Fates
  <2>4. EachOnce'
    BY <2>1, <2>2 DEF PoolInv, PoolTypeOK, EachOnce
  <2>5. Phases' /\ PickedOnce'
    BY <2>1 DEF PoolInv, PoolTypeOK, Phases, PickedOnce
  <2>6. LeftEmpty'
    BY <2>1, <2>2 DEF PoolInv, PoolTypeOK, LeftEmpty
  <2> QED
    BY <2>3, <2>4, <2>5, <2>6 DEF PoolInv
<1>5. \/ SelectTask(w) \/ RunTask(w)
      \/ Drain(w) /\ tasks # <<>>
      \/ Top(w) \/ SelectDone(w) \/ (Drain(w) /\ tasks = <<>>)
  <2>1. Top(w) \/ SelectTask(w) \/ SelectDone(w) \/ Drain(w) \/ RunTask(w)
    BY DEF WorkerActs
  <2>2. CASE tasks = <<>>
    BY <2>1, <2>2
  <2>3. CASE tasks # <<>>
    BY <2>1, <2>3
  <2> QED
    BY <2>2, <2>3
<1> QED
  BY <1>1, <1>2, <1>3, <1>4, <1>5

LEMMA CloserKeeps ==
    ASSUME PoolInv, Close("Shutdown") \/ Close("ShutdownNow") \/ CloseDone \/ Closed
    PROVE  PoolInv'
<1>1. CASE Close("Shutdown") \/ Close("ShutdownNow")
  <2>1. /\ closed' = TRUE /\ closer' \in {"Shutdown", "ShutdownNow"} /\ closer = "none"
        /\ UNCHANGED <<policy, tasks, fate, worker, task, done, drain, extra, late>>
    BY <1>1 DEF Close
  <2>2. PoolTypeOK' /\ EachOnce'
    BY <2>1 DEF PoolInv, PoolTypeOK, EachOnce
  <2>3. Phases' /\ LeftEmpty' /\ PickedOnce'
    BY <2>1 DEF PoolInv, PoolTypeOK, Phases, LeftEmpty, PickedOnce
  <2> QED
    BY <2>2, <2>3 DEF PoolInv
<1>2. CASE CloseDone
  <2>1. PoolTypeOK' /\ EachOnce' /\ Phases'
    BY <1>2 DEF CloseDone, PoolInv, PoolTypeOK, EachOnce, Phases
  <2>2. \A w \in PoolWorkers : worker[w] # "exited" /\ ~ (extra[w] > 0)
    BY <1>2 DEF CloseDone, PoolInv, Phases, PickedOnce
  <2>3. LeftEmpty' /\ PickedOnce'
    BY <1>2, <2>2 DEF CloseDone, PoolInv, LeftEmpty, PickedOnce
  <2> QED
    BY <2>1, <2>3 DEF PoolInv
<1>3. CASE Closed /\ drain
  <2>1. PoolTypeOK' /\ EachOnce'
    BY <1>3 DEF Closed, PoolInv, PoolTypeOK, EachOnce
  <2>2. Phases' /\ LeftEmpty' /\ PickedOnce'
    BY <1>3 DEF Closed, PoolInv, Phases, LeftEmpty, PickedOnce
  <2> QED
    BY <2>1, <2>2 DEF PoolInv
<1>4. CASE Closed /\ ~ drain
  <2>1. /\ tasks' = <<>> /\ closer' = "returned" /\ closer = "waiting"
        /\ fate' = [t \in PoolTasks |-> IF fate[t] = "queued" THEN "dropped" ELSE fate[t]]
        /\ \A w \in PoolWorkers : worker[w] = "exited"
        /\ UNCHANGED <<policy, worker, task, closed, done, drain, extra, late>>
    BY <1>4 DEF Closed
  <2>2. tasks' \in Seq(PoolTasks) /\ Len(tasks') = 0 /\ DOMAIN tasks' = {}
    BY <2>1
  <2>3. PoolTypeOK'
    <3>1. Len(tasks') <= QueueSize
      BY <2>2, PoolAssumption
    <3>2. \A t \in PoolTasks : fate'[t] = "queued" <=> \E i \in DOMAIN tasks' : tasks'[i] = t
      BY <2>1, <2>2
    <3>3. fate' \in [PoolTasks -> Fates]
      BY <2>1 DEF PoolInv, PoolTypeOK, Fates
    <3> QED
      BY <2>1, <2>2, <3>1, <3>2, <3>3 DEF PoolInv, PoolTypeOK
  <2>4. EachOnce'
    <3>1. \A w \in PoolWorkers : task[w] = NoTask
      BY <2>1 DEF PoolInv, PoolTypeOK
    <3> QED
      BY <2>1, <2>2, <3>1 DEF PoolInv, EachOnce
  <2>5. Phases' /\ LeftEmpty' /\ PickedOnce'
    BY <1>4, <2>1 DEF PoolInv, Phases, LeftEmpty, PickedOnce
  <2> QED
    BY <2>3, <2>4, <2>5 DEF PoolInv
<1> QED
  BY <1>1, <1>2, <1>3, <1>4

LEMMA PoolInvStep == PoolInv /\ [PoolNext]_poolVars => PoolInv'
<1> SUFFICES ASSUME PoolInv, [PoolNext]_poolVars PROVE PoolInv'
  OBVIOUS
<1>1. CASE UNCHANGED poolVars
  <2>1. PoolTypeOK' /\ EachOnce'
    BY <1>1 DEF poolVars, PoolInv, PoolTypeOK, EachOnce
  <2>2. Phases' /\ LeftEmpty' /\ PickedOnce'
    BY <1>1 DEF poolVars, PoolInv, Phases, LeftEmpty, PickedOnce
  <2> QED
    BY <2>1, <2>2 DEF PoolInv
<1>2. ASSUME NEW t \in PoolTasks, Submit(t) \/ SubmitterActs(t)
      PROVE  PoolInv'
  BY <1>2, OutsideSteps, OutsideKeeps, EnqueueKeeps DEF SubmitterActs
<1> QED
  BY <1>1, <1>2, WorkerKeeps, CloserKeeps DEF PoolNext

LEMMA InvImplies == PoolInv => PoolTypeOK /\ DrainedWhenClosed /\ AtMostOneMore
<1> SUFFICES ASSUME PoolInv PROVE DrainedWhenClosed /\ AtMostOneMore
  BY DEF PoolInv
<1>1. ASSUME closer = "returned", drain, NEW t \in PoolTasks, fate[t] \in {"queued", "taken"}
      PROVE  t \in late
  <2>1. \A w \in PoolWorkers : worker[w] = "exited" /\ task[w] = NoTask
    BY <1>1 DEF PoolInv, PoolTypeOK, Phases
  <2>2. fate[t] # "taken"
    BY <2>1, PoolAssumption DEF PoolInv, EachOnce
  <2> QED
    BY <1>1, <2>1, <2>2, PoolAssumption DEF PoolInv, LeftEmpty
<1> QED
  BY <1>1 DEF DrainedWhenClosed, PoolInv, PickedOnce, AtMostOneMore

LEMMA PoolAlways == PoolSpec => []PoolInv
  BY PoolInvInit, PoolInvStep, PTL DEF PoolSpec

\* The queue holds the tasks that are accepted and not yet taken, and a worker
\* holds a task exactly while it runs one.
THEOREM PoolTypeCorrect == PoolSpec => []PoolTypeOK
  BY PoolAlways, InvImplies, PTL

\* Shutdown returns with every task run that was accepted before done was closed.
THEOREM DrainedWhenClosedAlways == PoolSpec => []DrainedWhenClosed
  BY PoolAlways, InvImplies, PTL

\* After ShutdownNow a worker picks up at most one task.
THEOREM AtMostOneMoreAlways == PoolSpec => []AtMostOneMore
  BY PoolAlways, InvImplies, PTL
=============================================================================
