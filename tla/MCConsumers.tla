----------------------------- MODULE MCConsumers -----------------------------
(***************************************************************************)
(* Instances of what works in the background, explored side by side: focus *)
(* says which part moves.  The parts share no state, so that a behaviour   *)
(* of the sum is one of a single part, which is fair to itself.            *)
(***************************************************************************)
EXTENDS IncrSync, ReadCounts, Pool, TLC

CONSTANTS r1, r2, p1, p2

\* Each row has a partition of its own.
OwnPartitions == r1 :> p1 @@ r2 :> p2

VARIABLE focus

On(part) == focus = part

PartsInit ==
    /\ focus \in {"incr", "reads", "pool"}
    /\ Init /\ ReadsInit /\ PoolInit
    /\ ~ On("pool") => policy = CHOOSE p \in Policies : TRUE

PartsNext ==
    \/ On("incr") /\ Next /\ UNCHANGED <<focus, readsVars, poolVars>>
    \/ On("reads") /\ ReadsNext /\ UNCHANGED <<focus, vars, poolVars>>
    \/ On("pool") /\ PoolNext /\ UNCHANGED <<focus, vars, readsVars>>

\* The fairness of each part, for as long as it is the one that moves.
PartsFairness ==
    /\ WF_vars(On("incr") /\ Dispatch)
    /\ \A p \in Partitions :
          /\ WF_vars(On("incr") /\ Take(p)) /\ WF_vars(On("incr") /\ Apply(p))
          /\ WF_vars(On("incr") /\ SaveCheckpoint(p))
    /\ WF_readsVars(On("reads") /\ WorkerStep) /\ WF_readsVars(On("reads") /\ CommitMarks)
    /\ \A w \in PoolWorkers : WF_poolVars(On("pool") /\ WorkerActs(w))
    /\ \A t \in PoolTasks :
          /\ WF_poolVars(On("pool") /\ SubmitterActs(t))
          /\ SF_poolVars(On("pool") /\ Enqueue(t))
    /\ WF_poolVars(On("pool") /\ CloseDone) /\ WF_poolVars(On("pool") /\ Closed)

PartsSpec ==
    PartsInit /\ [][PartsNext]_<<focus, vars, readsVars, poolVars>> /\ PartsFairness
=============================================================================
