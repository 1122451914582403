----------------------------- MODULE MCFairJobs -----------------------------
(***************************************************************************)
(* The callers of a fair lock, and the jobs of the ranking, explored side  *)
(* by side: focus says which of them move.  They share no state, so that a *)
(* behaviour of the sum is one of a single part, which is fair to itself.  *)
(***************************************************************************)
EXTENDS MCBlockingAcquire, MCRanking

VARIABLE focus

On(part) == focus = part

FairJobsInit ==
    /\ focus \in {"lock", "ranking"}
    /\ Init /\ RankInit
    /\ ~ On("lock") => fair

FairJobsNext ==
    \/ On("lock") /\ Next /\ UNCHANGED <<focus, rankVars>>
    \/ On("ranking") /\ RankNext /\ UNCHANGED <<focus, vars>>

\* The fairness of each part, for as long as it is the one that moves.
FairJobsFairness ==
    /\ WF_vars(On("lock") /\ Tick)
    /\ \A w \in Waiters :
          WF_vars(On("lock") /\ CallerStep(w)) /\ WF_vars(On("lock") /\ Unlock(w))
    /\ \A j \in Jobs :
          /\ WF_rankVars(On("ranking") /\ (RecomputeBegin(j) \/ ReplaceAdd(j)))
          /\ \A bd \in Boards : SF_rankVars(On("ranking") /\ ReplaceDel(j, bd))

FairJobsSpec == FairJobsInit /\ [][FairJobsNext]_<<focus, vars, rankVars>> /\ FairJobsFairness
=============================================================================
