---------------------------- MODULE MCRefinements ----------------------------
(***************************************************************************)
(* Instances of the components that implement an abstract specification    *)
(* (but for IncrSync, which has liveness properties besides), explored     *)
(* side by side: focus says which one moves.  They share no state, so that *)
(* a behaviour of the sum is one of a single component, and each property  *)
(* is checked on the states of its own.                                    *)
(***************************************************************************)
EXTENDS MCRelation, Interaction, FencedLock, Comments, FullCopy

CONSTANTS a, b, c, t1, t2, t3

VARIABLE focus

\* Each acquisition has an owner token of its own.
TokenEach == a :> t1 @@ b :> t2 @@ c :> t3

\* Calls about one user's likes.
Likes == Fans \X {"like"}

\* Sessions, Calls and Callers are the same two names; b and c are two
\* acquisitions alike.
Symmetry == Permutations(Sessions) \union {b :> c @@ c :> b @@ t2 :> t3 @@ t3 :> t2}

RefinementsInit ==
    /\ focus \in {"relation", "interaction", "lock", "comments", "copy"}
    /\ RelInit /\ IntrInit /\ FencedInit /\ CommentInit /\ CopyInit
    /\ focus # "copy" => srcTable = [r \in PKs |-> 0]

RefinementsNext ==
    \/ /\ focus = "relation" /\ RelNext
       /\ UNCHANGED <<focus, fencedVars, intrVars, commentVars, copyVars>>
    \/ /\ focus = "interaction" /\ IntrNext
       /\ UNCHANGED <<focus, fencedVars, relVars, commentVars, copyVars>>
    \/ /\ focus = "lock" /\ FencedNext
       /\ UNCHANGED <<focus, relVars, intrVars, commentVars, copyVars>>
    \/ /\ focus = "comments" /\ CommentNext
       /\ UNCHANGED <<focus, fencedVars, relVars, intrVars, copyVars>>
    \/ /\ focus = "copy" /\ CopyNext
       /\ UNCHANGED <<focus, fencedVars, relVars, intrVars, commentVars>>

RefinementsSpec ==
    /\ RefinementsInit
    /\ [][RefinementsNext]_<<focus, fencedVars, relVars, intrVars, commentVars, copyVars>>
=============================================================================
