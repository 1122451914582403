----------------------------- MODULE FollowGraph -----------------------------
(***************************************************************************)
(* What the relation service promises: a graph of who follows whom and who *)
(* blocks whom, changed by one request at a time, with two counters per    *)
(* user that are always the degrees of the graph.  To block somebody is to *)
(* cut the edges in both directions in the same breath.                    *)
(***************************************************************************)
CONSTANTS Users,
          Size(_)   \* the number of elements of a finite set

VARIABLES follows, blocks, fans, followees

graphVars == <<follows, blocks, fans, followees>>

Couples == {p \in Users \X Users : p[1] # p[2]}

Reverse(p) == <<p[2], p[1]>>

InDegree(edges, u) == Size({v \in Users : <<v, u>> \in edges})
OutDegree(edges, u) == Size({v \in Users : <<u, v>> \in edges})

FansIn(edges) == [u \in Users |-> InDegree(edges, u)]
FolloweesIn(edges) == [u \in Users |-> OutDegree(edges, u)]

GraphInit ==
    /\ follows = {} /\ blocks = {}
    /\ fans = FansIn({}) /\ followees = FolloweesIn({})

Counted == fans' = FansIn(follows') /\ followees' = FolloweesIn(follows')

Followed(p) == follows' = follows \union {p} /\ UNCHANGED blocks /\ Counted

Unfollowed(p) == follows' = follows \ {p} /\ UNCHANGED blocks /\ Counted

Blocked(p) ==
    /\ blocks' = blocks \union {p}
    /\ follows' = follows \ {p, Reverse(p)}
    /\ Counted

Unblocked(p) == blocks' = blocks \ {p} /\ UNCHANGED <<follows, fans, followees>>

GraphNext ==
    \E p \in Couples : Followed(p) \/ Unfollowed(p) \/ Blocked(p) \/ Unblocked(p)

GraphSpec == GraphInit /\ [][GraphNext]_graphVars
=============================================================================
