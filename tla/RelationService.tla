-------------------------- MODULE RelationService --------------------------
(***************************************************************************)
(* The relation service: follow edges, black list, counters and the cache  *)
(* of the counters.  Sessions are requests in progress; each statement of  *)
(* a transaction that reads or waits is a step, and what a transaction     *)
(* writes appears at its commit, since its row locks hide it until then.   *)
(*                                                                         *)
(* SELECT ... FOR UPDATE locks the row of the edge, or, when the edge has  *)
(* none, the gap where it would be: gap locks are shared, but nobody can   *)
(* insert into a gap that somebody else has locked (InnoDB, REPEATABLE     *)
(* READ).  Two sessions that wait for each other end by RelRollback.       *)
(***************************************************************************)
EXTENDS Integers, FiniteSets

CONSTANTS Users, Sessions,
          Asked,      \* the couples requests are about
          Viewed      \* the users whose counters are read

Pairs == {p \in Users \X Users : p[1] # p[2]}

ASSUME RelAssumption ==
    IsFiniteSet(Users) /\ Asked \subseteq Pairs /\ Viewed \subseteq Users

VARIABLES row,        \* relation_follow: no row, or its status
          blacklist,  \* relation_block
          fanCnt, followeeCnt, \* relation_stats
          req,        \* what each session is doing
          statsCache, \* the cached counters of each user
          excused     \* history: users whose cached counters a race spoilt

relTables == <<row, blacklist, fanCnt, followeeCnt>>
relVars == <<relTables, req, statsCache, excused>>

Miss == [hit |-> FALSE]
StatsOf(u) == [hit |-> TRUE, fans |-> fanCnt[u], followees |-> followeeCnt[u]]

Swap(p) == <<p[2], p[1]>>

NoReq == [op |-> "none", at |-> "idle"]

EdgeOps == {"follow", "unfollow", "block"}

\* The edges a transaction turns over.
Flips(s) == IF req[s].op = "follow" THEN {req[s].pair} \ req[s].on ELSE req[s].on

\* What a session may be doing, and what the cache may hold.
EdgeReqs == [op : EdgeOps, pair : Pairs, on : SUBSET Pairs,
             at : {"gate", "gateBy", "insert", "lock", "lockBack", "commit", "clear"}]
Counters == {Miss} \union [hit : {TRUE}, fans : Nat, followees : Nat]
StatsReqs == [op : {"stats"}, uid : Users, val : Counters, at : {"read", "store"}]

RequestsOK ==
    /\ req \in [Sessions -> EdgeReqs \union StatsReqs \union {NoReq}]
    /\ \A s \in Sessions : req[s] \in EdgeReqs =>
          /\ req[s].on \subseteq {req[s].pair, Swap(req[s].pair)}
          /\ req[s].at = "clear" => req[s].op = "block" \/ Flips(s) # {}

RelTypeOK ==
    /\ row \in [Pairs -> {"none", "on", "off"}]
    /\ blacklist \subseteq Pairs
    /\ fanCnt \in [Users -> Nat] /\ followeeCnt \in [Users -> Nat]
    /\ RequestsOK
    /\ statsCache \in [Users -> Counters]
    /\ excused \subseteq Users

RelInit ==
    /\ row = [p \in Pairs |-> "none"]
    /\ blacklist = {}
    /\ fanCnt = [u \in Users |-> 0] /\ followeeCnt = [u \in Users |-> 0]
    /\ req = [s \in Sessions |-> NoReq]
    /\ statsCache = [u \in Users |-> Miss]
    /\ excused = {}

-----------------------------------------------------------------------------
(* Requests.                                                               *)

EdgeReq(op, p) ==
    [op |-> op, pair |-> p, on |-> {},
     at |-> CASE op = "follow" -> "gate" [] op = "unfollow" -> "lock"
              [] op = "block" -> "insert"]

StatsReq(u) == [op |-> "stats", uid |-> u, val |-> Miss, at |-> "read"]

Goto(s, where) == req' = [req EXCEPT ![s].at = where]

Done(s) == req' = [req EXCEPT ![s] = NoReq]

Request(s) ==
    /\ req[s].at = "idle"
    /\ \/ \E op \in EdgeOps, p \in Asked : req' = [req EXCEPT ![s] = EdgeReq(op, p)]
       \/ \E u \in Viewed : req' = [req EXCEPT ![s] = StatsReq(u)]
    /\ UNCHANGED <<relTables, statsCache, excused>>

\* Follow asks whom the follower blocks, then who blocks the follower, before
\* and outside the transaction.
Gate(s) ==
    /\ req[s].at = "gate"
    /\ IF req[s].pair \in blacklist THEN Done(s) ELSE Goto(s, "gateBy")
    /\ UNCHANGED <<relTables, statsCache, excused>>

GateBy(s) ==
    /\ req[s].at = "gateBy"
    /\ IF Swap(req[s].pair) \in blacklist THEN Done(s) ELSE Goto(s, "lock")
    /\ UNCHANGED <<relTables, statsCache, excused>>

\* The sessions with a lock on the row of an edge, or on its gap.
Holds(s, p) ==
    \/ req[s].op \in {"follow", "unfollow"} /\ req[s].at = "commit" /\ req[s].pair = p
    \/ req[s].op = "block" /\ req[s].at \in {"lockBack", "commit"} /\ req[s].pair = p
    \/ req[s].op = "block" /\ req[s].at = "commit" /\ Swap(req[s].pair) = p

LockGranted(s, p) == row[p] = "none" \/ \A r \in Sessions \ {s} : ~ Holds(r, p)

\* flipFollowTx, up to the comparison of the old status with the new one.
LockRead(s, p, next) ==
    /\ LockGranted(s, p)
    /\ req' = [req EXCEPT ![s].at = next,
                          ![s].on = @ \union (IF row[p] = "on" THEN {p} ELSE {})]

Lock(s) ==
    /\ req[s].at = "lock"
    /\ LockRead(s, req[s].pair, IF req[s].op = "block" THEN "lockBack" ELSE "commit")
    /\ UNCHANGED <<relTables, statsCache, excused>>

LockBack(s) ==
    /\ req[s].at = "lockBack"
    /\ LockRead(s, Swap(req[s].pair), "commit")
    /\ UNCHANGED <<relTables, statsCache, excused>>

\* The insert of a block waits for a session that has inserted the same row and
\* not committed; a row that is there makes the request a no-op.
InsertBlock(s) ==
    /\ req[s].at = "insert"
    /\ ~ \E r \in Sessions \ {s} :
            /\ req[r].op = "block" /\ req[r].pair = req[s].pair
            /\ req[r].at \in {"lock", "lockBack", "commit"}
    /\ IF req[s].pair \in blacklist THEN Done(s) ELSE Goto(s, "lock")
    /\ UNCHANGED <<relTables, statsCache, excused>>

\* An insert waits for whoever has locked the gap.
MayInsert(s) ==
    \A p \in Flips(s) : row[p] = "none" => \A r \in Sessions \ {s} : ~ Holds(r, p)

Larger(m, n) == IF m < n THEN n ELSE m

\* GREATEST(0, cnt + delta), or the seed of a new row.
Recount(s, n) == Larger(0, n + (IF req[s].op = "follow" THEN 1 ELSE -1))

\* Mutant: a cascade that forgets the other direction.
OneWay(s) ==
    row' = [p \in Pairs |-> IF p \in Flips(s) /\ p = req[s].pair
                              THEN IF req[s].op = "follow" THEN "on" ELSE "off"
                              ELSE row[p]]

WriteRows(s) ==
    row' = [p \in Pairs |-> IF p \in Flips(s)
                              THEN IF req[s].op = "follow" THEN "on" ELSE "off"
                              ELSE row[p]]

WriteCounters(s) ==
    /\ fanCnt' = [u \in Users |-> IF \E p \in Flips(s) : p[2] = u
                                    THEN Recount(s, fanCnt[u]) ELSE fanCnt[u]]
    /\ followeeCnt' = [u \in Users |-> IF \E p \in Flips(s) : p[1] = u
                                         THEN Recount(s, followeeCnt[u])
                                         ELSE followeeCnt[u]]

\* A block counts as a change even when there was no edge to cut.
Commit(s) ==
    /\ req[s].at = "commit"
    /\ MayInsert(s)
    /\ WriteRows(s)
    /\ WriteCounters(s)
    /\ blacklist' = IF req[s].op = "block" THEN blacklist \union {req[s].pair}
                                           ELSE blacklist
    /\ IF Flips(s) # {} \/ req[s].op = "block" THEN Goto(s, "clear") ELSE Done(s)
    /\ UNCHANGED <<statsCache, excused>>

\* A deadlock, a timeout of a lock or a lost connection: the caller gets an error.
RelRollback(s) ==
    /\ req[s].at \in {"gate", "gateBy", "insert", "lock", "lockBack", "commit", "read"}
    /\ Done(s)
    /\ UNCHANGED <<relTables, statsCache, excused>>

\* One DELETE, without a transaction around it.
Unblock(s) ==
    /\ req[s].at = "idle"
    /\ \E p \in Asked \intersect blacklist :
          /\ ~ \E r \in Sessions : req[r].op = "block" /\ req[r].pair = p
                                      /\ req[r].at \in {"lock", "lockBack", "commit"}
          /\ blacklist' = blacklist \ {p}
    /\ UNCHANGED <<row, fanCnt, followeeCnt, req, statsCache, excused>>

-----------------------------------------------------------------------------
(* The cache of the counters.                                              *)

Stale(u) == statsCache[u].hit /\ statsCache[u] # StatsOf(u)

\* Mutant: only the counters of the one who is followed are cleared.
ClearsOne(s) == {req[s].pair[2]}

Cleared(s) == {req[s].pair[1], req[s].pair[2]}

\* delStats: a failure is logged and forgotten.
Clear(s) ==
    /\ req[s].at = "clear"
    /\ \/ /\ statsCache' = [u \in Users |-> IF u \in Cleared(s) THEN Miss
                                              ELSE statsCache[u]]
          /\ excused' = excused \ Cleared(s)
       \/ /\ excused' = excused \union (Cleared(s) \intersect Viewed)
          /\ UNCHANGED statsCache
    /\ Done(s)
    /\ UNCHANGED relTables

\* GetStats: a hit, or a read of the database.
ReadStats(s) ==
    LET u == req[s].uid
    IN  /\ req[s].at = "read"
        /\ IF statsCache[u].hit THEN Done(s)
           ELSE req' = [req EXCEPT ![s].at = "store", ![s].val = StatsOf(u)]
        /\ UNCHANGED <<relTables, statsCache, excused>>

\* SetStats stores what was read, however old it is by now; or fails.
StoreStats(s) ==
    LET u == req[s].uid
    IN  /\ req[s].at = "store"
        /\ \/ /\ statsCache' = [statsCache EXCEPT ![u] = req[s].val]
              /\ excused' = IF req[s].val = StatsOf(u) THEN excused \ {u}
                                                       ELSE excused \union {u}
           \/ UNCHANGED <<statsCache, excused>>
        /\ Done(s)
        /\ UNCHANGED relTables

ExpireStats(u) ==
    /\ statsCache[u].hit
    /\ statsCache' = [statsCache EXCEPT ![u] = Miss]
    /\ excused' = excused \ {u}
    /\ UNCHANGED <<relTables, req>>

RelNext ==
    \/ \E s \in Sessions :
          \/ Request(s) \/ Gate(s) \/ GateBy(s) \/ Lock(s) \/ LockBack(s)
          \/ InsertBlock(s) \/ Commit(s) \/ RelRollback(s) \/ Unblock(s)
          \/ Clear(s) \/ ReadStats(s) \/ StoreStats(s)
    \/ \E u \in Users : ExpireStats(u)

RelSpec == RelInit /\ [][RelNext]_relVars

-----------------------------------------------------------------------------
(* Properties.                                                             *)

Following == {p \in Pairs : row[p] = "on"}

\* The counters are the degrees of the graph, whatever requests about the same
\* couple run side by side: FOR UPDATE keeps two of them from both counting the
\* same turn of an edge, and GREATEST never hides a decrement.
CountersExact ==
    \A u \in Users :
       /\ fanCnt[u] = Cardinality({v \in Users : <<v, u>> \in Following})
       /\ followeeCnt[u] = Cardinality({v \in Users : <<u, v>> \in Following})

Graph == INSTANCE FollowGraph WITH Size <- Cardinality,
                                   follows <- Following, blocks <- blacklist,
                                   fans <- fanCnt, followees <- followeeCnt

\* The requests of all sessions, interleaved statement by statement, come out
\* as single changes of the graph: above all a block leaves no edge in either
\* direction at the moment it appears, although it cuts them one by one.
ImplementsGraph == Graph!GraphSpec

\* Cached counters differ from the database only while the request that
\* changed it has yet to clear them, or after a refill that raced with a change
\* or a DEL that failed: every request clears both users, and after its commit.
StaleOnlyInRace ==
    \A u \in Users : Stale(u) =>
       \/ u \in excused
       \/ \E s \in Sessions : req[s].at = "clear" /\ u \in {req[s].pair[1], req[s].pair[2]}

\* "A follow that races with a block is undone by the block's cascade"
\* (Follow's comment): with no request running no edge crosses a block.
NoFollowAcrossBlock ==
    (\A s \in Sessions : req[s].at = "idle") =>
        \A p \in Following : p \notin blacklist /\ Swap(p) \notin blacklist
=============================================================================
