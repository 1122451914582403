----------------------------- MODULE Interaction -----------------------------
(***************************************************************************)
(* The interaction service for one article: likes and collects of users,   *)
(* the counters, the cache of the counters and that of what each user has  *)
(* done.  Calls are requests in progress.  Row and gap locks are those of  *)
(* module RelationService; what a transaction writes appears at its        *)
(* commit.                                                                 *)
(***************************************************************************)
EXTENDS Integers, FiniteSets

CONSTANTS Fans, Calls,
          Clicks,     \* couples <<fan, "like" or "collect">> requests are about
          MaxReads    \* bound on the reads counted when another batch of them comes

Marks == {"like", "collect"}

ASSUME IntrAssumption ==
    /\ IsFiniteSet(Fans) /\ IsFiniteSet(Calls)
    /\ Clicks \subseteq Fans \X Marks /\ MaxReads \in Nat

VARIABLES mine,       \* user_interaction: no row (NoRow), or the marks in it
          counts,     \* interaction: the three counters
          ask,        \* what each call is doing
          countCache, stateCache,
          spoilt,     \* history: the marks whose cached counter a race spoilt
          spoiltFans, \* history: the users whose cached state a race spoilt
          owed,       \* history: reads counted that the cache has yet to be told of
          early       \* history: those of them that the cache was filled with

intrTables == <<mine, counts>>
intrCaches == <<countCache, stateCache, spoilt, spoiltFans, early>>
intrVars == <<intrTables, ask, intrCaches, owed>>

NoRow == [row |-> FALSE, marks |-> {}]
Gone == [hit |-> FALSE]
Hit(v) == [hit |-> TRUE, val |-> v]
NoCall == [at |-> "idle"]
Counter == [like : Nat, collect : Nat, read : Nat]

IntrTypeOK ==
    /\ mine \in [Fans -> [row : BOOLEAN, marks : SUBSET Marks]]
    /\ \A u \in Fans : mine[u].row \/ mine[u].marks = {}
    /\ counts \in Counter
    /\ countCache = Gone \/ countCache.val \in Counter
    /\ \A u \in Fans : stateCache[u] = Gone \/ stateCache[u].val \subseteq Marks
    /\ spoilt \subseteq Marks /\ spoiltFans \subseteq Fans
    /\ owed \in Int /\ early \in Int

IntrInit ==
    /\ mine = [u \in Fans |-> NoRow]
    /\ counts = [like |-> 0, collect |-> 0, read |-> 0]
    /\ ask = [c \in Calls |-> NoCall]
    /\ countCache = Gone /\ stateCache = [u \in Fans |-> Gone]
    /\ spoilt = {} /\ spoiltFans = {}
    /\ owed = 0 /\ early = 0

At(c, where) == ask[c].at = where
MoveTo(c, where) == ask' = [ask EXCEPT ![c].at = where]
Ends(c) == ask' = [ask EXCEPT ![c] = NoCall]

Ask(c) ==
    /\ At(c, "idle")
    /\ \/ \E k \in Clicks, on \in BOOLEAN :
             ask' = [ask EXCEPT ![c] = [at |-> "lockRow", fan |-> k[1], mark |-> k[2],
                                          on |-> on, old |-> FALSE]]
       \/ \E n \in 1 .. MaxReads - counts.read :
             ask' = [ask EXCEPT ![c] = [at |-> "count", reads |-> n]]
       \/ \E u \in Fans :
             ask' = [ask EXCEPT ![c] = [at |-> "look", fan |-> u,
                                          val |-> Gone, owed |-> 0, own |-> {}]]
    /\ UNCHANGED <<intrTables, intrCaches, owed>>

-----------------------------------------------------------------------------
(* Like, CancelLike, Collect, CancelCollect.                               *)

HasLocked(u) == {c \in Calls : At(c, "flip") /\ ask[c].fan = u}

\* Mutant: the old mark is read without FOR UPDATE.
ReadOldFreely(c) ==
    /\ At(c, "lockRow")
    /\ ask' = [ask EXCEPT ![c].at = "flip",
                            ![c].old = ask[c].mark \in mine[ask[c].fan].marks]
    /\ UNCHANGED <<intrTables, intrCaches, owed>>

\* FOR UPDATE: the row, or the gap where it would be.
ReadOld(c) ==
    /\ At(c, "lockRow")
    /\ ~ mine[ask[c].fan].row \/ HasLocked(ask[c].fan) = {}
    /\ ask' = [ask EXCEPT ![c].at = "flip",
                            ![c].old = ask[c].mark \in mine[ask[c].fan].marks]
    /\ UNCHANGED <<intrTables, intrCaches, owed>>

\* The mark is written even if it does not turn; the counter only if it does.
Flip(c) ==
    LET u == ask[c].fan
        k == ask[c].mark
        on == ask[c].on
    IN  /\ At(c, "flip")
        /\ mine[u].row \/ HasLocked(u) = {c}
        /\ mine' = [mine EXCEPT ![u] = [row |-> TRUE,
                       marks |-> IF on THEN @.marks \union {k} ELSE @.marks \ {k}]]
        /\ counts' = IF ask[c].old = on THEN counts
                     ELSE [counts EXCEPT ![k] = IF on THEN @ + 1
                                                ELSE IF @ = 0 THEN 0 ELSE @ - 1]
        /\ MoveTo(c, "delCounts")
        /\ UNCHANGED <<intrCaches, owed>>

\* An error of the database, a deadlock of two gap locks among them.
IntrFails(c) ==
    /\ ask[c].at \in {"lockRow", "flip", "count", "look", "lookState"}
    /\ Ends(c)
    /\ UNCHANGED <<intrTables, intrCaches, owed>>

\* Both caches are cleared after the commit; a DEL that fails is logged.
DelCounts(c) ==
    /\ At(c, "delCounts")
    /\ \/ countCache' = Gone /\ spoilt' = {} /\ early' = 0
       \/ spoilt' = Marks /\ UNCHANGED <<countCache, early>>
    /\ MoveTo(c, "delState")
    /\ UNCHANGED <<intrTables, stateCache, spoiltFans, owed>>

\* Mutant: the cached state is cleared only by a call that sets the mark.
DelStateIfOn(c) ==
    LET u == ask[c].fan
    IN  /\ At(c, "delState")
        /\ \/ ~ ask[c].on /\ UNCHANGED <<stateCache, spoiltFans>>
           \/ stateCache' = [stateCache EXCEPT ![u] = Gone] /\ spoiltFans' = spoiltFans \ {u}
           \/ spoiltFans' = spoiltFans \union {u} /\ UNCHANGED stateCache
        /\ Ends(c)
        /\ UNCHANGED <<intrTables, countCache, spoilt, owed, early>>

DelState(c) ==
    LET u == ask[c].fan
    IN  /\ At(c, "delState")
        /\ \/ stateCache' = [stateCache EXCEPT ![u] = Gone] /\ spoiltFans' = spoiltFans \ {u}
           \/ spoiltFans' = spoiltFans \union {u} /\ UNCHANGED stateCache
        /\ Ends(c)
        /\ UNCHANGED <<intrTables, countCache, spoilt, owed, early>>

-----------------------------------------------------------------------------
(* IncrReadCount, and BatchIncrReadCount for the article's item of a batch. *)

CountRead(c) ==
    /\ At(c, "count")
    /\ counts' = [counts EXCEPT !.read = @ + ask[c].reads]
    /\ owed' = owed + ask[c].reads
    /\ MoveTo(c, "incr")
    /\ UNCHANGED <<mine, intrCaches>>

\* incr_if_present.lua; a failure is logged.
IncrIfPresent(c) ==
    /\ At(c, "incr")
    /\ \/ countCache.hit /\ countCache' = [countCache EXCEPT !.val.read = @ + ask[c].reads]
       \/ UNCHANGED countCache
    /\ owed' = owed - ask[c].reads
    /\ Ends(c)
    /\ UNCHANGED <<intrTables, stateCache, spoilt, spoiltFans, early>>

-----------------------------------------------------------------------------
(* FindInteraction: the counters, then the user's own marks.               *)

Look(c) ==
    /\ At(c, "look")
    /\ IF countCache.hit THEN MoveTo(c, "lookState")
       ELSE ask' = [ask EXCEPT ![c].at = "keep", ![c].val = Hit(counts), ![c].owed = owed]
    /\ UNCHANGED <<intrTables, intrCaches, owed>>

\* A refill stores what was read, however old it is by now; or fails.
Keep(c) ==
    /\ At(c, "keep")
    /\ \/ /\ countCache' = ask[c].val /\ early' = ask[c].owed
          /\ spoilt' = {k \in Marks : ask[c].val.val[k] # counts[k]}
       \/ UNCHANGED <<countCache, spoilt, early>>
    /\ ask' = [ask EXCEPT ![c].at = "lookState", ![c].val = Gone, ![c].owed = 0]
    /\ UNCHANGED <<intrTables, stateCache, spoiltFans, owed>>

LookState(c) ==
    LET u == ask[c].fan
    IN  /\ At(c, "lookState")
        /\ IF stateCache[u].hit THEN Ends(c)
           ELSE ask' = [ask EXCEPT ![c].at = "keepState", ![c].own = mine[u].marks]
        /\ UNCHANGED <<intrTables, intrCaches, owed>>

KeepState(c) ==
    LET u == ask[c].fan
    IN  /\ At(c, "keepState")
        /\ \/ /\ stateCache' = [stateCache EXCEPT ![u] = Hit(ask[c].own)]
              /\ spoiltFans' = IF ask[c].own = mine[u].marks THEN spoiltFans \ {u}
                                                                 ELSE spoiltFans \union {u}
           \/ UNCHANGED <<stateCache, spoiltFans>>
        /\ Ends(c)
        /\ UNCHANGED <<intrTables, countCache, spoilt, owed, early>>

\* The TTL of either cache.
ExpireCounts ==
    /\ countCache.hit /\ countCache' = Gone /\ spoilt' = {} /\ early' = 0
    /\ UNCHANGED <<intrTables, ask, stateCache, spoiltFans, owed>>

ExpireState(u) ==
    /\ stateCache[u].hit
    /\ stateCache' = [stateCache EXCEPT ![u] = Gone] /\ spoiltFans' = spoiltFans \ {u}
    /\ UNCHANGED <<intrTables, ask, countCache, spoilt, owed, early>>

IntrNext ==
    \/ \E c \in Calls :
          \/ Ask(c) \/ ReadOld(c) \/ Flip(c) \/ IntrFails(c) \/ DelCounts(c) \/ DelState(c)
          \/ CountRead(c) \/ IncrIfPresent(c)
          \/ Look(c) \/ Keep(c) \/ LookState(c) \/ KeepState(c)
    \/ ExpireCounts
    \/ \E u \in Fans : ExpireState(u)

IntrSpec == IntrInit /\ [][IntrNext]_intrVars

-----------------------------------------------------------------------------
(* Properties.                                                             *)

\* The counters of likes and collects are the numbers of users with the mark,
\* however often and however many at a time a user clicks: FOR UPDATE keeps two
\* calls from both counting the same turn, and GREATEST hides no decrement.
CountsAreMarks ==
    \A k \in Marks : counts[k] = Cardinality({u \in Fans : k \in mine[u].marks})

\* The cached counters of marks and the cached marks of a user are those of the
\* database, but while the call that changed them has yet to clear them, or
\* after a refill that raced with a change or a DEL that failed.  The cached
\* counter of reads comes out ahead of the database, once the cache has been told
\* of all that it is owed, by no more than a refill had already read of that: the
\* batches that were between their two increments when the refill looked.
CachedRight ==
    /\ \A k \in Marks : countCache.hit /\ countCache.val[k] # counts[k] =>
          k \in spoilt \/ \E c \in Calls : At(c, "delCounts")
    /\ \A u \in Fans : stateCache[u].hit /\ stateCache[u].val # mine[u].marks =>
          \/ u \in spoiltFans
          \/ \E c \in Calls : ask[c].at \in {"delCounts", "delState"} /\ ask[c].fan = u
    /\ countCache.hit => countCache.val.read + owed <= counts.read + early

Book == INSTANCE MarkBook WITH
    marked <- [u \in Fans |-> mine[u].marks],
    tally <- [k \in Marks |-> counts[k]],
    reads <- counts.read

\* The statements of any number of calls come out as single turns of a mark with
\* its counter: a click that arrives twice, or beside its opposite, counts once.
ImplementsBook == Book!BookSpec
=============================================================================
