-------------------------------- MODULE Feed --------------------------------
(***************************************************************************)
(* The feed: articles are written to the inboxes of an author's fans when  *)
(* the worker consumes article_events (Fanout), unless the author has too  *)
(* many fans, whose readers merge the author's outbox instead.  All of it  *)
(* is a projection kept in Redis: inboxes and outboxes expire, a change of *)
(* who follows whom deletes inboxes (relation_events), and a reader whose  *)
(* inbox is not built rebuilds it from the relation and article services.  *)
(*                                                                         *)
(* The relation service is what FollowGraph promises: one change at a time.*)
(* The caps on inboxes, outboxes and followees are not reached.            *)
(***************************************************************************)
EXTENDS Naturals, Sequences, FiniteSets

CONSTANTS People,
          Readers,       \* those whose feeds are read
          Articles, AuthorOf,
          Old,           \* articles published before the feed is watched
          BigVThreshold,
          MaxIncidents   \* bound on what may happen: articles and edges that
                         \* change, events that are lost, failures, restarts

Authors == {AuthorOf[p] : p \in Articles}

ASSUME FeedAssumption ==
    /\ IsFiniteSet(People) /\ Old \subseteq Articles
    /\ Readers \subseteq People /\ Authors \subseteq People
    /\ BigVThreshold \in Nat /\ MaxIncidents \in Nat

VARIABLES published, \* published_article
          following, \* the edges <<fan, author>> of the relation service
          articleLog, next, marked, \* the topic, the consumer's place, its mark
          fanout,    \* the fan-out the consumer is at
          relEvents, \* relation_events not yet consumed
          inbox, bigv, built, outbox, \* Redis
          reader,    \* what each reader's ListFeed is at
          shown,     \* the articles each reader last saw
          incidents,
          unfanned,  \* history: articles an outbox has missed for a reason
          spoilt     \* history: readers whose inbox a race or a fault spoilt

redisVars == <<inbox, bigv, built, outbox>>
sourceVars == <<published, following>>
queueVars == <<articleLog, next, marked, fanout, relEvents>>
historyVars == <<unfanned, spoilt>>
feedVars == <<redisVars, sourceVars, queueVars, reader, shown, incidents, historyVars>>

By(a) == {p \in Articles : AuthorOf[p] = a}
FansOf(a) == {u \in People : <<u, a>> \in following}
IsBig(a) == Cardinality(FansOf(a)) >= BigVThreshold

Idle == [at |-> "idle"]

FeedTypeOK ==
    /\ published \subseteq Articles
    /\ following \subseteq People \X Authors
    /\ articleLog \in Seq([type : {"published", "withdrawn"}, art : Articles])
    /\ next \in 1 .. Len(articleLog) + 1 /\ marked \in 1 .. next
    /\ fanout = Idle \/ fanout \in [at : {"list"}]
         \/ fanout \in [at : {"append"}, to : SUBSET Readers]
    /\ relEvents \subseteq [type : {"edge", "block"}, er : People, ee : People]
    /\ inbox \in [Readers -> SUBSET Articles] /\ bigv \in [Readers -> SUBSET Authors]
    /\ built \in [Readers -> BOOLEAN]
    /\ outbox \in [Authors -> SUBSET Articles]
    /\ \A u \in Readers :
          \/ reader[u].at \in {"idle", "mark", "read"}
          \/ reader[u].at = "stats" /\ reader[u].todo \subseteq Authors
          \/ /\ reader[u].at \in {"save", "answer"}
             /\ reader[u].todo \subseteq Authors
             /\ reader[u].items \subseteq Articles
             /\ reader[u].phase \in {"outbox", "fill", "reread"}
    /\ shown \in [Readers -> SUBSET Articles]
    /\ incidents \in 0 .. MaxIncidents
    /\ unfanned \subseteq Articles /\ spoilt \subseteq Readers

FeedInit ==
    /\ published = Old
    /\ following \in SUBSET {e \in People \X Authors : e[1] # e[2]}
    /\ articleLog = <<>> /\ next = 1 /\ marked = 1 /\ fanout = Idle /\ relEvents = {}
    /\ inbox = [u \in Readers |-> {}] /\ bigv = [u \in Readers |-> {}]
    /\ built = [u \in Readers |-> FALSE] /\ outbox = [a \in Authors |-> {}]
    /\ reader = [u \in Readers |-> Idle] /\ shown = [u \in Readers |-> {}]
    /\ incidents = 0 /\ unfanned = {} /\ spoilt = {}

Incident(n) == incidents + n <= MaxIncidents /\ incidents' = incidents + n

-----------------------------------------------------------------------------
(* The sources: the article service of core, and the relation service.     *)

\* produceArticleEvent: an event that cannot be sent is logged and forgotten.
Produce(type, p) ==
    \/ /\ articleLog' = Append(articleLog, [type |-> type, art |-> p])
       /\ Incident(1)
       /\ UNCHANGED unfanned
    \/ /\ Incident(2)
       /\ unfanned' = unfanned \union {p}
       /\ UNCHANGED articleLog

Publish(p) ==
    /\ published' = published \union {p}
    /\ Produce("published", p)
    /\ UNCHANGED <<following, next, marked, fanout, relEvents, redisVars, reader,
                   shown, spoilt>>

Withdraw(p) ==
    /\ p \in published
    /\ published' = published \ {p}
    /\ Produce("withdrawn", p)
    /\ UNCHANGED <<following, next, marked, fanout, relEvents, redisVars, reader,
                   shown, spoilt>>

\* Mutant: only the initiator's inbox goes.
InvalidatesInitiator(e) == {e.er}

\* Whose inboxes a relation event invalidates (worker, handleBatch).
Invalidates(e) == IF e.type = "block" THEN {e.er, e.ee} ELSE {e.er}

\* A changed edge and its event, which core sends after the call has returned.
RelationEvent(e) ==
    \/ relEvents' = relEvents \union {e} /\ Incident(1) /\ UNCHANGED spoilt
    \/ /\ Incident(2)
       /\ spoilt' = spoilt \union ({e.er, e.ee} \intersect Readers)
       /\ UNCHANGED relEvents

Event(type, u, v) == [type |-> type, er |-> u, ee |-> v]

\* Follow, Unfollow and Block change one edge each (FollowGraph).  Events that
\* concern no reader change no inbox that is modelled.
ChangeEdge(edges, e) ==
    /\ following' = edges /\ edges # following
    /\ IF {e.er, e.ee} \intersect Readers # {} THEN RelationEvent(e)
       ELSE Incident(1) /\ UNCHANGED <<relEvents, spoilt>>
    /\ UNCHANGED <<published, articleLog, next, marked, fanout, redisVars, reader,
                   shown, unfanned>>

Follow(u, a) == u # a /\ ChangeEdge(following \union {<<u, a>>}, Event("edge", u, a))

Unfollow(u, a) == ChangeEdge(following \ {<<u, a>>}, Event("edge", u, a))

\* A block matters to the feed when it cuts an edge.
Block(u, v) ==
    u # v /\ ChangeEdge(following \ {<<u, v>>, <<v, u>>}, Event("block", u, v))

-----------------------------------------------------------------------------
(* The worker's two consumers.                                             *)

InvalidateInboxes ==
    \E e \in relEvents :
       /\ relEvents' = relEvents \ {e}
       /\ \/ LET us == Invalidates(e) \intersect Readers
             IN  /\ inbox' = [u \in Readers |-> IF u \in us THEN {} ELSE inbox[u]]
                 /\ bigv' = [u \in Readers |-> IF u \in us THEN {} ELSE bigv[u]]
                 /\ built' = [u \in Readers |-> built[u] /\ u \notin us]
                 /\ spoilt' = spoilt \ us
                 /\ UNCHANGED incidents
          \/ /\ Incident(1)
             /\ spoilt' = spoilt \union ({e.er, e.ee} \intersect Readers)
             /\ UNCHANGED <<inbox, bigv, built>>
       /\ UNCHANGED <<sourceVars, articleLog, next, marked, fanout, outbox, reader,
                      shown, unfanned>>

\* Mutant: the event creates an outbox of one article.
AppendAlways(a, p) == outbox' = [outbox EXCEPT ![a] = @ \union {p}]

\* outbox_append_if_exists.lua.
AppendOutboxIfExists(a, p) ==
    outbox' = [outbox EXCEPT ![a] = IF @ = {} THEN {} ELSE @ \union {p}]

\* The handler of the event succeeded: the event is marked.
Handled == next' = next + 1 /\ marked' = next + 1 /\ fanout' = Idle

\* GetStats and the append to the outbox; a big author's fans will pull.
FanoutBegin ==
    LET e == articleLog[next]
    IN  /\ next <= Len(articleLog) /\ fanout.at = "idle" /\ e.type = "published"
        /\ AppendOutboxIfExists(AuthorOf[e.art], e.art)
        /\ IF IsBig(AuthorOf[e.art]) THEN Handled
           ELSE fanout' = [at |-> "list"] /\ UNCHANGED <<next, marked>>
        /\ UNCHANGED <<sourceVars, articleLog, relEvents, inbox, bigv, built, reader,
                       shown, incidents, historyVars>>

\* ListFollowers: one page.
FanoutList ==
    /\ fanout.at = "list"
    /\ fanout' = [at |-> "append",
                  to |-> FansOf(AuthorOf[articleLog[next].art]) \intersect Readers]
    /\ UNCHANGED <<sourceVars, articleLog, next, marked, relEvents, redisVars, reader,
                   shown, incidents, historyVars>>

\* AppendInbox writes the page whether an inbox is built or not, and whether its
\* owner is still a fan or not.
FanoutAppend ==
    LET p == articleLog[next].art
    IN  /\ fanout.at = "append"
        /\ inbox' = [v \in Readers |-> IF v \in fanout.to THEN inbox[v] \union {p}
                                                          ELSE inbox[v]]
        /\ spoilt' = spoilt \union (fanout.to \ FansOf(AuthorOf[p]))
        /\ Handled
        /\ UNCHANGED <<sourceVars, articleLog, relEvents, bigv, built, outbox, reader,
                       shown, incidents, unfanned>>

RemoveArticle ==
    LET e == articleLog[next]
    IN  /\ next <= Len(articleLog) /\ fanout.at = "idle" /\ e.type = "withdrawn"
        /\ outbox' = [outbox EXCEPT ![AuthorOf[e.art]] = {}]
        /\ Handled
        /\ UNCHANGED <<sourceVars, articleLog, relEvents, inbox, bigv, built, reader,
                       shown, incidents, historyVars>>

\* A handler that fails leaves its event unmarked, and the consumer goes on.
ConsumerFails ==
    /\ next <= Len(articleLog)
    /\ Incident(1)
    /\ next' = next + 1 /\ fanout' = Idle
    /\ unfanned' = unfanned \union {articleLog[next].art}
    /\ UNCHANGED <<sourceVars, articleLog, marked, relEvents, redisVars, reader,
                   shown, spoilt>>

\* A restart of the worker, or a rebalance: from the last mark that Kafka has.
WorkerRestarts ==
    /\ Incident(1)
    /\ \E k \in 1 .. marked : next' = k /\ marked' = k
    /\ fanout' = Idle
    /\ UNCHANGED <<sourceVars, articleLog, relEvents, redisVars, reader, shown,
                   historyVars>>

-----------------------------------------------------------------------------
(* ListFeed.                                                               *)

Move(u, r) ==
    /\ reader' = [reader EXCEPT ![u] = r]
    /\ UNCHANGED <<sourceVars, queueVars, incidents>>

\* Outboxes to gather on the way to a place.
Gathering(where, todo, items, bigs) ==
    [at |-> where, todo |-> todo, items |-> items, bigs |-> bigs, phase |-> "outbox"]

\* A built inbox is read; any other is rebuilt, first of all from the followees.
ListFeed(u) ==
    /\ reader[u].at = "idle"
    /\ Move(u, IF built[u] THEN [at |-> "read"]
               ELSE [at |-> "stats", todo |-> {a \in Authors : <<u, a>> \in following}])
    /\ UNCHANGED <<redisVars, shown, historyVars>>

\* Mutant: nobody remembers whom to pull.
BigsForgotten(u) ==
    LET bigs == {a \in reader[u].todo : IsBig(a)}
    IN  /\ reader[u].at = "stats"
        /\ Move(u, Gathering("save", reader[u].todo \ bigs, {}, {}))
        /\ UNCHANGED <<redisVars, shown, historyVars>>

\* batchStats: the big ones among the followees are left to be pulled.
BatchStats(u) ==
    LET bigs == {a \in reader[u].todo : IsBig(a)}
    IN  /\ reader[u].at = "stats"
        /\ Move(u, Gathering("save", reader[u].todo \ bigs, {}, bigs))
        /\ UNCHANGED <<redisVars, shown, historyVars>>

Taken(r, a) == Gathering(r.at, r.todo \ {a}, r.items \union outbox[a], r.bigs)

Refill(r, phase, a) ==
    [at |-> r.at, todo |-> r.todo, items |-> r.items, bigs |-> r.bigs, phase |-> phase,
     from |-> a, list |-> IF phase = "fill" THEN published \intersect By(a) ELSE {}]

\* outboxRead: an outbox that is empty is cold, and the author's articles are
\* fetched; what the outbox holds after the refill is taken.
OutboxRead(u, a) ==
    LET r == reader[u]
    IN  /\ r.at \in {"save", "answer"} /\ a \in r.todo
        /\ CASE r.phase = "outbox" -> TRUE
             [] r.phase = "reread" -> a = r.from
             [] r.phase = "fill" -> FALSE
        /\ Move(u, IF r.phase = "outbox" /\ outbox[a] = {} THEN Refill(r, "fill", a)
                                                           ELSE Taken(r, a))
        /\ UNCHANGED <<redisVars, shown, historyVars>>

\* FillOutbox replaces the outbox by what was fetched, however old it is.
OutboxFill(u) ==
    LET r == reader[u]
    IN  /\ r.at \in {"save", "answer"} /\ r.phase = "fill"
        /\ outbox' = [outbox EXCEPT ![r.from] = r.list]
        /\ unfanned' = unfanned \union ((published \intersect By(r.from)) \ r.list)
        /\ Move(u, Refill(r, "reread", r.from))
        /\ UNCHANGED <<inbox, bigv, built, shown, spoilt>>

\* gatherOutboxes: an author whose outbox cannot be read is left out.
OutboxSkip(u, a) ==
    LET r == reader[u]
    IN  /\ r.at \in {"save", "answer"} /\ a \in r.todo
        /\ r.phase # "outbox" => a = r.from
        /\ Incident(1)
        /\ reader' = [reader EXCEPT ![u] =
                         Gathering(r.at, r.todo \ {a}, r.items, r.bigs)]
        /\ UNCHANGED <<sourceVars, queueVars, redisVars, shown, historyVars>>

\* SaveInbox is a pipeline, not a transaction: the mark may come later.
SaveInbox(u) ==
    LET r == reader[u]
        strangers == {p \in r.items : <<u, AuthorOf[p]>> \notin following}
    IN  /\ r.at = "save" /\ r.todo = {}
        /\ inbox' = [inbox EXCEPT ![u] = r.items]
        /\ bigv' = [bigv EXCEPT ![u] = r.bigs]
        /\ built' = [built EXCEPT ![u] = FALSE]
        /\ spoilt' = IF strangers = {} THEN spoilt \ {u} ELSE spoilt \union {u}
        /\ Move(u, [at |-> "mark"])
        /\ UNCHANGED <<outbox, shown, unfanned>>

MarkBuilt(u) ==
    /\ reader[u].at = "mark"
    /\ built' = [built EXCEPT ![u] = TRUE]
    /\ Move(u, [at |-> "read"])
    /\ UNCHANGED <<inbox, bigv, outbox, shown, historyVars>>

ReadInbox(u) ==
    /\ reader[u].at = "read"
    /\ Move(u, Gathering("answer", bigv[u], inbox[u], {}))
    /\ UNCHANGED <<redisVars, shown, historyVars>>

\* Core looks the articles up, and so drops what has been withdrawn.
Answer(u) ==
    /\ reader[u].at = "answer" /\ reader[u].todo = {}
    /\ shown' = [shown EXCEPT ![u] = reader[u].items \intersect published]
    /\ Move(u, Idle)
    /\ UNCHANGED <<redisVars, historyVars>>

-----------------------------------------------------------------------------
(* Time to live: hours, where a request takes milliseconds.  What a       *)
(* request has just checked or written outlives its next command.          *)

ExpireInbox(u) ==
    /\ built[u] /\ reader[u].at # "read"
    /\ inbox' = [inbox EXCEPT ![u] = {}] /\ bigv' = [bigv EXCEPT ![u] = {}]
    /\ built' = [built EXCEPT ![u] = FALSE]
    /\ spoilt' = spoilt \ {u}
    /\ UNCHANGED <<sourceVars, queueVars, outbox, reader, shown, incidents, unfanned>>

ExpireOutbox(a) ==
    /\ outbox[a] # {}
    /\ ~ \E u \in Readers : /\ reader[u].at \in {"save", "answer"}
                            /\ reader[u].phase = "reread" /\ reader[u].from = a
    /\ outbox' = [outbox EXCEPT ![a] = {}]
    /\ UNCHANGED <<sourceVars, queueVars, inbox, bigv, built, reader, shown, incidents,
                   historyVars>>

ConsumerStep == FanoutBegin \/ FanoutList \/ FanoutAppend \/ RemoveArticle

ReaderStep(u) ==
    \/ ListFeed(u) \/ BatchStats(u) \/ OutboxFill(u) \/ SaveInbox(u) \/ MarkBuilt(u)
    \/ ReadInbox(u) \/ Answer(u) \/ \E a \in Authors : OutboxRead(u, a)

FeedNext ==
    \/ \E p \in Articles : Publish(p) \/ Withdraw(p)
    \/ \E u \in People, a \in Authors : Follow(u, a) \/ Unfollow(u, a)
    \/ \E u \in Readers, a \in Authors : Block(u, a) \/ Block(a, u) \/ OutboxSkip(u, a)
    \/ InvalidateInboxes \/ ConsumerStep \/ ConsumerFails \/ WorkerRestarts
    \/ \E u \in Readers : ReaderStep(u) \/ ExpireInbox(u)
    \/ \E a \in Authors : ExpireOutbox(a)

(***************************************************************************)
(* Fairness.  The worker consumes, keys expire, and readers come back to   *)
(* their feeds; nobody has to publish, follow or block.                    *)
(***************************************************************************)
FeedFairness ==
    /\ WF_feedVars(ConsumerStep) /\ WF_feedVars(InvalidateInboxes)
    /\ \A u \in Readers :
          WF_feedVars(ReaderStep(u)) /\ SF_feedVars(ExpireInbox(u))
    /\ \A a \in Authors : SF_feedVars(ExpireOutbox(a))

FeedSpec == FeedInit /\ [][FeedNext]_feedVars /\ FeedFairness

-----------------------------------------------------------------------------
(* Properties.                                                             *)

Pending(p) == \E i \in next .. Len(articleLog) : articleLog[i].art = p

\* An outbox that is not empty is taken for complete, so it must not lack an
\* article unless its event is on the way: the script appends to outboxes that
\* exist and never makes one.  (unfanned: events that were lost, and articles
\* that came out between the fetch and the fill of a cold outbox.)
OutboxNeverPartial ==
    \A a \in Authors : outbox[a] # {} =>
       \A p \in (published \intersect By(a)) \ outbox[a] : Pending(p) \/ p \in unfanned

\* A built inbox holds nobody's articles but those its owner follows, unless an
\* event that will invalidate it is on the way: whoever unfollows, blocks or is
\* blocked is the owner of an inbox that goes.  (spoilt: the event was lost, or
\* a rebuild or a fan-out that had read the old edges wrote after it.)
InboxForgets ==
    \A u \in Readers : built[u] =>
       \A p \in inbox[u] :
          \/ <<u, AuthorOf[p]>> \in following
          \/ u \in spoilt
          \/ \E e \in relEvents : u \in {e.er, e.ee}

\* "Lost fan-outs are made up for by the rebuild after the TTL" (feed
\* ARCHITECTURE.md, 3): whatever is lost, raced, skipped or late, an article
\* that stays published is shown to those who keep following its author, and
\* those who have unfollowed or been cut off see no more of it.
FeedConverges ==
    \A p \in Articles, u \in Readers :
       LET follows == <<u, AuthorOf[p]>> \in following
       IN  /\ (p \in published /\ follows) ~> (p \in shown[u] \/ p \notin published \/ ~ follows)
           /\ ~ follows ~> (p \notin shown[u] \/ follows)
=============================================================================
