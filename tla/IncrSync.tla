------------------------------ MODULE IncrSync ------------------------------
(***************************************************************************)
(* The incremental engine of the migrator: one table's binlog is           *)
(* subscribed from a checkpoint, its row changes are dealt to partitions   *)
(* by primary key, and each partition's worker gathers batches, applies    *)
(* them to the target table and saves its own checkpoint.                  *)
(*                                                                         *)
(* The binlog is a sequence of row changes.  Those of one statement carry  *)
(* one position, the end of the statement's rows event.  A worker takes    *)
(* the changes of a run in binlog order, so its queue and its batch are    *)
(* sets of indices.                                                        *)
(***************************************************************************)
EXTENDS Integers, Sequences, FiniteSets, FiniteSetsExt

CONSTANTS Rows,           \* primary keys
          Partitions,     \* workers of the table (PartitionCount)
          PartitionOf,    \* partitionOf: which worker a key goes to
          BatchSize,      \* Config.BatchSize
          Ops,            \* the kinds of change the source makes
          RowsPerEvent,   \* the most rows one statement changes
          Seeded,         \* every partition has saved a checkpoint before
          HasVersion,     \* the table has the column "version"
          MaxChanges      \* bound on the row changes in the binlog

ASSUME IncrAssumption ==
    /\ IsFiniteSet(Rows) /\ Partitions # {}
    /\ PartitionOf \in [Rows -> Partitions]
    /\ BatchSize \in Nat \ {0}
    /\ Ops \subseteq {"upsert", "delete"}
    /\ RowsPerEvent \in Nat \ {0}
    /\ Seeded \in BOOLEAN
    /\ HasVersion \in BOOLEAN
    /\ MaxChanges \in Nat

VARIABLES binlog,    \* the row changes of the source table
          dst,       \* target table: the change each row was last set by
          ckpt,      \* checkpoint table: the position of each partition
          status,    \* task.status in the database
          running,   \* Run is executing
          cursor,    \* the last change the canal client has passed on
          start,     \* startPos of each worker
          queue,     \* changes dispatched and not yet taken
          batch,     \* the batch each worker gathers
          flushed,   \* the batch is in the target table, not yet checkpointed
          applied    \* history: changes that have reached the target table

stored == <<dst, ckpt, applied>>
memory == <<cursor, start, queue, batch, flushed>>
vars == <<binlog, stored, memory, status, running>>

\* An empty CursorValue; any position is greater.
Unset == -1
Indices == 1 .. MaxChanges
Positions == Unset .. MaxChanges

IncrTypeOK ==
    /\ binlog \in Seq([row : Rows, op : Ops, end : Indices])
    /\ dst \in [Rows -> 0 .. MaxChanges]
    /\ ckpt \in [Partitions -> Positions]
    /\ status \in {"full_done", "incr_running", "failed"}
    /\ running \in BOOLEAN
    /\ cursor \in 0 .. MaxChanges
    /\ start \in [Partitions -> Positions]
    /\ queue \in [Partitions -> SUBSET Indices]
    /\ batch \in [Partitions -> SUBSET Indices]
    /\ flushed \in [Partitions -> BOOLEAN]
    /\ applied \subseteq Indices

Nothing == [p \in Partitions |-> {}]

\* The full copy is done: the target holds what the binlog starts from.
Init ==
    /\ binlog = <<>>
    /\ dst = [r \in Rows |-> 0]
    /\ ckpt = [p \in Partitions |-> IF Seeded THEN 0 ELSE Unset]
    /\ status = "full_done"
    /\ running = FALSE
    /\ cursor = 0
    /\ start = [p \in Partitions |-> Unset]
    /\ queue = Nothing /\ batch = Nothing
    /\ flushed = [p \in Partitions |-> FALSE]
    /\ applied = {}

-----------------------------------------------------------------------------
(* The source database.                                                    *)

\* The row's contents at the source: the last change of it, 0 before any and
\* after a delete.
SourceRow(r) ==
    LET last == Max({0} \union {i \in DOMAIN binlog : binlog[i].row = r})
    IN  IF last = 0 \/ binlog[last].op = "delete" THEN 0 ELSE last

\* One statement; the order of its rows is of no account.
Statement(op, rows) ==
    LET end == Len(binlog) + Cardinality(rows)
    IN  { s \in [1 .. Cardinality(rows) -> [row : rows, op : {op}, end : {end}]] :
          \A i, j \in DOMAIN s : s[i].row = s[j].row => i = j }

Change ==
    /\ \E op \in Ops, rows \in (SUBSET Rows) \ {{}} :
         /\ Cardinality(rows) <= RowsPerEvent
         /\ Len(binlog) + Cardinality(rows) <= MaxChanges
         /\ \E s \in Statement(op, rows) : binlog' = binlog \o s
    /\ UNCHANGED <<stored, memory, status, running>>

-----------------------------------------------------------------------------
(* Run, and the ways in which it ends.                                     *)

\* The fastest partition instead of the slowest.
MaxPartitionCkpt == Max({ckpt[p] : p \in Partitions})

minPartitionCkpt == Min({ckpt[p] : p \in Partitions})

\* resolveBinlogStart: an empty position is the master's current one.
SubscribeFrom == IF minPartitionCkpt = Unset THEN Len(binlog) ELSE minPartitionCkpt

Run ==
    /\ ~running          \* paused.LoadOrStore
    /\ running' = TRUE
    /\ status' = "incr_running"
    /\ start' = ckpt
    /\ cursor' = SubscribeFrom
    /\ UNCHANGED <<binlog, stored, queue, batch, flushed>>

\* The goroutines of the errgroup are gone, and what they held with them.
Stop ==
    /\ running' = FALSE
    /\ cursor' = 0
    /\ start' = [p \in Partitions |-> Unset]
    /\ queue' = Nothing /\ batch' = Nothing
    /\ flushed' = [p \in Partitions |-> FALSE]

\* Any error of a worker or of the subscription cancels them all.
Fail ==
    /\ running
    /\ Stop
    /\ status' = "failed"
    /\ UNCHANGED <<binlog, stored>>

\* The process dies: nobody updates the task.
Crash ==
    /\ running
    /\ Stop
    /\ UNCHANGED <<binlog, stored, status>>

\* Pause cancels the context under the workers: the last flush of one that
\* holds a batch fails, and the dispatcher drops or forwards what is queued.
Pause ==
    /\ running
    /\ Stop
    /\ \/ /\ batch # Nothing \/ queue # Nothing
          /\ status' = "failed"
       \/ /\ batch = Nothing
          /\ UNCHANGED status
    /\ UNCHANGED <<binlog, stored>>

-----------------------------------------------------------------------------
(* The pipeline.                                                           *)

\* OnRow, IncrSubscribe and the dispatcher: one row change further.  After a
\* lost connection the client goes on from the same place (snapshotPos).
Dispatch ==
    /\ running
    /\ cursor < Len(binlog)
    /\ cursor' = cursor + 1
    /\ LET p == PartitionOf[binlog[cursor + 1].row]
       IN  queue' = [queue EXCEPT ![p] = @ \union {cursor + 1}]
    /\ UNCHANGED <<binlog, stored, start, batch, flushed, status, running>>

Take(p) ==
    /\ running
    /\ ~flushed[p]
    /\ queue[p] # {}
    /\ Cardinality(batch[p]) < BatchSize
    /\ queue' = [queue EXCEPT ![p] = @ \ {Min(@)}]
    /\ batch' = [batch EXCEPT ![p] = @ \union {Min(queue[p])}]
    /\ UNCHANGED <<binlog, stored, cursor, start, flushed, status, running>>

\* MySQLSink.Apply, in one transaction: first every delete of the batch, then
\* every upsert; lock: an upsert yields to a newer row.
SinkWith(lock, b) ==
    [r \in Rows |->
        LET deletes == {i \in b : binlog[i].row = r /\ binlog[i].op = "delete"}
            upserts == {i \in b : binlog[i].row = r /\ binlog[i].op = "upsert"}
            kept == IF deletes = {} THEN dst[r] ELSE 0
        IN  IF upserts = {} THEN kept
            ELSE IF lock /\ kept > Max(upserts) THEN kept
            ELSE Max(upserts)]

\* Mutant: a plain upsert, whatever the table has.
SinkUnguarded(b) == SinkWith(FALSE, b)

\* The lock is on when every row of the batch has the column "version".
Sink(b) == SinkWith(HasVersion, b)

\* Without the ticker a batch waits until it is full.
FullBatch(p) == Cardinality(batch[p]) >= BatchSize

\* A batch is flushed when it is full or when the ticker fires.
Flushable(p) == batch[p] # {}

Apply(p) ==
    /\ running
    /\ ~flushed[p]
    /\ Flushable(p)
    /\ dst' = Sink(batch[p])
    /\ applied' = applied \union batch[p]
    /\ flushed' = [flushed EXCEPT ![p] = TRUE]
    /\ UNCHANGED <<binlog, ckpt, cursor, start, queue, batch, status, running>>

lastPos(p) == binlog[Max(batch[p])].end

\* compareBinlogPos(lastPos, startPos) > 0
PastStart(p) == lastPos(p) > start[p]

SaveCheckpoint(p) ==
    /\ running
    /\ flushed[p]
    /\ ckpt' = IF PastStart(p) THEN [ckpt EXCEPT ![p] = lastPos(p)] ELSE ckpt
    /\ batch' = [batch EXCEPT ![p] = {}]
    /\ flushed' = [flushed EXCEPT ![p] = FALSE]
    /\ UNCHANGED <<binlog, dst, applied, cursor, start, queue, status, running>>

Next ==
    \/ Change \/ Run \/ Fail \/ Crash \/ Pause \/ Dispatch
    \/ \E p \in Partitions : Take(p) \/ Apply(p) \/ SaveCheckpoint(p)

IncrSpec == Init /\ [][Next]_vars

\* The goroutines of a run are scheduled and the tickers fire.
IncrFairness ==
    /\ WF_vars(Dispatch)
    /\ \A p \in Partitions :
         WF_vars(Take(p)) /\ WF_vars(Apply(p)) /\ WF_vars(SaveCheckpoint(p))

LiveSpec == IncrSpec /\ IncrFairness

-----------------------------------------------------------------------------
(* Every change that has not reached the target is still to come: it lies  *)
(* beyond the point from which a restart would subscribe and, in a run,    *)
(* ahead of the client or in the hands of its partition.                   *)
NothingLost ==
    \A i \in DOMAIN binlog \ applied :
        /\ i > SubscribeFrom
        /\ running =>
             LET p == PartitionOf[binlog[i].row]
             IN  i > cursor \/ i \in queue[p] \union batch[p]

CaughtUp == running /\ cursor = Len(binlog) /\ queue = Nothing /\ batch = Nothing

(* A run that has caught up has made the target a copy of the source,      *)
(* through any number of crashes, replays and partitions that progress at  *)
(* different speeds, for the rows that have never been deleted.            *)
CaughtUpMirrors ==
    CaughtUp =>
        \A r \in Rows :
            \/ \E i \in DOMAIN binlog : binlog[i].row = r /\ binlog[i].op = "delete"
            \/ dst[r] = SourceRow(r)

(* The changes of one row take effect in the order of the binlog: once a   *)
(* run has caught up, a row that was deleted last is not in the target.    *)
DeletedStaysDeleted ==
    CaughtUp => \A r \in Rows : SourceRow(r) = 0 => dst[r] = 0

(* A run that is left alone carries every row that is only inserted and    *)
(* updated to the target in the end, even if a batch never fills up.       *)
CatchesUp ==
    <>[]running => <>[](\A r \in Rows : dst[r] = SourceRow(r)
          \/ \E i \in DOMAIN binlog : binlog[i].row = r /\ binlog[i].op = "delete")

\* A replayed deletion takes away what has been inserted since.
EverDeleted == {r \in Rows : \E i \in DOMAIN binlog : binlog[i].row = r /\ binlog[i].op = "delete"}

Streamed == INSTANCE Replica WITH
    Keys <- Rows,
    source <- [r \in Rows |-> SourceRow(r)],
    target <- dst,
    loose <- EverDeleted

(* Whatever is replayed after crashes and restarts, and however far one    *)
(* partition is ahead of another, no row of the target goes back: the      *)
(* upsert of a version that is older than the row's changes nothing.       *)
IncrImplementsReplica == Streamed!ReplicaSpec
=============================================================================
