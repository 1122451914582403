------------------------------- MODULE FullCopy -------------------------------
(***************************************************************************)
(* The full engine: it plans shards of the primary keys of a table that is *)
(* in use, scans each in batches, and writes what it has read to the       *)
(* target, while the incremental engine carries the changes that came      *)
(* after its subscription (in order, as IncrSync promises; feed holds      *)
(* those that are on the way).                                             *)
(***************************************************************************)
EXTENDS RowStore

CONSTANTS MaxPK,        \* primary keys are 1 .. MaxPK
          ShardCount,
          ScanLimit,    \* rows of one SELECT of a scan
          FlushSize,    \* Config.BatchSize of the engine
          MaxEdits      \* bound on the changes of the source

ASSUME CopyAssumption == {MaxPK, ShardCount, ScanLimit, FlushSize, MaxEdits} \subseteq Nat \ {0}

VARIABLES srcTable, dstTable,
          edits,        \* changes of the source so far
          live,         \* the incremental engine has subscribed
          relay,        \* changes it has yet to apply
          phase,        \* task.status, as the full engine sets it
          shards,       \* the shards of the run in progress
          touched,      \* history: rows changed since the run began
          streamed      \* history: rows changed since the subscription

sourceSide == <<srcTable, edits, live, streamed>>
copyVars == <<sourceSide, dstTable, relay, phase, shards, touched>>

PKs == 1 .. MaxPK
Row(r, val) == [pk |-> r, val |-> val]
Contents == 0 .. MaxEdits

CopyTypeOK ==
    /\ srcTable \in [PKs -> Contents] /\ dstTable \in [PKs -> Contents]
    /\ edits \in 1 .. MaxEdits /\ live \in BOOLEAN
    /\ relay \in Seq([pk : PKs, val : Contents])
    /\ phase \in {"created", "full_running", "full_done", "failed"}
    /\ phase = "full_running" \/ shards = <<>>
    /\ \A i \in DOMAIN shards :
          /\ shards[i].last \in 0 .. shards[i].max
          /\ \A row \in shards[i].held : row.pk <= shards[i].last
    /\ touched \subseteq PKs /\ streamed \subseteq PKs

CopyInit ==
    /\ srcTable \in [PKs -> {0, 1}] /\ dstTable = [r \in PKs |-> 0]
    /\ edits = 1 /\ live = FALSE /\ relay = <<>>
    /\ phase = "created" /\ shards = <<>>
    /\ touched = PKs /\ streamed = {}

-----------------------------------------------------------------------------
(* The source and the incremental engine.                                  *)

Edit(r) ==
    /\ edits < MaxEdits
    /\ edits' = edits + 1
    /\ \E val \in {0, edits + 1} :
          /\ val # srcTable[r]
          /\ srcTable' = [srcTable EXCEPT ![r] = val]
          /\ relay' = IF live THEN Append(relay, Row(r, val)) ELSE relay
    /\ touched' = touched \union {r}
    /\ streamed' = IF live THEN streamed \union {r} ELSE streamed
    /\ UNCHANGED <<dstTable, live, phase, shards>>

\* A first run subscribes at the master's current position.
Subscribe ==
    /\ ~ live /\ live' = TRUE
    /\ UNCHANGED <<srcTable, dstTable, edits, relay, phase, shards, touched, streamed>>

Relay ==
    /\ relay # <<>> /\ relay' = Tail(relay)
    /\ dstTable' = SinkApply(dstTable, [r \in {Head(relay).pk} |-> Head(relay).val])
    /\ UNCHANGED <<sourceSide, phase, shards, touched>>

-----------------------------------------------------------------------------
(* The full engine.                                                        *)

Fewer(m, n) == IF m < n THEN m ELSE n

\* The range of keys in equal parts; the last part takes what is left over.
PlanShards(min, max) ==
    LET count == Fewer(ShardCount, max - min + 1)
        step == (max - min + 1) \div count
    IN  [i \in 1 .. count |->
            <<min + (i - 1) * step, IF i = count THEN max ELSE min + i * step - 1>>]

\* resolveShards: the range of an empty table is 0 .. 0.
Planned ==
    LET keys == Present(srcTable)
    IN  IF keys = {} THEN <<<<1, 0>>>> ELSE PlanShards(Least(keys), Greatest(keys))

\* Start and Run: every shard from its beginning, whatever checkpoints an
\* earlier run has saved.
FullRun ==
    /\ phase # "full_running"
    /\ phase' = "full_running"
    /\ shards' = [i \in DOMAIN Planned |->
                    [last |-> Planned[i][1] - 1, max |-> Planned[i][2],
                     held |-> {}, scanned |-> FALSE]]
    /\ touched' = {}
    /\ UNCHANGED <<sourceSide, dstTable, relay>>

\* FullScan: one batch into the channel; one that is not full is the last.
Scan(i) ==
    LET found == SelectRows(srcTable, shards[i].last, shards[i].max, ScanLimit)
    IN  /\ ~ shards[i].scanned
        /\ shards' = [shards EXCEPT
                ![i].held = @ \union {Row(r, srcTable[r]) : r \in found},
                ![i].last = IF found = {} THEN @ ELSE Greatest(found),
                ![i].scanned = Cardinality(found) < ScanLimit]
        /\ UNCHANGED <<sourceSide, dstTable, relay, phase, touched>>

\* runShard: a full batch in the order of the keys, or the rest once the scan
\* has ended.
Flush(i) ==
    LET held == shards[i].held
        chunk == {x \in held : Cardinality({y \in held : y.pk < x.pk}) < FlushSize}
    IN  /\ chunk # {} /\ (Cardinality(chunk) = FlushSize \/ shards[i].scanned)
        /\ dstTable' = SinkApply(dstTable, [r \in {x.pk : x \in chunk} |->
                                               (CHOOSE x \in chunk : x.pk = r).val])
        /\ shards' = [shards EXCEPT ![i].held = held \ chunk]
        /\ UNCHANGED <<sourceSide, relay, phase, touched>>

\* Mutant: done when the scans are.
DoneUnflushed ==
    /\ phase = "full_running"
    /\ \A i \in DOMAIN shards : shards[i].scanned
    /\ phase' = "full_done" /\ shards' = <<>>
    /\ UNCHANGED <<sourceSide, dstTable, relay, touched>>

FullDone ==
    /\ phase = "full_running"
    /\ \A i \in DOMAIN shards : shards[i].scanned /\ shards[i].held = {}
    /\ phase' = "full_done" /\ shards' = <<>>
    /\ UNCHANGED <<sourceSide, dstTable, relay, touched>>

\* An error of one shard cancels the others, and so does Pause; the process may
\* die, which leaves a status that stops nobody from starting again.
FullAborts ==
    /\ phase = "full_running"
    /\ phase' = "failed" /\ shards' = <<>>
    /\ UNCHANGED <<sourceSide, dstTable, relay, touched>>

CopyNext ==
    \/ \E r \in PKs : Edit(r)
    \/ Subscribe \/ Relay \/ FullRun \/ FullDone \/ FullAborts
    \/ \E i \in DOMAIN shards : Scan(i) \/ Flush(i)

CopySpec == CopyInit /\ [][CopyNext]_copyVars

-----------------------------------------------------------------------------
(* Properties.                                                             *)

\* Once the incremental engine has caught up, the rows that the source still has
\* are in the target as they are: those that changed after the subscription,
\* which a full copy beside it, writing what it has read before, never takes
\* back if rows have versions; and when the copy is done those that stood still,
\* however shards and the batches of scans and flushes divide the keys.
CopyKeepsUp ==
    relay = <<>> =>
        \A r \in PKs : srcTable[r] # 0 =>
            \/ dstTable[r] = srcTable[r]
            \/ IF r \in streamed THEN ~ Versioned
                                 ELSE phase # "full_done" \/ r \in touched

\* Rows that the source has deleted, or whose deletion is on the way.
Deleting ==
    {r \in PKs : srcTable[r] = 0 \/ \E i \in DOMAIN relay : relay[i] = Row(r, 0)}

Copied == INSTANCE Replica WITH Keys <- PKs, source <- srcTable, target <- dstTable,
                                loose <- Deleting

\* A full copy and the incremental engine beside it never take a row back that
\* the other has brought further, nor write one the source has not reached: what
\* a scan has read long ago yields to what has been streamed since.
CopyImplementsReplica == Copied!ReplicaSpec
=============================================================================
