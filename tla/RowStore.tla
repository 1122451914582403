------------------------------- MODULE RowStore -------------------------------
(***************************************************************************)
(* A table as the migrator's sources and sinks use it: from primary keys   *)
(* 1 .. n to what a row holds.  The contents are numbers that grow with    *)
(* the changes of the source, and so are versions too; 0 is no row.        *)
(***************************************************************************)
EXTENDS Integers, Sequences, FiniteSets, TLC

CONSTANT Versioned   \* the tables have the column "version"

ASSUME RowStoreAssumption == Versioned \in BOOLEAN

Present(table) == {r \in DOMAIN table : table[r] # 0}

Least(S) == CHOOSE x \in S : \A y \in S : x <= y
Greatest(S) == CHOOSE x \in S : \A y \in S : x >= y

\* MySQLSink.Apply when the batch carries no versions, at most one mutation per
\* row.  (As a mutant of SinkApply: the sink compares no versions.)
Overwrite(table, batch) ==
    [r \in DOMAIN table |-> IF r \in DOMAIN batch THEN batch[r] ELSE table[r]]

\* The same when it carries the rows' versions: an upsert yields to a newer
\* version, a delete never does.
SinkApply(table, batch) ==
    [r \in DOMAIN table |->
        IF r \notin DOMAIN batch \/ (Versioned /\ batch[r] # 0 /\ table[r] > batch[r])
        THEN table[r] ELSE batch[r]]

\* One SELECT of a FullScan: WHERE pk > last AND pk <= max ORDER BY pk LIMIT n.
SelectRows(table, last, max, n) ==
    LET rest == {r \in Present(table) : r > last /\ r <= max}
    IN  {r \in rest : Cardinality({q \in rest : q < r}) < n}
=============================================================================
