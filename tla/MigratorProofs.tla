--------------------------- MODULE MigratorProofs ---------------------------
(***************************************************************************)
(* Proofs about the engines that move a table, for every set of rows, any  *)
(* numbers of partitions and shards, any sizes of batches and pages, and   *)
(* any number of changes: the incremental engine through crashes, failures *)
(* and pauses (IncrSync), the full copy of a table in use with the         *)
(* incremental engine beside it (FullCopy), and verification and repair    *)
(* (Repair).                                                               *)
(***************************************************************************)
EXTENDS IncrSync, FullCopy, Repair, FiniteSetTheorems, WellFoundedInduction, TLAPS

LEMMA LeastExists ==
    ASSUME NEW S \in SUBSET Nat, S # {}
    PROVE  \E x \in S : \A y \in S : x <= y
<1>1. PICK x \in S : \A y \in S : ~ (<<y, x>> \in OpToRel(<, Nat))
  BY NatLessThanWellFounded, WFMin
<1>2. \A y \in S : ~ (y < x)
  BY <1>1 DEF OpToRel
<1> QED
  BY <1>2

LEMMA MinIsLeast ==
    ASSUME NEW S \in SUBSET Nat, S # {}
    PROVE  Min(S) \in S /\ \A y \in S : Min(S) <= y
BY LeastExists DEF Min

LEMMA MaxIsGreatest ==
    ASSUME NEW n \in Nat, NEW S \in SUBSET (1 .. n), S # {}
    PROVE  Max(S) \in S /\ \A y \in S : Max(S) >= y
<1> DEFINE T == {n - x : x \in S}
<1>1. T \in SUBSET Nat /\ T # {}
  <2>1. \A x \in S : x \in Nat /\ x <= n /\ n - x \in Nat
    OBVIOUS
  <2> QED
    BY <2>1
<1>2. PICK t \in T : \A u \in T : t <= u
  BY <1>1, LeastExists
<1>3. PICK x \in S : t = n - x
  OBVIOUS
<1>4. \A y \in S : x >= y
  <2>1. \A y \in S : n - x <= n - y
    BY <1>2, <1>3
  <2> QED
    BY <2>1
<1> QED
  BY <1>4 DEF Max

-----------------------------------------------------------------------------
(* The invariant.                                                          *)

\* No statement gives two row changes to one partition, so that no batch can
\* end in the middle of what a position stands for.
Unsplit ==
    \/ RowsPerEvent = 1
    \/ \A r, s \in Rows : PartitionOf[r] = PartitionOf[s] => r = s

Home(i) == PartitionOf[binlog[i].row]

Shape ==
    /\ binlog \in Seq([row : Rows, op : Ops, end : Indices])
    /\ Len(binlog) <= MaxChanges
    /\ running \in BOOLEAN
    /\ cursor \in 0 .. Len(binlog)
    /\ ckpt \in [Partitions -> 0 .. Len(binlog)]
    /\ queue \in [Partitions -> SUBSET (1 .. cursor)]
    /\ batch \in [Partitions -> SUBSET (1 .. cursor)]
    /\ flushed \in [Partitions -> BOOLEAN]

\* A position lies between its change and the next of the same partition.
EndsApart ==
    \A i \in DOMAIN binlog :
        /\ binlog[i].end \in i .. Len(binlog)
        /\ \A j \in DOMAIN binlog :
              i < j /\ Home(i) = Home(j) => binlog[i].end < j

\* What a worker holds is its own, the batch older than the queue.
InHand(p) ==
    /\ \A i \in queue[p] \union batch[p] : Home(i) = p
    /\ \A i \in batch[p], j \in queue[p] : i < j
    /\ flushed[p] => batch[p] # {} /\ batch[p] \subseteq applied
    /\ ~ running => queue[p] = {} /\ batch[p] = {}

AllInHand == \A p \in Partitions : InHand(p)

\* NothingLost for each partition by itself.
ToCome(i) ==
    /\ i > ckpt[Home(i)]
    /\ running => i > cursor \/ i \in queue[Home(i)] \union batch[Home(i)]

AllToCome == \A i \in DOMAIN binlog \ applied : ToCome(i)

IncrInv == Shape /\ EndsApart /\ AllInHand /\ AllToCome

LEMMA BinlogShape ==
    ASSUME Shape
    PROVE  /\ Len(binlog) \in Nat /\ DOMAIN binlog = 1 .. Len(binlog)
           /\ \A i \in DOMAIN binlog :
                 binlog[i] \in [row : Rows, op : Ops, end : Indices]
<1> DEFINE R == [row : Rows, op : Ops, end : Indices]
<1>1. binlog \in Seq(R)
  BY DEF Shape
<1> HIDE DEF R
<1>2. Len(binlog) \in Nat /\ DOMAIN binlog = 1 .. Len(binlog)
  BY <1>1
<1>3. \A i \in 1 .. Len(binlog) : binlog[i] \in R
  BY <1>1
<1> QED
  BY <1>2, <1>3 DEF R

LEMMA HomeIsPartition ==
    ASSUME Shape, NEW i \in DOMAIN binlog
    PROVE  Home(i) \in Partitions /\ i \in Nat \ {0} /\ i <= Len(binlog)
<1>1. binlog[i].row \in Rows /\ i \in 1 .. Len(binlog) /\ Len(binlog) \in Nat
  BY BinlogShape
<1> QED
  BY <1>1, IncrAssumption DEF Home

LEMMA SubscribeBelow ==
    ASSUME Shape
    PROVE  /\ SubscribeFrom \in 0 .. Len(binlog)
           /\ \A p \in Partitions : SubscribeFrom <= ckpt[p]
<1> DEFINE S == {ckpt[p] : p \in Partitions}
<1>1. S \in SUBSET Nat /\ S # {}
  BY IncrAssumption DEF Shape
<1>2. minPartitionCkpt \in S /\ \A y \in S : minPartitionCkpt <= y
  BY <1>1, MinIsLeast DEF minPartitionCkpt
<1>3. SubscribeFrom = minPartitionCkpt
  BY <1>1, <1>2 DEF SubscribeFrom, Unset
<1> QED
  BY <1>2, <1>3 DEF Shape

\* The invariant says NothingLost of the slowest partition's position.
LEMMA InvIsNothingLost ==
    ASSUME IncrInv
    PROVE  NothingLost
<1> SUFFICES ASSUME NEW i \in DOMAIN binlog \ applied
             PROVE  /\ i > SubscribeFrom
                    /\ running => i > cursor \/ i \in queue[Home(i)] \union batch[Home(i)]
  BY DEF NothingLost, Home
<1>1. ToCome(i) /\ Home(i) \in Partitions /\ i \in Nat
  BY HomeIsPartition DEF IncrInv, AllToCome
<1>2. SubscribeFrom \in Nat /\ SubscribeFrom <= ckpt[Home(i)] /\ ckpt[Home(i)] \in Nat
  BY <1>1, SubscribeBelow DEF IncrInv, Shape
<1> QED
  BY <1>1, <1>2 DEF ToCome

-----------------------------------------------------------------------------
(* The steps.                                                              *)

\* A statement's changes are consecutive, end together, and are of different
\* rows.
LEMMA StatementShape ==
    ASSUME Shape, NEW op \in Ops, NEW rows \in SUBSET Rows, rows # {},
           Cardinality(rows) <= RowsPerEvent,
           Len(binlog) + Cardinality(rows) <= MaxChanges,
           NEW s \in Statement(op, rows)
    PROVE  /\ s \in Seq([row : Rows, op : Ops, end : Indices])
           /\ Len(s) = Cardinality(rows) /\ Len(s) \in Nat \ {0}
           /\ Len(s) <= RowsPerEvent /\ Len(binlog) + Len(s) <= MaxChanges
           /\ \A k \in 1 .. Len(s) : s[k].row \in Rows
                                   /\ s[k].end = Len(binlog) + Len(s)
           /\ \A k, l \in 1 .. Len(s) : s[k].row = s[l].row => k = l
<1> DEFINE n == Cardinality(rows)
<1>1. IsFiniteSet(rows)
  BY FS_Subset, IncrAssumption
<1>2. n \in Nat /\ n # 0
  BY <1>1, FS_CardinalityType, FS_EmptySet
<1>3. s \in [1 .. n -> [row : rows, op : {op}, end : {Len(binlog) + n}]]
      /\ \A i, j \in DOMAIN s : s[i].row = s[j].row => i = j
  BY DEF Statement
<1>4. Len(binlog) + n \in Indices
  BY <1>2, IncrAssumption DEF Indices, Shape
<1>5. \A k \in 1 .. n : s[k] \in [row : Rows, op : Ops, end : Indices]
  BY <1>3, <1>4
<1>6. s \in [1 .. n -> [row : Rows, op : Ops, end : Indices]]
  BY <1>3, <1>5
<1> DEFINE R == [row : Rows, op : Ops, end : Indices]
<1>6a. s \in [1 .. n -> R]
  BY <1>6
<1> HIDE DEF R
<1>6b. s \in Seq(R)
  BY <1>2, <1>6a
<1>7. s \in Seq([row : Rows, op : Ops, end : Indices])
  BY <1>6b DEF R
<1>8. Len(s) = n
  BY <1>2, <1>6a
<1> QED
  BY <1>2, <1>3, <1>5, <1>7, <1>8

LEMMA ChangeKeeps ==
    ASSUME Unsplit, IncrInv, Change
    PROVE  IncrInv'
<1> USE DEF IncrInv
<1>1. PICK op \in Ops, rows \in (SUBSET Rows) \ {{}} :
         /\ Cardinality(rows) <= RowsPerEvent
         /\ Len(binlog) + Cardinality(rows) <= MaxChanges
         /\ \E s \in Statement(op, rows) : binlog' = binlog \o s
  BY DEF Change
<1>2. PICK s \in Statement(op, rows) : binlog' = binlog \o s
  BY <1>1
<1>3. /\ s \in Seq([row : Rows, op : Ops, end : Indices])
      /\ Len(s) \in Nat \ {0}
      /\ Len(s) <= RowsPerEvent /\ Len(binlog) + Len(s) <= MaxChanges
      /\ \A k \in 1 .. Len(s) : s[k].row \in Rows
                              /\ s[k].end = Len(binlog) + Len(s)
      /\ \A k, l \in 1 .. Len(s) : s[k].row = s[l].row => k = l
  BY <1>1, StatementShape
<1>4. UNCHANGED <<ckpt, applied, cursor, queue, batch, flushed, running>>
  BY DEF Change, stored, memory
<1>5. /\ binlog' \in Seq([row : Rows, op : Ops, end : Indices])
      /\ Len(binlog') = Len(binlog) + Len(s) /\ Len(binlog) \in Nat
      /\ \A i \in DOMAIN binlog : binlog'[i] = binlog[i]
      /\ \A i \in DOMAIN binlog' \ DOMAIN binlog :
            /\ i - Len(binlog) \in 1 .. Len(s)
            /\ binlog'[i] = s[i - Len(binlog)]
      /\ DOMAIN binlog = 1 .. Len(binlog) /\ DOMAIN binlog' = 1 .. Len(binlog')
  BY <1>2, <1>3 DEF Shape
<1>6. Shape'
  BY <1>3, <1>4, <1>5 DEF Shape
<1>7. \A i \in DOMAIN binlog : Home(i)' = Home(i)
  BY <1>5 DEF Home
<1>8. EndsApart'
  <2>1. ASSUME NEW i \in DOMAIN binlog'
        PROVE  binlog'[i].end \in i .. Len(binlog')
    <3>1. CASE i \in DOMAIN binlog
      BY <1>3, <1>5, <3>1 DEF EndsApart
    <3>2. CASE i \notin DOMAIN binlog
      <4>1. binlog'[i].end = Len(binlog')
        BY <1>3, <1>5, <2>1, <3>2
      <4> QED
        BY <1>5, <2>1, <4>1
    <3> QED
      BY <3>1, <3>2
  <2>2. ASSUME NEW i \in DOMAIN binlog', NEW j \in DOMAIN binlog', i < j,
               Home(i)' = Home(j)'
        PROVE  binlog'[i].end < j
    <3>1. CASE i \in DOMAIN binlog /\ j \in DOMAIN binlog
      BY <1>5, <1>7, <2>2, <3>1 DEF EndsApart
    <3>2. CASE i \in DOMAIN binlog /\ j \notin DOMAIN binlog
      <4>1. binlog'[i].end \in i .. Len(binlog)
        BY <1>5, <3>2 DEF EndsApart
      <4> QED
        BY <1>5, <2>2, <3>2, <4>1
    <3>3. CASE i \notin DOMAIN binlog
      <4>1. j \notin DOMAIN binlog
        BY <1>5, <2>2, <3>3
      <4>2. /\ i - Len(binlog) \in 1 .. Len(s) /\ binlog'[i] = s[i - Len(binlog)]
            /\ j - Len(binlog) \in 1 .. Len(s) /\ binlog'[j] = s[j - Len(binlog)]
        BY <1>5, <2>2, <3>3, <4>1
      <4>3. binlog'[i].row # binlog'[j].row
        BY <1>3, <1>5, <2>2, <4>2
      <4>4. binlog'[i].row \in Rows /\ binlog'[j].row \in Rows
        BY <1>3, <4>2
      <4>5. RowsPerEvent = 1
        BY <2>2, <4>3, <4>4 DEF Unsplit, Home
      <4>6. Len(s) = 1
        <5>1. Len(s) \in Nat \ {0} /\ Len(s) <= RowsPerEvent
          BY <1>3
        <5>2. \A k \in Nat \ {0} : k <= 1 => k = 1
          OBVIOUS
        <5> QED
          BY <4>5, <5>1, <5>2, Zenon
      <4> QED
        BY <2>2, <4>2, <4>6, <1>5
    <3> QED
      BY <3>1, <3>2, <3>3
  <2> QED
    BY <2>1, <2>2 DEF EndsApart
<1>9. AllInHand'
  <2>1. \A p \in Partitions : queue[p] \subseteq DOMAIN binlog /\ batch[p] \subseteq DOMAIN binlog
    BY <1>5 DEF Shape
  <2> QED
    BY <1>4, <1>7, <2>1 DEF AllInHand, InHand
<1>10. ASSUME NEW i \in DOMAIN binlog' \ applied'
       PROVE  ToCome(i)'
  <2>1. CASE i \in DOMAIN binlog
    BY <1>4, <1>7, <2>1 DEF AllToCome, ToCome
  <2>2. CASE i \notin DOMAIN binlog
    <3>1. i \in Nat /\ i > Len(binlog)
      BY <1>5, <2>2
    <3>2. Home(i)' \in Partitions
      <4>1. i - Len(binlog) \in 1 .. Len(s) /\ binlog'[i] = s[i - Len(binlog)]
        BY <1>5, <2>2
      <4>2. binlog'[i].row \in Rows
        BY <1>3, <4>1
      <4> QED
        BY <4>2, IncrAssumption DEF Home
    <3> QED
      BY <1>4, <3>1, <3>2 DEF ToCome, Shape
  <2> QED
    BY <2>1, <2>2
<1> QED
  BY <1>6, <1>8, <1>9, <1>10 DEF AllToCome

\* What only moves the engine leaves the binlog and its positions alone.
LEMMA StillApart ==
    ASSUME EndsApart, UNCHANGED binlog
    PROVE  EndsApart' /\ \A i : Home(i)' = Home(i)
BY DEF EndsApart, Home

LEMMA StopKeeps ==
    ASSUME IncrInv, Stop, UNCHANGED <<binlog, stored>>
    PROVE  IncrInv'
<1>1. Shape'
  <2>1. Len(binlog) \in Nat
    BY BinlogShape DEF IncrInv
  <2>2. cursor' = 0 /\ 0 \in 0 .. Len(binlog) /\ {} \in SUBSET (1 .. 0)
    BY <2>1 DEF Stop
  <2> QED
    BY <2>2 DEF IncrInv, Shape, Stop, Nothing, stored
<1>2. EndsApart' /\ \A i : Home(i)' = Home(i)
  BY StillApart DEF IncrInv
<1>3. AllInHand'
  BY DEF AllInHand, InHand, Stop, Nothing
<1>4. AllToCome'
  BY <1>2 DEF IncrInv, AllToCome, ToCome, Stop, stored
<1> QED
  BY <1>1, <1>2, <1>3, <1>4 DEF IncrInv

LEMMA RunKeeps ==
    ASSUME IncrInv, Run
    PROVE  IncrInv'
<1> USE DEF IncrInv
<1>1. SubscribeFrom \in 0 .. Len(binlog) /\ \A p \in Partitions : SubscribeFrom <= ckpt[p]
  BY SubscribeBelow
<1>2. \A p \in Partitions : queue[p] = {} /\ batch[p] = {}
  BY DEF Run, AllInHand, InHand
<1>3. /\ cursor' = SubscribeFrom /\ running' = TRUE
      /\ UNCHANGED <<binlog, ckpt, applied, queue, batch, flushed>>
  BY DEF Run, stored
<1>4. Shape'
  BY <1>1, <1>2, <1>3 DEF Shape
<1>5. EndsApart' /\ \A i : Home(i)' = Home(i)
  BY <1>3, StillApart
<1>6. AllInHand'
  BY <1>2, <1>3 DEF AllInHand, InHand
<1>7. ASSUME NEW i \in DOMAIN binlog \ applied
      PROVE  ToCome(i)'
  <2>1. i > ckpt[Home(i)] /\ Home(i) \in Partitions /\ i \in Nat
    BY HomeIsPartition DEF AllToCome, ToCome
  <2>2. i > cursor'
    BY <1>1, <1>3, <2>1 DEF Shape
  <2> QED
    BY <1>3, <1>5, <2>1, <2>2 DEF ToCome
<1> QED
  BY <1>3, <1>4, <1>5, <1>6, <1>7 DEF AllToCome

LEMMA DispatchKeeps ==
    ASSUME IncrInv, Dispatch
    PROVE  IncrInv'
<1> USE DEF IncrInv
<1> DEFINE n == cursor + 1
           p == Home(n)
<1>1. /\ running /\ cursor' = n
      /\ queue' = [queue EXCEPT ![p] = queue[p] \union {n}]
      /\ UNCHANGED <<binlog, ckpt, applied, batch, flushed, running>>
  BY DEF Dispatch, Home, stored
<1>2. n \in DOMAIN binlog /\ n \in Nat /\ cursor \in Nat /\ p \in Partitions
  <2>1. Len(binlog) \in Nat /\ DOMAIN binlog = 1 .. Len(binlog)
    BY BinlogShape
  <2>2. n \in DOMAIN binlog /\ cursor \in Nat
    BY <2>1 DEF Dispatch, Shape
  <2> QED
    BY <2>2, HomeIsPartition
<1>3. \A q \in Partitions : queue'[q] = IF q = p THEN queue[q] \union {n} ELSE queue[q]
  BY <1>1 DEF Shape
<1>4. Shape'
  <2>1. n <= Len(binlog)
    BY <1>2, BinlogShape
  <2>2. \A q \in Partitions : queue'[q] \subseteq 1 .. n /\ batch[q] \subseteq 1 .. n
    <3>1. 1 .. cursor \subseteq 1 .. n /\ n \in 1 .. n
      BY <1>2
    <3>2. \A q \in Partitions : queue[q] \subseteq 1 .. cursor /\ batch[q] \subseteq 1 .. cursor
      BY DEF Shape
    <3> QED
      BY <1>3, <3>1, <3>2
  <2>3. queue' \in [Partitions -> SUBSET (1 .. n)] /\ batch \in [Partitions -> SUBSET (1 .. n)]
    BY <1>1, <2>2 DEF Shape
  <2> QED
    BY <1>1, <1>2, <2>1, <2>3 DEF Shape
<1>5. EndsApart' /\ \A i : Home(i)' = Home(i)
  BY <1>1, StillApart
<1>6. AllInHand'
  BY <1>1, <1>2, <1>3, <1>5 DEF AllInHand, InHand, Shape
<1>7. ASSUME NEW i \in DOMAIN binlog \ applied
      PROVE  ToCome(i)'
  <2>1. ToCome(i) /\ Home(i) \in Partitions /\ i \in Nat
    BY HomeIsPartition DEF AllToCome
  <2>2. CASE i = n
    BY <1>1, <1>2, <1>3, <1>5, <2>1, <2>2 DEF ToCome
  <2>3. CASE i # n
    BY <1>1, <1>2, <1>3, <1>5, <2>1, <2>3 DEF ToCome
  <2> QED
    BY <2>2, <2>3
<1> QED
  BY <1>1, <1>4, <1>5, <1>6, <1>7 DEF AllToCome

LEMMA TakeKeeps ==
    ASSUME IncrInv, NEW p \in Partitions, Take(p)
    PROVE  IncrInv'
<1> USE DEF IncrInv
<1> DEFINE m == Min(queue[p])
<1>1. /\ running /\ ~ flushed[p] /\ queue[p] # {}
      /\ queue' = [queue EXCEPT ![p] = queue[p] \ {m}]
      /\ batch' = [batch EXCEPT ![p] = batch[p] \union {m}]
      /\ UNCHANGED <<binlog, ckpt, applied, cursor, flushed, running>>
  BY DEF Take, stored
<1>2. queue[p] \in SUBSET Nat /\ queue[p] \in SUBSET (1 .. cursor)
  BY DEF Shape
<1>3. m \in queue[p] /\ (\A y \in queue[p] : m <= y)
  BY <1>1, <1>2, MinIsLeast
<1>4. \A q \in Partitions :
        /\ queue'[q] = IF q = p THEN queue[q] \ {m} ELSE queue[q]
        /\ batch'[q] = IF q = p THEN batch[q] \union {m} ELSE batch[q]
  BY <1>1 DEF Shape
<1>5. Shape'
  <2>1. \A q \in Partitions : queue'[q] \subseteq 1 .. cursor /\ batch'[q] \subseteq 1 .. cursor
    BY <1>2, <1>3, <1>4 DEF Shape
  <2>2. queue' \in [Partitions -> SUBSET (1 .. cursor)]
        /\ batch' \in [Partitions -> SUBSET (1 .. cursor)]
    BY <1>1, <2>1 DEF Shape
  <2> QED
    BY <1>1, <2>2 DEF Shape
<1>6. EndsApart' /\ \A i : Home(i)' = Home(i)
  BY <1>1, StillApart
<1>7. ASSUME NEW q \in Partitions PROVE InHand(q)'
  <2>1. InHand(q)
    BY DEF AllInHand
  <2>2. CASE q # p
    BY <1>1, <1>4, <1>6, <2>1, <2>2 DEF InHand
  <2>3. CASE q = p
    <3>1. \A i \in batch'[p], j \in queue'[p] : i < j
      <4>1. \A j \in queue'[p] : j \in queue[p] /\ j # m /\ m <= j /\ j \in Nat /\ m \in Nat
        BY <1>2, <1>3, <1>4
      <4>2. \A j \in queue'[p] : m < j
        BY <4>1
      <4> QED
        BY <1>3, <1>4, <2>1, <2>3, <4>1, <4>2 DEF InHand
    <3>2. \A i \in queue'[p] \union batch'[p] : Home(i) = p
      BY <1>3, <1>4, <2>1, <2>3 DEF InHand
    <3> QED
      BY <1>1, <1>6, <2>3, <3>1, <3>2 DEF InHand
  <2> QED
    BY <2>2, <2>3
<1>8. \A q \in Partitions : queue'[q] \union batch'[q] = queue[q] \union batch[q]
  BY <1>3, <1>4
<1>9. ASSUME NEW i \in DOMAIN binlog \ applied
      PROVE  ToCome(i)'
  <2>1. ToCome(i) /\ Home(i) \in Partitions
    BY HomeIsPartition DEF AllToCome
  <2> QED
    BY <1>1, <1>6, <1>8, <2>1 DEF ToCome
<1> QED
  BY <1>1, <1>5, <1>6, <1>7, <1>9 DEF AllToCome, AllInHand

LEMMA ApplyKeeps ==
    ASSUME IncrInv, NEW p \in Partitions, Apply(p)
    PROVE  IncrInv'
<1> USE DEF IncrInv
<1>1. /\ running /\ batch[p] # {}
      /\ applied' = applied \union batch[p]
      /\ flushed' = [flushed EXCEPT ![p] = TRUE]
      /\ UNCHANGED <<binlog, ckpt, cursor, queue, batch, running>>
  BY DEF Apply, Flushable
<1>2. Shape'
  BY <1>1 DEF Shape
<1>3. EndsApart' /\ \A i : Home(i)' = Home(i)
  BY <1>1, StillApart
<1>4. AllInHand'
  BY <1>1, <1>3 DEF AllInHand, InHand, Shape
<1>5. ASSUME NEW i \in DOMAIN binlog \ applied'
      PROVE  ToCome(i)'
  <2>1. ToCome(i)
    BY <1>1 DEF AllToCome
  <2> QED
    BY <1>1, <1>3, <2>1 DEF ToCome
<1> QED
  BY <1>1, <1>2, <1>3, <1>4, <1>5 DEF AllToCome

LEMMA SaveKeeps ==
    ASSUME IncrInv, NEW p \in Partitions, SaveCheckpoint(p)
    PROVE  IncrInv'
<1> USE DEF IncrInv
<1> DEFINE m == Max(batch[p])
<1>1. /\ running /\ flushed[p]
      /\ ckpt' = ckpt \/ ckpt' = [ckpt EXCEPT ![p] = binlog[m].end]
      /\ batch' = [batch EXCEPT ![p] = {}]
      /\ flushed' = [flushed EXCEPT ![p] = FALSE]
      /\ UNCHANGED <<binlog, applied, cursor, queue, running>>
  BY DEF SaveCheckpoint, lastPos
<1>2. InHand(p) /\ batch[p] # {} /\ batch[p] \subseteq applied
  BY <1>1 DEF AllInHand, InHand
<1>3. m \in batch[p] /\ \A y \in batch[p] : m >= y
  <2>1. cursor \in Nat /\ batch[p] \in SUBSET (1 .. cursor)
    BY BinlogShape DEF Shape
  <2> QED
    BY <1>2, <2>1, MaxIsGreatest
<1>4. m \in DOMAIN binlog /\ m \in 1 .. cursor /\ Home(m) = p
  BY <1>2, <1>3 DEF Shape, InHand
<1>5. binlog[m].end \in 0 .. Len(binlog)
  BY <1>4 DEF EndsApart, Shape
<1>6. Shape'
  BY <1>1, <1>5 DEF Shape
<1>7. EndsApart' /\ \A i : Home(i)' = Home(i)
  BY <1>1, StillApart
<1>8. AllInHand'
  BY <1>1, <1>7 DEF AllInHand, InHand, Shape
<1>9. ASSUME NEW i \in DOMAIN binlog \ applied
      PROVE  ToCome(i)'
  <2>1. ToCome(i) /\ Home(i) \in Partitions /\ i \in Nat
    BY HomeIsPartition DEF AllToCome
  <2>2. CASE Home(i) # p
    BY <1>1, <1>7, <2>1, <2>2 DEF ToCome, Shape
  <2>3. CASE Home(i) = p
    <3>1. i \notin batch[p]
      BY <1>2
    <3>2. i > cursor \/ i \in queue[p]
      BY <1>1, <2>1, <2>3, <3>1 DEF ToCome
    <3>3. m < i
      BY <1>2, <1>3, <1>4, <2>1, <3>2 DEF InHand, Shape
    <3>4. binlog[m].end < i
      BY <1>4, <2>3, <3>3 DEF EndsApart
    <3>5. ckpt'[p] < i
      BY <1>1, <2>1, <2>3, <3>4 DEF ToCome, Shape
    <3> QED
      BY <1>1, <1>7, <2>3, <3>2, <3>5 DEF ToCome, Shape
  <2> QED
    BY <2>2, <2>3
<1> QED
  BY <1>1, <1>6, <1>7, <1>8, <1>9 DEF AllToCome

LEMMA IncrStep ==
    ASSUME Unsplit
    PROVE  IncrInv /\ [Next]_vars => IncrInv'
<1>1. ASSUME IncrInv, Next
      PROVE  IncrInv'
  <2>1. CASE Fail \/ Crash \/ Pause
    BY <1>1, <2>1, StopKeeps DEF Fail, Crash, Pause
  <2>2. CASE Change \/ Run \/ Dispatch
    BY <1>1, <2>2, ChangeKeeps, RunKeeps, DispatchKeeps
  <2>3. ASSUME NEW p \in Partitions, Take(p) \/ Apply(p) \/ SaveCheckpoint(p)
        PROVE  IncrInv'
    BY <1>1, <2>3, TakeKeeps, ApplyKeeps, SaveKeeps
  <2> QED
    BY <1>1, <2>1, <2>2, <2>3 DEF Next
<1>2. ASSUME IncrInv, UNCHANGED vars
      PROVE  IncrInv'
  BY <1>2
     DEF vars, stored, memory, IncrInv, Shape, EndsApart, AllInHand, InHand,
         AllToCome, ToCome, Home
<1> QED
  BY <1>1, <1>2

LEMMA IncrStarts ==
    ASSUME Seeded
    PROVE  Init => IncrInv
<1> SUFFICES ASSUME Init
             PROVE  IncrInv
  OBVIOUS
<1>1. /\ binlog = <<>> /\ Len(binlog) = 0 /\ DOMAIN binlog = {}
      /\ binlog \in Seq([row : Rows, op : Ops, end : Indices])
  BY DEF Init
<1>2. Shape
  <2>1. ckpt \in [Partitions -> 0 .. 0]
    BY DEF Init
  <2>2. queue \in [Partitions -> SUBSET (1 .. 0)] /\ batch \in [Partitions -> SUBSET (1 .. 0)]
    BY DEF Init, Nothing
  <2>3. running \in BOOLEAN /\ cursor = 0 /\ flushed \in [Partitions -> BOOLEAN]
    BY DEF Init
  <2> QED
    BY <1>1, <2>1, <2>2, <2>3, IncrAssumption DEF Shape
<1>3. EndsApart /\ AllToCome
  BY <1>1 DEF EndsApart, AllToCome
<1>4. AllInHand
  BY DEF Init, AllInHand, InHand, Nothing
<1> QED
  BY <1>2, <1>3, <1>4 DEF IncrInv

\* No change of the source is ever skipped, whatever the crashes, failures and
\* pauses between applying a batch and saving its checkpoint, if the engine
\* starts from saved checkpoints and no statement is split between two batches
\* of one partition.
THEOREM NothingIsLost ==
    ASSUME Seeded, Unsplit
    PROVE  IncrSpec => []NothingLost
<1>1. IncrInv => NothingLost
  BY InvIsNothingLost
<1> QED
  BY <1>1, IncrStarts, IncrStep, PTL DEF IncrSpec

-----------------------------------------------------------------------------
(* The types of the engine's state, whatever partitions have saved and      *)
(* whatever statements the source makes.                                    *)

RowChange == [row : Rows, op : Ops, end : Indices]

\* What a worker holds has been passed on, so it is in the binlog.
Within ==
    /\ binlog \in Seq(RowChange) /\ Len(binlog) <= MaxChanges
    /\ dst \in [Rows -> 0 .. MaxChanges]
    /\ ckpt \in [Partitions -> Positions]
    /\ start \in [Partitions -> Positions]
    /\ status \in {"full_done", "incr_running", "failed"}
    /\ running \in BOOLEAN
    /\ cursor \in 0 .. MaxChanges
    /\ queue \in [Partitions -> SUBSET (1 .. Len(binlog))]
    /\ batch \in [Partitions -> SUBSET (1 .. Len(binlog))]
    /\ flushed \in [Partitions -> BOOLEAN]
    /\ \A p \in Partitions : flushed[p] => batch[p] # {}
    /\ applied \subseteq Indices

LEMMA WithinLength ==
    ASSUME Within
    PROVE  /\ Len(binlog) \in Nat /\ Len(binlog) <= MaxChanges /\ MaxChanges \in Nat
           /\ DOMAIN binlog = 1 .. Len(binlog)
           /\ 1 .. Len(binlog) \subseteq Indices
           /\ \A i \in 1 .. Len(binlog) : binlog[i] \in RowChange
<1>1. binlog \in Seq(RowChange) /\ Len(binlog) <= MaxChanges /\ MaxChanges \in Nat
  BY IncrAssumption DEF Within
<1>2. Len(binlog) \in Nat /\ DOMAIN binlog = 1 .. Len(binlog)
      /\ \A i \in 1 .. Len(binlog) : binlog[i] \in RowChange
  BY <1>1
<1>3. 1 .. Len(binlog) \subseteq Indices
  BY <1>1, <1>2 DEF Indices
<1> QED
  BY <1>1, <1>2, <1>3

LEMMA WithinIsTyped ==
    ASSUME Within
    PROVE  IncrTypeOK
<1>1. 1 .. Len(binlog) \subseteq Indices
  BY WithinLength
<1>2. /\ queue \in [Partitions -> SUBSET Indices]
      /\ batch \in [Partitions -> SUBSET Indices]
  BY <1>1 DEF Within
<1> QED
  BY <1>2 DEF Within, IncrTypeOK, RowChange

\* A subscription starts at a position of the binlog, or at its end.
LEMMA SubscribeWithin ==
    ASSUME Within
    PROVE  SubscribeFrom \in 0 .. MaxChanges
<1> DEFINE S == {ckpt[p] : p \in Partitions}
<1>1. S \subseteq Positions /\ S # {}
  BY IncrAssumption DEF Within
<1>2. CASE -1 \in S
  <2>1. \A y \in S : y \in Int /\ -1 <= y
    BY <1>1, IncrAssumption DEF Positions, Unset
  <2>2. minPartitionCkpt \in S /\ \A y \in S : minPartitionCkpt <= y
    BY <1>2, <2>1 DEF minPartitionCkpt, Min
  <2>3. minPartitionCkpt <= -1 /\ -1 <= minPartitionCkpt /\ minPartitionCkpt \in Int
    BY <1>2, <2>1, <2>2
  <2>4. minPartitionCkpt = Unset
    BY <2>3 DEF Unset
  <2> QED
    BY <2>4, WithinLength DEF SubscribeFrom
<1>3. CASE -1 \notin S
  <2>1. S \subseteq 0 .. MaxChanges
    <3>1. \A y \in S : y \in Int /\ -1 <= y /\ y <= MaxChanges /\ y # -1
      BY <1>1, <1>3, IncrAssumption DEF Positions, Unset
    <3> QED
      BY <3>1, IncrAssumption
  <2>2. S \in SUBSET Nat
    BY <2>1, IncrAssumption
  <2>3. minPartitionCkpt \in S
    BY <1>1, <2>2, MinIsLeast DEF minPartitionCkpt
  <2> QED
    BY <2>1, <2>3 DEF SubscribeFrom, Unset
<1> QED
  BY <1>2, <1>3

LEMMA ChangeWithin ==
    ASSUME Within, Change
    PROVE  Within'
<1>1. PICK op \in Ops, rows \in (SUBSET Rows) \ {{}} :
         /\ Cardinality(rows) <= RowsPerEvent
         /\ Len(binlog) + Cardinality(rows) <= MaxChanges
         /\ \E s \in Statement(op, rows) : binlog' = binlog \o s
  BY DEF Change
<1>2. PICK s \in Statement(op, rows) : binlog' = binlog \o s
  BY <1>1
<1> DEFINE n == Cardinality(rows)
<1>3. n \in Nat /\ n # 0 /\ Len(binlog) \in Nat /\ Len(binlog) + n <= MaxChanges
  <2>1. IsFiniteSet(rows)
    BY FS_Subset, IncrAssumption
  <2> QED
    BY <1>1, <2>1, FS_CardinalityType, FS_EmptySet, WithinLength
<1>4. Len(binlog) + n \in Indices
  BY <1>3, IncrAssumption DEF Indices
<1>5. s \in [1 .. n -> RowChange]
  <2>1. s \in [1 .. n -> [row : rows, op : {op}, end : {Len(binlog) + n}]]
    BY DEF Statement
  <2>2. \A k \in 1 .. n : s[k] \in RowChange
    BY <1>4, <2>1 DEF RowChange
  <2> QED
    BY <2>1, <2>2
<1>6. s \in Seq(RowChange) /\ Len(s) = n
  BY <1>3, <1>5
<1>7. binlog' \in Seq(RowChange) /\ Len(binlog') = Len(binlog) + n
  <2>1. binlog \in Seq(RowChange)
    BY DEF Within
  <2>2. \A t \in Seq(RowChange) : t \o s \in Seq(RowChange) /\ Len(t \o s) = Len(t) + n
    BY <1>6
  <2> QED
    BY <1>2, <2>1, <2>2
<1>8. Len(binlog') <= MaxChanges /\ 1 .. Len(binlog) \subseteq 1 .. Len(binlog')
  BY <1>3, <1>7
<1>9. UNCHANGED <<stored, memory, status, running>>
  BY DEF Change
<1>10. /\ queue' \in [Partitions -> SUBSET (1 .. Len(binlog'))]
       /\ batch' \in [Partitions -> SUBSET (1 .. Len(binlog'))]
  <2>1. UNCHANGED <<queue, batch>>
    BY <1>9 DEF memory
  <2> QED
    BY <1>8, <2>1 DEF Within
<1> QED
  BY <1>7, <1>8, <1>9, <1>10 DEF Within, stored, memory

LEMMA StopWithin ==
    ASSUME Within, Stop, UNCHANGED <<binlog, stored>>,
           status' \in {"full_done", "incr_running", "failed"}
    PROVE  Within'
<1>1. cursor' \in 0 .. MaxChanges /\ -1 \in Positions
  BY IncrAssumption DEF Stop, Positions, Unset
<1>2. /\ start' \in [Partitions -> Positions]
      /\ queue' = [p \in Partitions |-> {}] /\ batch' = [p \in Partitions |-> {}]
      /\ flushed' = [p \in Partitions |-> FALSE] /\ running' = FALSE
  BY <1>1 DEF Stop, Nothing, Unset
<1> QED
  BY <1>1, <1>2 DEF Within, stored

LEMMA RunWithin ==
    ASSUME Within, Run
    PROVE  Within'
BY SubscribeWithin DEF Run, Within, stored

LEMMA DispatchWithin ==
    ASSUME Within, Dispatch
    PROVE  Within'
<1> DEFINE n == cursor + 1
           p == PartitionOf[binlog[n].row]
<1>1. /\ cursor' = n /\ cursor < Len(binlog)
      /\ queue' = [queue EXCEPT ![p] = queue[p] \union {n}]
      /\ UNCHANGED <<binlog, stored, start, batch, flushed, status, running>>
  BY DEF Dispatch
<1>2. n \in 1 .. Len(binlog) /\ cursor' \in 0 .. MaxChanges
  BY <1>1, WithinLength DEF Within
<1>3. queue' \in [Partitions -> SUBSET (1 .. Len(binlog))]
  BY <1>1, <1>2 DEF Within
<1> QED
  BY <1>1, <1>2, <1>3 DEF Within, stored

LEMMA TakeWithin ==
    ASSUME Within, NEW p \in Partitions, Take(p)
    PROVE  Within'
<1> DEFINE m == Min(queue[p])
<1>1. /\ queue[p] # {}
      /\ queue' = [queue EXCEPT ![p] = queue[p] \ {m}]
      /\ batch' = [batch EXCEPT ![p] = batch[p] \union {m}]
      /\ UNCHANGED <<binlog, stored, cursor, start, flushed, status, running>>
  BY DEF Take
<1>2. queue[p] \in SUBSET (1 .. Len(binlog)) /\ queue[p] \in SUBSET Nat
  BY WithinLength DEF Within
<1>3. m \in 1 .. Len(binlog)
  BY <1>1, <1>2, MinIsLeast
<1>4. /\ queue' \in [Partitions -> SUBSET (1 .. Len(binlog))]
      /\ batch' \in [Partitions -> SUBSET (1 .. Len(binlog))]
      /\ \A q \in Partitions : batch[q] # {} => batch'[q] # {}
  BY <1>1, <1>2, <1>3 DEF Within
<1> QED
  BY <1>1, <1>4 DEF Within, stored

LEMMA ApplyWithin ==
    ASSUME Within, NEW p \in Partitions, Apply(p)
    PROVE  Within'
<1>1. /\ batch[p] # {}
      /\ dst' = Sink(batch[p])
      /\ applied' = applied \union batch[p]
      /\ flushed' = [flushed EXCEPT ![p] = TRUE]
      /\ UNCHANGED <<binlog, ckpt, cursor, start, queue, batch, status, running>>
  BY DEF Apply, Flushable
<1>2. batch[p] \in SUBSET (1 .. Len(binlog))
      /\ Len(binlog) \in Nat /\ Len(binlog) <= MaxChanges /\ MaxChanges \in Nat
      /\ 1 .. Len(binlog) \subseteq Indices
  BY WithinLength DEF Within
<1>3. dst' \in [Rows -> 0 .. MaxChanges]
  <2>1. ASSUME NEW r \in Rows
        PROVE  Sink(batch[p])[r] \in 0 .. MaxChanges
    <3> DEFINE deletes == {i \in batch[p] : binlog[i].row = r /\ binlog[i].op = "delete"}
               upserts == {i \in batch[p] : binlog[i].row = r /\ binlog[i].op = "upsert"}
               kept == IF deletes = {} THEN dst[r] ELSE 0
    <3>1. kept \in 0 .. MaxChanges
      BY <1>2 DEF Within
    <3>2. upserts # {} => Max(upserts) \in 0 .. MaxChanges
      <4>1. upserts \in SUBSET (1 .. Len(binlog))
        BY <1>2
      <4>2. \A l \in Nat : \A S \in SUBSET (1 .. l) : S # {} => Max(S) \in S
        BY MaxIsGreatest
      <4> HIDE DEF upserts
      <4>3. upserts # {} => Max(upserts) \in upserts
        BY <1>2, <4>1, <4>2
      <4>4. 1 .. Len(binlog) \subseteq 0 .. MaxChanges
        BY <1>2
      <4> QED
        BY <4>1, <4>3, <4>4, Zenon
    <3>3. Sink(batch[p])[r] = IF upserts = {} THEN kept
                              ELSE IF HasVersion /\ kept > Max(upserts) THEN kept
                              ELSE Max(upserts)
      BY DEF Sink, SinkWith
    <3> HIDE DEF upserts, kept
    <3> QED
      BY <3>1, <3>2, <3>3
  <2>2. Sink(batch[p]) = [r \in Rows |-> Sink(batch[p])[r]]
    BY DEF Sink, SinkWith
  <2> QED
    BY <1>1, <2>1, <2>2
<1>4. applied' \subseteq Indices
  BY <1>1, <1>2 DEF Within
<1>5. flushed' \in [Partitions -> BOOLEAN]
      /\ \A q \in Partitions : flushed'[q] => batch'[q] # {}
  BY <1>1 DEF Within
<1> QED
  BY <1>1, <1>3, <1>4, <1>5 DEF Within

LEMMA SaveWithin ==
    ASSUME Within, NEW p \in Partitions, SaveCheckpoint(p)
    PROVE  Within'
<1> DEFINE m == Max(batch[p])
<1>1. /\ flushed[p]
      /\ ckpt' = ckpt \/ ckpt' = [ckpt EXCEPT ![p] = binlog[m].end]
      /\ batch' = [batch EXCEPT ![p] = {}]
      /\ flushed' = [flushed EXCEPT ![p] = FALSE]
      /\ UNCHANGED <<binlog, dst, applied, cursor, start, queue, status, running>>
  BY DEF SaveCheckpoint, lastPos
<1>2. batch[p] \in SUBSET (1 .. Len(binlog)) /\ batch[p] # {} /\ Len(binlog) \in Nat
  BY <1>1, WithinLength DEF Within
<1>3. m \in 1 .. Len(binlog)
  BY <1>2, MaxIsGreatest
<1>4. binlog[m].end \in Positions
  <2>1. binlog[m] \in RowChange
    BY <1>3, WithinLength
  <2>2. binlog[m].end \in Indices
    BY <2>1 DEF RowChange
  <2> QED
    BY <2>2, IncrAssumption DEF Indices, Positions, Unset
<1>5. ckpt' \in [Partitions -> Positions]
  BY <1>1, <1>4 DEF Within
<1>6. /\ batch' \in [Partitions -> SUBSET (1 .. Len(binlog))]
      /\ flushed' \in [Partitions -> BOOLEAN]
      /\ \A q \in Partitions : flushed'[q] => batch'[q] # {}
  BY <1>1 DEF Within
<1> QED
  BY <1>1, <1>5, <1>6 DEF Within

LEMMA WithinStarts == Init => Within
<1> SUFFICES ASSUME Init
             PROVE  Within
  OBVIOUS
<1>1. binlog = <<>> /\ Len(binlog) = 0 /\ binlog \in Seq(RowChange)
  BY DEF Init
<1>2. 0 \in 0 .. MaxChanges /\ 0 \in Positions /\ -1 \in Positions /\ 0 <= MaxChanges
  BY IncrAssumption DEF Positions, Unset
<1> QED
  BY <1>1, <1>2 DEF Init, Within, Nothing, Unset

LEMMA WithinStep == Within /\ [Next]_vars => Within'
<1>1. ASSUME Within, Next
      PROVE  Within'
  <2>1. CASE Fail \/ Crash \/ Pause
    <3>1. status' \in {"full_done", "incr_running", "failed"}
      BY <1>1, <2>1 DEF Fail, Crash, Pause, Within
    <3>2. Stop /\ UNCHANGED <<binlog, stored>>
      BY <2>1 DEF Fail, Crash, Pause
    <3> QED
      BY <1>1, <3>1, <3>2, StopWithin
  <2>2. CASE Change \/ Run \/ Dispatch
    BY <1>1, <2>2, ChangeWithin, RunWithin, DispatchWithin
  <2>3. ASSUME NEW p \in Partitions, Take(p) \/ Apply(p) \/ SaveCheckpoint(p)
        PROVE  Within'
    BY <1>1, <2>3, TakeWithin, ApplyWithin, SaveWithin
  <2> QED
    BY <1>1, <2>1, <2>2, <2>3 DEF Next
<1>2. ASSUME Within, UNCHANGED vars
      PROVE  Within'
  BY <1>2 DEF vars, stored, memory, Within
<1> QED
  BY <1>1, <1>2

\* The engine's state keeps its types: in particular a worker that has
\* flushed still holds a change, whose position it can save, and a
\* subscription starts at a place the binlog can have.
THEOREM IncrTypeCorrect == IncrSpec => []IncrTypeOK
<1>1. Within => IncrTypeOK
  BY WithinIsTyped
<1> QED
  BY <1>1, WithinStarts, WithinStep, PTL DEF IncrSpec

-----------------------------------------------------------------------------
(* Who has caught up has a copy.                                           *)

NeverDeleted(r) == \A i \in DOMAIN binlog : binlog[i].row = r => binlog[i].op # "delete"

\* The row is as the last applied change of it left it.
AsApplied(r) ==
    /\ dst[r] = 0 \/ (dst[r] \in applied /\ binlog[dst[r]].row = r)
    /\ \A i \in applied : binlog[i].row = r => i <= dst[r]

Mirroring ==
    /\ Within
    /\ applied \subseteq 1 .. Len(binlog)
    /\ \A r \in Rows : NeverDeleted(r) => AsApplied(r)

LEMMA MirroringStarts == Init => Mirroring
<1> SUFFICES ASSUME Init
             PROVE  Mirroring
  OBVIOUS
<1>1. applied = {} /\ \A r \in Rows : dst[r] = 0
  BY DEF Init
<1> QED
  BY <1>1, WithinStarts DEF Mirroring, AsApplied

\* A statement leaves the changes before it where they are.
LEMMA BinlogGrows ==
    ASSUME Within, Change
    PROVE  /\ 1 .. Len(binlog) \subseteq 1 .. Len(binlog')
           /\ \A i \in 1 .. Len(binlog) : binlog'[i] = binlog[i]
<1>1. PICK op \in Ops, rows \in (SUBSET Rows) \ {{}} :
         /\ Cardinality(rows) <= RowsPerEvent
         /\ Len(binlog) + Cardinality(rows) <= MaxChanges
         /\ \E s \in Statement(op, rows) : binlog' = binlog \o s
  BY DEF Change
<1>2. PICK s \in Statement(op, rows) : binlog' = binlog \o s
  BY <1>1
<1> DEFINE n == Cardinality(rows)
           R == [row : rows, op : {op}, end : {Len(binlog) + n}]
<1>3. n \in Nat
  BY FS_Subset, IncrAssumption, FS_CardinalityType
<1>4. s \in [1 .. n -> R]
  BY DEF Statement
<1> HIDE DEF R
<1>5. s \in Seq(R) /\ Len(s) = n
  BY <1>3, <1>4
<1>6. PICK old \in Seq(RowChange) : old = binlog
  BY DEF Within
<1>7. /\ Len(old \o s) = Len(old) + n /\ Len(old) \in Nat
      /\ \A i \in 1 .. Len(old) : (old \o s)[i] = old[i]
  BY <1>5
<1> QED
  BY <1>2, <1>3, <1>6, <1>7

LEMMA ChangeMirrors ==
    ASSUME Mirroring, Change
    PROVE  Mirroring'
<1>1. Within'
  BY ChangeWithin DEF Mirroring
<1>2. /\ 1 .. Len(binlog) \subseteq 1 .. Len(binlog')
      /\ \A i \in 1 .. Len(binlog) : binlog'[i] = binlog[i]
  BY BinlogGrows DEF Mirroring
<1>3. UNCHANGED <<dst, applied>>
  BY DEF Change, stored
<1>4. DOMAIN binlog = 1 .. Len(binlog)
  BY WithinLength DEF Mirroring
<1>5. DOMAIN binlog' = 1 .. Len(binlog')
  <2>1. binlog' \in Seq(RowChange)
    BY <1>1 DEF Within
  <2> QED
    BY <2>1
<1>6. ASSUME NEW r \in Rows, NeverDeleted(r)'
      PROVE  AsApplied(r)'
  <2>1. NeverDeleted(r)
    BY <1>2, <1>4, <1>5, <1>6 DEF NeverDeleted
  <2>2. AsApplied(r) /\ applied \subseteq 1 .. Len(binlog)
    BY <2>1 DEF Mirroring
  <2> QED
    BY <1>2, <1>3, <2>2 DEF AsApplied
<1> QED
  BY <1>1, <1>2, <1>3, <1>6 DEF Mirroring

\* With the lock a batch replaces a row by a newer change only.
LEMMA ApplyMirrors ==
    ASSUME HasVersion, Mirroring, NEW p \in Partitions, Apply(p)
    PROVE  Mirroring'
<1>1. /\ dst' = Sink(batch[p])
      /\ applied' = applied \union batch[p]
      /\ UNCHANGED binlog
  BY DEF Apply
<1>2. Within'
  BY ApplyWithin DEF Mirroring
<1>3. batch[p] \in SUBSET (1 .. Len(binlog)) /\ Len(binlog) \in Nat
      /\ DOMAIN binlog = 1 .. Len(binlog)
      /\ \A i \in 1 .. Len(binlog) : binlog[i].op \in {"upsert", "delete"}
  <2>1. \A i \in 1 .. Len(binlog) : binlog[i] \in RowChange
    BY WithinLength DEF Mirroring
  <2>2. \A i \in 1 .. Len(binlog) : binlog[i].op \in {"upsert", "delete"}
    BY <2>1, IncrAssumption DEF RowChange
  <2> QED
    BY <2>2, WithinLength DEF Mirroring, Within
<1>4. applied' \subseteq 1 .. Len(binlog')
  BY <1>1, <1>3 DEF Mirroring
<1>5. ASSUME NEW r \in Rows, NeverDeleted(r)'
      PROVE  AsApplied(r)'
  <2> DEFINE deletes == {i \in batch[p] : binlog[i].row = r /\ binlog[i].op = "delete"}
             upserts == {i \in batch[p] : binlog[i].row = r /\ binlog[i].op = "upsert"}
             last == Max(upserts)
  <2>1. NeverDeleted(r) /\ AsApplied(r)
    BY <1>1, <1>5 DEF NeverDeleted, Mirroring
  <2>2. deletes = {}
    BY <1>3, <2>1 DEF NeverDeleted
  <2>3. \A i \in batch[p] : binlog[i].row = r => i \in upserts
    BY <1>3, <2>2
  <2>4. dst'[r] = IF upserts = {} THEN dst[r]
                  ELSE IF dst[r] > last THEN dst[r] ELSE last
    <3>1. Sink(batch[p])[r] =
            LET kept == IF deletes = {} THEN dst[r] ELSE 0
            IN  IF upserts = {} THEN kept
                ELSE IF HasVersion /\ kept > last THEN kept ELSE last
      BY DEF Sink, SinkWith
    <3> HIDE DEF deletes, upserts, last
    <3> QED
      BY <1>1, <2>2, <3>1
  <2>5. upserts # {} => last \in upserts /\ \A y \in upserts : last >= y
    <3>1. upserts \in SUBSET (1 .. Len(binlog))
      BY <1>3
    <3>2. \A l \in Nat : \A S \in SUBSET (1 .. l) :
             S # {} => Max(S) \in S /\ \A y \in S : Max(S) >= y
      BY MaxIsGreatest
    <3> HIDE DEF upserts
    <3> QED
      BY <1>3, <3>1, <3>2
  <2>6. \A i \in upserts : i \in batch[p] /\ i \in Nat /\ binlog[i].row = r
    BY <1>3
  <2>7. dst[r] \in Nat /\ applied \subseteq Nat
    BY IncrAssumption DEF Mirroring, Within, Indices
  <2> HIDE DEF upserts, last
  <2>8. CASE upserts = {}
    <3>1. \A i \in batch[p] : binlog[i].row # r
      BY <2>3, <2>8
    <3> QED
      BY <1>1, <2>1, <2>4, <2>8, <3>1 DEF AsApplied
  <2>9. CASE upserts # {} /\ dst[r] > last
    <3>1. \A i \in upserts : i <= dst[r]
      BY <2>5, <2>6, <2>7, <2>9
    <3> QED
      BY <1>1, <2>1, <2>3, <2>4, <2>9, <3>1 DEF AsApplied
  <2>10. CASE upserts # {} /\ ~ (dst[r] > last)
    <3>1. dst'[r] = last /\ last \in batch[p] /\ binlog[last].row = r /\ last \in Nat
      BY <2>4, <2>5, <2>6, <2>10
    <3>2. dst[r] <= last
      BY <2>7, <2>10, <3>1
    <3>3. \A i \in upserts : i <= last
      BY <2>5, <2>6, <2>10, <3>1
    <3>4. ASSUME NEW i \in applied, binlog[i].row = r
          PROVE  i <= last
      <4>1. i <= dst[r]
        BY <2>1, <3>4 DEF AsApplied
      <4>2. i \in Nat /\ dst[r] \in Nat /\ last \in Nat
        BY <2>7, <3>1
      <4> QED
        BY <3>2, <4>1, <4>2
    <3> QED
      BY <1>1, <2>3, <3>1, <3>3, <3>4 DEF AsApplied
  <2> QED
    BY <2>8, <2>9, <2>10
<1> QED
  BY <1>2, <1>4, <1>5 DEF Mirroring

LEMMA MirroringStep ==
    ASSUME HasVersion
    PROVE  Mirroring /\ [Next]_vars => Mirroring'
<1> SUFFICES ASSUME Mirroring, [Next]_vars
             PROVE  Mirroring'
  OBVIOUS
<1>1. CASE Change
  BY <1>1, ChangeMirrors
<1>2. ASSUME NEW p \in Partitions, Apply(p)
      PROVE  Mirroring'
  BY <1>2, ApplyMirrors
<1>3. CASE UNCHANGED <<binlog, dst, applied>>
  <2>1. Within'
    BY WithinStep DEF Mirroring
  <2> QED
    BY <1>3, <2>1 DEF Mirroring, NeverDeleted, AsApplied
<1>4. CASE Run \/ Fail \/ Crash \/ Pause \/ Dispatch \/ UNCHANGED vars
  BY <1>3, <1>4 DEF Run, Fail, Crash, Pause, Dispatch, vars, stored
<1>5. ASSUME NEW p \in Partitions, Take(p) \/ SaveCheckpoint(p)
      PROVE  Mirroring'
  BY <1>3, <1>5 DEF Take, SaveCheckpoint, stored
<1> QED
  BY <1>1, <1>2, <1>4, <1>5 DEF Next

\* When nothing is left to apply, the last applied change is the last one.
LEMMA CaughtUpIsCopy ==
    ASSUME IncrInv, Mirroring
    PROVE  CaughtUpMirrors
<1> SUFFICES ASSUME CaughtUp, NEW r \in Rows, NeverDeleted(r)
             PROVE  dst[r] = SourceRow(r)
  BY DEF CaughtUpMirrors, NeverDeleted
<1>1. DOMAIN binlog = 1 .. Len(binlog) /\ Len(binlog) \in Nat
  BY WithinLength DEF Mirroring
<1>2. ASSUME NEW i \in DOMAIN binlog, i \notin applied
      PROVE  FALSE
  <2>1. ToCome(i) /\ Home(i) \in Partitions /\ i \in Nat /\ i <= Len(binlog)
    BY <1>2, HomeIsPartition DEF IncrInv, AllToCome
  <2>2. queue[Home(i)] = {} /\ batch[Home(i)] = {} /\ running /\ cursor = Len(binlog)
    BY <2>1 DEF CaughtUp, Nothing
  <2>3. ~ (i > cursor)
    BY <1>1, <2>1, <2>2
  <2> QED
    BY <2>1, <2>2, <2>3 DEF ToCome
<1>3. applied = DOMAIN binlog
  BY <1>1, <1>2 DEF Mirroring
<1> DEFINE S == {0} \union {i \in DOMAIN binlog : binlog[i].row = r}
<1>4. AsApplied(r)
  BY DEF Mirroring
<1>5. dst[r] \in S /\ \A y \in S : dst[r] >= y
  <2>1. dst[r] \in Nat
    BY IncrAssumption DEF Mirroring, Within
  <2>2. \A y \in S : y = 0 \/ (y \in applied /\ binlog[y].row = r)
    BY <1>3
  <2>3. \A y \in S : y \in Nat
    BY <1>1
  <2>4. \A y \in S : y <= dst[r]
    BY <1>4, <2>1, <2>2 DEF AsApplied
  <2> QED
    BY <1>3, <1>4, <2>1, <2>3, <2>4 DEF AsApplied
<1>6. Max(S) = dst[r]
  <2>1. S \subseteq Nat
    BY <1>1
  <2> HIDE DEF S
  <2>2. Max(S) \in S /\ \A y \in S : Max(S) >= y
    BY <1>5 DEF Max
  <2>3. Max(S) \in Nat /\ dst[r] \in Nat /\ Max(S) >= dst[r] /\ dst[r] >= Max(S)
    BY <1>5, <2>1, <2>2
  <2> QED
    BY <2>3
<1>7. SourceRow(r) = IF Max(S) = 0 \/ binlog[Max(S)].op = "delete" THEN 0 ELSE Max(S)
  BY DEF SourceRow
<1>8. Max(S) = 0 \/ binlog[Max(S)].op # "delete"
  <2>1. Max(S) = 0 \/ (Max(S) \in DOMAIN binlog /\ binlog[Max(S)].row = r)
    BY <1>3, <1>4, <1>6 DEF AsApplied
  <2> HIDE DEF S
  <2> QED
    BY <2>1 DEF NeverDeleted
<1> HIDE DEF S
<1> QED
  BY <1>6, <1>7, <1>8

\* A run that has caught up has made the target a copy of the source, for the
\* rows never deleted, through any crashes, replays and partitions of different
\* speeds: if the table has the column "version", by which a replayed upsert
\* yields to a newer row, and under the assumptions of NothingIsLost.  The run
\* replay_regress shows that the column is needed.
THEOREM CaughtUpIsMirrored ==
    ASSUME Seeded, Unsplit, HasVersion
    PROVE  IncrSpec => []CaughtUpMirrors
<1>1. IncrInv /\ Mirroring => CaughtUpMirrors
  BY CaughtUpIsCopy
<1>2. Mirroring /\ [Next]_vars => Mirroring'
  BY MirroringStep
<1> QED
  BY <1>1, <1>2, IncrStarts, IncrStep, MirroringStarts, PTL DEF IncrSpec

-----------------------------------------------------------------------------
(* The incremental engine as a replica that moves forward.                 *)

\* The source holds the last change of a row, unless that deleted it.
LastChange(r, l) ==
    /\ l \in 1 .. Len(binlog) /\ binlog[l].row = r
    /\ \A i \in 1 .. Len(binlog) : binlog[i].row = r => i <= l

SourceIsLast ==
    \A r \in Rows :
        \/ SourceRow(r) = 0 /\ \A i \in 1 .. Len(binlog) : binlog[i].row # r
        \/ \E l \in Nat :
              LastChange(r, l) /\ SourceRow(r) = IF binlog[l].op = "delete" THEN 0 ELSE l

LEMMA SourceFollowsBinlog == Within => SourceIsLast
<1> SUFFICES ASSUME Within, NEW r \in Rows
             PROVE  \/ SourceRow(r) = 0 /\ \A i \in 1 .. Len(binlog) : binlog[i].row # r
                    \/ \E l \in Nat :
                          /\ LastChange(r, l)
                          /\ SourceRow(r) = IF binlog[l].op = "delete" THEN 0 ELSE l
  BY DEF SourceIsLast
<1> DEFINE C == {i \in DOMAIN binlog : binlog[i].row = r}
           S == {0} \union C
<1>1. DOMAIN binlog = 1 .. Len(binlog) /\ Len(binlog) \in Nat
  BY WithinLength
<1>2. SourceRow(r) = IF Max(S) = 0 \/ binlog[Max(S)].op = "delete" THEN 0 ELSE Max(S)
  BY DEF SourceRow
<1>3. C \in SUBSET (1 .. Len(binlog)) /\ \A i \in C : i \in Nat \ {0}
  BY <1>1
<1>4. CASE C = {}
  <2>1. S = {0} /\ \A i \in 1 .. Len(binlog) : binlog[i].row # r
    BY <1>1, <1>4
  <2> HIDE DEF S, C
  <2>2. Max(S) = 0
    BY <2>1 DEF Max
  <2> QED
    BY <1>2, <2>1, <2>2
<1>5. CASE C # {}
  <2>1. \A n \in Nat : \A T \in SUBSET (1 .. n) : T # {} => Max(T) \in T /\ \A y \in T : Max(T) >= y
    BY MaxIsGreatest
  <2>2. PICK l : l = Max(C)
    OBVIOUS
  <2> HIDE DEF C
  <2>3. l \in C /\ \A y \in C : l >= y
    BY <1>1, <1>3, <1>5, <2>1, <2>2
  <2>4. l \in S /\ \A y \in S : l >= y
    BY <1>3, <2>3
  <2>5. \A y \in S : y \in Nat
    BY <1>3
  <2> HIDE DEF S
  <2>6. Max(S) \in S /\ \A y \in S : Max(S) >= y
    BY <2>4 DEF Max
  <2>7. Max(S) = l
    <3>1. Max(S) >= l /\ l >= Max(S) /\ Max(S) \in Nat /\ l \in Nat
      BY <2>4, <2>5, <2>6
    <3> QED
      BY <3>1
  <2>8. l \in Nat /\ l # 0 /\ LastChange(r, l)
    BY <1>1, <1>3, <2>3 DEF C, LastChange
  <2> QED
    BY <1>2, <2>7, <2>8
<1> QED
  BY <1>4, <1>5

LEMMA MirrorIsNotAhead == Mirroring /\ SourceIsLast => Streamed!NotAhead
<1> SUFFICES ASSUME Mirroring, SourceIsLast, NEW r \in Rows \ EverDeleted
             PROVE  dst[r] <= SourceRow(r)
  BY DEF Streamed!NotAhead
<1>1. DOMAIN binlog = 1 .. Len(binlog) /\ Len(binlog) \in Nat
  BY WithinLength DEF Mirroring
<1>2. NeverDeleted(r)
  BY DEF EverDeleted, NeverDeleted
<1>3. dst[r] = 0 \/ (dst[r] \in 1 .. Len(binlog) /\ binlog[dst[r]].row = r)
  BY <1>2 DEF Mirroring, AsApplied
<1>4. CASE \A i \in 1 .. Len(binlog) : binlog[i].row # r
  BY <1>3, <1>4 DEF SourceIsLast, LastChange
<1>5. CASE \E l \in Nat :
              LastChange(r, l) /\ SourceRow(r) = IF binlog[l].op = "delete" THEN 0 ELSE l
  <2>1. PICK l \in Nat :
              LastChange(r, l) /\ SourceRow(r) = IF binlog[l].op = "delete" THEN 0 ELSE l
    BY <1>5
  <2>2. SourceRow(r) = l
    BY <1>1, <1>2, <2>1 DEF LastChange, NeverDeleted
  <2> QED
    BY <1>3, <2>1, <2>2 DEF LastChange
<1> QED
  BY <1>4, <1>5 DEF SourceIsLast

\* A statement moves its rows forward, or deletes them all.
LEMMA ChangeMoves ==
    ASSUME Within, SourceIsLast, SourceIsLast', Change
    PROVE  Streamed!Moves
<1>1. PICK op \in Ops, rows \in (SUBSET Rows) \ {{}} :
         /\ Cardinality(rows) <= RowsPerEvent
         /\ Len(binlog) + Cardinality(rows) <= MaxChanges
         /\ \E s \in Statement(op, rows) : binlog' = binlog \o s
  BY DEF Change
<1>2. PICK s \in Statement(op, rows) : binlog' = binlog \o s
  BY <1>1
<1> DEFINE n == Cardinality(rows)
           R == [row : rows, op : {op}, end : {Len(binlog) + n}]
<1>3. n \in Nat
  BY FS_Subset, IncrAssumption, FS_CardinalityType
<1>4. s \in [1 .. n -> R]
  BY DEF Statement
<1> HIDE DEF R
<1>5. s \in Seq(R) /\ Len(s) = n
  BY <1>3, <1>4
<1>6. PICK old \in Seq(RowChange) : old = binlog
  BY DEF Within
<1>7. /\ Len(old \o s) = Len(old) + n /\ Len(old) \in Nat
      /\ DOMAIN (old \o s) = 1 .. Len(old) + n /\ DOMAIN old = 1 .. Len(old)
      /\ \A i \in 1 .. Len(old) : (old \o s)[i] = old[i]
      /\ \A i \in Len(old) + 1 .. Len(old) + n : (old \o s)[i] \in R
  BY <1>3, <1>5
<1>8. /\ Len(binlog) \in Nat /\ Len(binlog') \in Nat /\ Len(binlog) <= Len(binlog')
      /\ DOMAIN binlog = 1 .. Len(binlog) /\ DOMAIN binlog' = 1 .. Len(binlog')
      /\ \A i \in 1 .. Len(binlog) : i \in 1 .. Len(binlog') /\ binlog'[i] = binlog[i]
      /\ \A i \in 1 .. Len(binlog') : i \in 1 .. Len(binlog) \/ (i > Len(binlog) /\ binlog'[i].op = op)
  <2>1. \A x \in R : x.op = op
    BY DEF R
  <2>2. \A i \in 1 .. Len(old) + n : i \in 1 .. Len(old) \/ i \in Len(old) + 1 .. Len(old) + n
    BY <1>3, <1>7
  <2> QED
    BY <1>2, <1>3, <1>6, <1>7, <2>1, <2>2
<1>9. op \in {"upsert", "delete"}
  BY IncrAssumption
<1>10. ASSUME NEW r \in Rows
       PROVE  /\ SourceRow(r)' >= SourceRow(r) \/ (SourceRow(r)' = 0 /\ r \in EverDeleted')
              /\ r \in EverDeleted' \ EverDeleted => SourceRow(r)' = 0
  \* Either the statement changes the row ...
  <2>1. CASE \E j \in 1 .. Len(binlog') : binlog'[j].row = r /\ j > Len(binlog)
    <3>1. PICK l \in Nat :
              LastChange(r, l)' /\ SourceRow(r)' = IF binlog'[l].op = "delete" THEN 0 ELSE l
      BY <2>1 DEF SourceIsLast
    <3>2. l \in 1 .. Len(binlog') /\ binlog'[l].row = r /\ l > Len(binlog) /\ binlog'[l].op = op
      BY <1>8, <2>1, <3>1 DEF LastChange
    <3>3. SourceRow(r) \in Nat /\ SourceRow(r) <= Len(binlog)
      BY <1>8 DEF SourceIsLast, LastChange
    <3>4. CASE op = "delete"
      <4>1. SourceRow(r)' = 0
        BY <3>1, <3>2, <3>4
      <4>2. r \in EverDeleted'
        BY <1>8, <3>2, <3>4 DEF EverDeleted
      <4> QED
        BY <4>1, <4>2
    <3>5. CASE op = "upsert"
      <4>1. SourceRow(r)' = l
        BY <3>1, <3>2, <3>5
      <4>2. r \in EverDeleted' => r \in EverDeleted
        BY <1>8, <3>5 DEF EverDeleted
      <4> QED
        BY <1>8, <3>2, <3>3, <4>1, <4>2
    <3> QED
      BY <1>9, <3>4, <3>5
  \* ... or leaves it as it was.
  <2>2. CASE \A j \in 1 .. Len(binlog') : binlog'[j].row = r => j \in 1 .. Len(binlog)
    <3>1. r \in EverDeleted' => r \in EverDeleted
      BY <1>8, <2>2 DEF EverDeleted
    <3>2. SourceRow(r)' = SourceRow(r) /\ SourceRow(r) \in Nat
      <4>1. CASE \A i \in 1 .. Len(binlog) : binlog[i].row # r
        <5>1. SourceRow(r) = 0
          BY <4>1 DEF SourceIsLast, LastChange
        <5>2. \A i \in 1 .. Len(binlog') : binlog'[i].row # r
          BY <1>8, <2>2, <4>1
        <5>3. SourceRow(r)' = 0
          BY <5>2 DEF SourceIsLast, LastChange
        <5> QED
          BY <5>1, <5>3
      <4>2. CASE \E i \in 1 .. Len(binlog) : binlog[i].row = r
        <5>1. PICK l \in Nat :
                  LastChange(r, l) /\ SourceRow(r) = IF binlog[l].op = "delete" THEN 0 ELSE l
          BY <4>2 DEF SourceIsLast
        <5>2. PICK m \in Nat :
                  LastChange(r, m)' /\ SourceRow(r)' = IF binlog'[m].op = "delete" THEN 0 ELSE m
          BY <1>8, <4>2 DEF SourceIsLast
        <5>3. m = l
          BY <1>8, <2>2, <5>1, <5>2 DEF LastChange
        <5> QED
          BY <1>8, <5>1, <5>2, <5>3 DEF LastChange
      <4> QED
        BY <4>1, <4>2
    <3> QED
      BY <3>1, <3>2
  <2> QED
    BY <1>8, <2>1, <2>2
<1>11. UNCHANGED dst
  BY DEF Change, stored
<1>12. EverDeleted' \subseteq Rows
  BY DEF EverDeleted
<1> QED
  BY <1>10, <1>11, <1>12 DEF Streamed!Moves

\* With the lock no batch takes a row back, whichever changes it replays.
LEMMA ApplyFollows ==
    ASSUME HasVersion, Within, NEW p \in Partitions, Apply(p)
    PROVE  Streamed!Follows
<1>1. dst' = Sink(batch[p]) /\ UNCHANGED binlog
  BY DEF Apply
<1>2. batch[p] \in SUBSET (1 .. Len(binlog)) /\ Len(binlog) \in Nat
      /\ DOMAIN binlog = 1 .. Len(binlog) /\ dst \in [Rows -> Nat]
  BY WithinLength, IncrAssumption DEF Within
<1>3. ASSUME NEW r \in Rows \ EverDeleted
      PROVE  dst'[r] >= dst[r]
  <2> DEFINE deletes == {i \in batch[p] : binlog[i].row = r /\ binlog[i].op = "delete"}
             upserts == {i \in batch[p] : binlog[i].row = r /\ binlog[i].op = "upsert"}
             kept == IF deletes = {} THEN dst[r] ELSE 0
  <2>1. deletes = {}
    BY <1>2, <1>3 DEF EverDeleted
  <2>2. Sink(batch[p])[r] = IF upserts = {} THEN kept
                            ELSE IF HasVersion /\ kept > Max(upserts) THEN kept
                            ELSE Max(upserts)
    BY DEF Sink, SinkWith
  <2>3. upserts # {} => Max(upserts) \in Nat
    <3>1. \A n \in Nat : \A S \in SUBSET (1 .. n) : S # {} => Max(S) \in S
      BY MaxIsGreatest
    <3>2. upserts \in SUBSET (1 .. Len(binlog))
      BY <1>2
    <3> HIDE DEF upserts
    <3>3. upserts # {} => Max(upserts) \in 1 .. Len(binlog)
      BY <1>2, <3>1, <3>2
    <3> QED
      BY <1>2, <3>3
  <2>4. dst[r] \in Nat
    BY <1>2
  <2> HIDE DEF deletes, upserts
  <2> QED
    BY <1>1, <2>1, <2>2, <2>3, <2>4
<1>4. UNCHANGED <<EverDeleted, [r \in Rows |-> SourceRow(r)]>>
  BY <1>1 DEF EverDeleted, SourceRow
<1> QED
  BY <1>3, <1>4 DEF Streamed!Follows

\* IncrSync implements Replica, if the table has the column "version": whatever
\* is saved, lost and replayed, for any partitions and batches, and even where
\* checkpoints of partitions that never saved one or of split statements skip a
\* change, no row of the target goes back or ahead of the source, unless it has
\* been deleted.
THEOREM IncrIsAReplica ==
    ASSUME HasVersion
    PROVE  IncrSpec => IncrImplementsReplica
<1>1. Init => Streamed!ReplicaInit
  <2> SUFFICES ASSUME Init
               PROVE  Streamed!ReplicaInit
    OBVIOUS
  <2>1. Within
    BY WithinStarts
  <2>2. DOMAIN binlog = {} /\ Len(binlog) = 0 /\ \A r \in Rows : dst[r] = 0
    BY DEF Init
  <2>3. \A r \in Rows : SourceRow(r) = 0
    BY <2>1, <2>2, SourceFollowsBinlog DEF SourceIsLast, LastChange
  <2>4. dst \in [Rows -> Nat]
    BY <2>1, IncrAssumption DEF Within
  <2>5. EverDeleted \in SUBSET Rows
    BY DEF EverDeleted
  <2> QED
    BY <2>2, <2>3, <2>4, <2>5 DEF Streamed!ReplicaInit, Streamed!NotAhead
<1>2. Mirroring => Within
  BY DEF Mirroring
<1>3. Mirroring /\ [Next]_vars => Mirroring'
  BY MirroringStep
<1>4. Mirroring /\ SourceIsLast /\ SourceIsLast' /\ Streamed!NotAhead' /\ [Next]_vars
        => [Streamed!ReplicaNext]_Streamed!replicaVars
  <2> SUFFICES ASSUME Mirroring, SourceIsLast, SourceIsLast', Streamed!NotAhead', [Next]_vars
               PROVE  [Streamed!ReplicaNext]_Streamed!replicaVars
    OBVIOUS
  <2>1. ASSUME Change
        PROVE  Streamed!ReplicaNext
    BY <1>2, <2>1, ChangeMoves DEF Streamed!ReplicaNext
  <2>2. ASSUME NEW p \in Partitions, Apply(p)
        PROVE  Streamed!ReplicaNext
    BY <1>2, <2>2, ApplyFollows DEF Streamed!ReplicaNext
  <2>3. ASSUME UNCHANGED <<binlog, dst>>
        PROVE  UNCHANGED Streamed!replicaVars
    BY <2>3 DEF Streamed!replicaVars, SourceRow, EverDeleted
  <2>4. CASE Run \/ Fail \/ Crash \/ Pause \/ Dispatch \/ UNCHANGED vars
    BY <2>3, <2>4 DEF Run, Fail, Crash, Pause, Dispatch, vars, stored
  <2>5. ASSUME NEW p \in Partitions, Take(p) \/ SaveCheckpoint(p)
        PROVE  UNCHANGED Streamed!replicaVars
    BY <2>3, <2>5 DEF Take, SaveCheckpoint, stored
  <2> QED
    BY <2>1, <2>2, <2>4, <2>5 DEF Next
<1> QED
  BY <1>1, <1>2, <1>3, <1>4, MirroringStarts, SourceFollowsBinlog, MirrorIsNotAhead, PTL
     DEF IncrSpec, IncrImplementsReplica, Streamed!ReplicaSpec

-----------------------------------------------------------------------------
(* One change at a time: the configuration of the engine's own tests.      *)

\* A change that a run has yet to apply; or that the next run will, from the
\* saved position.
Waits(p, i) == i > cursor \/ i \in queue[p] \/ (i \in batch[p] /\ ~ flushed[p])
YetToDo(p, i) == IF running THEN Waits(p, i) ELSE i > ckpt[p]

\* One change is in hand, those behind it wait, beyond the saved position.
TakenInTurn(p) ==
    running =>
        /\ \A i \in batch[p] \union queue[p], j \in 1 .. cursor : i < j => j \in queue[p]
        /\ \A i, j \in batch[p] : i = j
        /\ \A i \in DOMAIN binlog : Waits(p, i) => i > ckpt[p]

OwnChanges == \A r \in Rows : dst[r] # 0 => dst[r] \in DOMAIN binlog /\ binlog[dst[r]].row = r

\* A row whose last change has been applied is as the source has it.
LastApplied(p) ==
    \A r \in Rows, l \in DOMAIN binlog :
        LastChange(r, l) /\ ~ YetToDo(p, l) => dst[r] = SourceRow(r)

InTurn(p) == Within /\ IncrInv /\ SourceIsLast /\ TakenInTurn(p) /\ OwnChanges /\ LastApplied(p)

CopiesAll == CaughtUp => \A r \in Rows : dst[r] = SourceRow(r)

LEMMA CaughtUpInTurn ==
    ASSUME NEW p \in Partitions, InTurn(p)
    PROVE  CopiesAll
<1> SUFFICES ASSUME CaughtUp, NEW r \in Rows
             PROVE  dst[r] = SourceRow(r)
  BY DEF CopiesAll
<1>1. DOMAIN binlog = 1 .. Len(binlog) /\ Len(binlog) \in Nat
  BY WithinLength DEF InTurn
<1>2. \A l \in DOMAIN binlog : ~ YetToDo(p, l)
  BY <1>1 DEF CaughtUp, Nothing, YetToDo, Waits
<1>3. CASE \A i \in 1 .. Len(binlog) : binlog[i].row # r
  <2>1. dst[r] = 0
    BY <1>1, <1>3 DEF InTurn, OwnChanges
  <2>2. SourceRow(r) = 0
    BY <1>3 DEF InTurn, SourceIsLast, LastChange
  <2> QED
    BY <2>1, <2>2
<1>4. CASE \E l \in Nat : LastChange(r, l)
  BY <1>1, <1>2, <1>4 DEF InTurn, LastApplied, LastChange
<1> QED
  BY <1>3, <1>4 DEF InTurn, SourceIsLast

\* Steps that change neither table, and leave as much to be done.
LEMMA TablesStand ==
    ASSUME NEW p \in Partitions, OwnChanges, LastApplied(p), UNCHANGED <<binlog, dst>>,
           \A l \in DOMAIN binlog : YetToDo(p, l) => YetToDo(p, l)'
    PROVE  OwnChanges' /\ LastApplied(p)'
<1>1. \A r \in Rows : SourceRow(r)' = SourceRow(r) /\ \A l : LastChange(r, l)' = LastChange(r, l)
  BY DEF SourceRow, LastChange
<1> QED
  BY <1>1 DEF OwnChanges, LastApplied

LEMMA StopInTurn ==
    ASSUME NEW p \in Partitions, InTurn(p), running, Stop, UNCHANGED <<binlog, stored>>
    PROVE  TakenInTurn(p)' /\ OwnChanges' /\ LastApplied(p)'
<1>1. \A l \in DOMAIN binlog : YetToDo(p, l) => YetToDo(p, l)'
  BY DEF Stop, stored, YetToDo, InTurn, TakenInTurn
<1>2. OwnChanges' /\ LastApplied(p)'
  BY <1>1, TablesStand DEF InTurn, stored
<1> QED
  BY <1>2 DEF TakenInTurn, Stop

\* A run goes on from the position of its only partition.
LEMMA RunInTurn ==
    ASSUME NEW p \in Partitions, Partitions = {p}, InTurn(p), Run
    PROVE  TakenInTurn(p)' /\ OwnChanges' /\ LastApplied(p)'
<1>1. /\ ~ running /\ running' /\ cursor' = SubscribeFrom
      /\ UNCHANGED <<binlog, dst, ckpt, queue, batch, flushed>>
  BY DEF Run, stored
<1>2. queue[p] = {} /\ batch[p] = {}
  BY <1>1 DEF InTurn, IncrInv, AllInHand, InHand
<1>3. SubscribeFrom = ckpt[p] /\ ckpt[p] \in Nat
  <2>1. ckpt[p] \in Nat
    BY BinlogShape DEF InTurn, IncrInv, Shape
  <2>2. {ckpt[q] : q \in Partitions} = {ckpt[p]}
    OBVIOUS
  <2>3. minPartitionCkpt = ckpt[p]
    BY <2>1, <2>2, MinIsLeast DEF minPartitionCkpt
  <2> QED
    BY <2>1, <2>3 DEF SubscribeFrom, Unset
<1>4. \A l \in DOMAIN binlog : YetToDo(p, l) => YetToDo(p, l)'
  BY <1>1, <1>3 DEF YetToDo, Waits
<1>5. OwnChanges' /\ LastApplied(p)'
  BY <1>1, <1>4, TablesStand DEF InTurn
<1>6. TakenInTurn(p)'
  BY <1>1, <1>2, <1>3 DEF TakenInTurn, Waits
<1> QED
  BY <1>5, <1>6

LEMMA DispatchInTurn ==
    ASSUME NEW p \in Partitions, Partitions = {p}, InTurn(p), Dispatch
    PROVE  TakenInTurn(p)' /\ OwnChanges' /\ LastApplied(p)'
<1>1. /\ running /\ running' /\ cursor < Len(binlog) /\ cursor' = cursor + 1
      /\ UNCHANGED <<binlog, dst, ckpt, batch, flushed>>
  BY DEF Dispatch, stored
<1>2. cursor \in Nat /\ Len(binlog) \in Nat /\ DOMAIN binlog = 1 .. Len(binlog)
      /\ queue[p] \in SUBSET (1 .. cursor) /\ batch[p] \in SUBSET (1 .. cursor)
  BY WithinLength DEF InTurn, IncrInv, Shape
<1>3. queue'[p] = queue[p] \union {cursor + 1}
  <2>1. PartitionOf[binlog[cursor + 1].row] \in Partitions
    <3>1. cursor + 1 \in DOMAIN binlog
      BY <1>1, <1>2
    <3> QED
      BY <3>1, HomeIsPartition DEF InTurn, IncrInv, Home
  <2> QED
    BY <2>1 DEF Dispatch, InTurn, Within
<1>4. \A i \in DOMAIN binlog : Waits(p, i)' = Waits(p, i)
  BY <1>1, <1>2, <1>3 DEF Waits
<1>5. OwnChanges' /\ LastApplied(p)'
  BY <1>1, <1>4, TablesStand DEF InTurn, YetToDo
<1>6. \A i \in batch'[p] \union queue'[p], j \in 1 .. cursor' : i < j => j \in queue'[p]
  BY <1>1, <1>2, <1>3 DEF InTurn, TakenInTurn
<1> QED
  BY <1>1, <1>4, <1>5, <1>6 DEF InTurn, TakenInTurn

LEMMA TakeInTurn ==
    ASSUME NEW p \in Partitions, BatchSize = 1, InTurn(p), Take(p)
    PROVE  TakenInTurn(p)' /\ OwnChanges' /\ LastApplied(p)'
<1>1. /\ running /\ running' /\ ~ flushed[p] /\ queue[p] # {}
      /\ UNCHANGED <<binlog, dst, ckpt, cursor, flushed>>
  BY DEF Take, stored
<1>2. cursor \in Nat /\ queue[p] \in SUBSET (1 .. cursor) /\ batch[p] \in SUBSET (1 .. cursor)
  BY BinlogShape DEF InTurn, IncrInv, Shape
<1>3. batch[p] = {}
  <2>1. IsFiniteSet(batch[p])
    <3>1. IsFiniteSet(1 .. cursor)
      BY <1>2, FS_Interval
    <3> QED
      BY <1>2, <3>1, FS_Subset
  <2>2. Cardinality(batch[p]) \in Nat /\ Cardinality(batch[p]) < 1
    BY <2>1, FS_CardinalityType DEF Take
  <2> QED
    BY <2>1, <2>2, FS_EmptySet
<1>4. PICK m \in queue[p] : m = Min(queue[p]) /\ \A y \in queue[p] : m <= y
  BY <1>1, <1>2, MinIsLeast
<1>5. queue'[p] = queue[p] \ {m} /\ batch'[p] = {m}
  BY <1>3, <1>4 DEF Take, InTurn, Within
<1>6. \A i \in DOMAIN binlog : Waits(p, i)' = Waits(p, i)
  BY <1>1, <1>3, <1>4, <1>5 DEF Waits
<1>7. OwnChanges' /\ LastApplied(p)'
  BY <1>1, <1>6, TablesStand DEF InTurn, YetToDo
<1>8. \A i \in batch'[p] \union queue'[p], j \in 1 .. cursor' : i < j => j \in queue'[p]
  <2> SUFFICES ASSUME NEW i \in queue[p], NEW j \in 1 .. cursor, i < j
               PROVE  j \in queue[p] /\ j # m
    BY <1>1, <1>4, <1>5
  <2>1. j \in queue[p]
    BY <1>1 DEF InTurn, TakenInTurn
  <2>2. m <= i /\ m \in Nat /\ i \in Nat
    BY <1>2, <1>4
  <2> QED
    BY <2>1, <2>2
<1> QED
  BY <1>1, <1>5, <1>6, <1>7, <1>8 DEF InTurn, TakenInTurn

\* The change in hand is applied: the last of its row, or one that others follow.
LEMMA ApplyInTurn ==
    ASSUME NEW p \in Partitions, Partitions = {p}, InTurn(p), Apply(p)
    PROVE  TakenInTurn(p)' /\ OwnChanges' /\ LastApplied(p)'
<1>1. /\ running /\ running' /\ ~ flushed[p] /\ batch[p] # {} /\ dst' = Sink(batch[p])
      /\ flushed' = [flushed EXCEPT ![p] = TRUE]
      /\ UNCHANGED <<binlog, ckpt, cursor, queue, batch>>
  BY DEF Apply, Flushable
<1>2. PICK b : batch[p] = {b}
  BY <1>1 DEF InTurn, TakenInTurn
<1>3. /\ DOMAIN binlog = 1 .. Len(binlog) /\ cursor \in 0 .. Len(binlog) /\ Len(binlog) \in Nat
      /\ b \in 1 .. cursor /\ b \in DOMAIN binlog /\ dst \in [Rows -> Nat]
      /\ binlog[b].row \in Rows /\ binlog[b].op \in {"upsert", "delete"}
  <2>1. b \in 1 .. Len(binlog) /\ b \in 1 .. cursor
    BY <1>2 DEF InTurn, Within, IncrInv, Shape
  <2>2. DOMAIN binlog = 1 .. Len(binlog) /\ Len(binlog) \in Nat /\ binlog[b] \in RowChange
    BY <2>1, WithinLength DEF InTurn
  <2>3. binlog[b].row \in Rows /\ binlog[b].op \in {"upsert", "delete"}
    BY <2>2, IncrAssumption DEF RowChange
  <2>4. cursor \in 0 .. Len(binlog)
    BY DEF InTurn, IncrInv, Shape
  <2>5. dst \in [Rows -> Nat]
    BY IncrAssumption DEF InTurn, Within
  <2> QED
    BY <2>1, <2>2, <2>3, <2>4, <2>5
<1>4. flushed'[p] /\ \A i \in DOMAIN binlog : Waits(p, i)' = (Waits(p, i) /\ i # b)
  <2>1. flushed'[p]
    BY <1>1 DEF InTurn, Within
  <2>2. \A j \in queue[p] : b < j
    BY <1>2 DEF InTurn, IncrInv, AllInHand, InHand
  <2> QED
    BY <1>1, <1>2, <1>3, <2>1, <2>2 DEF Waits
<1>5. TakenInTurn(p)'
  BY <1>1, <1>4 DEF InTurn, TakenInTurn
<1>6. ASSUME NEW r \in Rows
      PROVE  dst'[r] = IF binlog[b].row # r THEN dst[r]
                       ELSE IF binlog[b].op = "delete" THEN 0
                       ELSE IF HasVersion /\ dst[r] > b THEN dst[r] ELSE b
  <2> DEFINE deletes == {i \in {b} : binlog[i].row = r /\ binlog[i].op = "delete"}
             upserts == {i \in {b} : binlog[i].row = r /\ binlog[i].op = "upsert"}
             kept == IF deletes = {} THEN dst[r] ELSE 0
  <2>1. Sink({b})[r] = IF upserts = {} THEN kept
                       ELSE IF HasVersion /\ kept > Max(upserts) THEN kept
                       ELSE Max(upserts)
    BY DEF Sink, SinkWith
  <2>2. b \in Nat
    BY <1>3
  <2>3. CASE binlog[b].row # r
    <3>1. deletes = {} /\ upserts = {}
      BY <2>3
    <3> HIDE DEF deletes, upserts
    <3> QED
      BY <1>1, <1>2, <2>1, <2>3, <3>1
  <2>4. CASE binlog[b].row = r /\ binlog[b].op = "delete"
    <3>1. deletes = {b} /\ upserts = {}
      BY <2>4
    <3> HIDE DEF deletes, upserts
    <3> QED
      BY <1>1, <1>2, <2>1, <2>4, <3>1
  <2>5. CASE binlog[b].row = r /\ binlog[b].op = "upsert"
    <3>1. deletes = {} /\ upserts = {b}
      BY <2>5
    <3> HIDE DEF deletes, upserts
    <3>2. Max(upserts) = b
      BY <2>2, <3>1 DEF Max
    <3> QED
      BY <1>1, <1>2, <2>1, <2>5, <3>1, <3>2
  <2> QED
    BY <1>3, <2>3, <2>4, <2>5
<1>7. OwnChanges'
  BY <1>1, <1>3, <1>6 DEF InTurn, OwnChanges
<1>8. LastApplied(p)'
  <2> SUFFICES ASSUME NEW r \in Rows, NEW l \in DOMAIN binlog, LastChange(r, l), ~ Waits(p, l)'
               PROVE  dst'[r] = SourceRow(r)
    <3>1. \A r \in Rows : SourceRow(r)' = SourceRow(r) /\ \A l : LastChange(r, l)' = LastChange(r, l)
      BY <1>1 DEF SourceRow, LastChange
    <3> QED
      BY <1>1, <3>1 DEF LastApplied, YetToDo
  <2>1. CASE binlog[b].row # r
    <3>1. l # b
      BY <2>1 DEF LastChange
    <3>2. ~ YetToDo(p, l)
      BY <1>1, <1>4, <3>1 DEF YetToDo
    <3> QED
      BY <1>6, <2>1, <3>2 DEF InTurn, LastApplied
  <2>2. CASE binlog[b].row = r
    <3>1. b <= l
      BY <1>3, <2>2 DEF LastChange
    <3>2. l = b
      <4>1. b < l /\ l <= cursor => l \in queue[p]
        <5>1. \A j \in 1 .. cursor : b < j => j \in queue[p]
          BY <1>1, <1>2 DEF InTurn, TakenInTurn
        <5> QED
          BY <1>3, <5>1
      <4>2. b < l => Waits(p, l)'
        BY <1>1, <1>3, <4>1 DEF Waits
      <4> QED
        BY <1>3, <3>1, <4>2
    <3>3. SourceRow(r) = IF binlog[b].op = "delete" THEN 0 ELSE b
      <4>1. PICK m \in Nat :
                LastChange(r, m) /\ SourceRow(r) = IF binlog[m].op = "delete" THEN 0 ELSE m
        BY <1>3, <2>2 DEF InTurn, SourceIsLast
      <4>2. m = l
        BY <1>3, <4>1 DEF LastChange
      <4> QED
        BY <3>2, <4>1, <4>2
    <3>4. ~ (dst[r] > b)
      <4>1. dst[r] = 0 \/ (dst[r] \in 1 .. Len(binlog) /\ binlog[dst[r]].row = r)
        BY <1>3 DEF InTurn, OwnChanges
      <4> QED
        BY <1>3, <3>2, <4>1 DEF LastChange
    <3> QED
      BY <1>3, <1>6, <2>2, <3>3, <3>4
  <2> QED
    BY <2>1, <2>2
<1> QED
  BY <1>5, <1>7, <1>8

LEMMA SaveInTurn ==
    ASSUME NEW p \in Partitions, Partitions = {p}, InTurn(p), SaveCheckpoint(p)
    PROVE  TakenInTurn(p)' /\ OwnChanges' /\ LastApplied(p)'
<1>1. /\ running /\ running' /\ flushed[p]
      /\ ckpt' = ckpt \/ ckpt' = [ckpt EXCEPT ![p] = lastPos(p)]
      /\ batch' = [batch EXCEPT ![p] = {}] /\ flushed' = [flushed EXCEPT ![p] = FALSE]
      /\ UNCHANGED <<binlog, dst, cursor, queue>>
  BY DEF SaveCheckpoint
<1>2. PICK b : batch[p] = {b} /\ \A i \in queue[p] : b < i
  BY <1>1 DEF InTurn, TakenInTurn, IncrInv, AllInHand, InHand
<1>3. DOMAIN binlog = 1 .. Len(binlog) /\ Len(binlog) \in Nat /\ cursor \in 0 .. Len(binlog)
      /\ b \in 1 .. cursor /\ b \in DOMAIN binlog
  BY <1>2, WithinLength DEF InTurn, IncrInv, Shape, Within
<1>4. batch'[p] = {} /\ ~ flushed'[p] /\ (ckpt'[p] = ckpt[p] \/ ckpt'[p] = lastPos(p))
  BY <1>1 DEF InTurn, Within
\* The position is that of the change itself.
<1>5. lastPos(p) = b
  <2>1. Max({b}) = b
    BY <1>3 DEF Max
  <2>2. binlog[b].end \in b .. Len(binlog) /\ \A j \in DOMAIN binlog : b < j => binlog[b].end < j
    <3>1. \A j \in DOMAIN binlog : Home(j) = p
      BY HomeIsPartition DEF InTurn, IncrInv
    <3> QED
      BY <1>3, <3>1 DEF InTurn, IncrInv, EndsApart
  <2>3. binlog[b].end = b
    <3>1. b < Len(binlog) => b + 1 \in DOMAIN binlog
      BY <1>3
    <3>2. b < Len(binlog) => binlog[b].end < b + 1
      BY <1>3, <2>2, <3>1
    <3> QED
      BY <1>3, <2>2, <3>2
  <2> QED
    BY <1>2, <2>1, <2>3 DEF lastPos
<1>6. \A i \in DOMAIN binlog : Waits(p, i)' = Waits(p, i)
  BY <1>1, <1>4 DEF Waits
<1>7. OwnChanges' /\ LastApplied(p)'
  BY <1>1, <1>6, TablesStand DEF InTurn, YetToDo
<1>8. \A i \in DOMAIN binlog : Waits(p, i) => i > ckpt[p] /\ i > b
  BY <1>1, <1>2, <1>3 DEF Waits, InTurn, TakenInTurn
<1>9. TakenInTurn(p)'
  BY <1>1, <1>4, <1>5, <1>6, <1>8 DEF InTurn, TakenInTurn
<1> QED
  BY <1>7, <1>9

\* The rows that a statement changes have yet to be applied; the others stand.
LEMMA ChangeInTurn ==
    ASSUME NEW p \in Partitions, InTurn(p), SourceIsLast', Change
    PROVE  TakenInTurn(p)' /\ OwnChanges' /\ LastApplied(p)'
<1>1. UNCHANGED <<dst, ckpt, cursor, queue, batch, flushed, running>>
  BY DEF Change, stored, memory
<1>2. /\ DOMAIN binlog = 1 .. Len(binlog) /\ Len(binlog) \in Nat
      /\ 1 .. Len(binlog) \subseteq 1 .. Len(binlog')
      /\ \A i \in 1 .. Len(binlog) : binlog'[i] = binlog[i]
  BY WithinLength, BinlogGrows DEF InTurn
<1>3. DOMAIN binlog' = 1 .. Len(binlog') /\ Len(binlog') \in Nat
  <2>1. binlog' \in Seq(RowChange)
    BY ChangeWithin DEF InTurn, Within
  <2> QED
    BY <2>1
<1>4. \A i \in DOMAIN binlog' \ DOMAIN binlog : i > Len(binlog)
  BY <1>2, <1>3
<1>5. cursor \in 0 .. Len(binlog) /\ ckpt[p] \in 0 .. Len(binlog)
  BY DEF InTurn, IncrInv, Shape
<1>6. \A i \in DOMAIN binlog' \ DOMAIN binlog : YetToDo(p, i)' /\ i > ckpt[p]
  BY <1>1, <1>2, <1>4, <1>5 DEF YetToDo, Waits
<1>7. \A i : Waits(p, i)' = Waits(p, i) /\ YetToDo(p, i)' = YetToDo(p, i)
  BY <1>1 DEF Waits, YetToDo
<1>8. TakenInTurn(p)'
  BY <1>1, <1>6, <1>7 DEF InTurn, TakenInTurn
<1>9. OwnChanges'
  BY <1>1, <1>2, <1>3 DEF InTurn, OwnChanges
<1>10. LastApplied(p)'
  <2> SUFFICES ASSUME NEW r \in Rows, NEW l \in DOMAIN binlog', LastChange(r, l)',
                      ~ YetToDo(p, l)
               PROVE  dst[r] = SourceRow(r)'
    BY <1>1, <1>7 DEF LastApplied
  <2>1. l \in 1 .. Len(binlog)
    BY <1>2, <1>6, <1>7
  <2>2. LastChange(r, l)
    BY <1>2, <2>1 DEF LastChange
  <2>3. dst[r] = SourceRow(r)
    BY <1>2, <2>1, <2>2 DEF InTurn, LastApplied
  <2>4. SourceRow(r) = IF binlog[l].op = "delete" THEN 0 ELSE l
    <3>1. PICK m \in Nat :
              LastChange(r, m) /\ SourceRow(r) = IF binlog[m].op = "delete" THEN 0 ELSE m
      BY <2>2 DEF InTurn, SourceIsLast, LastChange
    <3>2. m = l
      BY <1>2, <2>1, <2>2, <3>1 DEF LastChange
    <3> QED
      BY <3>1, <3>2
  <2>5. SourceRow(r)' = IF binlog'[l].op = "delete" THEN 0 ELSE l
    <3>1. PICK m \in Nat :
              LastChange(r, m)' /\ SourceRow(r)' = IF binlog'[m].op = "delete" THEN 0 ELSE m
      BY <1>2, <2>1 DEF SourceIsLast, LastChange
    <3>2. m = l
      BY <1>3, <2>1, <3>1 DEF LastChange
    <3> QED
      BY <3>1, <3>2
  <2> QED
    BY <1>2, <2>1, <2>3, <2>4, <2>5
<1> QED
  BY <1>8, <1>9, <1>10

LEMMA InTurnStep ==
    ASSUME NEW p \in Partitions, Partitions = {p}, BatchSize = 1, Unsplit
    PROVE  InTurn(p) /\ SourceIsLast' /\ [Next]_vars => InTurn(p)'
<1> SUFFICES ASSUME InTurn(p), SourceIsLast', [Next]_vars
             PROVE  InTurn(p)'
  OBVIOUS
<1>1. Within' /\ IncrInv'
  BY WithinStep, IncrStep DEF InTurn
<1> SUFFICES TakenInTurn(p)' /\ OwnChanges' /\ LastApplied(p)'
  BY <1>1 DEF InTurn
<1>2. CASE Change \/ Run \/ Dispatch
  BY <1>2, ChangeInTurn, RunInTurn, DispatchInTurn
<1>3. CASE Fail \/ Crash \/ Pause
  <2>1. running /\ Stop /\ UNCHANGED <<binlog, stored>>
    BY <1>3 DEF Fail, Crash, Pause
  <2> QED
    BY <2>1, StopInTurn
<1>4. ASSUME NEW q \in Partitions, Take(q) \/ Apply(q) \/ SaveCheckpoint(q)
      PROVE  TakenInTurn(p)' /\ OwnChanges' /\ LastApplied(p)'
  BY <1>4, TakeInTurn, ApplyInTurn, SaveInTurn
<1>5. CASE UNCHANGED vars
  <2>1. UNCHANGED <<binlog, dst, ckpt, cursor, queue, batch, flushed, running>>
    BY <1>5 DEF vars, stored, memory
  <2>2. \A i : Waits(p, i)' = Waits(p, i) /\ YetToDo(p, i)' = YetToDo(p, i)
    BY <2>1 DEF Waits, YetToDo
  <2>3. OwnChanges' /\ LastApplied(p)'
    BY <2>1, <2>2, TablesStand DEF InTurn
  <2> QED
    BY <2>1, <2>2, <2>3 DEF InTurn, TakenInTurn
<1> QED
  BY <1>2, <1>3, <1>4, <1>5 DEF Next

\* With one partition, one change to a batch (as in incr_test.go:170 and 450)
\* and one to a statement, a run that has caught up has made the target a
\* copy of the source, deletions and all, with or without the column "version":
\* replays after a crash take nothing away.  The run batch_order shows that one
\* change to a batch is needed.
THEOREM OneAtATimeIsMirrored ==
    ASSUME NEW p \in Partitions, Partitions = {p}, BatchSize = 1, Seeded, Unsplit
    PROVE  IncrSpec => [](CopiesAll /\ DeletedStaysDeleted)
<1>1. Init => InTurn(p)
  <2> SUFFICES ASSUME Init
               PROVE  InTurn(p)
    OBVIOUS
  <2>1. Within /\ IncrInv /\ SourceIsLast
    BY WithinStarts, IncrStarts, SourceFollowsBinlog
  <2>2. DOMAIN binlog = {} /\ ~ running /\ \A r \in Rows : dst[r] = 0
    BY DEF Init
  <2> QED
    BY <2>1, <2>2 DEF InTurn, TakenInTurn, OwnChanges, LastApplied
<1>2. InTurn(p) /\ SourceIsLast' /\ [Next]_vars => InTurn(p)'
  BY InTurnStep
<1>3. InTurn(p) => CopiesAll /\ DeletedStaysDeleted
  BY CaughtUpInTurn DEF CopiesAll, DeletedStaysDeleted
<1> QED
  BY <1>1, <1>2, <1>3, WithinStarts, WithinStep, SourceFollowsBinlog, PTL DEF IncrSpec

-----------------------------------------------------------------------------
(* Tables: what a SELECT of a scan returns, what a batch of a sink leaves. *)

LEMMA GreatestIs ==
    ASSUME NEW n \in Nat, NEW S \in SUBSET (1 .. n), S # {}
    PROVE  Greatest(S) \in S /\ \A y \in S : Greatest(S) >= y
  BY MaxIsGreatest DEF Greatest

LEMMA LeastIs ==
    ASSUME NEW S \in SUBSET Nat, S # {}
    PROVE  Least(S) \in S /\ \A y \in S : Least(S) <= y
  BY LeastExists DEF Least

\* The first rows of a set: all that precede one of them are among them, and
\* when they are fewer than asked for there are no others.
LEMMA FirstRows ==
    ASSUME NEW n \in Nat, NEW S \in SUBSET (1 .. n), NEW limit \in Nat,
           NEW found, found = {r \in S : Cardinality({q \in S : q < r}) < limit}
    PROVE  /\ found \subseteq S /\ IsFiniteSet(found)
           /\ \A q \in found, r \in S : r <= q => r \in found
           /\ Cardinality(found) < limit => found = S
<1>0. S \in SUBSET Nat
  OBVIOUS
<1>1. IsFiniteSet(S)
  <2>1. IsFiniteSet(1 .. n)
    <3>1. 1 \in Int /\ n \in Int
      OBVIOUS
    <3> QED
      BY <3>1, FS_Interval
  <2> QED
    BY <2>1, FS_Subset
<1>2. found \subseteq S /\ IsFiniteSet(found)
  BY <1>1, FS_Subset
<1>3. ASSUME NEW q \in found, NEW r \in S, r <= q
      PROVE  r \in found
  <2>1. {x \in S : x < r} \subseteq {x \in S : x < q}
    <3>1. q \in Nat /\ r \in Nat /\ \A x \in S : x \in Nat
      BY <1>0, <1>2
    <3>2. \A x \in S : x < r => x < q
      BY <1>3, <3>1
    <3> QED
      BY <3>2
  <2>2. IsFiniteSet({x \in S : x < q}) /\ IsFiniteSet({x \in S : x < r})
    BY <1>1, FS_Subset
  <2>3. Cardinality({x \in S : x < r}) <= Cardinality({x \in S : x < q})
    BY <2>1, <2>2, FS_Subset
  <2>4. Cardinality({x \in S : x < r}) \in Nat /\ Cardinality({x \in S : x < q}) \in Nat
    BY <2>2, FS_CardinalityType
  <2> QED
    BY <2>3, <2>4
<1>4. ASSUME Cardinality(found) < limit, found # S
      PROVE  FALSE
  <2>1. S \ found # {}
    BY <1>2, <1>4
  <2>0. S \ found \in SUBSET Nat
    BY <1>0
  <2>2. PICK r \in S \ found : \A y \in S \ found : r <= y
    BY <2>0, <2>1, LeastExists
  <2>3. {x \in S : x < r} \subseteq found
    <3>1. r \in Nat /\ \A x \in S : x \in Nat
      BY <1>0, <2>2
    <3>2. \A x \in S : x < r => ~ (r <= x)
      BY <3>1
    <3> QED
      BY <2>2, <3>2
  <2>4. Cardinality({x \in S : x < r}) <= Cardinality(found)
    BY <1>2, <2>3, FS_Subset
  <2>5. Cardinality({x \in S : x < r}) \in Nat /\ Cardinality(found) \in Nat
    BY <1>1, <1>2, FS_Subset, FS_CardinalityType
  <2>6. r \in found
    BY <1>4, <2>2, <2>4, <2>5
  <2> QED
    BY <2>2, <2>6
<1> QED
  BY <1>2, <1>3, <1>4

\* One SELECT of a scan: it finds every row up to the last it finds, and when
\* the batch is not full every row there is.
LEMMA Selected ==
    ASSUME NEW n \in Nat, NEW table, DOMAIN table = 1 .. n,
           NEW last \in Int, NEW max \in Int, NEW limit \in Nat \ {0},
           NEW found, found = SelectRows(table, last, max, limit)
    PROVE  /\ \A r \in found : r \in 1 .. n /\ table[r] # 0 /\ last < r /\ r <= max
           /\ \A q \in found, r \in 1 .. n :
                 table[r] # 0 /\ last < r /\ r <= q => r \in found
           /\ Cardinality(found) < limit =>
                 \A r \in 1 .. n : table[r] # 0 /\ last < r /\ r <= max => r \in found
           /\ ~ (Cardinality(found) < limit) => found # {}
           /\ found # {} => Greatest(found) \in found /\ \A r \in found : r <= Greatest(found)
<1>1. PICK S : S = {r \in 1 .. n : table[r] # 0 /\ r > last /\ r <= max}
  OBVIOUS
<1>2. S \in SUBSET (1 .. n)
  BY <1>1
<1>3. {r \in Present(table) : r > last /\ r <= max} = S
  BY <1>1 DEF Present
<1>4. found = {r \in S : Cardinality({q \in S : q < r}) < limit}
  BY <1>3 DEF SelectRows
<1>5. /\ found \subseteq S /\ IsFiniteSet(found)
      /\ \A q \in found, r \in S : r <= q => r \in found
      /\ Cardinality(found) < limit => found = S
  BY <1>2, <1>4, FirstRows
<1>6. ~ (Cardinality(found) < limit) => found # {}
  BY FS_EmptySet
<1>7. found # {} => Greatest(found) \in found /\ \A r \in found : r <= Greatest(found)
  <2>1. found \in SUBSET (1 .. n)
    BY <1>2, <1>5
  <2>2. ASSUME found # {}
        PROVE  Greatest(found) \in found /\ \A r \in found : Greatest(found) >= r
    BY <2>1, <2>2, GreatestIs
  <2> QED
    BY <2>1, <2>2
<1>8. \A q \in found, r \in 1 .. n : table[r] # 0 /\ last < r /\ r <= q => r \in found
  <2> SUFFICES ASSUME NEW q \in found, NEW r \in 1 .. n, table[r] # 0, last < r, r <= q
               PROVE  r \in found
    OBVIOUS
  <2>1. q \in S
    BY <1>5
  <2>2. r \in S
    BY <1>1, <2>1
  <2> QED
    BY <1>5, <2>2
<1> QED
  BY <1>1, <1>5, <1>6, <1>7, <1>8

LEMMA HeadAndTail ==
    ASSUME NEW T, NEW s \in Seq(T), s # <<>>
    PROVE  Head(s) \in T /\ Tail(s) \in Seq(T)
  OBVIOUS

LEMMA IsSequence ==
    ASSUME NEW T, NEW n \in Nat, NEW s \in [1 .. n -> T]
    PROVE  s \in Seq(T)
  OBVIOUS

LEMMA Joined ==
    ASSUME NEW T, NEW s \in Seq(T), NEW t \in Seq(T)
    PROVE  s \o t \in Seq(T)
  OBVIOUS

LEMMA Elements ==
    ASSUME NEW T, NEW s \in Seq(T)
    PROVE  \A i \in DOMAIN s : s[i] \in T
  OBVIOUS

LEMMA Appended ==
    ASSUME NEW T, NEW s \in Seq(T), NEW x \in T
    PROVE  /\ Append(s, x) \in Seq(T)
           /\ Len(s) \in Nat /\ DOMAIN s = 1 .. Len(s)
           /\ DOMAIN Append(s, x) = 1 .. Len(s) + 1
           /\ \A i \in 1 .. Len(s) : Append(s, x)[i] = s[i]
           /\ Append(s, x)[Len(s) + 1] = x
  OBVIOUS

LEMMA TailIs ==
    ASSUME NEW T, NEW s \in Seq(T), s # <<>>
    PROVE  /\ Len(s) \in Nat /\ Len(s) >= 1 /\ DOMAIN s = 1 .. Len(s)
           /\ Head(s) = s[1] /\ Head(s) \in T /\ Tail(s) \in Seq(T)
           /\ DOMAIN Tail(s) = 1 .. Len(s) - 1
           /\ \A i \in 1 .. Len(s) - 1 : Tail(s)[i] = s[i + 1]
  OBVIOUS

LEMMA AppliedTypes ==
    ASSUME NEW S, NEW V, NEW table \in [S -> V], NEW b, \A r \in DOMAIN b : b[r] \in V
    PROVE  SinkApply(table, b) \in [S -> V]
  BY DEF SinkApply

LEMMA OverwrittenTypes ==
    ASSUME NEW S, NEW V, NEW table \in [S -> V], NEW b, \A r \in DOMAIN b : b[r] \in V
    PROVE  Overwrite(table, b) \in [S -> V]
  BY DEF Overwrite

\* A row that a batch touches has what the batch says, or something newer.
LEMMA AppliedRow ==
    ASSUME NEW S, NEW table, DOMAIN table = S, NEW b, NEW r \in S
    PROVE  /\ r \notin DOMAIN b => SinkApply(table, b)[r] = table[r]
           /\ r \in DOMAIN b =>
                 SinkApply(table, b)[r] = IF Versioned /\ b[r] # 0 /\ table[r] > b[r]
                                          THEN table[r] ELSE b[r]
  BY DEF SinkApply

-----------------------------------------------------------------------------
(* Verify and repair: the log of differences.                              *)

Vals == 0 .. MaxVersion
Pages == [at : {"scan"}, srcAt : 0 .. LastPK + 1, dstAt : 0 .. LastPK + 1,
          src : [Keys -> Vals], dst : [Keys -> Vals]]
LogRows == {row \in [kind : {"missing", "extra", "diff"}, src : Vals, dst : Vals,
                     repaired : BOOLEAN] : row.src # row.dst}
Chosen == UNION {[ids -> Vals] : ids \in SUBSET Keys}
Fixes == [at : {"apply", "mark"}, side : {"src", "dst"}, batch : Chosen]

RepairShape ==
    /\ left \in [Keys -> Vals] /\ right \in [Keys -> Vals]
    /\ version \in 2 .. MaxVersion
    /\ stream \in Seq([pk : Keys, val : Vals])
    /\ verify = Off \/ verify \in Pages
    /\ vlog \in [Keys -> {NoLog} \union LogRows]
    /\ fix = Off \/ fix \in Fixes
    /\ verifies \in 0 .. MaxRequests /\ calm \in BOOLEAN

\* What the scans have read of tables at rest, as far as they have come: a
\* repair may meanwhile have made a row of the target equal, nothing else.
ScansSee ==
    calm /\ verify # Off =>
        \A r \in Keys :
            /\ verify.src[r] = (IF r <= verify.srcAt THEN left[r] ELSE 0)
            /\ r <= verify.dstAt => verify.dst[r] = right[r] \/ left[r] = right[r]
            /\ ~ (r <= verify.dstAt) => verify.dst[r] = 0

\* What a repair is about to mark is repaired.
MarksAreEarned ==
    calm /\ fix.at = "mark" =>
        \A r \in DOMAIN fix.batch : right[r] = left[r]

RepairInv == RepairShape /\ ScansSee /\ MarksAreEarned /\ FoundOut

\* The bounds as numbers.
LEMMA RepairBounds ==
    /\ LastPK \in Nat \ {0} /\ PageSize \in Nat \ {0} /\ MaxRequests \in Nat \ {0}
    /\ MaxVersion \in Nat /\ MaxVersion = MaxRequests + 2 /\ Keys = 1 .. LastPK
    /\ Versioned \in BOOLEAN
<1>1. LastPK \in Nat \ {0} /\ PageSize \in Nat \ {0} /\ MaxRequests \in Nat \ {0}
  BY RepairAssumption
<1> QED
  BY <1>1, RowStoreAssumption DEF MaxVersion, Keys

\* One SELECT of a verification: it sees every row of the stretch that it covers.
LEMMA PageSees ==
    ASSUME NEW table \in [Keys -> Vals], NEW rows \in [Keys -> Vals], NEW at \in 0 .. LastPK,
           NEW found, found = SelectRows(table, at, LastPK, PageSize)
    PROVE  /\ After(found) \in 0 .. LastPK + 1
           /\ Seen(rows, table, found) \in [Keys -> Vals]
           /\ \A r \in Keys :
                 /\ r <= at => r <= After(found) /\ Seen(rows, table, found)[r] = rows[r]
                 /\ r > at /\ rows[r] = 0 =>
                       Seen(rows, table, found)[r] = (IF r <= After(found) THEN table[r] ELSE 0)
<1>1. /\ LastPK \in Nat /\ PageSize \in Nat \ {0} /\ Keys = 1 .. LastPK
      /\ at \in Int /\ LastPK \in Int /\ DOMAIN table = 1 .. LastPK
  BY RepairBounds
<1>2. /\ \A r \in found : r \in 1 .. LastPK /\ table[r] # 0 /\ at < r /\ r <= LastPK
      /\ \A q \in found, r \in 1 .. LastPK : table[r] # 0 /\ at < r /\ r <= q => r \in found
      /\ Cardinality(found) < PageSize =>
            \A r \in 1 .. LastPK : table[r] # 0 /\ at < r /\ r <= LastPK => r \in found
      /\ ~ (Cardinality(found) < PageSize) => found # {}
      /\ found # {} => Greatest(found) \in found /\ \A r \in found : r <= Greatest(found)
  BY <1>1, Selected
<1>3. Seen(rows, table, found) \in [Keys -> Vals]
  BY DEF Seen
<1>4. \A r \in Keys : Seen(rows, table, found)[r] = IF r \in found THEN table[r] ELSE rows[r]
  BY DEF Seen
<1>5. CASE Cardinality(found) < PageSize
  <2>1. After(found) = LastPK + 1
    BY <1>5 DEF After
  <2> QED
    BY <1>1, <1>2, <1>3, <1>4, <1>5, <2>1
<1>6. CASE ~ (Cardinality(found) < PageSize)
  <2>1. After(found) = Greatest(found) /\ After(found) \in found
    BY <1>2, <1>6 DEF After
  <2>2. After(found) \in 1 .. LastPK /\ at < After(found) /\ \A r \in found : r <= After(found)
    BY <1>2, <2>1
  <2>3. \A r \in Keys : r <= at => r <= After(found) /\ r \notin found
    BY <1>1, <1>2, <2>2
  <2>4. ASSUME NEW r \in Keys, r > at, rows[r] = 0
        PROVE  Seen(rows, table, found)[r] = (IF r <= After(found) THEN table[r] ELSE 0)
    <3>1. CASE r <= After(found)
      <4>1. table[r] # 0 => r \in found
        BY <1>1, <1>2, <2>1, <2>4, <3>1
      <4> QED
        BY <1>4, <2>4, <3>1, <4>1
    <3>2. CASE ~ (r <= After(found))
      <4>1. r \notin found
        BY <2>2, <3>2
      <4> QED
        BY <1>4, <2>4, <3>2, <4>1
    <3> QED
      BY <3>1, <3>2
  <2> QED
    BY <1>1, <1>3, <1>4, <2>2, <2>3, <2>4
<1> QED
  BY <1>5, <1>6

LEMMA RepairStarts == RepairInit => RepairInv
<1> SUFFICES ASSUME RepairInit
             PROVE  RepairInv
  OBVIOUS
<1> USE DEF RepairInit
<1>1. MaxVersion \in Nat /\ MaxVersion >= 3 /\ MaxRequests \in Nat
  BY RepairBounds
<1>2. left \in [Keys -> Vals] /\ right \in [Keys -> Vals] /\ version \in 2 .. MaxVersion
      /\ verifies \in 0 .. MaxRequests
  BY <1>1 DEF Vals
<1>3. stream \in Seq([pk : Keys, val : Vals]) /\ vlog \in [Keys -> {NoLog} \union LogRows]
  OBVIOUS
<1>4. RepairShape
  BY <1>2, <1>3 DEF RepairShape
<1> QED
  BY <1>4 DEF RepairInv, ScansSee, MarksAreEarned, FoundOut

\* A step that ends the calm has only to keep the types.
LEMMA NotCalm ==
    ASSUME RepairShape', calm' = FALSE
    PROVE  RepairInv'
  BY DEF RepairInv, ScansSee, MarksAreEarned, FoundOut

LEMMA WriteShape ==
    ASSUME RepairInv, NEW r \in Keys, Write(r)
    PROVE  RepairInv'
<1>1. PICK val \in {0, version + 1} :
          /\ left' = [left EXCEPT ![r] = val]
          /\ stream' = Append(stream, [pk |-> r, val |-> val])
  BY DEF Write
<1>2. val \in Vals /\ version + 1 \in 2 .. MaxVersion
  <2>1. version \in 2 .. MaxVersion /\ verifies \in 0 .. MaxRequests /\ MaxVersion \in Nat
        /\ MaxRequests \in Nat /\ version + verifies < MaxVersion
    BY RepairBounds DEF Write, RepairInv, RepairShape
  <2>2. version + 1 \in 2 .. MaxVersion
    BY <2>1
  <2> QED
    BY <2>1, <2>2 DEF Vals
<1>3. stream' \in Seq([pk : Keys, val : Vals])
  <2>1. stream \in Seq([pk : Keys, val : Vals]) /\ [pk |-> r, val |-> val] \in [pk : Keys, val : Vals]
    BY <1>2 DEF RepairInv, RepairShape
  <2> QED
    BY <1>1, <2>1
<1>4. left' \in [Keys -> Vals]
  BY <1>1, <1>2 DEF RepairInv, RepairShape
<1>5. version' \in 2 .. MaxVersion /\ calm' = FALSE
      /\ UNCHANGED <<right, verify, vlog, fix, verifies>>
  BY <1>2 DEF Write
<1> QED
  BY <1>3, <1>4, <1>5, NotCalm DEF RepairInv, RepairShape

LEMMA StreamShape ==
    ASSUME RepairInv, Stream
    PROVE  RepairInv'
<1>1. stream \in Seq([pk : Keys, val : Vals]) /\ stream # <<>>
  BY DEF RepairInv, RepairShape, Stream
<1>2. Head(stream) \in [pk : Keys, val : Vals] /\ Tail(stream) \in Seq([pk : Keys, val : Vals])
  BY <1>1, HeadAndTail
<1>3. right' \in [Keys -> Vals]
  <2>0. PICK change \in [pk : Keys, val : Vals] : change = Head(stream)
    BY <1>2
  <2>1. PICK b : b = [r \in {change.pk} |-> change.val]
    OBVIOUS
  <2>2. \A r \in DOMAIN b : b[r] \in Vals
    BY <2>1
  <2>3. PICK table \in [Keys -> Vals] : table = right
    BY DEF RepairInv, RepairShape
  <2>4. Overwrite(table, b) \in [Keys -> Vals]
    BY <2>2, OverwrittenTypes
  <2> QED
    BY <2>0, <2>1, <2>3, <2>4 DEF Stream
<1>4. stream' \in Seq([pk : Keys, val : Vals]) /\ calm' = FALSE
      /\ UNCHANGED <<left, version, verify, vlog, fix, verifies>>
  BY <1>2 DEF Stream
<1> QED
  BY <1>3, <1>4, NotCalm DEF RepairInv, RepairShape

LEMMA VerifyStartKeeps ==
    ASSUME RepairInv, VerifyStart
    PROVE  RepairInv'
<1>1. UNCHANGED <<left, right, version, stream, vlog, fix>>
  BY DEF VerifyStart, sides
<1>2. verifies' \in 0 .. MaxRequests
  <2>1. version \in 2 .. MaxVersion /\ verifies \in 0 .. MaxRequests /\ MaxRequests \in Nat
        /\ MaxVersion = MaxRequests + 2 /\ version + verifies < MaxVersion
        /\ verifies' = verifies + 1
    BY RepairBounds DEF VerifyStart, RepairInv, RepairShape
  <2> QED
    BY <2>1
<1>3. verify' \in Pages
  <2>1. Blank \in [Keys -> Vals] /\ 0 \in 0 .. LastPK + 1
    BY RepairBounds DEF Blank, Vals
  <2> QED
    BY <2>1 DEF VerifyStart, Pages
<1>4. RepairShape'
  BY <1>1, <1>2, <1>3 DEF RepairInv, RepairShape, VerifyStart
<1>5. ScansSee'
  <2>1. \A r \in Keys : ~ (r <= 0) /\ Blank[r] = 0
    BY RepairBounds DEF Blank
  <2> QED
    BY <2>1 DEF ScansSee, VerifyStart
<1>6. MarksAreEarned'
  BY <1>1 DEF MarksAreEarned, VerifyStart
<1>7. FoundOut'
  BY DEF FoundOut, VerifyStart, Off
<1> QED
  BY <1>4, <1>5, <1>6, <1>7 DEF RepairInv

LEMMA ScanSourceKeeps ==
    ASSUME RepairInv, ScanSource
    PROVE  RepairInv'
<1>1. UNCHANGED <<left, right, version, stream, vlog, fix, verifies, calm>>
  BY DEF ScanSource, sides
<1>2. verify \in Pages /\ left \in [Keys -> Vals] /\ verify.srcAt <= LastPK
  BY DEF ScanSource, RepairInv, RepairShape, Off
<1>3. PICK page \in Pages : page = verify
  BY <1>2
<1>4. PICK table \in [Keys -> Vals] : table = left
  BY <1>2
<1>5. PICK found : found = SelectRows(table, page.srcAt, LastPK, PageSize)
  OBVIOUS
<1>6. page.srcAt \in 0 .. LastPK /\ page.src \in [Keys -> Vals]
  BY <1>2, <1>3, RepairBounds DEF Pages
<1>7. /\ After(found) \in 0 .. LastPK + 1
      /\ Seen(page.src, table, found) \in [Keys -> Vals]
      /\ \A r \in Keys :
            /\ r <= page.srcAt => r <= After(found) /\ Seen(page.src, table, found)[r] = page.src[r]
            /\ r > page.srcAt /\ page.src[r] = 0 =>
                  Seen(page.src, table, found)[r] = (IF r <= After(found) THEN table[r] ELSE 0)
  BY <1>5, <1>6, PageSees
<1>8. verify' = [page EXCEPT !.src = Seen(page.src, table, found), !.srcAt = After(found)]
  BY <1>3, <1>4, <1>5 DEF ScanSource
<1>9. /\ verify' \in Pages
      /\ verify'.src = Seen(page.src, table, found) /\ verify'.srcAt = After(found)
      /\ verify'.dst = page.dst /\ verify'.dstAt = page.dstAt
  BY <1>7, <1>8 DEF Pages
<1>10. verify # Off /\ verify' # Off
  BY <1>2, <1>9 DEF Pages, Off
<1>11. RepairShape'
  BY <1>1, <1>9 DEF RepairInv, RepairShape
<1>12. ScansSee'
  <2> SUFFICES ASSUME calm, NEW r \in Keys
               PROVE  /\ verify'.src[r] = (IF r <= verify'.srcAt THEN left[r] ELSE 0)
                      /\ r <= verify'.dstAt => verify'.dst[r] = right[r] \/ left[r] = right[r]
                      /\ ~ (r <= verify'.dstAt) => verify'.dst[r] = 0
    BY <1>1 DEF ScansSee
  <2>1. /\ page.src[r] = (IF r <= page.srcAt THEN left[r] ELSE 0)
        /\ r <= page.dstAt => page.dst[r] = right[r] \/ left[r] = right[r]
        /\ ~ (r <= page.dstAt) => page.dst[r] = 0
    BY <1>3, <1>10 DEF RepairInv, ScansSee
  <2>2. r \in Int /\ page.srcAt \in Int
    BY <1>6, RepairBounds
  <2>3. Seen(page.src, table, found)[r] = (IF r <= After(found) THEN left[r] ELSE 0)
    BY <1>4, <1>7, <2>1, <2>2
  <2> QED
    BY <1>9, <2>1, <2>3
<1>13. MarksAreEarned'
  BY <1>1 DEF RepairInv, MarksAreEarned
<1>14. FoundOut'
  BY <1>10 DEF FoundOut, Off
<1> QED
  BY <1>11, <1>12, <1>13, <1>14 DEF RepairInv

LEMMA ScanTargetKeeps ==
    ASSUME RepairInv, ScanTarget
    PROVE  RepairInv'
<1>1. UNCHANGED <<left, right, version, stream, vlog, fix, verifies, calm>>
  BY DEF ScanTarget, sides
<1>2. verify \in Pages /\ right \in [Keys -> Vals] /\ verify.dstAt <= LastPK
  BY DEF ScanTarget, RepairInv, RepairShape, Off
<1>3. PICK page \in Pages : page = verify
  BY <1>2
<1>4. PICK table \in [Keys -> Vals] : table = right
  BY <1>2
<1>5. PICK found : found = SelectRows(table, page.dstAt, LastPK, PageSize)
  OBVIOUS
<1>6. page.dstAt \in 0 .. LastPK /\ page.dst \in [Keys -> Vals]
  BY <1>2, <1>3, RepairBounds DEF Pages
<1>7. /\ After(found) \in 0 .. LastPK + 1
      /\ Seen(page.dst, table, found) \in [Keys -> Vals]
      /\ \A r \in Keys :
            /\ r <= page.dstAt => r <= After(found) /\ Seen(page.dst, table, found)[r] = page.dst[r]
            /\ r > page.dstAt /\ page.dst[r] = 0 =>
                  Seen(page.dst, table, found)[r] = (IF r <= After(found) THEN table[r] ELSE 0)
  BY <1>5, <1>6, PageSees
<1>8. verify' = [page EXCEPT !.dst = Seen(page.dst, table, found), !.dstAt = After(found)]
  BY <1>3, <1>4, <1>5 DEF ScanTarget
<1>9. /\ verify' \in Pages
      /\ verify'.dst = Seen(page.dst, table, found) /\ verify'.dstAt = After(found)
      /\ verify'.src = page.src /\ verify'.srcAt = page.srcAt
  BY <1>7, <1>8 DEF Pages
<1>10. verify # Off /\ verify' # Off
  BY <1>2, <1>9 DEF Pages, Off
<1>11. RepairShape'
  BY <1>1, <1>9 DEF RepairInv, RepairShape
<1>12. ScansSee'
  <2> SUFFICES ASSUME calm, NEW r \in Keys
               PROVE  /\ verify'.src[r] = (IF r <= verify'.srcAt THEN left[r] ELSE 0)
                      /\ r <= verify'.dstAt => verify'.dst[r] = right[r] \/ left[r] = right[r]
                      /\ ~ (r <= verify'.dstAt) => verify'.dst[r] = 0
    BY <1>1 DEF ScansSee
  <2>1. /\ page.src[r] = (IF r <= page.srcAt THEN left[r] ELSE 0)
        /\ r <= page.dstAt => page.dst[r] = right[r] \/ left[r] = right[r]
        /\ ~ (r <= page.dstAt) => page.dst[r] = 0
    BY <1>3, <1>10 DEF RepairInv, ScansSee
  <2>2. r \in Int /\ page.dstAt \in Int
    BY <1>6, RepairBounds
  <2>3. CASE r <= page.dstAt
    BY <1>7, <1>9, <2>1, <2>3
  <2>4. CASE ~ (r <= page.dstAt)
    <3>1. r > page.dstAt /\ page.dst[r] = 0
      BY <2>1, <2>2, <2>4
    <3>2. Seen(page.dst, table, found)[r] = (IF r <= After(found) THEN right[r] ELSE 0)
      BY <1>4, <1>7, <3>1
    <3> QED
      BY <1>9, <2>1, <3>2
  <2> QED
    BY <2>3, <2>4
<1>13. MarksAreEarned'
  BY <1>1 DEF RepairInv, MarksAreEarned
<1>14. FoundOut'
  BY <1>10 DEF FoundOut, Off
<1> QED
  BY <1>11, <1>12, <1>13, <1>14 DEF RepairInv

LEMMA DiffAndLogKeeps ==
    ASSUME RepairInv, DiffAndLog
    PROVE  RepairInv'
<1>1. UNCHANGED <<left, right, version, stream, fix, verifies, calm>> /\ verify' = Off
  BY DEF DiffAndLog, sides
<1>2. verify \in Pages /\ verify # Off
  BY DEF DiffAndLog, RepairInv, RepairShape, Off
<1>3. \A r \in Keys : vlog'[r] = IF verify.src[r] = verify.dst[r] THEN vlog[r]
                                 ELSE LogRow(r, verify.src[r], verify.dst[r])
  BY DEF DiffAndLog
<1>4. RepairShape'
  <2>1. ASSUME NEW r \in Keys, verify.src[r] # verify.dst[r]
        PROVE  LogRow(r, verify.src[r], verify.dst[r]) \in LogRows
    <3>1. verify.src[r] \in Vals /\ verify.dst[r] \in Vals
      BY <1>2 DEF Pages
    <3> QED
      BY <2>1, <3>1 DEF LogRow, LogRows, Kind
  <2>2. \A r \in Keys : vlog[r] \in {NoLog} \union LogRows
    BY DEF RepairInv, RepairShape
  <2>3. vlog' \in [Keys -> {NoLog} \union LogRows]
    BY <2>1, <2>2 DEF DiffAndLog
  <2> QED
    BY <1>1, <2>3 DEF RepairInv, RepairShape
<1>5. ScansSee'
  BY <1>1 DEF ScansSee
<1>6. MarksAreEarned'
  BY <1>1 DEF RepairInv, MarksAreEarned
<1>7. FoundOut'
  <2> SUFFICES ASSUME calm, NEW r \in Keys, left[r] # right[r]
               PROVE  vlog'[r].src = left[r] /\ ~ vlog'[r].repaired
    BY <1>1 DEF FoundOut
  <2>1. r <= verify.srcAt /\ r <= verify.dstAt
    <3>1. r \in 1 .. LastPK /\ verify.srcAt \in Int /\ verify.dstAt \in Int /\ LastPK \in Int
          /\ verify.srcAt > LastPK /\ verify.dstAt > LastPK
      BY <1>2, RepairBounds DEF Pages, DiffAndLog
    <3> QED
      BY <3>1
  <2>2. verify.src[r] = left[r] /\ verify.dst[r] = right[r]
    BY <1>2, <2>1 DEF RepairInv, ScansSee
  <2>3. vlog'[r] = LogRow(r, left[r], right[r])
    BY <1>3, <2>2
  <2>4. vlog'[r].src = left[r] /\ vlog'[r].repaired = FALSE
    BY <2>3 DEF LogRow
  <2> QED
    BY <2>4
<1> QED
  BY <1>4, <1>5, <1>6, <1>7 DEF RepairInv

LEMMA VerifyFailsShape ==
    ASSUME RepairInv, VerifyFails
    PROVE  RepairInv'
<1>1. RepairShape' /\ calm' = FALSE
  BY DEF RepairInv, RepairShape, VerifyFails, sides
<1> QED
  BY <1>1, NotCalm

LEMMA RepairBeginKeeps ==
    ASSUME RepairInv, RepairBegin
    PROVE  RepairInv'
<1>1. UNCHANGED <<left, right, version, stream, verify, vlog, verifies, calm>>
  BY DEF RepairBegin, sides
<1>2. PICK ids \in SUBSET Logged, side \in {"src", "dst"} :
          fix' = [at |-> "apply", side |-> side,
                  batch |-> [r \in ids |-> IF side = "src" THEN vlog[r].src ELSE vlog[r].dst]]
  BY DEF RepairBegin
<1>3. fix' \in Fixes /\ fix'.at = "apply"
  <2>1. ids \in SUBSET Keys
    BY DEF Logged
  <2>2. \A r \in ids : vlog[r].src \in Vals /\ vlog[r].dst \in Vals
    <3>1. \A r \in ids : vlog[r] \in LogRows
      BY DEF Logged, RepairInv, RepairShape
    <3> QED
      BY <3>1 DEF LogRows
  <2>3. [r \in ids |-> IF side = "src" THEN vlog[r].src ELSE vlog[r].dst] \in [ids -> Vals]
    BY <2>2
  <2>4. [r \in ids |-> IF side = "src" THEN vlog[r].src ELSE vlog[r].dst] \in Chosen
    BY <2>1, <2>3 DEF Chosen
  <2> QED
    BY <1>2, <2>4 DEF Fixes
<1>4. RepairShape'
  BY <1>1, <1>3 DEF RepairInv, RepairShape
<1>5. ScansSee' /\ FoundOut'
  BY <1>1 DEF RepairInv, ScansSee, FoundOut
<1>6. MarksAreEarned'
  BY <1>3 DEF MarksAreEarned
<1> QED
  BY <1>4, <1>5, <1>6 DEF RepairInv

LEMMA RepairTargetKeeps ==
    ASSUME RepairInv, RepairTarget
    PROVE  RepairInv'
<1>1. UNCHANGED <<left, version, stream, verify, vlog, verifies>>
  BY DEF RepairTarget
<1>2. PICK f \in Fixes : f = fix
  BY DEF RepairTarget, RepairInv, RepairShape, Off
<1>3. PICK table \in [Keys -> Vals] : table = right
  BY DEF RepairInv, RepairShape
<1>4. f.batch \in Chosen /\ \A r \in DOMAIN f.batch : r \in Keys /\ f.batch[r] \in Vals
  BY <1>2 DEF Fixes, Chosen
<1>5. right' = Overwrite(table, f.batch)
  BY <1>2, <1>3 DEF RepairTarget
<1>6. right' \in [Keys -> Vals]
  BY <1>4, <1>5, OverwrittenTypes
<1>7. \A r \in Keys : right'[r] = IF r \in DOMAIN f.batch THEN f.batch[r] ELSE right[r]
  BY <1>3, <1>5 DEF Overwrite
<1>8. fix' = [f EXCEPT !.at = "mark"]
  BY <1>2 DEF RepairTarget
<1>9. fix' \in Fixes /\ fix'.batch = f.batch
  BY <1>8 DEF Fixes
<1>10. calm' \in BOOLEAN /\ (calm' => calm /\ \A r \in DOMAIN f.batch : f.batch[r] = left[r])
  BY <1>2 DEF RepairTarget
<1>11. RepairShape'
  BY <1>1, <1>6, <1>9, <1>10 DEF RepairInv, RepairShape
<1>12. ASSUME calm', NEW r \in Keys
       PROVE  /\ right'[r] = right[r] \/ right'[r] = left[r]
              /\ r \in DOMAIN f.batch => right'[r] = left[r]
  BY <1>7, <1>10, <1>12
<1>13. ScansSee'
  <2> SUFFICES ASSUME calm', verify # Off, NEW r \in Keys
               PROVE  /\ verify.src[r] = (IF r <= verify.srcAt THEN left[r] ELSE 0)
                      /\ r <= verify.dstAt => verify.dst[r] = right'[r] \/ left[r] = right'[r]
                      /\ ~ (r <= verify.dstAt) => verify.dst[r] = 0
    BY <1>1 DEF ScansSee
  <2>1. /\ verify.src[r] = (IF r <= verify.srcAt THEN left[r] ELSE 0)
        /\ r <= verify.dstAt => verify.dst[r] = right[r] \/ left[r] = right[r]
        /\ ~ (r <= verify.dstAt) => verify.dst[r] = 0
    BY <1>10 DEF RepairInv, ScansSee
  <2>2. right'[r] = right[r] \/ right'[r] = left[r]
    BY <1>12
  <2> QED
    BY <2>1, <2>2
<1>14. MarksAreEarned'
  <2>1. ASSUME calm', NEW r \in DOMAIN f.batch
        PROVE  right'[r] = left[r]
    BY <1>4, <1>12, <2>1
  <2> QED
    BY <1>1, <1>9, <2>1 DEF MarksAreEarned
<1>15. FoundOut'
  <2> SUFFICES ASSUME calm', verify = Off, NEW r \in Keys, left[r] # right'[r]
               PROVE  vlog[r].src = left[r] /\ ~ vlog[r].repaired
    BY <1>1 DEF FoundOut
  <2>1. right'[r] = right[r]
    BY <1>12
  <2> QED
    BY <1>10, <2>1 DEF RepairInv, FoundOut
<1> QED
  BY <1>11, <1>13, <1>14, <1>15 DEF RepairInv

LEMMA RepairSourceShape ==
    ASSUME RepairInv, RepairSource
    PROVE  RepairInv'
<1>1. UNCHANGED <<right, version, verify, vlog, verifies>> /\ calm' = FALSE
  BY DEF RepairSource
<1>2. PICK f \in Fixes : f = fix
  BY DEF RepairSource, RepairInv, RepairShape, Off
<1>3. PICK table \in [Keys -> Vals] : table = left
  BY DEF RepairInv, RepairShape
<1>4. f.batch \in Chosen /\ \A r \in DOMAIN f.batch : f.batch[r] \in Vals
  BY <1>2 DEF Fixes, Chosen
<1>5. left' = Overwrite(table, f.batch)
  BY <1>2, <1>3 DEF RepairSource
<1>6. left' \in [Keys -> Vals]
  BY <1>4, <1>5, OverwrittenTypes
<1>7. fix' = [f EXCEPT !.at = "mark"]
  BY <1>2 DEF RepairSource
<1>8. fix' \in Fixes
  BY <1>7 DEF Fixes
<1>9. stream' \in Seq([pk : Keys, val : Vals])
  <2>1. PICK moved \in SUBSET Keys : moved = {r \in Keys : left'[r] # left[r]}
    OBVIOUS
  <2>2. PICK s \in [1 .. Cardinality(moved) -> moved] :
            stream' = stream \o [i \in DOMAIN s |-> [pk |-> s[i], val |-> left'[s[i]]]]
    BY <2>1 DEF RepairSource
  <2>3. Cardinality(moved) \in Nat
    <3>1. 1 \in Int /\ LastPK \in Int
      BY RepairBounds
    <3>2. IsFiniteSet(Keys)
      BY <3>1, FS_Interval DEF Keys
    <3> QED
      BY <3>2, FS_Subset, FS_CardinalityType
  <2>4. \A i \in 1 .. Cardinality(moved) :
            [pk |-> s[i], val |-> left'[s[i]]] \in [pk : Keys, val : Vals]
    BY <1>6
  <2>5. [i \in DOMAIN s |-> [pk |-> s[i], val |-> left'[s[i]]]]
            \in [1 .. Cardinality(moved) -> [pk : Keys, val : Vals]]
    BY <2>4
  <2>6. PICK more \in Seq([pk : Keys, val : Vals]) :
            more = [i \in DOMAIN s |-> [pk |-> s[i], val |-> left'[s[i]]]]
    BY <2>3, <2>5, IsSequence
  <2>7. PICK before \in Seq([pk : Keys, val : Vals]) : before = stream
    BY DEF RepairInv, RepairShape
  <2>8. before \o more \in Seq([pk : Keys, val : Vals])
    BY Joined
  <2>9. stream' = before \o more
    BY <2>2, <2>6, <2>7
  <2> QED
    BY <2>8, <2>9
<1>10. RepairShape'
  BY <1>1, <1>6, <1>8, <1>9 DEF RepairInv, RepairShape
<1> QED
  BY <1>1, <1>10, NotCalm

LEMMA RepairFailsKeeps ==
    ASSUME RepairInv, RepairFails
    PROVE  RepairInv'
<1>1. UNCHANGED <<left, right, version, stream, verify, vlog, verifies, calm>> /\ fix' = Off
  BY DEF RepairFails, sides
<1>2. RepairShape'
  BY <1>1 DEF RepairInv, RepairShape
<1>3. ScansSee' /\ FoundOut'
  BY <1>1 DEF RepairInv, ScansSee, FoundOut
<1>4. MarksAreEarned'
  BY <1>1 DEF MarksAreEarned, Off
<1> QED
  BY <1>2, <1>3, <1>4 DEF RepairInv

\* Marking changes nothing of a log row but that it is repaired.
LEMMA MarkedShape ==
    ASSUME vlog \in [Keys -> {NoLog} \union LogRows], NEW ids
    PROVE  /\ Marked(ids) \in [Keys -> {NoLog} \union LogRows]
           /\ \A r \in Keys : Marked(ids)[r].src = vlog[r].src
           /\ \A r \in Keys : r \notin ids => Marked(ids)[r] = vlog[r]
<1>1. ASSUME NEW row \in {NoLog} \union LogRows
      PROVE  /\ [row EXCEPT !.repaired = TRUE] \in {NoLog} \union LogRows
             /\ [row EXCEPT !.repaired = TRUE].src = row.src
  <2>1. CASE row = NoLog
    <3>1. row.repaired = TRUE
      BY <2>1 DEF NoLog
    <3>2. [row EXCEPT !.repaired = TRUE] = row
      BY <2>1, <3>1 DEF NoLog
    <3> QED
      BY <3>2
  <2>2. CASE row \in LogRows
    BY <2>2 DEF LogRows
  <2> QED
    BY <2>1, <2>2
<1>2. \A r \in Keys : vlog[r] \in {NoLog} \union LogRows
  OBVIOUS
<1>3. \A r \in Keys :
          /\ [vlog[r] EXCEPT !.repaired = TRUE] \in {NoLog} \union LogRows
          /\ [vlog[r] EXCEPT !.repaired = TRUE].src = vlog[r].src
  BY <1>1, <1>2
<1> QED
  BY <1>2, <1>3 DEF Marked

LEMMA RepairMarkKeeps ==
    ASSUME RepairInv, RepairMark
    PROVE  RepairInv'
<1>1. UNCHANGED <<left, right, version, stream, verify, verifies, calm>> /\ fix' = Off
  BY DEF RepairMark, sides
<1>2. fix.at = "mark" /\ (vlog' = vlog \/ vlog' = Marked(DOMAIN fix.batch))
  BY DEF RepairMark
<1>3. vlog \in [Keys -> {NoLog} \union LogRows]
  BY DEF RepairInv, RepairShape
<1>4. PICK ids : ids = DOMAIN fix.batch
  OBVIOUS
<1>5. /\ vlog' \in [Keys -> {NoLog} \union LogRows]
      /\ \A r \in Keys : vlog'[r].src = vlog[r].src
      /\ \A r \in Keys : r \notin ids => vlog'[r] = vlog[r]
  <2>1. /\ Marked(ids) \in [Keys -> {NoLog} \union LogRows]
        /\ \A r \in Keys : Marked(ids)[r].src = vlog[r].src
        /\ \A r \in Keys : r \notin ids => Marked(ids)[r] = vlog[r]
    BY <1>3, MarkedShape
  <2>2. vlog' = vlog \/ vlog' = Marked(ids)
    BY <1>2, <1>4
  <2>3. CASE vlog' = vlog
    BY <1>3, <2>3
  <2>4. CASE vlog' = Marked(ids)
    BY <2>1, <2>4
  <2> QED
    BY <2>2, <2>3, <2>4
<1>6. RepairShape'
  BY <1>1, <1>5 DEF RepairInv, RepairShape
<1>7. ScansSee'
  BY <1>1 DEF RepairInv, ScansSee
<1>8. MarksAreEarned'
  BY <1>1 DEF MarksAreEarned, Off
<1>9. FoundOut'
  <2> SUFFICES ASSUME calm, verify = Off, NEW r \in Keys, left[r] # right[r]
               PROVE  vlog'[r].src = left[r] /\ ~ vlog'[r].repaired
    BY <1>1 DEF FoundOut
  <2>1. vlog[r].src = left[r] /\ ~ vlog[r].repaired
    BY DEF RepairInv, FoundOut
  <2>2. r \notin ids
    BY <1>2, <1>4 DEF RepairInv, MarksAreEarned
  <2> QED
    BY <1>5, <2>1, <2>2
<1> QED
  BY <1>6, <1>7, <1>8, <1>9 DEF RepairInv

LEMMA MarkOnlyShape ==
    ASSUME RepairInv, MarkOnly
    PROVE  RepairInv'
<1>1. UNCHANGED <<left, right, version, stream, verify, fix, verifies>> /\ calm' = FALSE
  BY DEF MarkOnly, sides
<1>2. vlog' \in [Keys -> {NoLog} \union LogRows]
  <2>1. PICK ids : vlog' = Marked(ids)
    BY DEF MarkOnly
  <2>2. vlog \in [Keys -> {NoLog} \union LogRows]
    BY DEF RepairInv, RepairShape
  <2> QED
    BY <2>1, <2>2, MarkedShape
<1>3. RepairShape'
  BY <1>1, <1>2 DEF RepairInv, RepairShape
<1> QED
  BY <1>1, <1>3, NotCalm

LEMMA RepairStep == RepairInv /\ [RepairNext]_repairVars => RepairInv'
<1> SUFFICES ASSUME RepairInv, [RepairNext]_repairVars
             PROVE  RepairInv'
  OBVIOUS
<1>1. ASSUME NEW r \in Keys, Write(r)
      PROVE  RepairInv'
  BY <1>1, WriteShape
<1>2. CASE Stream
  BY <1>2, StreamShape
<1>3. CASE VerifyStart \/ VerifyFails \/ DiffAndLog
  BY <1>3, VerifyStartKeeps, VerifyFailsShape, DiffAndLogKeeps
<1>4. CASE ScanSource \/ ScanTarget
  BY <1>4, ScanSourceKeeps, ScanTargetKeeps
<1>5. CASE RepairBegin \/ RepairTarget \/ RepairSource \/ RepairFails
  BY <1>5, RepairBeginKeeps, RepairTargetKeeps, RepairSourceShape, RepairFailsKeeps
<1>6. CASE RepairMark \/ MarkOnly
  BY <1>6, RepairMarkKeeps, MarkOnlyShape
<1>7. CASE UNCHANGED repairVars
  <2>1. UNCHANGED <<left, right, version, stream, verify, vlog, fix, verifies, calm>>
    BY <1>7 DEF repairVars, sides
  <2>2. RepairShape'
    BY <2>1 DEF RepairInv, RepairShape
  <2>3. ScansSee' /\ MarksAreEarned' /\ FoundOut'
    BY <2>1 DEF RepairInv, ScansSee, MarksAreEarned, FoundOut
  <2> QED
    BY <2>2, <2>3 DEF RepairInv
<1> QED
  BY <1>1, <1>2, <1>3, <1>4, <1>5, <1>6, <1>7 DEF RepairNext

\* The state of Verify and Repair has its type, for tables of any size, pages of
\* any size and any number of verifications, repairs and changes.
THEOREM RepairTypeCorrect == RepairSpec => []RepairTypeOK
<1>1. RepairInv => RepairTypeOK
  <2> SUFFICES ASSUME RepairShape
               PROVE  RepairTypeOK
    BY DEF RepairInv
  <2>1. verify.at # "idle" => {verify.srcAt, verify.dstAt} \subseteq 0 .. LastPK + 1
    BY DEF RepairShape, Pages, Off
  <2>2. ASSUME NEW r \in Keys
        PROVE  vlog[r] = NoLog
               \/ (vlog[r].src # vlog[r].dst /\ vlog[r].kind \in {"missing", "extra", "diff"})
    BY DEF RepairShape, LogRows
  <2>3. fix.at # "idle" => DOMAIN fix.batch \subseteq Keys /\ fix.side \in {"src", "dst"}
    BY DEF RepairShape, Fixes, Chosen, Off
  <2> QED
    BY <2>1, <2>2, <2>3 DEF RepairShape, RepairTypeOK, Vals
<1> QED
  BY <1>1, RepairStarts, RepairStep, PTL DEF RepairSpec

\* FoundOut: a verification of quiet tables (verify.go) leaves every difference
\* in the log as unrepaired, with what the source holds, and no overlap of
\* repairs, failed repairs and repairs from older logs takes it out before the
\* row is equal.
THEOREM DifferencesAreFoundOut == RepairSpec => []FoundOut
<1>1. RepairInv => FoundOut
  BY DEF RepairInv
<1> QED
  BY <1>1, RepairStarts, RepairStep, PTL DEF RepairSpec

-----------------------------------------------------------------------------
(* The full copy beside the changes of the source.                         *)

Parts == [last : Nat, max : Nat, held : SUBSET [pk : PKs, val : Nat], scanned : BOOLEAN]

CopyShape ==
    /\ srcTable \in [PKs -> Nat] /\ dstTable \in [PKs -> Nat]
    /\ edits \in 1 .. MaxEdits /\ live \in BOOLEAN
    /\ relay \in Seq([pk : PKs, val : Nat])
    /\ phase \in {"created", "full_running", "full_done", "failed"}
    /\ phase = "full_running" \/ shards = <<>>
    /\ \A i \in DOMAIN shards :
          /\ shards[i] \in Parts /\ shards[i].last <= shards[i].max
          /\ \A row \in shards[i].held : row.pk <= shards[i].last
    /\ touched \subseteq PKs /\ streamed \subseteq PKs

\* Everything on the way was once in the source ...
NothingAhead ==
    /\ \A r \in PKs : srcTable[r] <= edits /\ dstTable[r] <= edits
    /\ \A i \in DOMAIN relay : relay[i].val <= edits
    /\ \A i \in DOMAIN shards : \A row \in shards[i].held : row.val \in 1 .. edits

\* ... and of a row that exists, nothing is newer than the source.
NothingNewer ==
    \A r \in PKs : srcTable[r] # 0 =>
        /\ dstTable[r] <= srcTable[r]
        /\ \A i \in DOMAIN relay : relay[i].pk = r => relay[i].val <= srcTable[r]
        /\ \A i \in DOMAIN shards : \A row \in shards[i].held :
              row.pk = r => row.val <= srcTable[r]

\* The last change of r that is on the way is the last there was.
LastOnItsWay(r) ==
    \E i \in DOMAIN relay :
        /\ relay[i] = Row(r, srcTable[r])
        /\ \A j \in DOMAIN relay : j > i => relay[j].pk # r

NoneOnItsWay(r) == \A i \in DOMAIN relay : relay[i].pk # r

StreamedKeepUp ==
    /\ ~ live => streamed = {}
    /\ \A r \in PKs \ streamed : NoneOnItsWay(r)
    /\ \A r \in streamed :
          \/ LastOnItsWay(r)
          \/ NoneOnItsWay(r) /\ (Versioned /\ srcTable[r] # 0 => dstTable[r] = srcTable[r])

\* What a run has read of a row that stood still is what the source holds.
HeldIsFresh ==
    \A r \in PKs \ touched, i \in DOMAIN shards : \A row \in shards[i].held :
        row.pk = r => row.val = srcTable[r]

\* A row that stood still is in the target, or read, or yet to be read.
ToBeRead(r) ==
    \E i \in DOMAIN shards :
        ~ shards[i].scanned /\ shards[i].last < r /\ r <= shards[i].max

IsRead(r) == \E i \in DOMAIN shards : Row(r, srcTable[r]) \in shards[i].held

NothingMissed ==
    \A r \in PKs \ (touched \union streamed) : srcTable[r] # 0 =>
        /\ phase = "full_done" => dstTable[r] = srcTable[r]
        /\ phase = "full_running" => dstTable[r] = srcTable[r] \/ ToBeRead(r) \/ IsRead(r)

CopyInv ==
    CopyShape /\ NothingAhead /\ NothingNewer /\ StreamedKeepUp /\ HeldIsFresh /\ NothingMissed

LEMMA CopyBounds ==
    /\ MaxPK \in Nat \ {0} /\ ShardCount \in Nat \ {0} /\ ScanLimit \in Nat \ {0}
    /\ FlushSize \in Nat \ {0} /\ MaxEdits \in Nat \ {0} /\ PKs = 1 .. MaxPK
    /\ Versioned \in BOOLEAN
  BY CopyAssumption, RowStoreAssumption DEF PKs

LEMMA CopyStarts == CopyInit => CopyInv
<1> SUFFICES ASSUME CopyInit
             PROVE  CopyInv
  OBVIOUS
<1>1. CopyShape
  <2>1. srcTable \in [PKs -> Nat] /\ dstTable \in [PKs -> Nat]
    BY DEF CopyInit
  <2>2. relay = <<>> /\ relay \in Seq([pk : PKs, val : Nat])
    BY DEF CopyInit
  <2>3. edits \in 1 .. MaxEdits
    BY CopyBounds DEF CopyInit
  <2>4. DOMAIN shards = {}
    BY DEF CopyInit
  <2> QED
    BY <2>1, <2>2, <2>3, <2>4 DEF CopyInit, CopyShape
<1>2. \A r \in PKs : srcTable[r] \in {0, 1} /\ dstTable[r] = 0
  BY DEF CopyInit
<1>3. NothingAhead /\ NothingNewer
  BY <1>2 DEF CopyInit, NothingAhead, NothingNewer
<1>4. StreamedKeepUp /\ HeldIsFresh /\ NothingMissed
  BY DEF CopyInit, StreamedKeepUp, NoneOnItsWay, HeldIsFresh, NothingMissed
<1> QED
  BY <1>1, <1>3, <1>4 DEF CopyInv

LEMMA EditKeeps ==
    ASSUME CopyInv, NEW q \in PKs, Edit(q)
    PROVE  CopyInv'
<1>1. UNCHANGED <<dstTable, live, phase, shards>> /\ edits' = edits + 1 /\ edits < MaxEdits
      /\ touched' = touched \union {q}
  BY DEF Edit
<1>2. PICK val \in {0, edits + 1} :
          /\ srcTable' = [srcTable EXCEPT ![q] = val]
          /\ relay' = IF live THEN Append(relay, Row(q, val)) ELSE relay
  BY DEF Edit
<1>3. edits \in Nat /\ MaxEdits \in Nat /\ edits' \in 1 .. MaxEdits /\ val \in Nat
      /\ edits \in 1 .. MaxEdits
  BY <1>1, CopyBounds DEF CopyInv, CopyShape
<1>4. PICK old \in Seq([pk : PKs, val : Nat]) : old = relay
  BY DEF CopyInv, CopyShape
<1>5. Row(q, val) \in [pk : PKs, val : Nat] /\ Row(q, val).pk = q /\ Row(q, val).val = val
  BY <1>3 DEF Row
<1>6. /\ Append(old, Row(q, val)) \in Seq([pk : PKs, val : Nat])
      /\ Len(old) \in Nat /\ DOMAIN old = 1 .. Len(old)
      /\ DOMAIN Append(old, Row(q, val)) = 1 .. Len(old) + 1
      /\ \A i \in 1 .. Len(old) : Append(old, Row(q, val))[i] = old[i]
      /\ Append(old, Row(q, val))[Len(old) + 1] = Row(q, val)
  BY <1>5, Appended
<1>7. srcTable' \in [PKs -> Nat] /\ srcTable'[q] = val
      /\ \A r \in PKs : r # q => srcTable'[r] = srcTable[r]
  BY <1>2, <1>3 DEF CopyInv, CopyShape
<1>8. /\ relay' \in Seq([pk : PKs, val : Nat])
      /\ \A i \in DOMAIN relay : i \in DOMAIN relay' /\ relay'[i] = relay[i]
      /\ \A i \in DOMAIN relay' : i \in DOMAIN relay \/ relay'[i] = Row(q, val)
  <2>1. CASE ~ live
    <3>1. relay' = old
      BY <1>2, <1>4, <2>1
    <3> QED
      BY <1>4, <3>1
  <2>2. CASE live
    <3>1. relay' = Append(old, Row(q, val))
      BY <1>2, <1>4, <2>2
    <3>2. \A i \in DOMAIN old : i \in 1 .. Len(old) + 1
      BY <1>6
    <3>3. \A i \in 1 .. Len(old) + 1 : i \in 1 .. Len(old) \/ i = Len(old) + 1
      BY <1>6
    <3> QED
      BY <1>4, <1>6, <3>1, <3>2, <3>3
  <2> QED
    BY <2>1, <2>2
<1>9. CopyShape'
  <2>1. streamed' \subseteq PKs
    BY DEF Edit, CopyInv, CopyShape
  <2> QED
    BY <1>1, <1>3, <1>7, <1>8, <2>1 DEF CopyInv, CopyShape
<1>10. NothingAhead'
  <2>1. \A r \in PKs : srcTable'[r] <= edits' /\ dstTable'[r] <= edits'
    <3>1. \A r \in PKs : srcTable[r] \in Nat /\ dstTable[r] \in Nat
                         /\ srcTable[r] <= edits /\ dstTable[r] <= edits
      BY DEF CopyInv, CopyShape, NothingAhead
    <3>2. val <= edits + 1
      BY <1>3
    <3> QED
      BY <1>1, <1>3, <1>7, <3>1, <3>2
  <2>2. \A i \in DOMAIN relay' : relay'[i].val <= edits'
    <3>1. \A i \in DOMAIN relay : relay[i].val \in Nat /\ relay[i].val <= edits
      <4>1. \A i \in DOMAIN old : old[i] \in [pk : PKs, val : Nat]
        BY Elements
      <4> QED
        BY <1>4, <4>1 DEF CopyInv, NothingAhead
    <3>2. val <= edits'
      BY <1>1, <1>3
    <3>3. \A i \in DOMAIN relay : relay[i].val <= edits'
      BY <1>1, <1>3, <3>1
    <3>4. \A i \in DOMAIN relay' : relay'[i].val = val \/ (i \in DOMAIN relay /\ relay'[i] = relay[i])
      BY <1>5, <1>8
    <3> QED
      BY <3>2, <3>3, <3>4
  <2>3. \A i \in DOMAIN shards' : \A row \in shards'[i].held : row.val \in 1 .. edits'
    BY <1>1, <1>3 DEF CopyInv, NothingAhead
  <2> QED
    BY <2>1, <2>2, <2>3 DEF NothingAhead
<1>11. NothingNewer'
  <2> SUFFICES ASSUME NEW r \in PKs, srcTable'[r] # 0
               PROVE  /\ dstTable'[r] <= srcTable'[r]
                      /\ \A i \in DOMAIN relay' : relay'[i].pk = r => relay'[i].val <= srcTable'[r]
                      /\ \A i \in DOMAIN shards' : \A row \in shards'[i].held :
                            row.pk = r => row.val <= srcTable'[r]
    BY DEF NothingNewer
  <2>1. CASE r = q
    <3>1. srcTable'[r] = edits'
      BY <1>1, <1>2, <1>7, <2>1
    <3>2. \A i \in DOMAIN shards' : \A row \in shards'[i].held : row.val <= edits'
      BY <1>3, <1>10 DEF NothingAhead
    <3> QED
      BY <1>10, <3>1, <3>2 DEF NothingAhead
  <2>2. CASE r # q
    <3>1. srcTable'[r] = srcTable[r] /\ dstTable'[r] = dstTable[r] /\ shards' = shards
      BY <1>1, <1>7, <2>2
    <3>2. \A i \in DOMAIN relay' : relay'[i].pk = r => i \in DOMAIN relay /\ relay'[i] = relay[i]
      BY <1>5, <1>8, <2>2
    <3> QED
      BY <3>1, <3>2 DEF CopyInv, NothingNewer
  <2> QED
    BY <2>1, <2>2
<1>12. StreamedKeepUp'
  <2>1. CASE ~ live
    <3>1. relay' = relay /\ streamed' = streamed /\ streamed = {}
      BY <1>2, <2>1 DEF Edit, CopyInv, StreamedKeepUp
    <3> QED
      BY <1>1, <3>1 DEF CopyInv, StreamedKeepUp, NoneOnItsWay
  <2>2. CASE live
    <3>1. relay' = Append(old, Row(q, val)) /\ streamed' = streamed \union {q}
      BY <1>2, <1>4, <2>2 DEF Edit
    <3>2. LastOnItsWay(q)'
      <4>1. Len(old) + 1 \in DOMAIN relay' /\ relay'[Len(old) + 1] = Row(q, srcTable'[q])
        BY <1>6, <1>7, <3>1
      <4>2. \A j \in DOMAIN relay' : ~ (j > Len(old) + 1)
        BY <1>6, <3>1
      <4> QED
        BY <4>1, <4>2 DEF LastOnItsWay
    <3>3. ASSUME NEW r \in PKs, r # q, NoneOnItsWay(r)
          PROVE  NoneOnItsWay(r)'
      BY <1>5, <1>8, <3>3 DEF NoneOnItsWay
    <3>4. ASSUME NEW r \in PKs, r # q, LastOnItsWay(r)
          PROVE  LastOnItsWay(r)'
      <4>1. PICK i \in DOMAIN relay :
                relay[i] = Row(r, srcTable[r]) /\ \A j \in DOMAIN relay : j > i => relay[j].pk # r
        BY <3>4 DEF LastOnItsWay
      <4>2. i \in DOMAIN relay' /\ relay'[i] = Row(r, srcTable'[r])
        BY <1>7, <1>8, <3>4, <4>1
      <4>3. \A j \in DOMAIN relay' : j > i => relay'[j].pk # r
        BY <1>5, <1>8, <3>4, <4>1
      <4> QED
        BY <4>2, <4>3 DEF LastOnItsWay
    <3>5. \A r \in PKs : r # q => srcTable'[r] = srcTable[r] /\ dstTable'[r] = dstTable[r]
      BY <1>1, <1>7
    <3>6. streamed \subseteq PKs
      BY DEF CopyInv, CopyShape
    <3> QED
      BY <1>1, <2>2, <3>1, <3>2, <3>3, <3>4, <3>5, <3>6 DEF CopyInv, StreamedKeepUp
  <2> QED
    BY <2>1, <2>2
<1>13. HeldIsFresh'
  BY <1>1, <1>7 DEF CopyInv, HeldIsFresh
<1>14. NothingMissed'
  <2>1. ASSUME NEW r \in PKs \ (touched' \union streamed')
        PROVE  r \in PKs \ (touched \union streamed) /\ srcTable'[r] = srcTable[r]
    BY <1>1, <1>7 DEF Edit
  <2> QED
    BY <1>1, <2>1 DEF CopyInv, NothingMissed, ToBeRead, IsRead
<1> QED
  BY <1>9, <1>10, <1>11, <1>12, <1>13, <1>14 DEF CopyInv

LEMMA SubscribeKeeps ==
    ASSUME CopyInv, Subscribe
    PROVE  CopyInv'
<1>1. UNCHANGED <<srcTable, dstTable, edits, relay, phase, shards, touched, streamed>>
      /\ live' = TRUE
  BY DEF Subscribe
<1>2. CopyShape' /\ NothingAhead' /\ NothingNewer'
  BY <1>1 DEF CopyInv, CopyShape, NothingAhead, NothingNewer
<1>3. StreamedKeepUp' /\ HeldIsFresh'
  BY <1>1 DEF CopyInv, StreamedKeepUp, LastOnItsWay, NoneOnItsWay, HeldIsFresh
<1>4. NothingMissed'
  BY <1>1 DEF CopyInv, NothingMissed, ToBeRead, IsRead
<1> QED
  BY <1>2, <1>3, <1>4 DEF CopyInv

\* The next change is applied: a row of the target has what it says, or is newer.
LEMMA RelayApplies ==
    ASSUME CopyInv, Relay, NEW change, change = Head(relay)
    PROVE  /\ change \in [pk : PKs, val : Nat]
           /\ dstTable' \in [PKs -> Nat]
           /\ \A r \in PKs : r # change.pk => dstTable'[r] = dstTable[r]
           /\ \/ dstTable'[change.pk] = change.val
              \/ /\ Versioned /\ change.val # 0 /\ dstTable[change.pk] > change.val
                 /\ dstTable'[change.pk] = dstTable[change.pk]
<1>1. relay \in Seq([pk : PKs, val : Nat]) /\ relay # <<>> /\ dstTable \in [PKs -> Nat]
  BY DEF Relay, CopyInv, CopyShape
<1>2. change \in [pk : PKs, val : Nat]
  BY <1>1, HeadAndTail
<1>3. PICK table \in [PKs -> Nat] : table = dstTable
  BY <1>1
<1>4. PICK b : b = [r \in {change.pk} |-> change.val]
  OBVIOUS
<1>5. dstTable' = SinkApply(table, b)
  BY <1>3, <1>4 DEF Relay
<1>6. DOMAIN b = {change.pk} /\ b[change.pk] = change.val
  BY <1>4
<1>7. change.pk \in PKs /\ change.val \in Nat /\ DOMAIN table = PKs
  BY <1>2
<1>8. dstTable' \in [PKs -> Nat]
  <2>1. \A r \in DOMAIN b : b[r] \in Nat
    BY <1>6, <1>7
  <2> QED
    BY <1>5, <2>1, AppliedTypes
<1>9. \A r \in PKs : r # change.pk => dstTable'[r] = dstTable[r]
  BY <1>3, <1>5, <1>6, <1>7, AppliedRow
<1>10. \/ dstTable'[change.pk] = change.val
       \/ /\ Versioned /\ change.val # 0 /\ dstTable[change.pk] > change.val
          /\ dstTable'[change.pk] = dstTable[change.pk]
  BY <1>3, <1>5, <1>6, <1>7, AppliedRow
<1> QED
  BY <1>2, <1>8, <1>9, <1>10

LEMMA RelayKeeps ==
    ASSUME CopyInv, Relay
    PROVE  CopyInv'
<1>1. UNCHANGED <<srcTable, edits, live, streamed, phase, shards, touched>>
      /\ relay' = Tail(relay) /\ relay # <<>>
  BY DEF Relay, sourceSide
<1>2. PICK old \in Seq([pk : PKs, val : Nat]) : old = relay
  BY DEF CopyInv, CopyShape
<1>3. /\ Len(old) \in Nat /\ Len(old) >= 1 /\ DOMAIN old = 1 .. Len(old)
      /\ Head(old) = old[1] /\ Tail(old) \in Seq([pk : PKs, val : Nat])
      /\ DOMAIN Tail(old) = 1 .. Len(old) - 1
      /\ \A i \in 1 .. Len(old) - 1 : Tail(old)[i] = old[i + 1]
  BY <1>1, <1>2, TailIs
<1>4. PICK change : change = Head(relay)
  OBVIOUS
<1>5. /\ change \in [pk : PKs, val : Nat]
      /\ dstTable' \in [PKs -> Nat]
      /\ \A r \in PKs : r # change.pk => dstTable'[r] = dstTable[r]
      /\ \/ dstTable'[change.pk] = change.val
         \/ /\ Versioned /\ change.val # 0 /\ dstTable[change.pk] > change.val
            /\ dstTable'[change.pk] = dstTable[change.pk]
  BY <1>4, RelayApplies
<1>6. \A r \in PKs : dstTable'[r] = dstTable[r] \/ (r = change.pk /\ dstTable'[r] = change.val)
  BY <1>5
<1>7. 1 \in DOMAIN relay /\ relay[1] = change
  BY <1>2, <1>3, <1>4
<1>8. \A i \in DOMAIN relay' : i \in Nat /\ i + 1 \in DOMAIN relay /\ relay'[i] = relay[i + 1]
  BY <1>1, <1>2, <1>3
<1>9. \A i \in DOMAIN relay : i \in Nat /\ (i = 1 \/ (i - 1 \in DOMAIN relay' /\ relay'[i - 1] = relay[i]))
  BY <1>1, <1>2, <1>3
<1>10. CopyShape'
  BY <1>1, <1>2, <1>3, <1>5 DEF CopyInv, CopyShape
<1>11. NothingAhead'
  <2>1. \A r \in PKs : dstTable'[r] <= edits
    BY <1>6, <1>7 DEF CopyInv, NothingAhead
  <2>2. \A i \in DOMAIN relay' : relay'[i].val <= edits
    BY <1>8 DEF CopyInv, NothingAhead
  <2> QED
    BY <1>1, <2>1, <2>2 DEF CopyInv, NothingAhead
<1>12. NothingNewer'
  <2> SUFFICES ASSUME NEW r \in PKs, srcTable[r] # 0
               PROVE  /\ dstTable'[r] <= srcTable[r]
                      /\ \A i \in DOMAIN relay' : relay'[i].pk = r => relay'[i].val <= srcTable[r]
                      /\ \A i \in DOMAIN shards : \A row \in shards[i].held :
                            row.pk = r => row.val <= srcTable[r]
    BY <1>1 DEF NothingNewer
  <2>1. /\ dstTable[r] <= srcTable[r]
        /\ \A i \in DOMAIN relay : relay[i].pk = r => relay[i].val <= srcTable[r]
        /\ \A i \in DOMAIN shards : \A row \in shards[i].held : row.pk = r => row.val <= srcTable[r]
    BY DEF CopyInv, NothingNewer
  <2> QED
    BY <1>6, <1>7, <1>8, <2>1
<1>13. StreamedKeepUp'
  <2>1. ASSUME NEW r \in PKs, NoneOnItsWay(r)
        PROVE  NoneOnItsWay(r)' /\ dstTable'[r] = dstTable[r]
    <3>1. r # change.pk
      BY <1>7, <2>1 DEF NoneOnItsWay
    <3> QED
      BY <1>5, <1>8, <2>1, <3>1 DEF NoneOnItsWay
  <2>2. ASSUME NEW r \in PKs, LastOnItsWay(r)
        PROVE  \/ LastOnItsWay(r)'
               \/ NoneOnItsWay(r)' /\ (srcTable[r] # 0 => dstTable'[r] = srcTable[r])
    <3>1. PICK i \in DOMAIN relay :
              relay[i] = Row(r, srcTable[r]) /\ \A j \in DOMAIN relay : j > i => relay[j].pk # r
      BY <2>2 DEF LastOnItsWay
    <3>2. i \in Nat
      BY <1>9
    <3>3. CASE i = 1
      <4>1. change.pk = r /\ change.val = srcTable[r]
        BY <1>7, <3>1, <3>3 DEF Row
      <4>2. NoneOnItsWay(r)'
        <5>1. \A j \in DOMAIN relay' : j + 1 > 1
          BY <1>1, <1>2, <1>3
        <5> QED
          BY <1>8, <3>1, <3>3, <5>1 DEF NoneOnItsWay
      <4>3. srcTable[r] # 0 => dstTable'[r] = srcTable[r]
        <5>1. srcTable[r] # 0 => dstTable[r] <= srcTable[r]
          BY DEF CopyInv, NothingNewer
        <5>2. srcTable[r] \in Nat /\ dstTable[r] \in Nat
          BY DEF CopyInv, CopyShape
        <5> QED
          BY <1>5, <4>1, <5>1, <5>2
      <4> QED
        BY <4>2, <4>3
    <3>4. CASE i # 1
      <4>1. i - 1 \in DOMAIN relay' /\ relay'[i - 1] = Row(r, srcTable[r])
        BY <1>9, <3>1, <3>4
      <4>2. ASSUME NEW j \in DOMAIN relay', j > i - 1
            PROVE  relay'[j].pk # r
        <5>1. j \in Nat /\ j + 1 \in DOMAIN relay /\ j + 1 > i /\ relay'[j] = relay[j + 1]
          BY <1>8, <3>2, <4>2
        <5> QED
          BY <3>1, <5>1
      <4> QED
        BY <1>1, <4>1, <4>2 DEF LastOnItsWay
    <3> QED
      BY <3>3, <3>4
  <2>3. streamed \subseteq PKs
    BY DEF CopyInv, CopyShape
  <2>4. \A r \in PKs \ streamed : NoneOnItsWay(r)'
    BY <2>1 DEF CopyInv, StreamedKeepUp
  <2>5. ASSUME NEW r \in streamed
        PROVE  \/ LastOnItsWay(r)'
               \/ NoneOnItsWay(r)' /\ (Versioned /\ srcTable[r] # 0 => dstTable'[r] = srcTable[r])
    <3>1. \/ LastOnItsWay(r)
          \/ NoneOnItsWay(r) /\ (Versioned /\ srcTable[r] # 0 => dstTable[r] = srcTable[r])
      BY DEF CopyInv, StreamedKeepUp
    <3> QED
      BY <2>1, <2>2, <2>3, <3>1
  <2>6. ~ live => streamed = {}
    BY DEF CopyInv, StreamedKeepUp
  <2> QED
    BY <1>1, <2>4, <2>5, <2>6 DEF StreamedKeepUp
<1>14. HeldIsFresh'
  BY <1>1 DEF CopyInv, HeldIsFresh
<1>15. NothingMissed'
  <2>1. ASSUME NEW r \in PKs \ streamed
        PROVE  dstTable'[r] = dstTable[r]
    <3>1. NoneOnItsWay(r)
      BY DEF CopyInv, StreamedKeepUp
    <3>2. r # change.pk
      BY <1>7, <3>1 DEF NoneOnItsWay
    <3> QED
      BY <1>5, <3>2
  <2> QED
    BY <1>1, <2>1 DEF CopyInv, NothingMissed, ToBeRead, IsRead
<1> QED
  BY <1>10, <1>11, <1>12, <1>13, <1>14, <1>15 DEF CopyInv

LEMMA DivisionIs ==
    ASSUME NEW a \in Nat, NEW c \in Nat \ {0}
    PROVE  a \div c \in Nat /\ c * (a \div c) <= a
  OBVIOUS

LEMMA ProductOrder ==
    ASSUME NEW x \in Nat, NEW y \in Nat, NEW z \in Nat, x <= y
    PROVE  x * z \in Nat /\ y * z \in Nat /\ x * z <= y * z
  OBVIOUS

\* The shards of a range: each is an interval, and no key is between two of them.
LEMMA ShardsCover ==
    ASSUME NEW min \in Nat \ {0}, NEW max \in Nat, min <= max,
           NEW plan, plan = PlanShards(min, max)
    PROVE  /\ \A i \in DOMAIN plan :
                 plan[i][1] - 1 \in Nat /\ plan[i][2] \in Nat /\ plan[i][1] - 1 <= plan[i][2]
           /\ \A r \in Nat : min <= r /\ r <= max =>
                 \E i \in DOMAIN plan : plan[i][1] - 1 < r /\ r <= plan[i][2]
<1>1. PICK count : count = Fewer(ShardCount, max - min + 1)
  OBVIOUS
<1>2. count \in Nat \ {0} /\ max - min + 1 \in Nat
  BY <1>1, CopyBounds DEF Fewer
<1>3. PICK step : step = (max - min + 1) \div count
  OBVIOUS
<1>4. step \in Nat /\ count * step <= max - min + 1
  BY <1>2, <1>3, DivisionIs
<1>5. plan = [i \in 1 .. count |->
                <<min + (i - 1) * step, IF i = count THEN max ELSE min + i * step - 1>>]
  BY <1>1, <1>3 DEF PlanShards
<1>6. DOMAIN plan = 1 .. count
  BY <1>5
<1>7. \A i \in 1 .. count : /\ plan[i][1] = min + (i - 1) * step
                            /\ plan[i][2] = IF i = count THEN max ELSE min + i * step - 1
  BY <1>5
<1>8. ASSUME NEW i \in 1 .. count
      PROVE  plan[i][1] - 1 \in Nat /\ plan[i][2] \in Nat /\ plan[i][1] - 1 <= plan[i][2]
  <2>1. i \in Nat /\ i - 1 \in Nat /\ i - 1 <= i /\ i <= count /\ i - 1 <= count
    BY <1>2
  <2>2. /\ (i - 1) * step \in Nat /\ i * step \in Nat /\ count * step \in Nat
        /\ (i - 1) * step <= i * step /\ (i - 1) * step <= count * step
    BY <1>2, <1>4, <2>1, ProductOrder
  <2>3. PICK a \in Nat, b \in Nat, c \in Nat :
            a = (i - 1) * step /\ b = i * step /\ c = count * step /\ a <= b /\ a <= c
            /\ c <= max - min + 1
    BY <1>4, <2>2
  <2>4. plan[i][1] = min + a /\ plan[i][2] = IF i = count THEN max ELSE min + b - 1
    BY <1>7, <2>3
  <2> QED
    BY <2>3, <2>4
<1>9. ASSUME NEW r \in Nat, min <= r, r <= max
      PROVE  \E i \in 1 .. count : plan[i][1] - 1 < r /\ r <= plan[i][2]
  <2>1. PICK S : S = {i \in 1 .. count : r <= plan[i][2]}
    OBVIOUS
  <2>2. count \in S /\ S \in SUBSET Nat
    BY <1>2, <1>7, <1>9, <2>1
  <2>3. PICK i \in S : \A j \in S : i <= j
    BY <2>2, LeastExists
  <2>4. i \in 1 .. count /\ r <= plan[i][2]
    BY <2>1
  <2>5. CASE i = 1
    <3>1. (i - 1) * step = 0
      BY <1>4, <2>5
    <3>2. plan[i][1] = min
      BY <1>7, <2>4, <3>1
    <3> QED
      BY <1>9, <2>4, <3>2
  <2>6. CASE i # 1
    <3>1. i - 1 \in 1 .. count /\ i - 1 # count /\ ~ (i <= i - 1)
      BY <1>2, <2>4, <2>6
    <3>2. ~ (r <= plan[i - 1][2])
      BY <2>1, <2>3, <3>1
    <3>3. plan[i - 1][2] = min + (i - 1) * step - 1
      BY <1>7, <3>1
    <3>4. (i - 1) * step \in Nat
      BY <1>4, <3>1
    <3>5. plan[i][1] = min + (i - 1) * step
      BY <1>7, <2>4
    <3>6. plan[i][1] - 1 < r
      BY <3>2, <3>3, <3>4, <3>5
    <3> QED
      BY <2>4, <3>6
  <2> QED
    BY <2>5, <2>6
<1> QED
  BY <1>6, <1>8, <1>9

LEMMA PlannedCovers ==
    ASSUME NEW table \in [PKs -> Nat], table = srcTable
    PROVE  /\ \A i \in DOMAIN Planned :
                 Planned[i][1] - 1 \in Nat /\ Planned[i][2] \in Nat
                 /\ Planned[i][1] - 1 <= Planned[i][2]
           /\ \A r \in PKs : srcTable[r] # 0 =>
                 \E i \in DOMAIN Planned : Planned[i][1] - 1 < r /\ r <= Planned[i][2]
<1>1. PICK keys \in SUBSET PKs : keys = Present(table)
  BY DEF Present
<1>2. \A r \in PKs : srcTable[r] # 0 => r \in keys
  BY <1>1 DEF Present
<1>3. Planned = IF keys = {} THEN <<<<1, 0>>>> ELSE PlanShards(Least(keys), Greatest(keys))
  BY <1>1 DEF Planned
<1>4. CASE keys = {}
  <2>1. PICK plan : plan = <<<<1, 0>>>>
    OBVIOUS
  <2>2. DOMAIN plan = {1} /\ plan[1][1] = 1 /\ plan[1][2] = 0
    BY <2>1
  <2>3. Planned = plan
    BY <1>3, <1>4, <2>1
  <2> QED
    BY <1>2, <1>4, <2>2, <2>3
<1>5. CASE keys # {}
  <2>1. keys \in SUBSET (1 .. MaxPK) /\ keys \in SUBSET Nat /\ MaxPK \in Nat
    BY CopyBounds
  <2>2. PICK min \in keys : min = Least(keys) /\ \A y \in keys : min <= y
    BY <1>5, <2>1, LeastIs
  <2>3. PICK max \in keys : max = Greatest(keys) /\ \A y \in keys : max >= y
    BY <1>5, <2>1, GreatestIs
  <2>4. min \in Nat \ {0} /\ max \in Nat /\ min <= max
    BY <2>1, <2>2, <2>3
  <2>5. PICK plan : plan = PlanShards(min, max)
    OBVIOUS
  <2>6. Planned = plan
    BY <1>3, <1>5, <2>2, <2>3, <2>5
  <2>7. /\ \A i \in DOMAIN plan :
              plan[i][1] - 1 \in Nat /\ plan[i][2] \in Nat /\ plan[i][1] - 1 <= plan[i][2]
        /\ \A r \in Nat : min <= r /\ r <= max =>
              \E i \in DOMAIN plan : plan[i][1] - 1 < r /\ r <= plan[i][2]
    BY <2>4, <2>5, ShardsCover
  <2>8. \A r \in keys : r \in Nat /\ min <= r /\ r <= max
    BY <2>1, <2>2, <2>3
  <2> QED
    BY <1>2, <2>6, <2>7, <2>8
<1> QED
  BY <1>4, <1>5

LEMMA FullRunKeeps ==
    ASSUME CopyInv, FullRun
    PROVE  CopyInv'
<1>1. UNCHANGED <<srcTable, edits, live, streamed, dstTable, relay>>
      /\ phase' = "full_running" /\ touched' = {}
  BY DEF FullRun, sourceSide
<1>2. PICK table \in [PKs -> Nat] : table = srcTable
  BY DEF CopyInv, CopyShape
<1>3. PICK plan : plan = Planned
  OBVIOUS
<1>4. /\ \A i \in DOMAIN plan :
            plan[i][1] - 1 \in Nat /\ plan[i][2] \in Nat /\ plan[i][1] - 1 <= plan[i][2]
      /\ \A r \in PKs : srcTable[r] # 0 =>
            \E i \in DOMAIN plan : plan[i][1] - 1 < r /\ r <= plan[i][2]
  BY <1>2, <1>3, PlannedCovers
<1>5. shards' = [i \in DOMAIN plan |->
                    [last |-> plan[i][1] - 1, max |-> plan[i][2], held |-> {}, scanned |-> FALSE]]
  BY <1>3 DEF FullRun
<1>6. DOMAIN shards' = DOMAIN plan
  BY <1>5
<1>7. \A i \in DOMAIN plan :
          /\ shards'[i] \in Parts
          /\ shards'[i].last = plan[i][1] - 1 /\ shards'[i].max = plan[i][2]
          /\ shards'[i].held = {} /\ shards'[i].scanned = FALSE
  BY <1>4, <1>5 DEF Parts
<1>8. CopyShape'
  BY <1>1, <1>4, <1>6, <1>7 DEF CopyInv, CopyShape
<1>9. NothingAhead' /\ NothingNewer'
  BY <1>1, <1>6, <1>7 DEF CopyInv, NothingAhead, NothingNewer
<1>10. StreamedKeepUp'
  BY <1>1 DEF CopyInv, StreamedKeepUp, LastOnItsWay, NoneOnItsWay
<1>11. HeldIsFresh'
  BY <1>6, <1>7 DEF HeldIsFresh
<1>12. NothingMissed'
  <2>1. ASSUME NEW r \in PKs, srcTable[r] # 0
        PROVE  ToBeRead(r)'
    <3>1. PICK i \in DOMAIN plan : plan[i][1] - 1 < r /\ r <= plan[i][2]
      BY <1>4, <2>1
    <3>2. i \in DOMAIN shards' /\ shards'[i].last < r /\ r <= shards'[i].max
      BY <1>6, <1>7, <3>1
    <3>3. shards'[i].scanned = FALSE
      BY <1>7
    <3>4. ~ shards'[i].scanned
      BY <3>3
    <3> QED
      BY <3>2, <3>4 DEF ToBeRead
  <2> QED
    BY <1>1, <2>1 DEF NothingMissed
<1> QED
  BY <1>8, <1>9, <1>10, <1>11, <1>12 DEF CopyInv

LEMMA ScanKeeps ==
    ASSUME CopyInv, NEW k \in DOMAIN shards, Scan(k)
    PROVE  CopyInv'
<1>1. UNCHANGED <<srcTable, edits, live, streamed, dstTable, relay, phase, touched>>
  BY DEF Scan, sourceSide
<1>2. shards[k] \in Parts /\ shards[k].last <= shards[k].max
      /\ \A row \in shards[k].held : row.pk <= shards[k].last
  BY DEF CopyInv, CopyShape
<1>3. PICK part \in Parts : part = shards[k]
  BY <1>2
<1>4. PICK table \in [PKs -> Nat] : table = srcTable
  BY DEF CopyInv, CopyShape
<1>5. PICK found : found = SelectRows(table, part.last, part.max, ScanLimit)
  OBVIOUS
<1>6. part.last \in Nat /\ part.max \in Nat /\ part.held \in SUBSET [pk : PKs, val : Nat]
  BY DEF Parts
<1>7. /\ \A r \in found : r \in PKs /\ table[r] # 0 /\ part.last < r /\ r <= part.max
      /\ \A q \in found, r \in PKs : table[r] # 0 /\ part.last < r /\ r <= q => r \in found
      /\ Cardinality(found) < ScanLimit =>
            \A r \in PKs : table[r] # 0 /\ part.last < r /\ r <= part.max => r \in found
      /\ ~ (Cardinality(found) < ScanLimit) => found # {}
      /\ found # {} => Greatest(found) \in found /\ \A r \in found : r <= Greatest(found)
  <2>1. MaxPK \in Nat /\ ScanLimit \in Nat \ {0} /\ PKs = 1 .. MaxPK
        /\ DOMAIN table = 1 .. MaxPK /\ part.last \in Int /\ part.max \in Int
    BY <1>6, CopyBounds
  <2> QED
    BY <1>5, <2>1, Selected
<1>8. PICK end : end = IF found = {} THEN part.last ELSE Greatest(found)
  OBVIOUS
<1>9. PICK more : more = {Row(r, table[r]) : r \in found}
  OBVIOUS
<1>10. PICK ended \in BOOLEAN : ended = (Cardinality(found) < ScanLimit)
  <2>1. CASE Cardinality(found) < ScanLimit
    <3>1. TRUE = (Cardinality(found) < ScanLimit)
      BY <2>1
    <3> QED
      BY <3>1
  <2>2. CASE ~ (Cardinality(found) < ScanLimit)
    <3>1. FALSE = (Cardinality(found) < ScanLimit)
      BY <2>2
    <3> QED
      BY <3>1
  <2> QED
    BY <2>1, <2>2
<1>11. \A row \in more : row.pk \in found /\ row.val = table[row.pk] /\ row \in [pk : PKs, val : Nat]
  BY <1>7, <1>9 DEF Row
<1>12. end \in Nat /\ part.last <= end /\ end <= part.max /\ \A r \in found : r <= end
  <2>1. CASE found = {}
    BY <1>2, <1>3, <1>6, <1>8, <2>1
  <2>2. CASE found # {}
    <3>1. end = Greatest(found) /\ end \in found
      BY <1>7, <1>8, <2>2
    <3>2. end \in Nat /\ part.last < end /\ end <= part.max
      BY <1>7, <3>1, CopyBounds
    <3> QED
      BY <1>6, <1>7, <3>1, <3>2
  <2> QED
    BY <2>1, <2>2
<1>13. PICK next : next = [part EXCEPT !.held = @ \union more, !.last = end, !.scanned = ended]
  OBVIOUS
<1>14. /\ next \in Parts /\ next.held = part.held \union more /\ next.last = end
       /\ next.max = part.max
  <2>1. part.held \union more \in SUBSET [pk : PKs, val : Nat]
    BY <1>6, <1>11
  <2> QED
    BY <1>12, <1>13, <2>1 DEF Parts
<1>15. next.scanned = ended
  BY <1>13 DEF Parts
<1>16. shards' = [shards EXCEPT ![k] = next]
  <2>1. shards' = [shards EXCEPT ![k] = [part EXCEPT
                !.held = @ \union {Row(r, table[r]) : r \in found},
                !.last = IF found = {} THEN part.last ELSE Greatest(found),
                !.scanned = Cardinality(found) < ScanLimit]]
    BY <1>3, <1>4, <1>5 DEF Scan
  <2> QED
    BY <1>8, <1>9, <1>10, <1>13, <2>1
<1>17. DOMAIN shards' = DOMAIN shards /\ shards'[k] = next
       /\ \A j \in DOMAIN shards : j # k => shards'[j] = shards[j]
  BY <1>16
<1>18. \A j \in DOMAIN shards' : \A row \in shards'[j].held :
           (j \in DOMAIN shards /\ row \in shards[j].held) \/ row \in more
  BY <1>3, <1>14, <1>17
<1>19. phase = "full_running" /\ phase' = "full_running"
  <2>1. DOMAIN <<>> = {}
    OBVIOUS
  <2> QED
    BY <1>1, <2>1 DEF CopyInv, CopyShape
<1>20. CopyShape'
  <2>1. \A row \in next.held : row.pk <= next.last
    <3>1. \A row \in part.held : row.pk <= end
      <4>1. \A row \in part.held : row.pk \in Nat /\ row.pk <= part.last
        BY <1>2, <1>3, <1>6, CopyBounds
      <4> QED
        BY <1>6, <1>12, <4>1
    <3>2. \A row \in more : row.pk <= end
      BY <1>11, <1>12
    <3> QED
      BY <1>14, <3>1, <3>2
  <2>2. \A j \in DOMAIN shards' :
            /\ shards'[j] \in Parts /\ shards'[j].last <= shards'[j].max
            /\ \A row \in shards'[j].held : row.pk <= shards'[j].last
    BY <1>12, <1>14, <1>17, <2>1 DEF CopyInv, CopyShape
  <2> QED
    BY <1>1, <1>19, <2>2 DEF CopyInv, CopyShape
<1>21. NothingAhead'
  <2>1. \A row \in more : row.val \in 1 .. edits
    <3>1. \A r \in found : table[r] \in Nat /\ table[r] # 0 /\ table[r] <= edits /\ edits \in Nat
      BY <1>4, <1>7, CopyBounds DEF CopyInv, CopyShape, NothingAhead
    <3> QED
      BY <1>11, <3>1
  <2>2. \A j \in DOMAIN shards' : \A row \in shards'[j].held : row.val \in 1 .. edits
    BY <1>18, <2>1 DEF CopyInv, NothingAhead
  <2> QED
    BY <1>1, <2>2 DEF CopyInv, NothingAhead
<1>22. NothingNewer'
  <2> SUFFICES ASSUME NEW r \in PKs, srcTable[r] # 0
               PROVE  /\ dstTable[r] <= srcTable[r]
                      /\ \A i \in DOMAIN relay : relay[i].pk = r => relay[i].val <= srcTable[r]
                      /\ \A j \in DOMAIN shards' : \A row \in shards'[j].held :
                            row.pk = r => row.val <= srcTable[r]
    BY <1>1 DEF NothingNewer
  <2>1. \A row \in more : row.pk = r => row.val <= srcTable[r]
    BY <1>4, <1>11
  <2> QED
    BY <1>18, <2>1 DEF CopyInv, NothingNewer
<1>23. StreamedKeepUp'
  BY <1>1 DEF CopyInv, StreamedKeepUp, LastOnItsWay, NoneOnItsWay
<1>24. HeldIsFresh'
  <2> SUFFICES ASSUME NEW r \in PKs \ touched, NEW j \in DOMAIN shards',
                      NEW row \in shards'[j].held, row.pk = r
               PROVE  row.val = srcTable[r]
    BY <1>1 DEF HeldIsFresh
  <2>1. CASE j \in DOMAIN shards /\ row \in shards[j].held
    BY <2>1 DEF CopyInv, HeldIsFresh
  <2>2. CASE row \in more
    BY <1>4, <1>11, <2>2
  <2> QED
    BY <1>18, <2>1, <2>2
<1>25. NothingMissed'
  <2> SUFFICES ASSUME NEW r \in PKs \ (touched \union streamed), srcTable[r] # 0,
                      dstTable[r] # srcTable[r]
               PROVE  ToBeRead(r)' \/ IsRead(r)'
    BY <1>1, <1>19 DEF NothingMissed
  <2>1. ToBeRead(r) \/ IsRead(r)
    BY <1>19 DEF CopyInv, NothingMissed
  <2>2. CASE IsRead(r)
    <3>1. PICK j \in DOMAIN shards : Row(r, srcTable[r]) \in shards[j].held
      BY <2>2 DEF IsRead
    <3>2. Row(r, srcTable[r]) \in shards'[j].held
      BY <1>3, <1>14, <1>17, <3>1
    <3> QED
      BY <1>1, <1>17, <3>1, <3>2 DEF IsRead
  <2>3. CASE ToBeRead(r)
    <3>1. PICK j \in DOMAIN shards :
              ~ shards[j].scanned /\ shards[j].last < r /\ r <= shards[j].max
      BY <2>3 DEF ToBeRead
    <3>2. CASE j # k
      <4>1. j \in DOMAIN shards' /\ shards'[j] = shards[j]
        BY <1>17, <3>2
      <4> QED
        BY <3>1, <4>1 DEF ToBeRead
    <3>3. CASE j = k
      <4>1. part.last < r /\ r <= part.max /\ table[r] # 0
        BY <1>3, <1>4, <3>1, <3>3
      <4>2. CASE r \in found
        <5>1. Row(r, srcTable[r]) \in more
          BY <1>4, <1>9, <4>2
        <5>2. Row(r, srcTable[r]) \in shards'[k].held
          BY <1>14, <1>17, <5>1
        <5> QED
          BY <1>1, <1>17, <5>2 DEF IsRead
      <4>3. CASE r \notin found
        <5>1. ~ (Cardinality(found) < ScanLimit)
          BY <1>7, <4>1, <4>3
        <5>2. ended = FALSE
          BY <1>10, <5>1
        <5>3. end = Greatest(found) /\ end \in found
          BY <1>7, <1>8, <5>1
        <5>4. ~ (r <= end)
          BY <1>7, <4>1, <4>3, <5>3
        <5>5. end < r
          BY <1>12, <5>4, CopyBounds
        <5>6. shards'[k].scanned = FALSE
          BY <1>15, <1>17, <5>2
        <5>7. ~ shards'[k].scanned
          BY <5>6
        <5> QED
          BY <1>14, <1>17, <4>1, <5>5, <5>7 DEF ToBeRead
      <4> QED
        BY <4>2, <4>3
    <3> QED
      BY <3>2, <3>3
  <2> QED
    BY <2>1, <2>2, <2>3
<1> QED
  BY <1>20, <1>21, <1>22, <1>23, <1>24, <1>25 DEF CopyInv

\* What a flush writes was held, and what it wrote is held no more.
LEMMA FlushWrites ==
    ASSUME CopyInv, NEW k \in DOMAIN shards, Flush(k)
    PROVE  \E chunk \in SUBSET [pk : PKs, val : Nat] :
              /\ chunk \subseteq shards[k].held
              /\ shards' = [shards EXCEPT ![k] = [shards[k] EXCEPT !.held = shards[k].held \ chunk]]
              /\ dstTable' \in [PKs -> Nat]
              /\ \A r \in PKs :
                    \/ dstTable'[r] = dstTable[r] /\ \A row \in chunk : row.pk # r
                    \/ \E row \in chunk :
                          /\ row.pk = r
                          /\ dstTable'[r] = IF Versioned /\ row.val # 0 /\ dstTable[r] > row.val
                                            THEN dstTable[r] ELSE row.val
<1>1. PICK part \in Parts : part = shards[k]
  BY DEF CopyInv, CopyShape
<1>2. PICK table \in [PKs -> Nat] : table = dstTable
  BY DEF CopyInv, CopyShape
<1>3. PICK chunk :
          chunk = {x \in part.held : Cardinality({y \in part.held : y.pk < x.pk}) < FlushSize}
  OBVIOUS
<1>4. PICK b : b = [r \in {x.pk : x \in chunk} |-> (CHOOSE x \in chunk : x.pk = r).val]
  OBVIOUS
<1>5. dstTable' = SinkApply(table, b)
      /\ shards' = [shards EXCEPT ![k] = [part EXCEPT !.held = part.held \ chunk]]
  BY <1>1, <1>2, <1>3, <1>4 DEF Flush
<1>6. chunk \subseteq part.held /\ chunk \in SUBSET [pk : PKs, val : Nat]
  BY <1>3 DEF Parts
<1>7. DOMAIN b = {x.pk : x \in chunk}
  BY <1>4
<1>8. ASSUME NEW r \in DOMAIN b
      PROVE  \E row \in chunk : row.pk = r /\ b[r] = row.val
  <2>1. PICK row \in chunk : row = CHOOSE x \in chunk : x.pk = r
    BY <1>7
  <2>2. row.pk = r
    BY <1>7, <2>1
  <2>3. b[r] = row.val
    BY <1>4, <1>7, <2>1
  <2> QED
    BY <2>2, <2>3
<1>9. \A r \in DOMAIN b : b[r] \in Nat
  <2>1. \A row \in chunk : row.val \in Nat
    BY <1>6
  <2> QED
    BY <1>8, <2>1
<1>10. dstTable' \in [PKs -> Nat]
  BY <1>5, <1>9, AppliedTypes
<1>11. ASSUME NEW r \in PKs
       PROVE  \/ dstTable'[r] = dstTable[r] /\ \A row \in chunk : row.pk # r
              \/ \E row \in chunk :
                    /\ row.pk = r
                    /\ dstTable'[r] = IF Versioned /\ row.val # 0 /\ dstTable[r] > row.val
                                      THEN dstTable[r] ELSE row.val
  <2>1. DOMAIN table = PKs
    OBVIOUS
  <2>2. CASE r \notin DOMAIN b
    BY <1>2, <1>5, <1>7, <2>1, <2>2, AppliedRow
  <2>3. CASE r \in DOMAIN b
    <3>1. PICK row \in chunk : row.pk = r /\ b[r] = row.val
      BY <1>8, <2>3
    <3>2. dstTable'[r] = IF Versioned /\ b[r] # 0 /\ dstTable[r] > b[r]
                         THEN dstTable[r] ELSE b[r]
      BY <1>2, <1>5, <2>1, <2>3, AppliedRow
    <3> QED
      BY <3>1, <3>2
  <2> QED
    BY <2>2, <2>3
<1> QED
  BY <1>1, <1>5, <1>6, <1>10, <1>11

LEMMA FlushKeeps ==
    ASSUME CopyInv, NEW k \in DOMAIN shards, Flush(k)
    PROVE  CopyInv'
<1>1. UNCHANGED <<srcTable, edits, live, streamed, relay, phase, touched>>
  BY DEF Flush, sourceSide
<1>2. PICK chunk \in SUBSET [pk : PKs, val : Nat] :
          /\ chunk \subseteq shards[k].held
          /\ shards' = [shards EXCEPT ![k] = [shards[k] EXCEPT !.held = shards[k].held \ chunk]]
          /\ dstTable' \in [PKs -> Nat]
          /\ \A r \in PKs :
                \/ dstTable'[r] = dstTable[r] /\ \A row \in chunk : row.pk # r
                \/ \E row \in chunk :
                      /\ row.pk = r
                      /\ dstTable'[r] = IF Versioned /\ row.val # 0 /\ dstTable[r] > row.val
                                        THEN dstTable[r] ELSE row.val
  BY FlushWrites
<1>3. PICK part \in Parts : part = shards[k]
  BY DEF CopyInv, CopyShape
<1>4. PICK next : next = [part EXCEPT !.held = part.held \ chunk]
  OBVIOUS
<1>5. /\ next \in Parts /\ next.held = part.held \ chunk /\ next.last = part.last
      /\ next.max = part.max /\ next.scanned = part.scanned
  BY <1>4 DEF Parts
<1>6. DOMAIN shards' = DOMAIN shards /\ shards'[k] = next
      /\ \A j \in DOMAIN shards : j # k => shards'[j] = shards[j]
  BY <1>2, <1>3, <1>4
<1>7. \A j \in DOMAIN shards' :
          /\ j \in DOMAIN shards /\ shards'[j].held \subseteq shards[j].held
          /\ shards'[j].last = shards[j].last /\ shards'[j].max = shards[j].max
          /\ shards'[j].scanned = shards[j].scanned /\ shards'[j] \in Parts
  BY <1>3, <1>5, <1>6 DEF CopyInv, CopyShape
<1>8. phase = "full_running" /\ phase' = "full_running"
  <2>1. DOMAIN <<>> = {}
    OBVIOUS
  <2> QED
    BY <1>1, <2>1 DEF CopyInv, CopyShape
<1>9. CopyShape'
  <2>1. \A j \in DOMAIN shards' :
            /\ shards'[j] \in Parts /\ shards'[j].last <= shards'[j].max
            /\ \A row \in shards'[j].held : row.pk <= shards'[j].last
    BY <1>7 DEF CopyInv, CopyShape
  <2> QED
    BY <1>1, <1>2, <1>8, <2>1 DEF CopyInv, CopyShape
<1>10. \A r \in PKs : \/ dstTable'[r] = dstTable[r]
                      \/ \E row \in chunk : row.pk = r /\ dstTable'[r] = row.val
  BY <1>2
<1>11. NothingAhead'
  <2>1. \A row \in chunk : row.val \in 1 .. edits
    BY <1>2 DEF CopyInv, NothingAhead
  <2>2. \A r \in PKs : dstTable'[r] <= edits
    <3>1. \A row \in chunk : row.val <= edits
      BY <2>1 DEF CopyInv, CopyShape
    <3> QED
      BY <1>10, <3>1 DEF CopyInv, NothingAhead
  <2>3. \A j \in DOMAIN shards' : \A row \in shards'[j].held : row.val \in 1 .. edits
    BY <1>7 DEF CopyInv, NothingAhead
  <2> QED
    BY <1>1, <2>2, <2>3 DEF CopyInv, NothingAhead
<1>12. NothingNewer'
  <2> SUFFICES ASSUME NEW r \in PKs, srcTable[r] # 0
               PROVE  /\ dstTable'[r] <= srcTable[r]
                      /\ \A i \in DOMAIN relay : relay[i].pk = r => relay[i].val <= srcTable[r]
                      /\ \A j \in DOMAIN shards' : \A row \in shards'[j].held :
                            row.pk = r => row.val <= srcTable[r]
    BY <1>1 DEF NothingNewer
  <2>1. \A row \in chunk : row.pk = r => row.val <= srcTable[r]
    BY <1>2 DEF CopyInv, NothingNewer
  <2> QED
    BY <1>7, <1>10, <2>1 DEF CopyInv, NothingNewer
\* A row that the target has as it is stays as it is, if rows have versions or
\* what is written of it is what the source holds.
<1>13. ASSUME NEW r \in PKs, srcTable[r] # 0, dstTable[r] = srcTable[r],
              Versioned \/ \A row \in chunk : row.pk = r => row.val = srcTable[r]
       PROVE  dstTable'[r] = srcTable[r]
  <2>1. CASE \E row \in chunk :
                /\ row.pk = r
                /\ dstTable'[r] = IF Versioned /\ row.val # 0 /\ dstTable[r] > row.val
                                  THEN dstTable[r] ELSE row.val
    <3>1. PICK row \in chunk :
              /\ row.pk = r
              /\ dstTable'[r] = IF Versioned /\ row.val # 0 /\ dstTable[r] > row.val
                                THEN dstTable[r] ELSE row.val
      BY <2>1
    <3>2. row.val \in 1 .. edits /\ row.val <= srcTable[r]
      BY <1>2, <1>13, <3>1 DEF CopyInv, NothingAhead, NothingNewer
    <3>3. srcTable[r] \in Nat /\ edits \in Int
      BY CopyBounds DEF CopyInv, CopyShape
    <3> QED
      BY <1>13, <3>1, <3>2, <3>3
  <2> QED
    BY <1>2, <1>13, <2>1
<1>14. StreamedKeepUp'
  <2>1. ASSUME NEW r \in streamed, Versioned, srcTable[r] # 0, dstTable[r] = srcTable[r]
        PROVE  dstTable'[r] = srcTable[r]
    BY <1>13, <2>1 DEF CopyInv, CopyShape
  <2>2. /\ ~ live => streamed = {}
        /\ \A r \in PKs \ streamed : NoneOnItsWay(r)
        /\ \A r \in streamed :
              \/ LastOnItsWay(r)
              \/ NoneOnItsWay(r) /\ (Versioned /\ srcTable[r] # 0 => dstTable[r] = srcTable[r])
    BY DEF CopyInv, StreamedKeepUp
  <2>3. \A r \in PKs : /\ NoneOnItsWay(r) => NoneOnItsWay(r)'
                       /\ LastOnItsWay(r) => LastOnItsWay(r)'
    BY <1>1 DEF NoneOnItsWay, LastOnItsWay
  <2>4. streamed \subseteq PKs
    BY DEF CopyInv, CopyShape
  <2> QED
    BY <1>1, <2>1, <2>2, <2>3, <2>4 DEF StreamedKeepUp
<1>15. HeldIsFresh'
  BY <1>1, <1>7 DEF CopyInv, HeldIsFresh
<1>16. NothingMissed'
  <2> SUFFICES ASSUME NEW r \in PKs \ (touched \union streamed), srcTable[r] # 0
               PROVE  dstTable'[r] = srcTable[r] \/ ToBeRead(r)' \/ IsRead(r)'
    BY <1>1, <1>8 DEF NothingMissed
  <2>1. \A row \in chunk : row.pk = r => row.val = srcTable[r]
    BY <1>2 DEF CopyInv, HeldIsFresh
  <2>2. CASE dstTable[r] = srcTable[r]
    BY <1>13, <2>1, <2>2
  <2>3. CASE ToBeRead(r)
    BY <1>6, <1>7, <2>3 DEF ToBeRead
  <2>4. CASE IsRead(r)
    <3>1. PICK j \in DOMAIN shards : Row(r, srcTable[r]) \in shards[j].held
      BY <2>4 DEF IsRead
    <3>2. CASE Row(r, srcTable[r]) \in shards'[j].held
      BY <1>1, <1>6, <3>1, <3>2 DEF IsRead
    <3>3. CASE Row(r, srcTable[r]) \notin shards'[j].held
      <4>1. j = k /\ Row(r, srcTable[r]) \in chunk
        BY <1>3, <1>5, <1>6, <3>1, <3>3
      <4>2. Row(r, srcTable[r]).pk = r
        BY DEF Row
      <4>3. PICK row \in chunk :
                /\ row.pk = r
                /\ dstTable'[r] = IF Versioned /\ row.val # 0 /\ dstTable[r] > row.val
                                  THEN dstTable[r] ELSE row.val
        BY <1>2, <4>1, <4>2
      <4>4. row.val = srcTable[r]
        BY <2>1, <4>3
      <4>5. dstTable[r] <= srcTable[r] /\ dstTable[r] \in Nat /\ srcTable[r] \in Nat
        BY DEF CopyInv, CopyShape, NothingNewer
      <4>6. dstTable'[r] = srcTable[r]
        BY <4>3, <4>4, <4>5
      <4> QED
        BY <4>6
    <3> QED
      BY <3>2, <3>3
  <2> QED
    BY <1>8, <2>2, <2>3, <2>4 DEF CopyInv, NothingMissed
<1> QED
  BY <1>9, <1>11, <1>12, <1>14, <1>15, <1>16 DEF CopyInv

LEMMA FullDoneKeeps ==
    ASSUME CopyInv, FullDone
    PROVE  CopyInv'
<1>1. UNCHANGED <<srcTable, edits, live, streamed, dstTable, relay, touched>>
      /\ phase = "full_running" /\ phase' = "full_done" /\ shards' = <<>>
  BY DEF FullDone, sourceSide
<1>2. DOMAIN shards' = {}
  BY <1>1
<1>3. CopyShape' /\ NothingAhead' /\ NothingNewer' /\ HeldIsFresh'
  BY <1>1, <1>2 DEF CopyInv, CopyShape, NothingAhead, NothingNewer, HeldIsFresh
<1>4. StreamedKeepUp'
  BY <1>1 DEF CopyInv, StreamedKeepUp, LastOnItsWay, NoneOnItsWay
<1>5. NothingMissed'
  <2>1. \A i \in DOMAIN shards : shards[i].scanned /\ shards[i].held = {}
    BY DEF FullDone
  <2>2. \A r \in PKs : ~ ToBeRead(r) /\ ~ IsRead(r)
    BY <2>1 DEF ToBeRead, IsRead
  <2>3. \A r \in PKs \ (touched \union streamed) : srcTable[r] # 0 => dstTable[r] = srcTable[r]
    BY <1>1, <2>2 DEF CopyInv, NothingMissed
  <2> QED
    BY <1>1, <2>3 DEF NothingMissed
<1> QED
  BY <1>3, <1>4, <1>5 DEF CopyInv

LEMMA FullAbortsKeeps ==
    ASSUME CopyInv, FullAborts
    PROVE  CopyInv'
<1>1. UNCHANGED <<srcTable, edits, live, streamed, dstTable, relay, touched>>
      /\ phase' = "failed" /\ shards' = <<>>
  BY DEF FullAborts, sourceSide
<1>2. DOMAIN shards' = {}
  BY <1>1
<1>3. CopyShape' /\ NothingAhead' /\ NothingNewer' /\ HeldIsFresh'
  BY <1>1, <1>2 DEF CopyInv, CopyShape, NothingAhead, NothingNewer, HeldIsFresh
<1>4. StreamedKeepUp'
  BY <1>1 DEF CopyInv, StreamedKeepUp, LastOnItsWay, NoneOnItsWay
<1>5. NothingMissed'
  BY <1>1 DEF NothingMissed
<1> QED
  BY <1>3, <1>4, <1>5 DEF CopyInv

LEMMA CopyStep == CopyInv /\ [CopyNext]_copyVars => CopyInv'
<1> SUFFICES ASSUME CopyInv, [CopyNext]_copyVars
             PROVE  CopyInv'
  OBVIOUS
<1>1. ASSUME NEW r \in PKs, Edit(r)
      PROVE  CopyInv'
  BY <1>1, EditKeeps
<1>2. CASE Subscribe \/ Relay
  BY <1>2, SubscribeKeeps, RelayKeeps
<1>3. CASE FullRun \/ FullDone \/ FullAborts
  BY <1>3, FullRunKeeps, FullDoneKeeps, FullAbortsKeeps
<1>4. ASSUME NEW i \in DOMAIN shards, Scan(i)
      PROVE  CopyInv'
  BY <1>4, ScanKeeps
<1>5. ASSUME NEW i \in DOMAIN shards, Flush(i)
      PROVE  CopyInv'
  BY <1>5, FlushKeeps
<1>6. CASE UNCHANGED copyVars
  <2>1. UNCHANGED <<srcTable, edits, live, streamed, dstTable, relay, phase, shards, touched>>
    BY <1>6 DEF copyVars, sourceSide
  <2>2. CopyShape' /\ NothingAhead' /\ NothingNewer' /\ HeldIsFresh'
    BY <2>1 DEF CopyInv, CopyShape, NothingAhead, NothingNewer, HeldIsFresh
  <2>3. StreamedKeepUp' /\ NothingMissed'
    BY <2>1 DEF CopyInv, StreamedKeepUp, LastOnItsWay, NoneOnItsWay, NothingMissed, ToBeRead, IsRead
  <2> QED
    BY <2>2, <2>3 DEF CopyInv
<1> QED
  BY <1>1, <1>2, <1>3, <1>4, <1>5, <1>6 DEF CopyNext

\* The state of the full engine beside the incremental one has its type: no
\* shard reads beyond its range or holds what it has yet to read.
THEOREM CopyTypeCorrect == CopySpec => []CopyTypeOK
<1>1. CopyInv => CopyTypeOK
  <2> SUFFICES ASSUME CopyInv
               PROVE  CopyTypeOK
    OBVIOUS
  <2>1. edits \in Nat /\ MaxEdits \in Nat /\ edits <= MaxEdits
    BY CopyBounds DEF CopyInv, CopyShape
  <2>2. \A n \in Nat : n <= edits => n \in Contents
    BY <2>1 DEF Contents
  <2>3. srcTable \in [PKs -> Contents] /\ dstTable \in [PKs -> Contents]
    BY <2>2 DEF CopyInv, CopyShape, NothingAhead
  <2>4. relay \in Seq([pk : PKs, val : Contents])
    <3>1. PICK now \in Seq([pk : PKs, val : Nat]) : now = relay
      BY DEF CopyInv, CopyShape
    <3>2. Len(now) \in Nat /\ DOMAIN now = 1 .. Len(now) /\ now = [i \in 1 .. Len(now) |-> now[i]]
      OBVIOUS
    <3>3. \A i \in DOMAIN now : now[i] \in [pk : PKs, val : Contents]
      <4>1. \A i \in DOMAIN now : now[i] \in [pk : PKs, val : Nat] /\ now[i].val <= edits
        BY <3>1, Elements DEF CopyInv, NothingAhead
      <4> QED
        BY <2>2, <4>1
    <3>4. now \in [1 .. Len(now) -> [pk : PKs, val : Contents]]
      BY <3>2, <3>3
    <3>5. now \in Seq([pk : PKs, val : Contents])
      BY <3>2, <3>4, IsSequence
    <3> QED
      BY <3>1, <3>5
  <2>5. ASSUME NEW i \in DOMAIN shards
        PROVE  /\ shards[i].last \in 0 .. shards[i].max
               /\ \A row \in shards[i].held : row.pk <= shards[i].last
    <3>1. shards[i] \in Parts /\ shards[i].last <= shards[i].max
          /\ \A row \in shards[i].held : row.pk <= shards[i].last
      BY DEF CopyInv, CopyShape
    <3>2. shards[i].last \in Nat /\ shards[i].max \in Nat
      BY <3>1 DEF Parts
    <3> QED
      BY <3>1, <3>2
  <2> QED
    BY <2>3, <2>4, <2>5 DEF CopyTypeOK, CopyInv, CopyShape
<1> QED
  BY <1>1, CopyStarts, CopyStep, PTL DEF CopySpec

\* CopyKeepsUp: however the keys are divided into shards, pages and batches, and
\* whatever runs were aborted and begun again, a full copy (full.go) that is done
\* beside an incremental engine that has caught up has lost nothing, and with
\* versions it takes no newer row back.
THEOREM CopyKeepsUpAlways == CopySpec => []CopyKeepsUp
<1>1. CopyInv => CopyKeepsUp
  <2> SUFFICES ASSUME CopyInv, relay = <<>>, NEW r \in PKs, srcTable[r] # 0,
                      dstTable[r] # srcTable[r]
               PROVE  IF r \in streamed THEN ~ Versioned
                                        ELSE phase # "full_done" \/ r \in touched
    BY DEF CopyKeepsUp
  <2>1. DOMAIN relay = {}
    OBVIOUS
  <2>2. CASE r \in streamed
    BY <2>1, <2>2 DEF CopyInv, StreamedKeepUp, LastOnItsWay
  <2>3. CASE r \notin streamed
    BY <2>3 DEF CopyInv, NothingMissed
  <2> QED
    BY <2>2, <2>3
<1> QED
  BY <1>1, CopyStarts, CopyStep, PTL DEF CopySpec

-----------------------------------------------------------------------------
(* The full copy as a replica that moves forward.                          *)

LEMMA CopyIsNotAhead == CopyInv => Copied!NotAhead
  BY DEF CopyInv, NothingNewer, Copied!NotAhead, Deleting

LEMMA EditMoves ==
    ASSUME CopyInv, NEW q \in PKs, Edit(q)
    PROVE  Copied!Moves
<1>1. edits \in Nat /\ srcTable \in [PKs -> Nat] /\ srcTable[q] <= edits
  BY CopyBounds DEF CopyInv, CopyShape, NothingAhead
<1>2. PICK val \in {0, edits + 1} :
          /\ srcTable' = [srcTable EXCEPT ![q] = val]
          /\ relay' = IF live THEN Append(relay, Row(q, val)) ELSE relay
  BY DEF Edit
<1>3. srcTable'[q] = val /\ \A r \in PKs : r # q => srcTable'[r] = srcTable[r]
  BY <1>1, <1>2
<1>4. \A i \in DOMAIN relay' : (i \in DOMAIN relay /\ relay'[i] = relay[i]) \/ relay'[i] = Row(q, val)
  <2>1. PICK old \in Seq([pk : PKs, val : Nat]) : old = relay
    BY DEF CopyInv, CopyShape
  <2>2. Row(q, val) \in [pk : PKs, val : Nat]
    BY <1>1 DEF Row
  <2>3. /\ Len(old) \in Nat /\ DOMAIN old = 1 .. Len(old)
        /\ DOMAIN Append(old, Row(q, val)) = 1 .. Len(old) + 1
        /\ \A i \in 1 .. Len(old) : Append(old, Row(q, val))[i] = old[i]
        /\ Append(old, Row(q, val))[Len(old) + 1] = Row(q, val)
    BY <2>2, Appended
  <2>4. \A i \in 1 .. Len(old) + 1 : i \in 1 .. Len(old) \/ i = Len(old) + 1
    BY <2>3
  <2> QED
    BY <1>2, <2>1, <2>3, <2>4
\* What comes loose is a row that this change has deleted.
<1>5. ASSUME NEW r \in Deleting' \ Deleting
      PROVE  r \in PKs /\ srcTable'[r] = 0
  <2>1. CASE \E i \in DOMAIN relay' : relay'[i] = Row(r, 0)
    <3>1. Row(q, val) = Row(r, 0)
      BY <1>4, <1>5, <2>1 DEF Deleting
    <3>2. q = r /\ val = 0
      BY <3>1 DEF Row
    <3> QED
      BY <1>3, <3>2
  <2> QED
    BY <1>5, <2>1 DEF Deleting
<1>6. \A r \in PKs : srcTable'[r] >= srcTable[r] \/ (srcTable'[r] = 0 /\ r \in Deleting')
  <2>1. srcTable'[q] >= srcTable[q] \/ srcTable'[q] = 0
    BY <1>1, <1>2, <1>3
  <2> QED
    BY <1>1, <1>3, <2>1 DEF Deleting
<1>7. UNCHANGED dstTable
  BY DEF Edit
<1> QED
  BY <1>5, <1>6, <1>7 DEF Copied!Moves

\* A change that the stream brings takes no row back, unless it is a deletion.
LEMMA RelayFollows ==
    ASSUME Versioned, CopyInv, Relay
    PROVE  Copied!Follows
<1>1. /\ relay \in Seq([pk : PKs, val : Nat]) /\ relay # <<>> /\ relay' = Tail(relay)
      /\ dstTable \in [PKs -> Nat] /\ srcTable' = srcTable
  BY DEF Relay, CopyInv, CopyShape, sourceSide
<1>2. PICK old \in Seq([pk : PKs, val : Nat]) : old = relay
  BY <1>1
<1>3. /\ Len(old) \in Nat /\ Len(old) >= 1 /\ DOMAIN old = 1 .. Len(old)
      /\ Head(old) = old[1] /\ Head(old) \in [pk : PKs, val : Nat]
      /\ DOMAIN Tail(old) = 1 .. Len(old) - 1
      /\ \A i \in 1 .. Len(old) - 1 : Tail(old)[i] = old[i + 1]
  BY <1>1, <1>2, TailIs
<1>4. PICK change \in [pk : PKs, val : Nat] : change = Head(relay)
  BY <1>2, <1>3
<1>5. 1 \in DOMAIN relay /\ relay[1] = change
  BY <1>2, <1>3, <1>4
<1>6. Deleting' \subseteq Deleting
  <2>1. \A i \in DOMAIN relay' : i + 1 \in DOMAIN relay /\ relay'[i] = relay[i + 1]
    BY <1>1, <1>2, <1>3
  <2> QED
    BY <1>1, <2>1 DEF Deleting
<1>7. ASSUME NEW r \in PKs \ Deleting
      PROVE  dstTable'[r] >= dstTable[r]
  <2>1. PICK b : b = [k \in {change.pk} |-> change.val]
    OBVIOUS
  <2>2. dstTable' = SinkApply(dstTable, b) /\ DOMAIN dstTable = PKs
    BY <1>1, <1>4, <2>1 DEF Relay
  <2>3. r \notin DOMAIN b => dstTable'[r] = dstTable[r]
    BY <2>2, AppliedRow
  <2>4. r \in DOMAIN b => dstTable'[r] = IF change.val # 0 /\ dstTable[r] > change.val
                                         THEN dstTable[r] ELSE change.val
    BY <2>1, <2>2, AppliedRow
  <2>5. r \in DOMAIN b => change.val # 0
    <3>1. r \in DOMAIN b => change = Row(r, change.val)
      BY <1>4, <2>1 DEF Row
    <3> QED
      BY <1>5, <1>7, <3>1 DEF Deleting
  <2>6. dstTable[r] \in Nat /\ change.val \in Nat
    BY <1>1
  <2> QED
    BY <2>3, <2>4, <2>5, <2>6
<1> QED
  BY <1>1, <1>6, <1>7 DEF Copied!Follows

\* Nor does what a shard has read, however long ago.
LEMMA FlushFollows ==
    ASSUME Versioned, CopyInv, NEW k \in DOMAIN shards, Flush(k)
    PROVE  Copied!Follows
<1>1. PICK chunk \in SUBSET [pk : PKs, val : Nat] :
          /\ chunk \subseteq shards[k].held
          /\ \A r \in PKs :
                \/ dstTable'[r] = dstTable[r] /\ \A row \in chunk : row.pk # r
                \/ \E row \in chunk :
                      /\ row.pk = r
                      /\ dstTable'[r] = IF Versioned /\ row.val # 0 /\ dstTable[r] > row.val
                                        THEN dstTable[r] ELSE row.val
  BY FlushWrites
<1>2. \A row \in chunk : row.val \in Nat /\ row.val # 0
  BY <1>1 DEF CopyInv, NothingAhead
<1>3. \A r \in PKs : dstTable[r] \in Nat
  BY DEF CopyInv, CopyShape
<1>4. \A r \in PKs : dstTable'[r] >= dstTable[r]
  BY <1>1, <1>2, <1>3
<1>5. UNCHANGED <<srcTable, relay>>
  BY DEF Flush, sourceSide
<1> QED
  BY <1>4, <1>5 DEF Copied!Follows, Deleting

\* FullCopy implements Replica, if the rows have versions: the full copy and the
\* incremental engine beside it take no row back that the other has brought
\* further, nor ahead of the source, for any shards, batches and runs that are
\* aborted and begun again; but where a deletion is acted upon.
THEOREM CopyIsAReplica ==
    ASSUME Versioned
    PROVE  CopySpec => CopyImplementsReplica
<1>1. CopyInit => Copied!ReplicaInit
  <2>1. CopyInit => srcTable \in [PKs -> Nat] /\ dstTable \in [PKs -> Nat]
    BY DEF CopyInit
  <2>2. Deleting \in SUBSET PKs
    BY DEF Deleting
  <2> QED
    BY <2>1, <2>2, CopyStarts, CopyIsNotAhead DEF Copied!ReplicaInit
<1>2. CopyInv /\ Copied!NotAhead' /\ [CopyNext]_copyVars
        => [Copied!ReplicaNext]_Copied!replicaVars
  <2> SUFFICES ASSUME CopyInv, Copied!NotAhead', [CopyNext]_copyVars
               PROVE  [Copied!ReplicaNext]_Copied!replicaVars
    OBVIOUS
  <2>1. ASSUME NEW r \in PKs, Edit(r)
        PROVE  Copied!ReplicaNext
    BY <2>1, EditMoves DEF Copied!ReplicaNext
  <2>2. ASSUME Relay
        PROVE  Copied!ReplicaNext
    BY <2>2, RelayFollows DEF Copied!ReplicaNext
  <2>3. ASSUME NEW i \in DOMAIN shards, Flush(i)
        PROVE  Copied!ReplicaNext
    BY <2>3, FlushFollows DEF Copied!ReplicaNext
  <2>4. ASSUME \/ Subscribe \/ FullRun \/ FullDone \/ FullAborts \/ UNCHANGED copyVars
               \/ \E i \in DOMAIN shards : Scan(i)
        PROVE  UNCHANGED Copied!replicaVars
    <3>1. UNCHANGED <<srcTable, dstTable, relay>>
      BY <2>4 DEF Subscribe, FullRun, FullDone, FullAborts, Scan, copyVars, sourceSide
    <3> QED
      BY <3>1 DEF Copied!replicaVars, Deleting
  <2> QED
    BY <2>1, <2>2, <2>3, <2>4 DEF CopyNext
<1> QED
  BY <1>1, <1>2, CopyStarts, CopyStep, CopyIsNotAhead, PTL
     DEF CopySpec, CopyImplementsReplica, Copied!ReplicaSpec
=============================================================================
