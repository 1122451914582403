---------------------------- MODULE CounterProofs ----------------------------
(***************************************************************************)
(* Proofs about the counters of the platform: the reads of articles that   *)
(* arrive as events (ReadCounts), likes and collects with their caches     *)
(* (Interaction), the replies and comments of an article (Comments), and   *)
(* what the boards of the ranking make of the reads (Ranking).             *)
(***************************************************************************)
EXTENDS ReadCounts, Interaction, Comments, Ranking, FiniteSetTheorems,
        WellFoundedInduction, TLAPS

LEMMA LeastExists ==
    ASSUME NEW S \in SUBSET Nat, S # {}
    PROVE  \E x \in S : \A y \in S : x <= y
<1>1. PICK x \in S : \A y \in S : ~ (<<y, x>> \in OpToRel(<, Nat))
  BY NatLessThanWellFounded, WFMin
<1>2. \A y \in S : ~ (y < x)
  BY <1>1 DEF OpToRel
<1> QED
  BY <1>2

LEMMA GreatestExists ==
    ASSUME NEW n \in Nat, NEW S \in SUBSET (1 .. n), S # {}
    PROVE  \E x \in S : \A y \in S : y <= x
<1> DEFINE T == {n - x : x \in S}
<1>1. T \in SUBSET Nat /\ T # {}
  <2>1. \A x \in S : x \in Nat /\ x <= n /\ n - x \in Nat
    OBVIOUS
  <2> QED
    BY <2>1
<1>2. PICK t \in T : \A u \in T : t <= u
  BY <1>1, LeastExists
<1>3. PICK x \in S : t = n - x
  OBVIOUS
<1>4. \A y \in S : n - x <= n - y
  BY <1>2, <1>3
<1> QED
  BY <1>4

-----------------------------------------------------------------------------
(* Reads.                                                                  *)

ReadsShape ==
    /\ topic \in Seq({"read", "other", "bad"}) /\ Len(topic) <= MaxTopic
    /\ fetched \in 0 .. Len(topic)
    /\ readBatch \subseteq 1 .. fetched
    /\ handling \in BOOLEAN /\ (handling => readBatch # {})
    /\ markedTo \in 0 .. fetched /\ committed \in 0 .. markedTo
    /\ counted \in [Offsets -> Nat]
    /\ restarts \in Nat

\* A read that needs no further delivery.
Done(o) == counted[o] > 0 \/ o \in failed \union overtaken

\* What is fetched is in the batch or done, and what is marked is done.
MarkedDone ==
    \A o \in Reads : /\ o <= fetched => o \in readBatch \/ Done(o)
                     /\ o <= markedTo => Done(o)

\* In one life of the worker an offset is fetched once and counted after that.
OncePerLife ==
    \A o \in Offsets : IF o > fetched \/ o \in readBatch THEN counted[o] <= restarts
                                                         ELSE counted[o] <= 1 + restarts

ReadsInv == ReadsShape /\ MarkedDone /\ OncePerLife

LEMMA TopicShape ==
    ASSUME ReadsShape
    PROVE  /\ Len(topic) \in Nat /\ Written \subseteq Offsets
           /\ Reads \subseteq Offsets /\ Reads \subseteq Nat
           /\ fetched \in Nat /\ markedTo \in Nat /\ committed \in Nat
<1>1. Len(topic) \in Nat
  BY DEF ReadsShape
<1> QED
  BY <1>1, ReadsAssumption DEF ReadsShape, Written, Offsets, Reads

\* The last message of a batch.
LastOf(b) == CHOOSE o \in b : \A p \in b : p <= o

LEMMA LastIsLast ==
    ASSUME ReadsShape, readBatch # {}
    PROVE  /\ LastOf(readBatch) \in readBatch
           /\ \A p \in readBatch : p <= LastOf(readBatch)
           /\ Further(markedTo, LastOf(readBatch)) \in 0 .. fetched
           /\ markedTo <= Further(markedTo, LastOf(readBatch))
<1>1. fetched \in Nat /\ readBatch \in SUBSET (1 .. fetched)
  BY TopicShape DEF ReadsShape
<1>2. PICK x \in readBatch : \A y \in readBatch : y <= x
  BY <1>1, GreatestExists
<1>3. LastOf(readBatch) \in readBatch /\ \A p \in readBatch : p <= LastOf(readBatch)
  BY <1>2 DEF LastOf
<1>4. LastOf(readBatch) \in 1 .. fetched
  BY <1>1, <1>3
<1>5. markedTo \in 0 .. fetched
  BY DEF ReadsShape
<1> QED
  BY <1>1, <1>3, <1>4, <1>5 DEF Further

LEMMA EmitKeeps ==
    ASSUME ReadsInv, Emit
    PROVE  ReadsInv'
<1> USE DEF ReadsInv
<1>1. PICK type \in {"read", "other", "bad"} : topic' = Append(topic, type)
  BY DEF Emit
<1>2. /\ topic' \in Seq({"read", "other", "bad"}) /\ Len(topic') = Len(topic) + 1
      /\ \A o \in 1 .. Len(topic) : topic'[o] = topic[o]
      /\ Len(topic) \in Nat
  BY <1>1 DEF ReadsShape
<1>3. UNCHANGED <<fetched, readBatch, handling, markedTo, committed, counted, restarts,
                  failed, overtaken>>
  BY DEF Emit
<1>4. ReadsShape'
  BY <1>2, <1>3, ReadsAssumption DEF Emit, ReadsShape, Offsets
<1>5. \A o \in Reads' : o \in Reads \/ (~ (o <= fetched) /\ ~ (o <= markedTo))
  <2>1. \A o \in Reads' : o \in 1 .. Len(topic) + 1 /\ topic'[o] = "read"
    BY <1>2 DEF Reads, Written
  <2>2. fetched \in Nat /\ markedTo \in Nat /\ fetched <= Len(topic) /\ markedTo <= fetched
    BY TopicShape DEF ReadsShape
  <2>3. \A o \in 1 .. Len(topic) + 1 : o \in 1 .. Len(topic) \/ o = Len(topic) + 1
    BY <1>2
  <2>4. ~ (Len(topic) + 1 <= fetched) /\ ~ (Len(topic) + 1 <= markedTo)
    BY <1>2, <2>2
  <2> QED
    <3> SUFFICES ASSUME NEW o \in Reads', o \notin Reads
                 PROVE  ~ (o <= fetched) /\ ~ (o <= markedTo)
      OBVIOUS
    <3>1. o \in 1 .. Len(topic) + 1 /\ topic'[o] = "read"
      BY <2>1
    <3>2. o \notin 1 .. Len(topic)
      BY <1>2, <3>1 DEF Reads, Written
    <3> QED
      BY <2>3, <2>4, <3>1, <3>2
<1>6. MarkedDone'
  BY <1>3, <1>5 DEF MarkedDone, Done
<1>7. OncePerLife'
  BY <1>3 DEF OncePerLife
<1> QED
  BY <1>4, <1>6, <1>7

LEMMA GatherKeeps ==
    ASSUME ReadsInv, GatherOne
    PROVE  ReadsInv'
<1> USE DEF ReadsInv
<1> DEFINE o == fetched + 1
<1>1. /\ ~ handling /\ fetched < Len(topic) /\ fetched' = o
      /\ UNCHANGED <<topic, handling, committed, counted, restarts, failed>>
      /\ \/ /\ topic[o] = "bad"
            /\ markedTo' = Further(markedTo, o) /\ readBatch' = readBatch
            /\ overtaken' = overtaken \union (readBatch \intersect Reads)
         \/ /\ topic[o] # "bad" /\ readBatch' = readBatch \union {o}
            /\ UNCHANGED <<markedTo, overtaken>>
  BY DEF GatherOne
<1>2. /\ Len(topic) \in Nat /\ fetched \in Nat /\ markedTo \in Nat /\ committed \in Nat
      /\ markedTo <= fetched /\ committed <= markedTo
  BY TopicShape DEF ReadsShape
<1>3. Further(markedTo, o) = o
  BY <1>2 DEF Further
<1>4. ReadsShape'
  <2>1. readBatch' \subseteq 1 .. fetched'
    <3>1. 1 .. fetched \subseteq 1 .. o /\ o \in 1 .. o
      BY <1>2
    <3>2. readBatch \subseteq 1 .. fetched
      BY DEF ReadsShape
    <3> QED
      BY <1>1, <3>1, <3>2
  <2> QED
    BY <1>1, <1>2, <1>3, <2>1 DEF ReadsShape
<1>5. Reads' = Reads /\ Reads \subseteq Nat /\ \A p \in Reads : p <= o <=> p <= fetched \/ p = o
  BY <1>1, <1>2, TopicShape DEF Reads, Written
<1>6. MarkedDone'
  <2>1. CASE topic[o] = "bad"
    <3>1. o \notin Reads
      BY <2>1 DEF Reads
    <3>2. \A p \in Reads : Done(p) => Done(p)'
      BY <1>1, <2>1 DEF Done
    <3>3. \A p \in readBatch \intersect Reads : Done(p)'
      BY <1>1, <2>1 DEF Done
    <3> QED
      BY <1>1, <1>3, <1>5, <2>1, <3>1, <3>2, <3>3 DEF MarkedDone
  <2>2. CASE topic[o] # "bad"
    <3>1. \A p \in Reads : Done(p) => Done(p)'
      BY <1>1, <2>2 DEF Done
    <3> QED
      BY <1>1, <1>5, <2>2, <3>1 DEF MarkedDone
  <2> QED
    BY <2>1, <2>2
<1>7. OncePerLife'
  BY <1>1, <1>2, TopicShape DEF OncePerLife, Offsets, ReadsShape
<1> QED
  BY <1>4, <1>6, <1>7

LEMMA HandOverKeeps ==
    ASSUME ReadsInv, HandOver
    PROVE  ReadsInv'
BY DEF ReadsInv, HandOver, ReadsShape, MarkedDone, Done, OncePerLife, Reads, Written, Offsets

\* A transaction of the batch: each of its reads once.
LEMMA AddReadsOnce ==
    ASSUME ReadsInv, AddReads, UNCHANGED topic
    PROVE  /\ counted' \in [Offsets -> Nat]
           /\ \A o \in Offsets : /\ counted'[o] \in {counted[o], counted[o] + 1}
                                 /\ o \notin readBatch => counted'[o] = counted[o]
           /\ \A o \in readBatch \intersect Reads : counted'[o] > 0
<1>1. \A o \in Offsets : counted[o] \in Nat
  BY DEF ReadsInv, ReadsShape
<1>2. Reads \subseteq Offsets
  BY TopicShape DEF ReadsInv
<1> QED
  BY <1>1, <1>2 DEF AddReads

LEMMA FailsBatchKeeps ==
    ASSUME ReadsInv, HandlerFails
    PROVE  ReadsInv'
<1> USE DEF ReadsInv
<1>1. /\ AddReads \/ UNCHANGED counted
      /\ failed' = failed \union (readBatch \intersect Reads)
      /\ handling' = FALSE /\ readBatch' = {}
      /\ UNCHANGED <<topic, fetched, markedTo, committed, restarts, overtaken>>
  BY DEF HandlerFails
<1>2. /\ counted' \in [Offsets -> Nat]
      /\ \A o \in Offsets : /\ counted'[o] \in {counted[o], counted[o] + 1}
                            /\ o \notin readBatch => counted'[o] = counted[o]
  BY <1>1, AddReadsOnce DEF ReadsShape
<1>3. ReadsShape'
  BY <1>1, <1>2 DEF ReadsShape
<1>4. Reads' = Reads /\ Reads \subseteq Offsets
  BY <1>1, TopicShape DEF Reads, Written
<1>5. MarkedDone'
  <2>1. \A o \in Reads : Done(o) \/ o \in readBatch => Done(o)'
    BY <1>1, <1>2, <1>4 DEF Done, ReadsShape
  <2> QED
    BY <1>1, <1>4, <2>1 DEF MarkedDone
<1>6. OncePerLife'
  BY <1>1, <1>2 DEF OncePerLife, ReadsShape, Offsets
<1> QED
  BY <1>3, <1>5, <1>6

LEMMA SucceedsKeeps ==
    ASSUME ReadsInv, HandlerSucceeds
    PROVE  ReadsInv'
<1> USE DEF ReadsInv
<1>1. /\ handling /\ AddReads
      /\ markedTo' = Further(markedTo, LastOf(readBatch))
      /\ handling' = FALSE /\ readBatch' = {}
      /\ UNCHANGED <<topic, fetched, committed, restarts, failed, overtaken>>
  BY DEF HandlerSucceeds, LastOf
<1>2. /\ counted' \in [Offsets -> Nat]
      /\ \A o \in Offsets : /\ counted'[o] \in {counted[o], counted[o] + 1}
                            /\ o \notin readBatch => counted'[o] = counted[o]
      /\ \A o \in readBatch \intersect Reads : counted'[o] > 0
  BY <1>1, AddReadsOnce
<1>3. markedTo' \in 0 .. fetched /\ markedTo <= markedTo'
  BY <1>1, LastIsLast DEF ReadsShape
<1>4. ReadsShape'
  <2>1. committed \in 0 .. markedTo'
    BY <1>3, TopicShape DEF ReadsShape
  <2> QED
    BY <1>1, <1>2, <1>3, <2>1 DEF ReadsShape
<1>5. Reads' = Reads /\ Reads \subseteq Offsets /\ Reads \subseteq Nat
  BY <1>1, TopicShape DEF Reads, Written
<1>6. MarkedDone'
  <2>1. \A o \in Reads : Done(o) \/ o \in readBatch => Done(o)'
    BY <1>1, <1>2, <1>5 DEF Done, ReadsShape
  <2>2. \A o \in Reads : o <= markedTo' => o <= fetched
    BY <1>3, <1>5, TopicShape
  <2> QED
    BY <1>1, <1>5, <2>1, <2>2 DEF MarkedDone
<1>7. OncePerLife'
  BY <1>1, <1>2 DEF OncePerLife, ReadsShape, Offsets
<1> QED
  BY <1>4, <1>6, <1>7

LEMMA RestartKeeps ==
    ASSUME ReadsInv, RestartWorker
    PROVE  ReadsInv'
<1> USE DEF ReadsInv
<1>1. /\ AddReads \/ UNCHANGED counted
      /\ restarts' = restarts + 1
      /\ fetched' = committed /\ markedTo' = committed
      /\ handling' = FALSE /\ readBatch' = {}
      /\ UNCHANGED <<topic, committed, failed, overtaken>>
  BY DEF RestartWorker
<1>2. /\ counted' \in [Offsets -> Nat]
      /\ \A o \in Offsets : /\ counted'[o] \in {counted[o], counted[o] + 1}
                            /\ o \notin readBatch => counted'[o] = counted[o]
  BY <1>1, AddReadsOnce DEF ReadsShape
<1>3. ReadsShape'
  <2>1. /\ committed \in 0 .. Len(topic) /\ committed \in 0 .. committed
        /\ restarts + 1 \in Nat
    BY TopicShape DEF ReadsShape
  <2> QED
    BY <1>1, <1>2, <2>1 DEF ReadsShape
<1>4. Reads' = Reads /\ Reads \subseteq Offsets /\ Reads \subseteq Nat
  BY <1>1, TopicShape DEF Reads, Written
<1>5. MarkedDone'
  <2>1. \A o \in Reads : Done(o) => Done(o)'
    BY <1>1, <1>2, <1>4 DEF Done, ReadsShape
  <2>2. \A o \in Reads : o <= committed => o <= markedTo
    BY <1>4, TopicShape DEF ReadsShape
  <2> QED
    BY <1>1, <1>4, <2>1, <2>2 DEF MarkedDone
<1>6. OncePerLife'
  <2>1. \A o \in Offsets : counted'[o] <= restarts + 1
    BY <1>2 DEF OncePerLife, ReadsShape
  <2> QED
    BY <1>1, <1>2, <2>1 DEF OncePerLife, ReadsShape
<1> QED
  BY <1>3, <1>5, <1>6

LEMMA ReadsStep == ReadsInv /\ [ReadsNext]_readsVars => ReadsInv'
<1>1. ASSUME ReadsInv, CommitMarks
      PROVE  ReadsInv'
  BY <1>1, TopicShape
     DEF CommitMarks, ReadsInv, ReadsShape, MarkedDone, Done, OncePerLife, Reads, Written
<1>2. ASSUME ReadsInv, UNCHANGED readsVars
      PROVE  ReadsInv'
  BY <1>2 DEF readsVars, ReadsInv, ReadsShape, MarkedDone, Done, OncePerLife, Reads, Written
<1> QED
  BY <1>1, <1>2, EmitKeeps, GatherKeeps, HandOverKeeps, FailsBatchKeeps, SucceedsKeeps,
     RestartKeeps DEF ReadsNext, WorkerStep

LEMMA ReadsInitial == ReadsInit => ReadsInv
<1> SUFFICES ASSUME ReadsInit
             PROVE  ReadsInv
  OBVIOUS
<1>1. topic = <<>> /\ Len(topic) = 0 /\ topic \in Seq({"read", "other", "bad"})
  BY DEF ReadsInit
<1>2. ReadsShape
  <2>1. /\ fetched = 0 /\ readBatch = {} /\ handling = FALSE /\ markedTo = 0
        /\ committed = 0 /\ restarts = 0 /\ counted = [o \in Offsets |-> 0]
    BY DEF ReadsInit
  <2>2. counted \in [Offsets -> Nat]
    BY <2>1
  <2>3. 0 \in 0 .. 0 /\ 0 <= MaxTopic /\ 0 \in Nat
    BY ReadsAssumption
  <2>4. /\ fetched \in 0 .. Len(topic) /\ markedTo \in 0 .. fetched
        /\ committed \in 0 .. markedTo /\ restarts \in Nat
    BY <1>1, <2>1, <2>3
  <2>5. handling \in BOOLEAN /\ (handling => readBatch # {}) /\ readBatch \subseteq 1 .. fetched
    BY <2>1
  <2> QED
    BY <1>1, <2>2, <2>3, <2>4, <2>5 DEF ReadsShape
<1>3. Reads = {}
  BY <1>1 DEF Reads, Written
<1>4. OncePerLife
  BY DEF ReadsInit, OncePerLife
<1> QED
  BY <1>2, <1>3, <1>4 DEF ReadsInv, MarkedDone

\* For any batch size and any number of events and crashes: what is committed
\* has been counted, unless its batch failed or was overtaken by a mark, and
\* every life of the worker counts a read at most once.
THEOREM ReadsCountedOncePerLife == ReadsSpec => []CountedOncePerLife
<1>1. ASSUME ReadsInv
      PROVE  CountedOncePerLife
  <2>1. \A o \in Reads : o <= committed => o <= markedTo
    BY <1>1, TopicShape DEF ReadsInv, ReadsShape
  <2>2. \A o \in Reads : o \in Offsets /\ counted[o] \in Nat /\ restarts \in Nat
    BY <1>1, TopicShape DEF ReadsInv, ReadsShape
  <2> QED
    BY <1>1, <2>1, <2>2
       DEF ReadsInv, MarkedDone, Done, OncePerLife, CountedOncePerLife
<1> QED
  BY <1>1, ReadsInitial, ReadsStep, PTL DEF ReadsSpec

\* What else the types say: a batch spans no more offsets than its size, and
\* what is left out for good are reads.
BatchSpan ==
    /\ restarts \in 0 .. MaxRestarts
    /\ failed \subseteq Reads /\ overtaken \subseteq Reads
    /\ \A o, p \in readBatch : o < p + ReadBatchSize

LEMMA SpanStep == ReadsInv /\ BatchSpan /\ [ReadsNext]_readsVars => BatchSpan'
<1> SUFFICES ASSUME ReadsInv, BatchSpan, [ReadsNext]_readsVars
             PROVE  BatchSpan'
  OBVIOUS
<1> USE DEF BatchSpan
<1>1. /\ ReadsShape /\ fetched \in Nat /\ readBatch \subseteq Nat
      /\ ReadBatchSize \in Nat \ {0} /\ MaxRestarts \in Nat
      /\ \A o \in readBatch : o <= fetched
  BY TopicShape, ReadsAssumption DEF ReadsInv, ReadsShape
<1>2. CASE Emit
  <2>1. PICK type \in {"read", "other", "bad"} : topic' = Append(topic, type)
    BY <1>2 DEF Emit
  <2>2. Reads \subseteq Reads'
    BY <1>1, <2>1 DEF Reads, Written, ReadsShape
  <2> QED
    BY <1>2, <2>2 DEF Emit
<1>3. CASE GatherOne
  <2>1. /\ \A p \in readBatch : fetched + 1 < p + ReadBatchSize
        /\ readBatch' \subseteq readBatch \union {fetched + 1}
        /\ overtaken' \subseteq overtaken \union (readBatch \intersect Reads)
        /\ UNCHANGED <<topic, restarts, failed>>
    BY <1>3 DEF GatherOne
  <2>2. \A o, p \in readBatch \union {fetched + 1} : o < p + ReadBatchSize
    BY <1>1, <2>1
  <2> QED
    BY <2>1, <2>2 DEF Reads, Written
<1>4. CASE HandOver \/ CommitMarks
  BY <1>4 DEF HandOver, CommitMarks, Reads, Written
<1>5. CASE HandlerFails
  BY <1>5 DEF HandlerFails, Reads, Written
<1>6. CASE HandlerSucceeds
  BY <1>6 DEF HandlerSucceeds, Reads, Written
<1>7. CASE RestartWorker
  <2>1. restarts + 1 \in 0 .. MaxRestarts
    BY <1>1, <1>7 DEF RestartWorker
  <2> QED
    BY <1>7, <2>1 DEF RestartWorker, Reads, Written
<1>8. CASE UNCHANGED readsVars
  BY <1>8 DEF readsVars, Reads, Written
<1> QED
  BY <1>2, <1>3, <1>4, <1>5, <1>6, <1>7, <1>8 DEF ReadsNext, WorkerStep

\* The types of the consumer's state: for any number of messages and crashes a
\* batch holds no more messages than its size.
THEOREM ReadsTypeCorrect == ReadsSpec => []ReadsTypeOK
<1>1. ASSUME ReadsInit
      PROVE  BatchSpan
  BY <1>1, ReadsAssumption DEF ReadsInit, BatchSpan
<1>2. ASSUME ReadsInv, BatchSpan
      PROVE  ReadsTypeOK
  <2>1. Cardinality(readBatch) <= ReadBatchSize
    <3>1. readBatch \in SUBSET Nat
      BY <1>2, TopicShape DEF ReadsInv, ReadsShape
    <3>2. CASE readBatch = {}
      BY <3>2, FS_EmptySet, ReadsAssumption
    <3>3. CASE readBatch # {}
      <4>1. PICK a \in readBatch : \A o \in readBatch : a <= o
        BY <3>1, <3>3, LeastExists
      <4>2. PICK n \in Nat \ {0} : n = ReadBatchSize
        BY ReadsAssumption
      <4>3. a \in Int /\ a + n - 1 \in Int
        BY <3>1, <4>1
      <4>4. /\ IsFiniteSet(a .. a + n - 1)
            /\ Cardinality(a .. a + n - 1) = IF a > a + n - 1 THEN 0 ELSE a + n - 1 - a + 1
        BY <4>3, FS_Interval
      <4>5. readBatch \in SUBSET (a .. a + n - 1)
        <5>1. \A o \in readBatch : o \in Nat /\ a <= o /\ o < a + n
          BY <1>2, <3>1, <4>1, <4>2 DEF BatchSpan
        <5> QED
          BY <4>3, <5>1
      <4>6. Cardinality(readBatch) <= Cardinality(a .. a + n - 1)
        BY <4>4, <4>5, FS_Subset
      <4> QED
        BY <4>2, <4>3, <4>4, <4>6
    <3> QED
      BY <3>2, <3>3
  <2> QED
    BY <1>2, <2>1 DEF ReadsInv, ReadsShape, BatchSpan, ReadsTypeOK
<1> QED
  BY <1>1, <1>2, ReadsInitial, ReadsStep, SpanStep, PTL DEF ReadsSpec

-----------------------------------------------------------------------------
(* Likes and collects.                                                     *)

\* The three kinds of requests, by where they can be.
FlipCall == [at : {"lockRow", "flip", "delCounts", "delState"},
             fan : Fans, mark : Marks, on : BOOLEAN, old : BOOLEAN]
CountCall == [at : {"count", "incr"}, reads : Nat \ {0}]
LookCall == [at : {"look", "keep", "lookState", "keepState"}, fan : Fans,
             val : {Gone} \union [hit : {TRUE}, val : Counter], owed : Int,
             own : SUBSET Marks]
OtherCall == {NoCall} \union CountCall \union LookCall

IntrShape ==
    /\ mine \in [Fans -> [row : BOOLEAN, marks : SUBSET Marks]]
    /\ counts \in Counter /\ owed \in Int
    /\ ask \in [Calls -> FlipCall \union OtherCall]

\* A call about to flip knows whether the mark is set: nobody else flips for the
\* user in between, unless the user has no row and both hold the gap, in which
\* case neither gets past the other.
Flipping(c) == ask[c].at = "flip"
OldIsTrue ==
    \A c \in Calls : Flipping(c) => ask[c].old = (ask[c].mark \in mine[ask[c].fan].marks)
OneFlips ==
    \A c, d \in Calls :
        c # d /\ Flipping(c) /\ Flipping(d) /\ ask[c].fan = ask[d].fan
            => ~ mine[ask[c].fan].row

MarksInv == IntrShape /\ OldIsTrue /\ OneFlips /\ CountsAreMarks

With(k) == {u \in Fans : k \in mine[u].marks}

LEMMA OnlyFlipCallsFlip ==
    ASSUME NEW r \in FlipCall \union OtherCall,
           r.at \in {"lockRow", "flip", "delCounts", "delState"}
    PROVE  r \in FlipCall
<1>1. r # NoCall
  BY DEF NoCall
<1>2. r \in CountCall => r.at \in {"count", "incr"}
  BY DEF CountCall
<1>3. r \in LookCall => r.at \in {"look", "keep", "lookState", "keepState"}
  BY DEF LookCall
<1> QED
  BY <1>1, <1>2, <1>3 DEF OtherCall

LEMMA SetsWith ==
    ASSUME IntrShape, NEW u \in Fans, NEW k \in Marks, NEW on \in BOOLEAN,
           mine' = [mine EXCEPT ![u] = [row |-> TRUE,
                       marks |-> IF on THEN mine[u].marks \union {k} ELSE mine[u].marks \ {k}]]
    PROVE  /\ mine' \in [Fans -> [row : BOOLEAN, marks : SUBSET Marks]]
           /\ mine'[u].row
           /\ \A v \in Fans \ {u} : mine'[v] = mine[v]
           /\ With(k)' = IF on THEN With(k) \union {u} ELSE With(k) \ {u}
           /\ \A j \in Marks \ {k} : With(j)' = With(j)
<1>1. mine \in [Fans -> [row : BOOLEAN, marks : SUBSET Marks]]
  BY DEF IntrShape
<1>2. /\ mine'[u].row
      /\ mine'[u].marks = IF on THEN mine[u].marks \union {k} ELSE mine[u].marks \ {k}
      /\ \A v \in Fans \ {u} : mine'[v] = mine[v]
  BY <1>1
<1>3. mine' \in [Fans -> [row : BOOLEAN, marks : SUBSET Marks]]
  BY <1>1
<1>4. \A v \in Fans : k \in mine'[v].marks <=>
          IF on THEN v = u \/ k \in mine[v].marks ELSE v # u /\ k \in mine[v].marks
  BY <1>2
<1>5. \A j \in Marks \ {k}, v \in Fans : j \in mine'[v].marks <=> j \in mine[v].marks
  BY <1>2
<1> QED
  BY <1>2, <1>3, <1>4, <1>5 DEF With

\* The counter follows the set of users, provided that the call knows the truth.
LEMMA FlipCounts ==
    ASSUME IntrShape, CountsAreMarks, NEW u \in Fans, NEW k \in Marks, NEW on \in BOOLEAN,
           NEW old \in BOOLEAN, old = (u \in With(k)),
           With(k)' = IF on THEN With(k) \union {u} ELSE With(k) \ {u},
           \A j \in Marks \ {k} : With(j)' = With(j),
           counts' = IF old = on THEN counts
                     ELSE [counts EXCEPT ![k] = IF on THEN counts[k] + 1
                                                ELSE IF counts[k] = 0 THEN 0 ELSE counts[k] - 1]
    PROVE  counts' \in Counter /\ CountsAreMarks'
<1>1. \A j \in Marks : IsFiniteSet(With(j)) /\ counts[j] = Cardinality(With(j))
  BY FS_Subset, IntrAssumption DEF With, CountsAreMarks
<1>2. counts \in Counter /\ \A j \in Marks : counts[j] \in Nat
  BY DEF IntrShape, Counter, Marks
<1>3. SUFFICES counts' \in Counter /\ \A j \in Marks : counts'[j] = Cardinality(With(j)')
  BY DEF CountsAreMarks, With
<1>4. CASE old = on
  <2>1. With(k)' = With(k)
    BY <1>4
  <2> QED
    BY <1>1, <1>2, <1>4, <2>1
<1>5. CASE old # on
  <2>1. /\ counts'[k] = IF on THEN counts[k] + 1 ELSE IF counts[k] = 0 THEN 0 ELSE counts[k] - 1
        /\ \A j \in Marks \ {k} : counts'[j] = counts[j]
        /\ counts' \in Counter
    BY <1>2, <1>5 DEF Counter, Marks
  <2>2. CASE on
    <3>1. Cardinality(With(k) \union {u}) = Cardinality(With(k)) + 1
      BY <1>1, <1>5, <2>2, FS_AddElement
    <3> QED
      BY <1>1, <2>1, <2>2, <3>1
  <2>3. CASE ~ on
    <3>1. u \in With(k)
      BY <1>5, <2>3
    <3>2. Cardinality(With(k) \ {u}) = Cardinality(With(k)) - 1
      BY <1>1, <3>1, FS_RemoveElement
    <3>3. Cardinality(With(k)) # 0
      BY <1>1, <3>1, FS_EmptySet
    <3>4. counts'[k] = counts[k] - 1
      BY <1>1, <2>1, <2>3, <3>3
    <3> QED
      BY <1>1, <2>1, <2>3, <3>2, <3>4
  <2> QED
    BY <2>2, <2>3
<1> QED
  BY <1>4, <1>5

LEMMA FlipKeeps ==
    ASSUME MarksInv, NEW c \in Calls, Flip(c)
    PROVE  MarksInv'
<1> USE DEF MarksInv
<1>1. ask[c] \in FlipCall /\ Flipping(c)
  BY OnlyFlipCallsFlip DEF Flip, At, IntrShape, Flipping
<1>2. PICK u \in Fans, k \in Marks, on \in BOOLEAN :
        u = ask[c].fan /\ k = ask[c].mark /\ on = ask[c].on /\ ask[c].old \in BOOLEAN
  BY <1>1 DEF FlipCall
<1>3. mine' = [mine EXCEPT ![u] = [row |-> TRUE,
                  marks |-> IF on THEN mine[u].marks \union {k} ELSE mine[u].marks \ {k}]]
  BY <1>2 DEF Flip, IntrShape
<1>0. IntrShape /\ CountsAreMarks /\ OldIsTrue /\ OneFlips
  OBVIOUS
<1>4. /\ mine' \in [Fans -> [row : BOOLEAN, marks : SUBSET Marks]]
      /\ mine'[u].row
      /\ \A v \in Fans \ {u} : mine'[v] = mine[v]
      /\ With(k)' = IF on THEN With(k) \union {u} ELSE With(k) \ {u}
      /\ \A j \in Marks \ {k} : With(j)' = With(j)
  BY <1>0, <1>2, <1>3, SetsWith
<1>5. ask[c].old = (u \in With(k))
  BY <1>1, <1>2 DEF OldIsTrue, With
<1>6. counts' \in Counter /\ CountsAreMarks'
  <2>1. counts' = IF ask[c].old = on THEN counts
                  ELSE [counts EXCEPT ![k] = IF on THEN counts[k] + 1
                                             ELSE IF counts[k] = 0 THEN 0 ELSE counts[k] - 1]
    BY <1>2 DEF Flip, IntrShape, Counter, Marks
  <2> QED
    BY <1>0, <1>2, <1>4, <1>5, <2>1, FlipCounts
<1>7. /\ ask' = [ask EXCEPT ![c].at = "delCounts"]
      /\ \A d \in Calls \ {c} : ask'[d] = ask[d]
      /\ ask'[c] \in FlipCall /\ ask'[c].at = "delCounts"
  BY <1>1 DEF Flip, MoveTo, IntrShape, FlipCall
<1>8. IntrShape'
  BY <1>4, <1>6, <1>7 DEF IntrShape, Flip
\* Nobody else is about to flip for this user.
<1>9. \A d \in Calls \ {c} : Flipping(d) => ask[d].fan # u
  <2>1. mine[u].row \/ HasLocked(u) = {c}
    BY <1>2 DEF Flip
  <2>2. \A d \in Calls : Flipping(d) /\ ask[d].fan = u => d \in HasLocked(u)
    BY DEF HasLocked, Flipping, At
  <2> QED
    BY <1>1, <1>2, <2>1, <2>2 DEF OneFlips
<1>10. \A d \in Calls : Flipping(d)' =>
          /\ d # c /\ Flipping(d) /\ ask'[d] = ask[d] /\ ask[d] \in FlipCall
          /\ ask[d].fan \in Fans \ {u} /\ mine'[ask[d].fan] = mine[ask[d].fan]
  <2> SUFFICES ASSUME NEW d \in Calls, Flipping(d)'
               PROVE  /\ d # c /\ Flipping(d) /\ ask'[d] = ask[d] /\ ask[d] \in FlipCall
                      /\ ask[d].fan \in Fans \ {u} /\ mine'[ask[d].fan] = mine[ask[d].fan]
    OBVIOUS
  <2>1. d # c /\ ask'[d] = ask[d] /\ Flipping(d)
    BY <1>7 DEF Flipping
  <2>2. ask[d] \in FlipCall
    BY <2>1, OnlyFlipCallsFlip DEF IntrShape, Flipping
  <2>3. ask[d].fan \in Fans
    BY <2>2 DEF FlipCall
  <2> QED
    BY <1>4, <1>9, <2>1, <2>2, <2>3
<1>11. OldIsTrue' /\ OneFlips'
  BY <1>10 DEF OldIsTrue, OneFlips
<1> QED
  BY <1>6, <1>8, <1>11

LEMMA ReadOldKeeps ==
    ASSUME MarksInv, NEW c \in Calls, ReadOld(c)
    PROVE  MarksInv'
<1> USE DEF MarksInv
<1>1. ask[c] \in FlipCall /\ ask[c].at = "lockRow"
  BY OnlyFlipCallsFlip DEF ReadOld, At, IntrShape
<1>2. UNCHANGED <<intrTables, owed>>
  BY DEF ReadOld
<1>3. /\ \A d \in Calls \ {c} : ask'[d] = ask[d]
      /\ ask'[c] \in FlipCall
      /\ ask'[c].fan = ask[c].fan /\ ask'[c].mark = ask[c].mark
      /\ ask'[c].old = (ask[c].mark \in mine[ask[c].fan].marks)
      /\ ask' \in [Calls -> FlipCall \union OtherCall]
  <2>1. ask' = [ask EXCEPT ![c] = [ask[c] EXCEPT !.at = "flip",
                              !.old = ask[c].mark \in mine[ask[c].fan].marks]]
    BY DEF ReadOld, IntrShape
  <2>2. [ask[c] EXCEPT !.at = "flip",
                       !.old = ask[c].mark \in mine[ask[c].fan].marks] \in FlipCall
    <3>1. \A b \in BOOLEAN : [ask[c] EXCEPT !.at = "flip", !.old = b] \in FlipCall
      BY <1>1 DEF FlipCall
    <3>2. (ask[c].mark \in mine[ask[c].fan].marks) \in BOOLEAN
      OBVIOUS
    <3> QED
      BY <3>1, <3>2, Zenon
  <2> QED
    BY <1>1, <2>1, <2>2 DEF IntrShape, FlipCall
<1>4. IntrShape' /\ CountsAreMarks'
  BY <1>2, <1>3 DEF IntrShape, CountsAreMarks, intrTables
<1>5. OldIsTrue'
  BY <1>2, <1>3 DEF OldIsTrue, Flipping, intrTables
<1>6. \A d \in Calls \ {c} : Flipping(d) /\ ask[d].fan = ask[c].fan => ~ mine[ask[c].fan].row
  BY DEF ReadOld, HasLocked, At, Flipping
<1>7. OneFlips'
  <2> SUFFICES ASSUME NEW d \in Calls, NEW e \in Calls, d # e,
                      Flipping(d)', Flipping(e)', ask'[d].fan = ask'[e].fan
               PROVE  ~ mine[ask'[d].fan].row
    BY <1>2 DEF OneFlips, intrTables
  <2>1. CASE d # c /\ e # c
    BY <1>3, <2>1 DEF OneFlips, Flipping
  <2>2. CASE d = c
    BY <1>3, <1>6, <2>2 DEF Flipping
  <2>3. CASE e = c
    BY <1>3, <1>6, <2>3 DEF Flipping
  <2> QED
    BY <2>1, <2>2, <2>3
<1> QED
  BY <1>4, <1>5, <1>7

\* Whoever neither reads the old mark nor flips leaves the argument alone.
LEMMA OthersKeep ==
    ASSUME MarksInv, UNCHANGED mine, counts' \in Counter, owed' \in Int,
           \A k \in Marks : counts'[k] = counts[k],
           NEW c \in Calls, NEW r \in FlipCall \union OtherCall, r.at # "flip",
           ask' = [ask EXCEPT ![c] = r]
    PROVE  MarksInv'
<1> USE DEF MarksInv
<1>1. /\ ask' \in [Calls -> FlipCall \union OtherCall]
      /\ ask'[c] = r /\ \A d \in Calls \ {c} : ask'[d] = ask[d]
  BY DEF IntrShape
<1>2. IntrShape' /\ CountsAreMarks'
  BY <1>1 DEF IntrShape, CountsAreMarks
<1>3. \A d \in Calls : Flipping(d)' => d # c /\ Flipping(d) /\ ask'[d] = ask[d]
  BY <1>1 DEF Flipping
<1>4. OldIsTrue' /\ OneFlips'
  BY <1>3 DEF OldIsTrue, OneFlips
<1> QED
  BY <1>2, <1>4

LEMMA LookersLook ==
    ASSUME NEW r \in FlipCall \union OtherCall,
           r.at \in {"look", "keep", "lookState", "keepState"}
    PROVE  r \in LookCall
<1>1. r # NoCall
  BY DEF NoCall
<1>2. r \in CountCall => r.at \in {"count", "incr"}
  BY DEF CountCall
<1>3. r \in FlipCall => r.at \in {"lockRow", "flip", "delCounts", "delState"}
  BY DEF FlipCall
<1> QED
  BY <1>1, <1>2, <1>3 DEF OtherCall

LEMMA CountersCount ==
    ASSUME NEW r \in FlipCall \union OtherCall, r.at \in {"count", "incr"}
    PROVE  r \in CountCall /\ r.reads \in Nat \ {0}
<1>1. r # NoCall
  BY DEF NoCall
<1>2. r \notin FlipCall /\ r \notin LookCall
  BY DEF FlipCall, LookCall
<1>3. r \in CountCall
  BY <1>1, <1>2 DEF OtherCall
<1> QED
  BY <1>3 DEF CountCall

\* What a request that neither locks nor flips leaves behind.
Quiet(c) ==
    \E r \in FlipCall \union OtherCall :
        r.at # "flip" /\ ask' = [ask EXCEPT ![c] = r]

LEMMA QuietSteps ==
    ASSUME IntrShape, NEW c \in Calls,
           \/ Ask(c) \/ IntrFails(c) \/ DelCounts(c) \/ DelState(c) \/ CountRead(c)
           \/ IncrIfPresent(c) \/ Look(c) \/ Keep(c) \/ LookState(c) \/ KeepState(c)
    PROVE  Quiet(c)
<1>1. ask[c] \in FlipCall \union OtherCall
  BY DEF IntrShape
<1>2. \A u \in Fans : mine[u].marks \in SUBSET Marks
  BY DEF IntrShape
<1>3. NoCall \in OtherCall /\ NoCall.at # "flip"
  BY DEF OtherCall, NoCall
<1>4. CASE Ends(c)
  BY <1>3, <1>4 DEF Ends, Quiet
<1>5. CASE Ask(c)
  <2>1. \A k \in Clicks : k[1] \in Fans /\ k[2] \in Marks
    BY IntrAssumption
  <2>2. CASE \E k \in Clicks, on \in BOOLEAN :
               ask' = [ask EXCEPT ![c] = [at |-> "lockRow", fan |-> k[1], mark |-> k[2],
                                            on |-> on, old |-> FALSE]]
    <3>1. PICK k \in Clicks, on \in BOOLEAN :
            ask' = [ask EXCEPT ![c] = [at |-> "lockRow", fan |-> k[1], mark |-> k[2],
                                         on |-> on, old |-> FALSE]]
      BY <2>2
    <3>2. [at |-> "lockRow", fan |-> k[1], mark |-> k[2], on |-> on, old |-> FALSE] \in FlipCall
      BY <2>1 DEF FlipCall
    <3> QED
      BY <3>1, <3>2 DEF Quiet
  <2>3. CASE \E n \in 1 .. MaxReads - counts.read :
               ask' = [ask EXCEPT ![c] = [at |-> "count", reads |-> n]]
    <3>1. PICK n \in 1 .. MaxReads - counts.read :
            ask' = [ask EXCEPT ![c] = [at |-> "count", reads |-> n]]
      BY <2>3
    <3>2. n \in Nat \ {0}
      BY IntrAssumption DEF IntrShape, Counter
    <3>3. [at |-> "count", reads |-> n] \in OtherCall
      BY <3>2 DEF OtherCall, CountCall
    <3> QED
      BY <3>1, <3>3 DEF Quiet
  <2>4. CASE \E u \in Fans : ask' = [ask EXCEPT ![c] = [at |-> "look", fan |-> u,
                                                       val |-> Gone, owed |-> 0, own |-> {}]]
    <3>1. PICK u \in Fans : ask' = [ask EXCEPT ![c] = [at |-> "look", fan |-> u,
                                                       val |-> Gone, owed |-> 0, own |-> {}]]
      BY <2>4
    <3>2. [at |-> "look", fan |-> u, val |-> Gone, owed |-> 0, own |-> {}] \in LookCall
      BY DEF LookCall
    <3> QED
      BY <3>1, <3>2 DEF OtherCall, Quiet
  <2> QED
    BY <1>5, <2>2, <2>3, <2>4 DEF Ask
<1>6. CASE DelCounts(c)
  <2>1. ask[c] \in FlipCall
    BY <1>1, <1>6, OnlyFlipCallsFlip DEF DelCounts, At
  <2>2. [ask[c] EXCEPT !.at = "delState"] \in FlipCall
    BY <2>1 DEF FlipCall
  <2> QED
    BY <1>6, <2>1, <2>2 DEF DelCounts, MoveTo, Quiet, FlipCall
<1>7. CASE CountRead(c)
  <2>1. ask[c] \in CountCall
    <3>1. ask[c] # NoCall
      BY <1>7 DEF CountRead, At, NoCall
    <3>2. ask[c] \notin FlipCall /\ ask[c] \notin LookCall
      BY <1>7 DEF CountRead, At, FlipCall, LookCall
    <3> QED
      BY <1>1, <3>1, <3>2 DEF OtherCall
  <2>2. [ask[c] EXCEPT !.at = "incr"] \in CountCall /\ [ask[c] EXCEPT !.at = "incr"].at = "incr"
    BY <2>1 DEF CountCall
  <2> QED
    BY <1>7, <2>2 DEF CountRead, MoveTo, Quiet, OtherCall
<1>8. CASE Look(c)
  <2>1. ask[c] \in LookCall
    BY <1>1, <1>8, LookersLook DEF Look, At
  <2>2. Hit(counts) \in [hit : {TRUE}, val : Counter]
    BY DEF Hit, IntrShape
  <2>3. /\ [ask[c] EXCEPT !.at = "lookState"] \in LookCall
        /\ [ask[c] EXCEPT !.at = "lookState"].at = "lookState"
    BY <2>1 DEF LookCall
  <2>4. /\ [ask[c] EXCEPT !.at = "keep", !.val = Hit(counts), !.owed = owed] \in LookCall
        /\ [ask[c] EXCEPT !.at = "keep", !.val = Hit(counts), !.owed = owed].at = "keep"
    BY <2>1, <2>2 DEF LookCall, IntrShape
  <2>5. \/ ask' = [ask EXCEPT ![c] = [ask[c] EXCEPT !.at = "lookState"]]
        \/ ask' = [ask EXCEPT ![c] = [ask[c] EXCEPT !.at = "keep", !.val = Hit(counts), !.owed = owed]]
    BY <1>8 DEF Look, MoveTo, IntrShape
  <2> QED
    BY <2>3, <2>4, <2>5 DEF OtherCall, Quiet
<1>9. CASE Keep(c)
  <2>1. ask[c] \in LookCall
    BY <1>1, <1>9, LookersLook DEF Keep, At
  <2>2. /\ [ask[c] EXCEPT !.at = "lookState", !.val = Gone, !.owed = 0] \in LookCall
        /\ [ask[c] EXCEPT !.at = "lookState", !.val = Gone, !.owed = 0].at = "lookState"
    <3>1. PICK w : w = [ask[c] EXCEPT !.at = "lookState", !.val = Gone]
      OBVIOUS
    <3>2. w \in LookCall /\ w.at = "lookState"
      BY <2>1, <3>1 DEF LookCall
    <3>3. [w EXCEPT !.owed = 0] \in LookCall /\ [w EXCEPT !.owed = 0].at = "lookState"
      <4>1. PICK nothing \in Int : nothing = 0
        OBVIOUS
      <4>2. /\ [w EXCEPT !.owed = nothing] \in LookCall
            /\ [w EXCEPT !.owed = nothing].at = "lookState"
        BY <3>2 DEF LookCall
      <4> QED
        BY <4>1, <4>2
    <3>4. [ask[c] EXCEPT !.at = "lookState", !.val = Gone, !.owed = 0] = [w EXCEPT !.owed = 0]
      BY <3>1
    <3> QED
      BY <3>3, <3>4
  <2>3. ask' = [ask EXCEPT ![c] = [ask[c] EXCEPT !.at = "lookState", !.val = Gone, !.owed = 0]]
    BY <1>9 DEF Keep, IntrShape
  <2> QED
    BY <2>2, <2>3 DEF OtherCall, Quiet
<1>10. CASE LookState(c) /\ ~ Ends(c)
  <2>1. ask[c] \in LookCall
    BY <1>1, <1>10, LookersLook DEF LookState, At
  <2>2. mine[ask[c].fan].marks \in SUBSET Marks
    BY <1>2, <2>1 DEF LookCall
  <2>3. \A o \in SUBSET Marks :
          /\ [ask[c] EXCEPT !.at = "keepState", !.own = o] \in LookCall
          /\ [ask[c] EXCEPT !.at = "keepState", !.own = o].at = "keepState"
    BY <2>1 DEF LookCall
  <2>4. ask' = [ask EXCEPT ![c] = [ask[c] EXCEPT !.at = "keepState",
                                                !.own = mine[ask[c].fan].marks]]
    BY <1>10 DEF LookState, IntrShape
  <2> QED
    BY <2>2, <2>3, <2>4 DEF OtherCall, Quiet
<1> QED
  BY <1>4, <1>5, <1>6, <1>7, <1>8, <1>9, <1>10
     DEF IntrFails, DelState, IncrIfPresent, KeepState

LEMMA MarksStep == MarksInv /\ [IntrNext]_intrVars => MarksInv'
<1> SUFFICES ASSUME MarksInv, [IntrNext]_intrVars
             PROVE  MarksInv'
  OBVIOUS
<1>1. CASE UNCHANGED <<mine, counts, ask, owed>>
  BY <1>1 DEF MarksInv, IntrShape, OldIsTrue, OneFlips, Flipping, CountsAreMarks
<1>2. ASSUME NEW c \in Calls,
             \/ Ask(c) \/ IntrFails(c) \/ DelCounts(c) \/ DelState(c) \/ CountRead(c)
             \/ IncrIfPresent(c) \/ Look(c) \/ Keep(c) \/ LookState(c) \/ KeepState(c)
      PROVE  MarksInv'
  <2>1. PICK r \in FlipCall \union OtherCall :
          r.at # "flip" /\ ask' = [ask EXCEPT ![c] = r]
    BY <1>2, QuietSteps DEF MarksInv, Quiet
  <2>2. counts \in Counter /\ owed \in Int
    BY DEF MarksInv, IntrShape
  <2>3. CASE CountRead(c)
    <3>1. ask[c].reads \in Nat
      BY <2>3, CountersCount DEF CountRead, At, MarksInv, IntrShape
    <3>2. UNCHANGED mine /\ owed' = owed + ask[c].reads
          /\ counts' = [counts EXCEPT !.read = @ + ask[c].reads]
      BY <2>3 DEF CountRead
    <3>3. counts' \in Counter /\ owed' \in Int /\ \A k \in Marks : counts'[k] = counts[k]
      BY <2>2, <3>1, <3>2 DEF Counter, Marks
    <3> QED
      BY <2>1, <3>2, <3>3, OthersKeep
  <2>4. CASE ~ CountRead(c)
    <3>1. UNCHANGED <<mine, counts>>
      BY <1>2, <2>4 DEF Ask, IntrFails, DelCounts, DelState, IncrIfPresent, Look, Keep,
                  LookState, KeepState, intrTables
    <3>2. owed' \in Int
      <4>1. CASE IncrIfPresent(c)
        <5>1. ask[c].reads \in Nat
          BY <4>1, CountersCount DEF IncrIfPresent, At, MarksInv, IntrShape
        <5> QED
          BY <2>2, <4>1, <5>1 DEF IncrIfPresent
      <4>2. CASE ~ IncrIfPresent(c)
        BY <1>2, <2>2, <2>4, <4>2 DEF Ask, IntrFails, DelCounts, DelState, Look, Keep,
                  LookState, KeepState
      <4> QED
        BY <4>1, <4>2
    <3> QED
      BY <2>1, <2>2, <3>1, <3>2, OthersKeep
  <2> QED
    BY <2>3, <2>4
<1>3. ASSUME NEW c \in Calls, ReadOld(c) \/ Flip(c)
      PROVE  MarksInv'
  BY <1>3, ReadOldKeeps, FlipKeeps
<1>4. ASSUME ExpireCounts \/ \E u \in Fans : ExpireState(u)
      PROVE  MarksInv'
  BY <1>1, <1>4 DEF ExpireCounts, ExpireState, intrTables
<1> QED
  BY <1>1, <1>2, <1>3, <1>4 DEF IntrNext, intrVars, intrTables

LEMMA MarksInit == IntrInit => MarksInv
<1> SUFFICES ASSUME IntrInit
             PROVE  MarksInv
  OBVIOUS
<1>1. mine = [u \in Fans |-> NoRow] /\ counts = [like |-> 0, collect |-> 0, read |-> 0]
      /\ ask = [c \in Calls |-> NoCall] /\ owed = 0
  BY DEF IntrInit
<1>2. IntrShape
  <2>1. NoCall \in FlipCall \union OtherCall
    BY DEF OtherCall
  <2>2. NoRow \in [row : BOOLEAN, marks : SUBSET Marks]
    BY DEF NoRow
  <2>3. counts \in Counter
    BY <1>1 DEF Counter
  <2> QED
    BY <1>1, <2>1, <2>2, <2>3 DEF IntrShape
<1>3. \A c \in Calls : ~ Flipping(c)
  BY <1>1 DEF Flipping, NoCall
<1>4. CountsAreMarks
  <2>1. \A k \in Marks : With(k) = {}
    BY <1>1 DEF With, NoRow
  <2>2. \A k \in Marks : counts[k] = 0
    BY <1>1 DEF Marks
  <2> QED
    BY <2>1, <2>2, FS_EmptySet DEF CountsAreMarks, With
<1> QED
  BY <1>2, <1>3, <1>4 DEF MarksInv, OldIsTrue, OneFlips

\* The counters of likes and collects are the numbers of users whose row has the
\* mark, for any users and any requests in progress at a time: the SELECT FOR
\* UPDATE of the old mark covers the write and the +1 or -1 of the counter.
THEOREM MarksAreCounted == IntrSpec => []CountsAreMarks
<1>1. MarksInv => CountsAreMarks
  BY DEF MarksInv
<1> QED
  BY <1>1, MarksInit, MarksStep, PTL DEF IntrSpec

\* A flip turns the mark and its counter together, or changes neither.
LEMMA FlipTurns ==
    ASSUME MarksInv, NEW c \in Calls, Flip(c)
    PROVE  [Book!BookNext]_Book!bookVars
<1>0. IntrShape /\ CountsAreMarks /\ counts \in Counter
  BY DEF MarksInv, IntrShape
<1>1. ask[c] \in FlipCall /\ Flipping(c)
  BY <1>0, OnlyFlipCallsFlip DEF Flip, At, IntrShape, Flipping
<1>2. PICK u \in Fans, k \in Marks, on \in BOOLEAN :
        /\ u = ask[c].fan /\ k = ask[c].mark /\ on = ask[c].on
        /\ ask[c].old = (k \in mine[u].marks)
  BY <1>1 DEF FlipCall, MarksInv, OldIsTrue
<1> DEFINE Marked == [v \in Fans |-> mine[v].marks]
           Tally == [j \in Marks |-> counts[j]]
<1>3. /\ mine' \in [Fans -> [row : BOOLEAN, marks : SUBSET Marks]]
      /\ mine'[u].marks = IF on THEN mine[u].marks \union {k} ELSE mine[u].marks \ {k}
      /\ \A v \in Fans \ {u} : mine'[v] = mine[v]
  BY <1>0, <1>2 DEF Flip, IntrShape
<1>4. Marked' = [Marked EXCEPT ![u] = IF on THEN @ \union {k} ELSE @ \ {k}]
  BY <1>3
<1>5. counts' = IF (k \in mine[u].marks) = on THEN counts
                ELSE [counts EXCEPT ![k] = IF on THEN counts[k] + 1
                                           ELSE IF counts[k] = 0 THEN 0 ELSE counts[k] - 1]
  BY <1>0, <1>2 DEF Flip, Counter, Marks
<1>6. CASE (k \in mine[u].marks) = on
  <2>1. Marked' = Marked
    <3>1. mine'[u].marks = mine[u].marks
      BY <1>3, <1>6
    <3>2. \A v \in Fans : mine'[v].marks = mine[v].marks
      BY <1>3, <3>1
    <3> QED
      BY <3>2
  <2>2. counts' = counts
    BY <1>5, <1>6
  <2> QED
    <3>1. UNCHANGED <<Marked, Tally, counts.read>>
      BY <2>1, <2>2
    <3> HIDE DEF Marked, Tally
    <3> QED
      BY <3>1 DEF Book!bookVars, Marked, Tally
<1>7. CASE on /\ k \notin mine[u].marks
  <2>1. counts' = [counts EXCEPT ![k] = counts[k] + 1]
    BY <1>5, <1>7
  <2>2. Tally' = [Tally EXCEPT ![k] = @ + 1] /\ UNCHANGED counts.read
    BY <1>0, <2>1 DEF Counter, Marks
  <2>3. Marked' = [Marked EXCEPT ![u] = @ \union {k}]
    BY <1>4, <1>7
  <2>4. Book!TurnOn(u, k)
    BY <1>7, <2>2, <2>3 DEF Book!TurnOn
  <2> QED
    BY <2>4 DEF Book!BookNext
<1>8. CASE ~ on /\ k \in mine[u].marks
  \* The user is among those counted, and so the counter is not 0.
  <2>1. counts[k] # 0
    <3>1. IsFiniteSet(With(k)) /\ u \in With(k) /\ counts[k] = Cardinality(With(k))
      BY <1>0, <1>8, FS_Subset, IntrAssumption DEF With, CountsAreMarks
    <3> QED
      BY <3>1, FS_EmptySet
  <2>2. counts' = [counts EXCEPT ![k] = counts[k] - 1]
    BY <1>5, <1>8, <2>1
  <2>3. Tally' = [Tally EXCEPT ![k] = @ - 1] /\ UNCHANGED counts.read
    BY <1>0, <2>2 DEF Counter, Marks
  <2>4. Marked' = [Marked EXCEPT ![u] = @ \ {k}]
    BY <1>4, <1>8
  <2>5. Book!TurnOff(u, k)
    BY <1>8, <2>3, <2>4 DEF Book!TurnOff
  <2> QED
    BY <2>5 DEF Book!BookNext
<1> QED
  BY <1>6, <1>7, <1>8

\* Interaction implements MarkBook: whatever requests overlap, fail and repeat
\* themselves, a mark turns together with its counter and at no other time.
THEOREM InteractionImplementsBook == IntrSpec => ImplementsBook
<1>1. IntrInit => Book!BookInit
  BY DEF IntrInit, NoRow, Marks, Book!BookInit
<1>2. MarksInv /\ [IntrNext]_intrVars => [Book!BookNext]_Book!bookVars
  <2> SUFFICES ASSUME MarksInv, [IntrNext]_intrVars
               PROVE  [Book!BookNext]_Book!bookVars
    OBVIOUS
  <2>1. CASE UNCHANGED intrTables
    BY <2>1 DEF intrTables, Book!bookVars
  <2>2. ASSUME NEW c \in Calls, Flip(c)
        PROVE  [Book!BookNext]_Book!bookVars
    BY <2>2, FlipTurns
  <2>3. ASSUME NEW c \in Calls, CountRead(c)
        PROVE  [Book!BookNext]_Book!bookVars
    <3>1. counts \in Counter /\ ask[c].reads \in Nat \ {0}
      BY <2>3, CountersCount DEF CountRead, At, MarksInv, IntrShape
    <3>2. counts' = [counts EXCEPT !.read = counts.read + ask[c].reads] /\ mine' = mine
      BY <2>3, <3>1 DEF CountRead
    <3>3. counts'.read = counts.read + ask[c].reads /\ \A k \in Marks : counts'[k] = counts[k]
      BY <3>1, <3>2 DEF Counter, Marks
    <3>4. counts.read \in Nat /\ counts'.read > counts.read
      BY <3>1, <3>3 DEF Counter
    <3>5. Book!Read
      BY <3>2, <3>3, <3>4 DEF Book!Read
    <3> QED
      BY <3>5 DEF Book!BookNext
  <2>4. ASSUME NEW c \in Calls,
               \/ Ask(c) \/ ReadOld(c) \/ IntrFails(c) \/ DelCounts(c) \/ DelState(c)
               \/ IncrIfPresent(c) \/ Look(c) \/ Keep(c) \/ LookState(c) \/ KeepState(c)
        PROVE  UNCHANGED intrTables
    BY <2>4 DEF Ask, ReadOld, IntrFails, DelCounts, DelState, IncrIfPresent, Look, Keep,
                LookState, KeepState
  <2>5. ASSUME ExpireCounts \/ \E u \in Fans : ExpireState(u)
        PROVE  UNCHANGED intrTables
    BY <2>5 DEF ExpireCounts, ExpireState
  <2> QED
    BY <2>1, <2>2, <2>3, <2>4, <2>5 DEF IntrNext, intrVars
<1> QED
  BY <1>1, <1>2, MarksInit, MarksStep, PTL DEF IntrSpec, ImplementsBook, Book!BookSpec

-----------------------------------------------------------------------------
(* The caches of likes, collects and reads.                                *)

Kept == [hit : {TRUE}, val : Counter]

CacheShape ==
    /\ countCache \in {Gone} \union Kept
    /\ stateCache \in [Fans -> {Gone} \union [hit : {TRUE}, val : SUBSET Marks]]
    /\ spoilt \subseteq Marks /\ spoiltFans \subseteq Fans /\ early \in Int
    /\ \A c \in Calls : At(c, "keep") => ask[c].val \in Kept /\ ask[c].owed \in Int
    /\ \A u \in Fans : mine[u].row \/ mine[u].marks = {}

MarksCached ==
    \A k \in Marks : countCache.hit /\ countCache.val[k] # counts[k] =>
        k \in spoilt \/ \E c \in Calls : At(c, "delCounts")

Clears(c, u) == ask[c].at \in {"delCounts", "delState"} /\ ask[c].fan = u
OwnCached ==
    \A u \in Fans : stateCache[u].hit /\ stateCache[u].val # mine[u].marks =>
        u \in spoiltFans \/ \E c \in Calls : Clears(c, u)

\* The reads the cache may have heard of; a counter of reads, cached or about to
\* be, is beyond them by no more than what had been owed to it when it was read.
Told == counts.read - owed
ReadsCached ==
    /\ countCache.hit => countCache.val.read <= Told + early
    /\ \A c \in Calls : At(c, "keep") => ask[c].val.val.read <= Told + ask[c].owed

CacheInv == IntrShape /\ CacheShape /\ MarksCached /\ OwnCached /\ ReadsCached

\* One step of one call, and what the step does to the call.
CallActs(c) ==
    \/ Ask(c) \/ ReadOld(c) \/ Flip(c) \/ IntrFails(c) \/ DelCounts(c) \/ DelState(c)
    \/ CountRead(c) \/ IncrIfPresent(c)
    \/ Look(c) \/ Keep(c) \/ LookState(c) \/ KeepState(c)

LEMMA OneCallActs ==
    ASSUME IntrShape, NEW c \in Calls, CallActs(c)
    PROVE  \A d \in Calls \ {c} : ask'[d] = ask[d]
BY DEF IntrShape, CallActs, Ask, ReadOld, Flip, IntrFails, DelCounts, DelState, CountRead,
       IncrIfPresent, Look, Keep, LookState, KeepState, Ends, MoveTo

\* Where a call is before and after each of its steps.
LEMMA WhereCallsGo ==
    ASSUME IntrShape, NEW c \in Calls
    PROVE  /\ Ask(c) => ask[c].at = "idle" /\ ask'[c].at \in {"lockRow", "count", "look"}
           /\ ReadOld(c) => ask[c].at = "lockRow" /\ ask'[c].at = "flip"
           /\ Flip(c) => /\ ask[c].at = "flip" /\ ask'[c].at = "delCounts"
                         /\ ask'[c].fan = ask[c].fan
           /\ DelCounts(c) => /\ ask[c].at = "delCounts" /\ ask'[c].at = "delState"
                              /\ ask'[c].fan = ask[c].fan
           /\ CountRead(c) => ask[c].at = "count" /\ ask'[c].at = "incr"
           /\ DelState(c) => ask[c].at = "delState" /\ ask'[c].at = "idle"
           /\ IncrIfPresent(c) => ask[c].at = "incr" /\ ask'[c].at = "idle"
           /\ IntrFails(c) => /\ ask[c].at \in {"lockRow", "flip", "count", "look", "lookState"}
                              /\ ask'[c].at = "idle"
           /\ Look(c) => /\ ask[c].at = "look"
                         /\ IF countCache.hit THEN ask'[c].at = "lookState"
                            ELSE /\ ask'[c].at = "keep" /\ ask'[c].val = Hit(counts)
                                 /\ ask'[c].owed = owed
           /\ Keep(c) => ask[c].at = "keep" /\ ask'[c].at = "lookState"
           /\ LookState(c) => ask[c].at = "lookState" /\ ask'[c].at \in {"idle", "keepState"}
           /\ KeepState(c) => ask[c].at = "keepState" /\ ask'[c].at = "idle"
<1> USE DEF IntrShape, At, Ends, MoveTo, NoCall
<1>1. /\ Ask(c) => ask[c].at = "idle" /\ ask'[c].at \in {"lockRow", "count", "look"}
      /\ ReadOld(c) => ask[c].at = "lockRow" /\ ask'[c].at = "flip"
      /\ CountRead(c) => ask[c].at = "count" /\ ask'[c].at = "incr"
  <2>1. Ask(c) => ask[c].at = "idle" /\ ask'[c].at \in {"lockRow", "count", "look"}
    BY DEF Ask
  <2>2. CountRead(c) => ask[c].at = "count" /\ ask'[c].at = "incr"
    BY DEF CountRead
  <2>3. ReadOld(c) => ask[c].at = "lockRow" /\ ask'[c].at = "flip"
    <3> SUFFICES ASSUME ReadOld(c)
                 PROVE  ask[c].at = "lockRow" /\ ask'[c].at = "flip"
      OBVIOUS
    <3>1. ask[c].at = "lockRow"
          /\ ask' = [ask EXCEPT ![c].at = "flip",
                                ![c].old = ask[c].mark \in mine[ask[c].fan].marks]
      BY DEF ReadOld
    <3>2. ask[c] \in FlipCall
      BY <3>1, OnlyFlipCallsFlip
    <3>3. ask'[c] = [ask[c] EXCEPT !.at = "flip",
                                   !.old = ask[c].mark \in mine[ask[c].fan].marks]
      BY <3>1
    <3> QED
      BY <3>1, <3>2, <3>3 DEF FlipCall
  <2> QED
    BY <2>1, <2>2, <2>3
<1>2. Flip(c) => /\ ask[c].at = "flip" /\ ask'[c].at = "delCounts"
                 /\ ask'[c].fan = ask[c].fan
  <2> SUFFICES ASSUME Flip(c)
               PROVE  /\ ask[c].at = "flip" /\ ask'[c].at = "delCounts"
                      /\ ask'[c].fan = ask[c].fan
    OBVIOUS
  <2>1. ask[c].at = "flip" /\ ask' = [ask EXCEPT ![c].at = "delCounts"]
    BY DEF Flip
  <2>2. ask[c] \in FlipCall
    BY <2>1, OnlyFlipCallsFlip
  <2> QED
    BY <2>1, <2>2 DEF FlipCall
<1>3. DelCounts(c) => /\ ask[c].at = "delCounts" /\ ask'[c].at = "delState"
                      /\ ask'[c].fan = ask[c].fan
  BY OnlyFlipCallsFlip DEF DelCounts, FlipCall
<1>4. /\ DelState(c) => ask[c].at = "delState" /\ ask'[c].at = "idle"
      /\ IncrIfPresent(c) => ask[c].at = "incr" /\ ask'[c].at = "idle"
      /\ IntrFails(c) => /\ ask[c].at \in {"lockRow", "flip", "count", "look", "lookState"}
                         /\ ask'[c].at = "idle"
      /\ KeepState(c) => ask[c].at = "keepState" /\ ask'[c].at = "idle"
  BY DEF DelState, IncrIfPresent, IntrFails, KeepState
<1>5. Look(c) => /\ ask[c].at = "look"
                 /\ IF countCache.hit THEN ask'[c].at = "lookState"
                    ELSE /\ ask'[c].at = "keep" /\ ask'[c].val = Hit(counts)
                         /\ ask'[c].owed = owed
  <2> SUFFICES ASSUME Look(c)
               PROVE  /\ ask[c].at = "look"
                      /\ IF countCache.hit THEN ask'[c].at = "lookState"
                         ELSE /\ ask'[c].at = "keep" /\ ask'[c].val = Hit(counts)
                              /\ ask'[c].owed = owed
    OBVIOUS
  <2>1. ask[c].at = "look"
        /\ IF countCache.hit THEN ask' = [ask EXCEPT ![c].at = "lookState"]
           ELSE ask' = [ask EXCEPT ![c].at = "keep", ![c].val = Hit(counts), ![c].owed = owed]
    BY DEF Look
  <2>2. ask[c] \in LookCall
    BY <2>1, LookersLook
  <2>3. CASE countCache.hit
    BY <2>1, <2>2, <2>3 DEF LookCall
  <2>4. CASE ~ countCache.hit
    <3>1. ask' = [ask EXCEPT ![c] = [ask[c] EXCEPT !.at = "keep", !.val = Hit(counts), !.owed = owed]]
      BY <2>1, <2>4
    <3>2. ask'[c] = [ask[c] EXCEPT !.at = "keep", !.val = Hit(counts), !.owed = owed]
      BY <3>1
    <3> QED
      BY <2>1, <2>2, <2>4, <3>2 DEF LookCall
  <2> QED
    BY <2>3, <2>4
<1>6. Keep(c) => ask[c].at = "keep" /\ ask'[c].at = "lookState"
  BY LookersLook DEF Keep, LookCall
<1>7. LookState(c) => ask[c].at = "lookState" /\ ask'[c].at \in {"idle", "keepState"}
  <2> SUFFICES ASSUME LookState(c), ~ Ends(c)
               PROVE  ask[c].at = "lookState" /\ ask'[c].at = "keepState"
    BY DEF LookState
  <2>1. ask[c].at = "lookState"
        /\ ask' = [ask EXCEPT ![c].at = "keepState", ![c].own = mine[ask[c].fan].marks]
    BY DEF LookState
  <2>2. ask[c] \in LookCall
    BY <2>1, LookersLook
  <2>3. ask'[c] = [ask[c] EXCEPT !.at = "keepState", !.own = mine[ask[c].fan].marks]
    BY <2>1
  <2> QED
    BY <2>1, <2>2, <2>3 DEF LookCall
<1> QED
  BY <1>1, <1>2, <1>3, <1>4, <1>5, <1>6, <1>7

LEMMA CountsStep ==
    ASSUME IntrShape, NEW c \in Calls, CallActs(c)
    PROVE  /\ \A k \in Marks : counts'[k] # counts[k] => Flip(c)
           /\ counts'.read = IF CountRead(c) THEN counts.read + ask[c].reads ELSE counts.read
           /\ owed' = IF CountRead(c) THEN owed + ask[c].reads
                      ELSE IF IncrIfPresent(c) THEN owed - ask[c].reads ELSE owed
           /\ CountRead(c) \/ IncrIfPresent(c) => ask[c].reads \in Nat \ {0}
<1>1. counts \in Counter
  BY DEF IntrShape
<1>0. CountRead(c) \/ IncrIfPresent(c) => ask[c].reads \in Nat \ {0}
  BY CountersCount DEF CountRead, IncrIfPresent, At, IntrShape
<1>5. IncrIfPresent(c) => ~ CountRead(c)
  BY DEF CountRead, IncrIfPresent, At
<1>2. CASE Flip(c)
  <2>1. ask[c].mark \in Marks /\ ask[c].at = "flip"
    BY <1>2, OnlyFlipCallsFlip DEF Flip, At, FlipCall, IntrShape
  <2>2. counts'.read = counts.read
    BY <1>1, <1>2, <2>1 DEF Flip, Counter, Marks
  <2> QED
    BY <1>0, <1>2, <2>1, <2>2 DEF Flip, CountRead, IncrIfPresent, At
<1>3. CASE CountRead(c)
  BY <1>0, <1>1, <1>3 DEF CountRead, Counter, Marks
<1>4. CASE ~ Flip(c) /\ ~ CountRead(c)
  <2>1. UNCHANGED counts
    BY <1>4 DEF CallActs, Ask, ReadOld, IntrFails, DelCounts, DelState, IncrIfPresent, Look,
                Keep, LookState, KeepState, intrTables
  <2>2. owed' = IF IncrIfPresent(c) THEN owed - ask[c].reads ELSE owed
    BY <1>4 DEF CallActs, Ask, ReadOld, IntrFails, DelCounts, DelState, IncrIfPresent, Look,
                Keep, LookState, KeepState
  <2> QED
    BY <1>0, <1>4, <2>1, <2>2
<1> QED
  BY <1>2, <1>3, <1>4

\* What the cache may have heard of never falls, and rises when it is told.
LEMMA ToldStep ==
    ASSUME IntrShape, NEW c \in Calls, CallActs(c)
    PROVE  /\ Told \in Int /\ Told' \in Int /\ Told <= Told'
           /\ IncrIfPresent(c) => /\ ask[c].reads \in Nat
                                  /\ Told' = Told + ask[c].reads
<1>1. counts.read \in Nat /\ owed \in Int
  BY DEF IntrShape, Counter
<1>2. IncrIfPresent(c) => ~ CountRead(c)
  BY DEF CountRead, IncrIfPresent, At
<1> QED
  BY <1>1, <1>2, CountsStep DEF Told

\* Which steps of a call write to the caches.
LEMMA CachesStand ==
    ASSUME NEW c \in Calls, CallActs(c)
    PROVE  /\ \/ DelCounts(c) \/ IncrIfPresent(c) \/ Keep(c)
              \/ UNCHANGED <<countCache, spoilt, early>>
           /\ DelState(c) \/ KeepState(c) \/ UNCHANGED <<stateCache, spoiltFans>>
           /\ Flip(c) \/ UNCHANGED mine
BY DEF CallActs, Ask, ReadOld, Flip, IntrFails, DelCounts, DelState, CountRead, IncrIfPresent,
       Look, Keep, LookState, KeepState, intrTables, intrCaches

LEMMA CacheShapeStep ==
    ASSUME IntrShape, IntrShape', CacheShape, NEW c \in Calls, CallActs(c)
    PROVE  CacheShape'
<1> USE DEF CacheShape
<1>1. countCache' \in {Gone} \union Kept /\ spoilt' \subseteq Marks /\ early' \in Int
  <2>1. CASE IncrIfPresent(c)
    <3>1. CASE countCache.hit /\ countCache' = [countCache EXCEPT !.val.read = @ + ask[c].reads]
      <4>1. countCache \in Kept /\ ask[c].reads \in Nat
        BY <2>1, <3>1, ToldStep DEF Gone
      <4>2. [countCache EXCEPT !.val.read = @ + ask[c].reads] \in Kept
        <5>1. [countCache.val EXCEPT !.read = @ + ask[c].reads] \in Counter
          BY <4>1 DEF Kept, Counter
        <5> QED
          BY <4>1, <5>1 DEF Kept
      <4> QED
        BY <2>1, <3>1, <4>2 DEF IncrIfPresent
    <3> QED
      BY <2>1, <3>1 DEF IncrIfPresent
  <2>2. CASE Keep(c) \/ DelCounts(c)
    BY <2>2 DEF Keep, DelCounts, At
  <2> QED
    BY <2>1, <2>2, CachesStand
<1>2. /\ stateCache' \in [Fans -> {Gone} \union [hit : {TRUE}, val : SUBSET Marks]]
      /\ spoiltFans' \subseteq Fans
  <2>1. CASE KeepState(c)
    <3>1. ask[c] \in LookCall
      BY <2>1, LookersLook DEF KeepState, At, IntrShape
    <3>2. /\ ask[c].fan \in Fans
          /\ Hit(ask[c].own) \in [hit : {TRUE}, val : SUBSET Marks]
      BY <3>1 DEF LookCall, Hit
    <3>3. CASE stateCache' = [stateCache EXCEPT ![ask[c].fan] = Hit(ask[c].own)]
      <4>1. spoiltFans' \subseteq spoiltFans \union {ask[c].fan}
        BY <2>1 DEF KeepState
      <4> QED
        BY <3>2, <3>3, <4>1
    <3> QED
      BY <2>1, <3>3 DEF KeepState
  <2>2. CASE DelState(c)
    <3>1. ask[c].fan \in Fans
      BY <2>2, OnlyFlipCallsFlip DEF DelState, At, FlipCall, IntrShape
    <3> QED
      BY <2>2, <3>1 DEF DelState
  <2> QED
    BY <2>1, <2>2, CachesStand
<1>3. \A d \in Calls : At(d, "keep")' => ask'[d].val \in Kept /\ ask'[d].owed \in Int
  <2>1. \A d \in Calls \ {c} : At(d, "keep")' => ask'[d].val \in Kept /\ ask'[d].owed \in Int
    BY OneCallActs DEF At
  <2>2. At(c, "keep")' => ask'[c].val = Hit(counts) /\ ask'[c].owed = owed
    BY WhereCallsGo DEF CallActs, At
  <2>3. Hit(counts) \in Kept /\ owed \in Int
    BY DEF Hit, Kept, IntrShape
  <2> QED
    BY <2>1, <2>2, <2>3
<1>4. \A u \in Fans : mine'[u].row \/ mine'[u].marks = {}
  <2>1. CASE Flip(c)
    BY <2>1 DEF Flip, IntrShape
  <2> QED
    BY <2>1, CachesStand
<1> QED
  BY <1>1, <1>2, <1>3, <1>4

LEMMA MarksCachedStep ==
    ASSUME IntrShape, CacheShape, MarksCached, NEW c \in Calls, CallActs(c)
    PROVE  MarksCached'
<1> SUFFICES ASSUME NEW k \in Marks, countCache'.hit, countCache'.val[k] # counts'[k]
             PROVE  k \in spoilt' \/ \E d \in Calls : ask'[d].at = "delCounts"
  BY DEF MarksCached, At
<1>1. CASE Flip(c)
  BY <1>1, WhereCallsGo
<1>2. CASE DelCounts(c)
  BY <1>2 DEF DelCounts, Gone
<1>3. CASE Keep(c)
  <2>1. counts'[k] = counts[k]
    BY <1>3, CountsStep DEF Keep, Flip, At
  <2>2. CASE countCache' = ask[c].val /\ spoilt' = {j \in Marks : ask[c].val.val[j] # counts[j]}
    BY <2>1, <2>2
  <2>3. CASE UNCHANGED <<countCache, spoilt>>
    <3>1. \A d \in Calls : At(d, "delCounts") => ask'[d].at = "delCounts"
      BY <1>3, OneCallActs DEF Keep, At
    <3> QED
      BY <2>1, <2>3, <3>1 DEF MarksCached
  <2> QED
    BY <1>3, <2>2, <2>3 DEF Keep
<1>4. CASE ~ Flip(c) /\ ~ DelCounts(c) /\ ~ Keep(c)
  <2>1. counts'[k] = counts[k]
    BY <1>4, CountsStep
  <2>2. spoilt' = spoilt /\ countCache.hit /\ countCache'.val[k] = countCache.val[k]
    <3>1. CASE countCache.hit /\ countCache' = [countCache EXCEPT !.val.read = @ + ask[c].reads]
      <4>1. countCache \in Kept
        BY <3>1 DEF CacheShape, Gone
      <4>2. countCache'.val = [countCache.val EXCEPT !.read = @ + ask[c].reads]
        BY <3>1, <4>1 DEF Kept
      <4>3. countCache.val \in Counter
        BY <4>1 DEF Kept
      <4>4. countCache'.val[k] = countCache.val[k]
        BY <4>2, <4>3 DEF Counter, Marks
      <4> QED
        BY <1>4, <3>1, <4>4, CachesStand DEF IncrIfPresent
    <3> QED
      BY <1>4, <3>1, CachesStand DEF IncrIfPresent
  <2>3. \A d \in Calls : At(d, "delCounts") => ask'[d].at = "delCounts"
    BY <1>4, OneCallActs, WhereCallsGo DEF CallActs, At
  <2> QED
    BY <2>1, <2>2, <2>3 DEF MarksCached
<1> QED
  BY <1>1, <1>2, <1>3, <1>4

LEMMA OwnCachedStep ==
    ASSUME IntrShape, CacheShape, OwnCached, NEW c \in Calls, CallActs(c)
    PROVE  OwnCached'
<1> SUFFICES ASSUME NEW u \in Fans, stateCache'[u].hit, stateCache'[u].val # mine'[u].marks
             PROVE  u \in spoiltFans' \/ \E d \in Calls : Clears(d, u)'
  BY DEF OwnCached
<1>1. CASE Flip(c)
  <2>1. CASE u = ask[c].fan
    <3>1. Clears(c, u)'
      BY <1>1, <2>1, WhereCallsGo DEF Clears
    <3> QED
      BY <3>1
  <2>2. CASE u # ask[c].fan
    <3>1. mine'[u] = mine[u] /\ UNCHANGED <<stateCache, spoiltFans>>
      BY <1>1, <2>2 DEF Flip, IntrShape, intrCaches
    <3>2. \A d \in Calls : Clears(d, u) => Clears(d, u)'
      BY <1>1, <2>2, OneCallActs DEF Clears
    <3> QED
      BY <3>1, <3>2 DEF OwnCached
  <2> QED
    BY <2>1, <2>2
<1>2. CASE DelState(c)
  <2>1. mine' = mine
    BY <1>2 DEF DelState, intrTables
  <2>2. CASE u = ask[c].fan
    BY <1>2, <2>1, <2>2 DEF DelState, OwnCached, CacheShape, Gone
  <2>3. CASE u # ask[c].fan
    <3>1. stateCache'[u] = stateCache[u] /\ (u \in spoiltFans => u \in spoiltFans')
      BY <1>2, <2>3 DEF DelState, CacheShape
    <3>2. \A d \in Calls : Clears(d, u) => Clears(d, u)'
      BY <2>3, OneCallActs DEF Clears
    <3> QED
      BY <2>1, <3>1, <3>2 DEF OwnCached
  <2> QED
    BY <2>2, <2>3
<1>3. CASE KeepState(c)
  <2>1. mine' = mine
    BY <1>3 DEF KeepState, intrTables
  <2>2. \A d \in Calls : Clears(d, u) => Clears(d, u)'
    BY <1>3, OneCallActs DEF Clears, KeepState, At
  <2>3. CASE /\ u = ask[c].fan /\ stateCache' = [stateCache EXCEPT ![u] = Hit(ask[c].own)]
             /\ ask[c].own # mine[u].marks => spoiltFans' = spoiltFans \union {u}
    <3>1. stateCache'[u].val = ask[c].own
      BY <2>3 DEF CacheShape, Hit
    <3>2. u \in spoiltFans'
      BY <2>1, <2>3, <3>1
    <3> QED
      BY <3>2
  <2>4. CASE u # ask[c].fan \/ UNCHANGED <<stateCache, spoiltFans>>
    <3>1. stateCache'[u] = stateCache[u] /\ (u \in spoiltFans => u \in spoiltFans')
      BY <1>3, <2>4 DEF KeepState, CacheShape
    <3> QED
      BY <2>1, <2>2, <3>1 DEF OwnCached
  <2> QED
    BY <1>3, <2>3, <2>4 DEF KeepState
<1>4. CASE ~ Flip(c) /\ ~ DelState(c) /\ ~ KeepState(c)
  <2>1. UNCHANGED <<mine, stateCache, spoiltFans>>
    BY <1>4, CachesStand
  <2>2. \A d \in Calls : Clears(d, u) => Clears(d, u)'
    <3>1. Clears(c, u) => Clears(c, u)'
      BY <1>4, WhereCallsGo DEF CallActs, Clears
    <3> QED
      BY <3>1, OneCallActs DEF Clears
  <2> QED
    BY <2>1, <2>2 DEF OwnCached
<1> QED
  BY <1>1, <1>2, <1>3, <1>4

LEMMA ReadsCachedStep ==
    ASSUME IntrShape, CacheShape, ReadsCached, NEW c \in Calls, CallActs(c)
    PROVE  ReadsCached'
<1>1. /\ Told \in Int /\ Told' \in Int /\ Told <= Told'
      /\ IncrIfPresent(c) => ask[c].reads \in Nat /\ Told' = Told + ask[c].reads
  BY ToldStep
<1>2. \A v \in Kept, n \in Int : v.val.read <= Told + n => v.val.read <= Told' + n
  <2>1. \A v \in Kept : v.val.read \in Nat
    BY DEF Kept, Counter
  <2> QED
    BY <1>1, <2>1
<1>3. \A d \in Calls : At(d, "keep") =>
          ask[d].val \in Kept /\ ask[d].owed \in Int /\ ask[d].val.val.read <= Told + ask[d].owed
  BY DEF CacheShape, ReadsCached
<1>4. early \in Int /\ (countCache.hit => countCache \in Kept /\ countCache.val.read <= Told + early)
  BY DEF CacheShape, ReadsCached, Gone
<1>5. ASSUME countCache'.hit
      PROVE  countCache'.val.read <= Told' + early'
  <2>1. CASE countCache' = countCache /\ early' = early
    BY <1>2, <1>4, <1>5, <2>1
  <2>2. CASE Keep(c) /\ countCache' = ask[c].val /\ early' = ask[c].owed
    BY <1>2, <1>3, <2>2 DEF Keep
  <2>3. CASE /\ IncrIfPresent(c) /\ countCache.hit /\ early' = early
             /\ countCache' = [countCache EXCEPT !.val.read = @ + ask[c].reads]
    <3>1. /\ countCache.val \in Counter
          /\ countCache'.val = [countCache.val EXCEPT !.read = @ + ask[c].reads]
      BY <1>4, <2>3 DEF Kept
    <3>2. countCache'.val.read = countCache.val.read + ask[c].reads /\ countCache.val.read \in Nat
      BY <3>1 DEF Counter
    <3> QED
      BY <1>1, <1>4, <2>3, <3>2
  <2>4. CASE DelCounts(c) /\ countCache' = Gone
    BY <1>5, <2>4 DEF Gone
  <2> QED
    BY <2>1, <2>2, <2>3, <2>4, CachesStand DEF Keep, IncrIfPresent, DelCounts
<1>6. ASSUME NEW d \in Calls, ask'[d].at = "keep"
      PROVE  ask'[d].val.val.read <= Told' + ask'[d].owed
  <2>1. CASE d # c
    <3>1. ask'[d] = ask[d]
      BY <2>1, OneCallActs
    <3> QED
      BY <1>2, <1>3, <1>6, <3>1 DEF At
  <2>2. CASE d = c
    <3>1. Look(c) /\ ask'[c].val.val = counts /\ ask'[c].owed = owed
      BY <1>6, <2>2, WhereCallsGo DEF CallActs, Hit
    <3>2. counts.read \in Nat /\ owed \in Int
      BY DEF IntrShape, Counter
    <3> QED
      BY <1>1, <2>2, <3>1, <3>2 DEF Told
  <2> QED
    BY <2>1, <2>2
<1> QED
  BY <1>5, <1>6 DEF ReadsCached, At

LEMMA CacheStep == MarksInv /\ CacheInv /\ [IntrNext]_intrVars => MarksInv' /\ CacheInv'
<1> SUFFICES ASSUME MarksInv, CacheInv, [IntrNext]_intrVars
             PROVE  MarksInv' /\ CacheInv'
  OBVIOUS
<1>1. MarksInv' /\ IntrShape'
  BY MarksStep DEF MarksInv
<1>2. CASE UNCHANGED intrVars
  <2>1. UNCHANGED <<mine, counts, ask, countCache, stateCache, spoilt, spoiltFans,
                  owed, early>>
    BY <1>2 DEF intrVars, intrTables, intrCaches
  <2>2. CacheShape' /\ MarksCached' /\ OwnCached'
    BY <2>1 DEF CacheInv, CacheShape, MarksCached, OwnCached, Clears, At
  <2>3. ReadsCached'
    BY <2>1 DEF CacheInv, ReadsCached, Told, At
  <2> QED
    BY <1>1, <2>2, <2>3 DEF CacheInv
<1>3. ASSUME NEW c \in Calls, CallActs(c)
      PROVE  CacheInv'
  BY <1>1, <1>3, CacheShapeStep, MarksCachedStep, OwnCachedStep, ReadsCachedStep DEF CacheInv
<1>4. CASE ExpireCounts
  <2>1. /\ UNCHANGED <<mine, counts, ask, stateCache, spoiltFans, owed>>
        /\ countCache' = Gone /\ spoilt' = {} /\ early' = 0 /\ ~ countCache'.hit
    BY <1>4 DEF ExpireCounts, intrTables, Gone
  <2>0. CacheShape
    BY DEF CacheInv
  <2>2. CacheShape'
    <3>1. \A c \in Calls : At(c, "keep")' => ask'[c].val \in Kept /\ ask'[c].owed \in Int
      BY <2>0, <2>1 DEF CacheShape, At
    <3>2. /\ stateCache' \in [Fans -> {Gone} \union [hit : {TRUE}, val : SUBSET Marks]]
          /\ spoilt' \subseteq Marks /\ spoiltFans' \subseteq Fans /\ early' \in Int
      <4>1. early' \in Int
        BY <2>1
      <4> QED
        BY <2>0, <2>1, <4>1 DEF CacheShape
    <3>3. \A u \in Fans : mine'[u].row \/ mine'[u].marks = {}
      BY <2>0, <2>1 DEF CacheShape
    <3> QED
      BY <2>1, <3>1, <3>2, <3>3 DEF CacheShape
  <2>3. MarksCached' /\ ReadsCached'
    BY <2>1 DEF CacheInv, MarksCached, ReadsCached, Told, At
  <2>4. OwnCached'
    BY <2>1 DEF CacheInv, OwnCached, Clears
  <2> QED
    BY <1>1, <2>2, <2>3, <2>4 DEF CacheInv
<1>5. ASSUME NEW u \in Fans, ExpireState(u)
      PROVE  CacheInv'
  <2>1. /\ \A w \in Fans : stateCache'[w] = IF w = u THEN Gone ELSE stateCache[w]
        /\ stateCache' \in [Fans -> {Gone} \union [hit : {TRUE}, val : SUBSET Marks]]
        /\ spoiltFans' = spoiltFans \ {u} /\ UNCHANGED <<intrTables, ask, countCache, spoilt, owed, early>>
    BY <1>5 DEF ExpireState, CacheInv, CacheShape
  <2>2. OwnCached'
    BY <2>1 DEF CacheInv, OwnCached, Clears, intrTables, Gone
  <2>3. CacheShape'
    BY <2>1 DEF CacheInv, CacheShape, At, intrTables
  <2> QED
    BY <1>1, <2>1, <2>2, <2>3 DEF CacheInv, MarksCached, ReadsCached, Told, At, intrTables
<1> QED
  BY <1>1, <1>2, <1>3, <1>4, <1>5 DEF IntrNext, CallActs

\* For any users and any requests in progress at a time, the cached counters of
\* marks and the cached marks of a user are wrong only between a commit and the
\* DEL that follows it, or after a race or a failed DEL; and the cached counter
\* of reads, which incr_if_present.lua raises beside the database by as much as
\* each call or batch has counted, is ahead of it by no more than what was
\* between the two when the cache was filled.  The state stays well formed.
THEOREM CachesAreRight == IntrSpec => [](IntrTypeOK /\ CachedRight)
<1>1. IntrInit => CacheInv
  <2> SUFFICES ASSUME IntrInit
               PROVE  CacheInv
    OBVIOUS
  <2>1. /\ mine = [u \in Fans |-> NoRow] /\ ask = [c \in Calls |-> NoCall]
        /\ countCache = Gone /\ stateCache = [u \in Fans |-> Gone]
        /\ spoilt = {} /\ spoiltFans = {} /\ early = 0
    BY DEF IntrInit
  <2>2. IntrShape
    BY MarksInit DEF MarksInv
  <2>3. ~ countCache.hit /\ \A u \in Fans : ~ stateCache[u].hit
    BY <2>1 DEF Gone
  <2>4. \A c \in Calls : ~ At(c, "keep")
    BY <2>1 DEF At, NoCall
  <2>5. CacheShape
    BY <2>1, <2>4 DEF CacheShape, NoRow
  <2> QED
    BY <2>2, <2>3, <2>4, <2>5 DEF CacheInv, MarksCached, OwnCached, ReadsCached
<1>2. CacheInv => CachedRight
  <2> SUFFICES ASSUME CacheInv
               PROVE  CachedRight
    OBVIOUS
  <2>1. countCache.hit => countCache.val.read \in Nat /\ countCache.val.read <= Told + early
    <3>1. countCache.hit => countCache \in Kept /\ countCache.val.read <= Told + early
      BY DEF CacheInv, CacheShape, ReadsCached, Gone
    <3>2. \A v \in Kept : v.val.read \in Nat
      BY DEF Kept, Counter
    <3> QED
      BY <3>1, <3>2
  <2>2. counts.read \in Nat /\ owed \in Int /\ early \in Int
    BY DEF CacheInv, IntrShape, CacheShape, Counter
  <2>3. countCache.hit => countCache.val.read + owed <= counts.read + early
    BY <2>1, <2>2 DEF Told
  <2> QED
    BY <2>3 DEF CachedRight, CacheInv, MarksCached, OwnCached, Clears, At
<1>3. CacheInv => IntrTypeOK
  BY DEF CacheInv, IntrShape, CacheShape, IntrTypeOK, Kept
<1> QED
  BY <1>1, <1>2, <1>3, MarksInit, CacheStep, PTL DEF IntrSpec

-----------------------------------------------------------------------------
(* Comments.                                                               *)

CommentCall == [op : {"none", "create", "reply", "delete", "count"},
                at : {"idle", "write", "look", "store", "parent", "insert", "raise",
                      "find", "fell", "unlink", "lower", "clear"},
                id : 0..MaxComments, floor : Nat]

CommentShape ==
    /\ comment \in [Ids -> {"none", "live", "deleted"}]
    /\ root \in [Ids -> 0..MaxComments]
    /\ replyCnt \in [Ids -> Nat]
    /\ call \in [Callers -> CommentCall]

\* A floor has one level; what has not been written has no floor.
FirstOf(i) == i \in Ids /\ comment[i] # "none" /\ root[i] = 0
Floors ==
    \A i \in Ids :
        /\ comment[i] = "none" => root[i] = 0 /\ replyCnt[i] = 0
        /\ root[i] # 0 => FirstOf(root[i])

\* What a request in progress may rely on.
Knows(c) ==
    /\ call[c].at \in {"parent", "find"} => call[c].id \in Ids \ Unused
    /\ call[c].at \in {"insert", "raise"} => FirstOf(call[c].floor)
    /\ call[c].at = "fell" => FirstOf(call[c].id)
    /\ call[c].at \in {"unlink", "lower"} =>
          call[c].id \in Ids \ Unused /\ root[call[c].id] # 0
    /\ call[c].at = "lower" => call[c].op = "delete" /\ comment[call[c].id] = "live"

\* Two deletions never lower a counter for the same reply.
OneLowers ==
    \A c, d \in Callers :
        c # d /\ call[c].at = "lower" /\ call[d].at = "lower" => call[c].id # call[d].id

CommentsInv ==
    CommentShape /\ Floors /\ (\A c \in Callers : Knows(c)) /\ OneLowers /\ CommentsCounted

LEMMA LiveFinite == IsFiniteSet(Live) /\ \A S : IsFiniteSet(Live \cap S) /\ Cardinality(Live \cap S) \in Nat
<1>1. IsFiniteSet(Ids)
  BY CommentAssumption, FS_Interval DEF Ids
<1>2. \A S : Live \cap S \in SUBSET Ids
  BY DEF Live
<1>3. Live \in SUBSET Ids
  BY DEF Live
<1> QED
  BY <1>1, <1>2, <1>3, FS_Subset, FS_CardinalityType

LEMMA NewIdIsUnused == Unused # {} => NewId \in Unused
<1> SUFFICES ASSUME Unused # {}
             PROVE  NewId \in Unused
  OBVIOUS
<1>1. Unused \in SUBSET Nat
  BY CommentAssumption DEF Unused, Ids
<1>2. \E i \in Unused : \A j \in Unused : i <= j
  BY <1>1, LeastExists
<1> QED
  BY <1>2 DEF NewId

\* The steps of a request that write no comment and wait for no lock.
Sound(c, r) ==
    /\ r.at \in {"parent", "find"} => r.id \in Ids \ Unused
    /\ r.at \in {"insert", "raise"} => FirstOf(r.floor)
    /\ r.at = "fell" => FirstOf(r.id)
    /\ r.at \in {"unlink", "lower"} => r.id \in Ids \ Unused /\ root[r.id] # 0
    /\ r.at = "lower" =>
          /\ r.op = "delete" /\ comment[r.id] = "live"
          /\ \A d \in Callers \ {c} : call[d].at = "lower" => call[d].id # r.id
Advances(c) == \E r \in CommentCall : call' = [call EXCEPT ![c] = r] /\ Sound(c, r)

LEMMA AdvancesKeeps ==
    ASSUME CommentShape, Floors, \A c \in Callers : Knows(c), OneLowers, FloorsCounted,
           NEW c \in Callers, Advances(c), UNCHANGED <<comment, root, replyCnt>>
    PROVE  CommentShape' /\ Floors' /\ (\A d \in Callers : Knows(d)') /\ OneLowers' /\ FloorsCounted'
<1>1. PICK r \in CommentCall : call' = [call EXCEPT ![c] = r] /\ Sound(c, r)
  BY DEF Advances
<1>2. /\ call' \in [Callers -> CommentCall]
      /\ call'[c] = r /\ \A d \in Callers \ {c} : call'[d] = call[d]
  BY <1>1 DEF CommentShape
<1>3. CommentShape' /\ Floors' /\ FloorsCounted'
  BY <1>2 DEF CommentShape, Floors, FirstOf, FloorsCounted, Live, FloorOf
<1>4. Knows(c)'
  BY <1>1, <1>2 DEF Sound, Knows, FirstOf, Unused
<1>5. \A d \in Callers \ {c} : Knows(d)'
  BY <1>2 DEF Knows, FirstOf, Unused
<1>6. OneLowers'
  BY <1>1, <1>2 DEF Sound, OneLowers
<1> QED
  BY <1>3, <1>4, <1>5, <1>6

LEMMA AdvancingSteps ==
    ASSUME CommentShape, Floors, \A d \in Callers : Knows(d), NEW c \in Callers,
           \/ AskComment(c) \/ ReadParent(c) \/ InsertReply(c) \/ FindComment(c) \/ Unlink(c)
           \/ RollBack(c) \/ ClearTotal(c) \/ LookTotal(c) \/ StoreTotal(c)
    PROVE  Advances(c) /\ UNCHANGED <<comment, root, replyCnt>>
<1>1. UNCHANGED <<comment, root, replyCnt>>
  BY DEF AskComment, ReadParent, InsertReply, FindComment, Unlink, RollBack, ClearTotal,
         LookTotal, StoreTotal
<1> SUFFICES Advances(c)
  BY <1>1
<1>2. call[c] \in CommentCall /\ call \in [Callers -> CommentCall] /\ Knows(c)
  BY DEF CommentShape
<1>3. NotCalling \in CommentCall /\ NotCalling.at = "idle"
  BY CommentAssumption DEF NotCalling, CommentCall
<1>4. CASE Returns(c)
  <2>1. Sound(c, NotCalling)
    BY <1>3 DEF Sound
  <2> QED
    BY <1>3, <1>4, <2>1 DEF Returns, Advances
<1>5. CASE AskComment(c)
  <2>1. ASSUME NEW op \in {"create", "reply", "delete", "count"},
               NEW at \in {"write", "look", "parent", "find"}, NEW i \in 0..MaxComments,
               Asks(c, op, at, i), at \in {"parent", "find"} => i \in Ids \ Unused
        PROVE  Advances(c)
    <3> DEFINE r == [NotCalling EXCEPT !.op = op, !.at = at, !.id = i]
    <3>1. call' = [call EXCEPT ![c] = r]
      BY <2>1 DEF Asks
    <3>2. r \in CommentCall /\ r.at = at /\ r.id = i
      BY <1>3 DEF NotCalling, CommentCall
    <3>3. Sound(c, r)
      BY <2>1, <3>2 DEF Sound
    <3> HIDE DEF r
    <3> QED
      BY <3>1, <3>2, <3>3 DEF Advances
  <2>2. 0 \in 0..MaxComments /\ \A i \in Ids : i \in 0..MaxComments
    BY CommentAssumption DEF Ids
  <2>3. \/ Asks(c, "create", "write", 0) \/ Asks(c, "count", "look", 0)
        \/ \E i \in Ids \ Unused : Asks(c, "reply", "parent", i) \/ Asks(c, "delete", "find", i)
    BY <1>5 DEF AskComment
  <2>4. Asks(c, "create", "write", 0) => Advances(c)
    BY <2>1, <2>2
  <2>5. Asks(c, "count", "look", 0) => Advances(c)
    BY <2>1, <2>2
  <2>6. ASSUME NEW i \in Ids \ Unused,
               Asks(c, "reply", "parent", i) \/ Asks(c, "delete", "find", i)
        PROVE  Advances(c)
    BY <2>1, <2>2, <2>6
  <2> QED
    BY <2>3, <2>4, <2>5, <2>6
<1>6. CASE ReadParent(c) /\ ~ Returns(c)
  <2>1. PICK p \in Ids : p = call[c].id /\ comment[p] = "live"
    BY <1>2, <1>6 DEF ReadParent, Knows
  <2>2. PICK f \in Nat : f = (IF root[p] = 0 THEN p ELSE root[p]) /\ FirstOf(f)
    BY <2>1 DEF CommentShape, Floors, FirstOf, Ids
  <2>3. call' = [call EXCEPT ![c] = [call[c] EXCEPT !.at = "insert", !.floor = f]]
    BY <1>2, <1>6, <2>1, <2>2 DEF ReadParent
  <2>4. [call[c] EXCEPT !.at = "insert", !.floor = f] \in CommentCall
    BY <1>2, <2>2 DEF CommentCall
  <2>5. Sound(c, [call[c] EXCEPT !.at = "insert", !.floor = f])
    BY <1>2, <2>2 DEF CommentCall, Sound
  <2> QED
    BY <2>3, <2>4, <2>5 DEF Advances
<1>7. ASSUME NEW at \in {"raise", "fell", "unlink", "lower"}, Goes(c, at)
      PROVE  \E r \in CommentCall :
                /\ call' = [call EXCEPT ![c] = r] /\ r.at = at
                /\ r.op = call[c].op /\ r.id = call[c].id /\ r.floor = call[c].floor
  <2>1. call' = [call EXCEPT ![c] = [call[c] EXCEPT !.at = at]]
    BY <1>2, <1>7 DEF Goes
  <2>2. [call[c] EXCEPT !.at = at] \in CommentCall
    BY <1>2 DEF CommentCall
  <2> QED
    BY <1>2, <2>1, <2>2 DEF CommentCall
<1>8. CASE InsertReply(c)
  <2>1. PICK r \in CommentCall :
          call' = [call EXCEPT ![c] = r] /\ r.at = "raise" /\ r.floor = call[c].floor
    BY <1>7, <1>8 DEF InsertReply
  <2>2. Sound(c, r)
    BY <1>2, <1>8, <2>1 DEF InsertReply, Knows, Sound
  <2> QED
    BY <2>1, <2>2 DEF Advances
<1>9. CASE FindComment(c) /\ ~ Returns(c)
  <2>1. /\ call[c].id \in Ids /\ comment[call[c].id] = "live"
        /\ Goes(c, IF root[call[c].id] = 0 THEN "fell" ELSE "unlink")
    BY <1>2, <1>9 DEF FindComment, Knows
  <2>2. PICK at \in {"fell", "unlink"} :
          Goes(c, at) /\ at = IF root[call[c].id] = 0 THEN "fell" ELSE "unlink"
    BY <2>1
  <2>3. PICK r \in CommentCall :
          call' = [call EXCEPT ![c] = r] /\ r.at = at /\ r.id = call[c].id
    BY <1>7, <2>2
  <2>4. Sound(c, r)
    BY <2>1, <2>2, <2>3 DEF FirstOf, Unused, Sound
  <2> QED
    BY <2>3, <2>4 DEF Advances
<1>10. CASE Unlink(c) /\ ~ Returns(c)
  <2>1. PICK r \in CommentCall :
          /\ call' = [call EXCEPT ![c] = r] /\ r.at = "lower"
          /\ r.op = "delete" /\ r.id = call[c].id
    BY <1>7, <1>10 DEF Unlink
  <2>2. \A d \in Callers \ {c} : call[d].at = "lower" => call[d].id # call[c].id
    BY <1>10 DEF Unlink, MayLock, OwnsLock, Knows
  <2>3. Sound(c, r)
    BY <1>2, <1>10, <2>1, <2>2 DEF Unlink, Knows, Sound
  <2> QED
    BY <2>1, <2>3 DEF Advances
<1>11. CASE LookTotal(c) /\ ~ Returns(c)
  <2>1. PICK n \in Nat : n = Cardinality(Live)
    BY LiveFinite, FS_CardinalityType
  <2>2. call' = [call EXCEPT ![c] = [call[c] EXCEPT !.at = "store", !.floor = n]]
    BY <1>2, <1>11, <2>1 DEF LookTotal
  <2>3. [call[c] EXCEPT !.at = "store", !.floor = n] \in CommentCall
    BY <1>2, <2>1 DEF CommentCall
  <2>4. Sound(c, [call[c] EXCEPT !.at = "store", !.floor = n])
    BY <1>2, <2>1 DEF CommentCall, Sound
  <2> QED
    BY <2>2, <2>3, <2>4 DEF Advances
<1> QED
  BY <1>1, <1>4, <1>5, <1>6, <1>8, <1>9, <1>10, <1>11 DEF RollBack, ClearTotal, StoreTotal

\* A comment is inserted below floor f, or as a first one (f = 0).
LEMMA AddKeeps ==
    ASSUME CommentShape, Floors, \A d \in Callers : Knows(d), OneLowers, FloorsCounted,
           NEW c \in Callers, NEW f \in 0..MaxComments, f = 0 \/ FirstOf(f),
           Unused # {}, Add(f), Goes(c, "clear"),
           replyCnt' = IF f = 0 THEN replyCnt ELSE Counted(f, replyCnt[f] + 1)
    PROVE  CommentShape' /\ Floors' /\ (\A d \in Callers : Knows(d)') /\ OneLowers' /\ FloorsCounted'
<1>1. PICK n \in Unused : n = NewId
  BY NewIdIsUnused
<1>2. n \in Ids /\ comment[n] = "none" /\ root[n] = 0 /\ replyCnt[n] = 0
  BY <1>1 DEF Unused, Floors
<1>3. /\ comment' \in [Ids -> {"none", "live", "deleted"}] /\ root' \in [Ids -> 0..MaxComments]
      /\ comment'[n] = "live" /\ root'[n] = f
      /\ \A i \in Ids \ {n} : comment'[i] = comment[i] /\ root'[i] = root[i]
  BY <1>1, <1>2 DEF CommentShape, Add
<1>4. /\ replyCnt' \in [Ids -> Nat]
      /\ \A i \in Ids : replyCnt'[i] =
            IF i = f /\ f # 0 /\ comment[f] = "live" THEN replyCnt[i] + 1 ELSE replyCnt[i]
  BY DEF CommentShape, Counted, FirstOf
<1>5. /\ call' \in [Callers -> CommentCall]
      /\ call'[c].at = "clear" /\ \A d \in Callers \ {c} : call'[d] = call[d]
  BY DEF CommentShape, Goes, CommentCall
<1>7. Floors'
  <2> SUFFICES ASSUME NEW i \in Ids
               PROVE  /\ comment'[i] = "none" => root'[i] = 0 /\ replyCnt'[i] = 0
                      /\ root'[i] # 0 => /\ root'[i] \in Ids /\ root'[root'[i]] = 0
                                         /\ comment'[root'[i]] # "none"
    BY DEF Floors, FirstOf
  <2>1. comment'[i] = "none" => root'[i] = 0 /\ replyCnt'[i] = 0
    BY <1>2, <1>3, <1>4 DEF Floors, CommentShape
  <2>2. root'[i] # 0 => FirstOf(root'[i])
    BY <1>2, <1>3 DEF Floors
  <2> QED
    BY <1>2, <1>3, <2>1, <2>2 DEF FirstOf
<1>8. \A d \in Callers : Knows(d)'
  <2> SUFFICES ASSUME NEW d \in Callers, d # c
               PROVE  Knows(d)'
    BY <1>5 DEF Knows
  <2>1. Knows(d) /\ call'[d] = call[d]
    BY <1>5
  <2>2. \A i \in Ids \ Unused : i # n /\ i \in (Ids \ Unused)' /\ comment'[i] = comment[i] /\ root'[i] = root[i]
    BY <1>2, <1>3 DEF Unused
  <2>3. \A i : FirstOf(i) => i \in Ids /\ comment'[i] # "none" /\ root'[i] = 0
    BY <1>2, <1>3 DEF FirstOf
  <2> QED
    BY <2>1, <2>2, <2>3 DEF Knows, FirstOf
<1>9. OneLowers'
  BY <1>5 DEF OneLowers
<1>10. FloorsCounted'
  <2> SUFFICES ASSUME NEW r \in Ids, comment'[r] = "live", root'[r] = 0
               PROVE  replyCnt'[r] = Cardinality(Live \cap FloorOf(r))'
    BY DEF FloorsCounted, Live
  <2> DEFINE Here == Live \cap FloorOf(r)
  <2>1. n \notin Here
    BY <1>2 DEF Live
  <2>2. (Live \cap FloorOf(r))' = IF r = f THEN Here \union {n} ELSE Here
    BY <1>2, <1>3 DEF Live, FloorOf
  <2>3. IsFiniteSet(Here) /\ Cardinality(Here) \in Nat
    BY LiveFinite
  <2>4. CASE r = n
    <3>1. f = 0
      BY <1>3, <2>4
    <3>2. Here = {}
      BY <1>2, <2>4, CommentAssumption DEF Live, FloorOf, Floors, FirstOf, Ids
    <3>3. replyCnt'[r] = 0
      BY <1>2, <1>4, <2>4, <3>1
    <3>4. r # f
      BY <3>1, CommentAssumption DEF Ids
    <3> QED
      BY <2>2, <3>2, <3>3, <3>4, FS_EmptySet
  <2>5. CASE r # n
    <3>1. comment[r] = "live" /\ root[r] = 0 /\ replyCnt[r] = Cardinality(Here)
      BY <1>3, <2>5 DEF FloorsCounted, Live
    <3>2. r = f => replyCnt'[r] = replyCnt[r] + 1
      BY <1>4, <3>1, CommentAssumption DEF Ids
    <3>3. r # f => replyCnt'[r] = replyCnt[r]
      BY <1>4
    <3>4. Cardinality(Here \union {n}) = Cardinality(Here) + 1
      BY <2>1, <2>3, FS_AddElement
    <3> QED
      BY <2>2, <3>1, <3>2, <3>3, <3>4
  <2> QED
    BY <2>4, <2>5
<1> QED
  BY <1>3, <1>4, <1>5, <1>7, <1>8, <1>9, <1>10 DEF CommentShape

\* Comments are deleted that no other request is about to delete.
LEMMA DeleteKeeps ==
    ASSUME CommentShape, Floors, \A d \in Callers : Knows(d), OneLowers,
           NEW c \in Callers, NEW D \in SUBSET Live,
           \A d \in Callers \ {c} : call[d].at = "lower" => call[d].id \notin D,
           comment' = [i \in Ids |-> IF i \in D THEN "deleted" ELSE comment[i]],
           Goes(c, "clear"), root' = root, replyCnt' \in [Ids -> Nat],
           \A i \in Ids : comment[i] = "none" => replyCnt'[i] = replyCnt[i]
    PROVE  CommentShape' /\ Floors' /\ (\A d \in Callers : Knows(d)') /\ OneLowers'
<1>1. /\ comment' \in [Ids -> {"none", "live", "deleted"}]
      /\ \A i \in Ids : (comment'[i] = "none") = (comment[i] = "none")
      /\ \A i \in Ids \ D : comment'[i] = comment[i]
  BY DEF CommentShape, Live
<1>2. /\ call' \in [Callers -> CommentCall]
      /\ call'[c].at = "clear" /\ \A d \in Callers \ {c} : call'[d] = call[d]
  BY DEF CommentShape, Goes, CommentCall
<1>3. CommentShape'
  BY <1>1, <1>2 DEF CommentShape
<1>4. Floors'
  BY <1>1 DEF Floors, FirstOf
<1>5. \A d \in Callers : Knows(d)'
  <2> SUFFICES ASSUME NEW d \in Callers, d # c
               PROVE  Knows(d)'
    BY <1>2 DEF Knows
  <2>1. Knows(d) /\ call'[d] = call[d]
    BY <1>2
  <2> QED
    BY <1>1, <2>1 DEF Knows, FirstOf, Unused
<1>6. OneLowers'
  BY <1>2 DEF OneLowers
<1> QED
  BY <1>3, <1>4, <1>5, <1>6

LEMMA FellKeeps ==
    ASSUME CommentShape, Floors, \A d \in Callers : Knows(d), OneLowers, FloorsCounted,
           NEW c \in Callers, FellFloor(c)
    PROVE  CommentShape' /\ Floors' /\ (\A d \in Callers : Knows(d)') /\ OneLowers' /\ FloorsCounted'
<1>1. PICK f \in Ids : f = call[c].id /\ FirstOf(f)
  BY DEF FellFloor, Knows, FirstOf
<1>2. PICK D \in SUBSET Live : D = Felled(f)
  BY DEF Felled
<1>3. \A d \in Callers \ {c} : call[d].at = "lower" => call[d].id \notin D
  BY <1>1, <1>2 DEF FellFloor, MayLock, OwnsLock, Knows
<1>4. /\ comment' = [i \in Ids |-> IF i \in D THEN "deleted" ELSE comment[i]]
      /\ Goes(c, "clear") /\ root' = root /\ replyCnt' = replyCnt
  BY <1>1, <1>2 DEF FellFloor
<1>5. CommentShape' /\ Floors' /\ (\A d \in Callers : Knows(d)') /\ OneLowers'
  BY <1>3, <1>4, DeleteKeeps DEF CommentShape
<1>6. FloorsCounted'
  <2> SUFFICES ASSUME NEW r \in Ids, comment'[r] = "live", root'[r] = 0
               PROVE  replyCnt'[r] = Cardinality(Live \cap FloorOf(r))'
    BY DEF FloorsCounted, Live
  <2>1. comment[r] = "live" /\ root[r] = 0 /\ r \notin D
    BY <1>4
  <2>2. r # f /\ \A i \in D : root[i] # r
    BY <1>1, <1>2, <2>1, CommentAssumption DEF Felled, FirstOf, Live, Ids
  <2>3. (Live \cap FloorOf(r))' = Live \cap FloorOf(r)
    BY <1>4, <2>2 DEF Live, FloorOf
  <2> QED
    BY <1>4, <2>1, <2>3 DEF FloorsCounted, Live
<1> QED
  BY <1>5, <1>6

LEMMA LowerKeeps ==
    ASSUME CommentShape, Floors, \A d \in Callers : Knows(d), OneLowers, FloorsCounted,
           NEW c \in Callers, LowerReplyCnt(c)
    PROVE  CommentShape' /\ Floors' /\ (\A d \in Callers : Knows(d)') /\ OneLowers' /\ FloorsCounted'
<1>1. PICK i \in Ids : i = call[c].id /\ comment[i] = "live" /\ root[i] # 0
  BY DEF LowerReplyCnt, Knows
<1>2. PICK f \in Ids : f = root[i] /\ comment[f] # "none" /\ root[f] = 0 /\ replyCnt[f] \in Nat
  BY <1>1 DEF Floors, FirstOf, CommentShape
<1>3. f # i
  BY <1>1, <1>2
<1>4. \A d \in Callers \ {c} : call[d].at = "lower" => call[d].id \notin {i}
  BY <1>1 DEF OneLowers, LowerReplyCnt
<1>5. /\ comment' = [comment EXCEPT ![i] = "deleted"]
      /\ replyCnt' = Counted(f, IF replyCnt[f] > 0 THEN replyCnt[f] - 1 ELSE 0)
      /\ Goes(c, "clear") /\ root' = root
  BY <1>1, <1>2 DEF LowerReplyCnt
<1>6. comment' = [j \in Ids |-> IF j \in {i} THEN "deleted" ELSE comment[j]]
  BY <1>1, <1>5 DEF CommentShape
<1>7. /\ replyCnt' \in [Ids -> Nat]
      /\ comment[f] = "live" =>
            replyCnt'[f] = IF replyCnt[f] > 0 THEN replyCnt[f] - 1 ELSE 0
      /\ \A r \in Ids \ {f} : replyCnt'[r] = replyCnt[r]
  BY <1>2, <1>5 DEF Counted, CommentShape
<1>8. {i} \in SUBSET Live
  BY <1>1 DEF Live
<1>9. CommentShape' /\ Floors' /\ (\A d \in Callers : Knows(d)') /\ OneLowers'
  BY <1>2, <1>4, <1>5, <1>6, <1>7, <1>8, DeleteKeeps
<1>10. FloorsCounted'
  <2> SUFFICES ASSUME NEW r \in Ids, comment'[r] = "live", root'[r] = 0
               PROVE  replyCnt'[r] = Cardinality(Live \cap FloorOf(r))'
    BY DEF FloorsCounted, Live
  <2> DEFINE Here == Live \cap FloorOf(r)
  <2>1. comment[r] = "live" /\ root[r] = 0 /\ replyCnt[r] = Cardinality(Here)
    BY <1>5, <1>6 DEF FloorsCounted, Live
  <2>2. (Live \cap FloorOf(r))' = IF r = f THEN Here \ {i} ELSE Here
    BY <1>1, <1>2, <1>5, <1>6 DEF Live, FloorOf
  <2>3. IsFiniteSet(Here) /\ Cardinality(Here) \in Nat
    BY LiveFinite
  <2>4. CASE r = f
    <3>1. i \in Here
      BY <1>1, <1>2, <2>4 DEF Live, FloorOf
    <3>2. Cardinality(Here \ {i}) = Cardinality(Here) - 1
      BY <2>3, <3>1, FS_RemoveElement
    <3>3. Cardinality(Here) # 0
      BY <2>3, <3>1, FS_EmptySet
    <3>4. replyCnt'[f] = replyCnt[f] - 1
      BY <1>7, <2>1, <2>3, <2>4, <3>3
    <3> QED
      BY <2>1, <2>2, <2>4, <3>2, <3>4
  <2>5. CASE r # f
    BY <1>7, <2>1, <2>2, <2>5
  <2> QED
    BY <2>4, <2>5
<1> QED
  BY <1>9, <1>10

\* The number of comments changes only in a step after which the request still
\* has to clear the cached total.
LEMMA TotalKeeps ==
    ASSUME CommentShape, TotalWrongInRace, CommentNext
    PROVE  TotalWrongInRace'
<1>1. CASE ExpireTotal
  BY <1>1 DEF ExpireTotal, TotalWrongInRace
<1>2. ASSUME NEW c \in Callers, Goes(c, "clear")
      PROVE  TotalWrongInRace'
  BY <1>2 DEF Goes, CommentShape, CommentCall, TotalWrongInRace
<1>3. ASSUME NEW c \in Callers, ClearTotal(c) \/ StoreTotal(c)
      PROVE  TotalWrongInRace'
  <2>1. Live' = Live
    BY <1>3 DEF ClearTotal, StoreTotal, Live
  <2> QED
    BY <1>3, <2>1 DEF ClearTotal, StoreTotal, TotalWrongInRace
<1>4. ASSUME NEW c \in Callers, call[c].at # "clear", UNCHANGED <<comment, total, totalSpoilt>>,
             \A d \in Callers \ {c} : call'[d] = call[d]
      PROVE  TotalWrongInRace'
  BY <1>4 DEF Live, TotalWrongInRace
<1>5. ASSUME NEW c \in Callers,
             \/ AskComment(c) \/ ReadParent(c) \/ InsertReply(c) \/ FindComment(c) \/ Unlink(c)
             \/ RollBack(c) \/ LookTotal(c)
      PROVE  TotalWrongInRace'
  <2>1. call[c].at # "clear" /\ UNCHANGED <<comment, total, totalSpoilt>>
    BY <1>5 DEF AskComment, ReadParent, InsertReply, FindComment, Unlink, RollBack, LookTotal
  <2>2. \A d \in Callers \ {c} : call'[d] = call[d]
    BY <1>5 DEF AskComment, ReadParent, InsertReply, FindComment, Unlink, RollBack, LookTotal,
                Asks, Goes, Returns, CommentShape
  <2> QED
    BY <1>4, <2>1, <2>2
<1> QED
  BY <1>1, <1>2, <1>3, <1>5 DEF CommentNext, InsertFirst, RaiseReplyCnt, FellFloor, LowerReplyCnt

LEMMA CommentsStep == CommentsInv /\ [CommentNext]_commentVars => CommentsInv'
<1> SUFFICES ASSUME CommentsInv, [CommentNext]_commentVars
             PROVE  CommentsInv'
  OBVIOUS
<1> USE DEF CommentsInv, CommentsCounted
<1> DEFINE AllParts ==
      CommentShape' /\ Floors' /\ (\A d \in Callers : Knows(d)') /\ OneLowers' /\ FloorsCounted'
<1>1. CASE UNCHANGED <<comment, root, replyCnt, call>>
  <2>1. AllParts
    BY <1>1 DEF CommentShape, Floors, FirstOf, Knows, Unused, OneLowers, FloorsCounted, Live, FloorOf
  <2>2. TotalWrongInRace'
    <3>1. CASE CommentNext
      BY <3>1, TotalKeeps
    <3>2. CASE UNCHANGED commentVars
      BY <3>2 DEF commentVars, TotalWrongInRace, Live
    <3> QED
      BY <3>1, <3>2
  <2> QED
    BY <2>1, <2>2
<1>2. ASSUME NEW c \in Callers,
             \/ AskComment(c) \/ ReadParent(c) \/ InsertReply(c) \/ FindComment(c) \/ Unlink(c)
             \/ RollBack(c) \/ ClearTotal(c) \/ LookTotal(c) \/ StoreTotal(c)
      PROVE  AllParts
  BY <1>2, AdvancingSteps, AdvancesKeeps
<1>3. ASSUME NEW c \in Callers, InsertFirst(c)
      PROVE  AllParts
  <2>1. 0 \in 0..MaxComments
    BY CommentAssumption
  <2> QED
    BY <1>3, <2>1, AddKeeps DEF InsertFirst
<1>4. ASSUME NEW c \in Callers, RaiseReplyCnt(c)
      PROVE  AllParts
  <2>1. PICK f \in 0..MaxComments : f = call[c].floor /\ FirstOf(f) /\ f # 0
    BY <1>4, CommentAssumption DEF RaiseReplyCnt, Knows, FirstOf, Ids
  <2> QED
    BY <1>4, <2>1, AddKeeps DEF RaiseReplyCnt
<1>5. ASSUME NEW c \in Callers, FellFloor(c) \/ LowerReplyCnt(c)
      PROVE  AllParts
  BY <1>5, FellKeeps, LowerKeeps
<1>6. CASE CommentNext
  <2>1. TotalWrongInRace'
    BY <1>6, TotalKeeps
  <2> HIDE DEF AllParts
  <2>2. CASE ExpireTotal
    BY <1>1, <2>2 DEF ExpireTotal
  <2>3. ~ ExpireTotal => AllParts
    BY <1>2, <1>3, <1>4, <1>5, <1>6 DEF CommentNext
  <2> QED
    BY <2>1, <2>2, <2>3 DEF AllParts
<1> QED
  BY <1>1, <1>6 DEF commentVars

LEMMA CommentsInitial == CommentInit => CommentsInv
<1> SUFFICES ASSUME CommentInit
             PROVE  CommentsInv
  OBVIOUS
<1>1. /\ comment = [i \in Ids |-> IF i = 1 THEN "live" ELSE "none"]
      /\ root = [i \in Ids |-> 0] /\ replyCnt = [i \in Ids |-> 0]
      /\ call = [c \in Callers |-> NotCalling] /\ total = Absent
  BY DEF CommentInit
<1>2. NotCalling \in CommentCall /\ NotCalling.at = "idle" /\ 0 \in 0..MaxComments
  BY CommentAssumption DEF NotCalling, CommentCall
<1>3. CommentShape
  BY <1>1, <1>2 DEF CommentShape
<1>4. Floors /\ (\A c \in Callers : Knows(c)) /\ OneLowers
  BY <1>1, <1>2 DEF Floors, Knows, OneLowers
<1>5. FloorsCounted
  <2>1. \A r \in Ids : Live \cap FloorOf(r) = {}
    BY <1>1, CommentAssumption DEF FloorOf, Ids
  <2> QED
    BY <1>1, <2>1, FS_EmptySet DEF FloorsCounted, Live
<1>6. TotalWrongInRace
  BY <1>1 DEF TotalWrongInRace
<1> QED
  BY <1>3, <1>4, <1>5, <1>6 DEF CommentsInv, CommentsCounted

\* A first comment counts the replies its floor still has, and the cached total
\* differs from the number of comments only during or after a race or a failing
\* DEL: for any number of requests and comments.  A reply that is deleted twice
\* at a time lowers the counter once because the UPDATE that deletes it locks it
\* and tells how many rows it hit.
THEOREM CommentsAreCounted == CommentSpec => []CommentsCounted
<1>1. CommentsInv => CommentsCounted
  BY DEF CommentsInv
<1> QED
  BY <1>1, CommentsInitial, CommentsStep, PTL DEF CommentSpec

\* The counts that are kept are those that the floors show.
ShownAsCounted ==
    [r \in {i \in Live : root[i] = 0} |-> replyCnt[r]] = Discussion!Shown(comment, root)

LEMMA ShownIsCounted == CommentsInv => ShownAsCounted
<1> SUFFICES ASSUME FloorsCounted
             PROVE  ShownAsCounted
  BY DEF CommentsInv, CommentsCounted
<1>1. {i \in Live : root[i] = 0} = Discussion!Firsts(comment, root)
  BY DEF Live, Discussion!Firsts
<1>2. ASSUME NEW r \in {i \in Live : root[i] = 0}
      PROVE  replyCnt[r] = Cardinality(Discussion!Replies(comment, root, r))
  <2>1. Live \cap FloorOf(r) = Discussion!Replies(comment, root, r)
    BY DEF Live, FloorOf, Discussion!Replies
  <2> QED
    BY <2>1 DEF FloorsCounted
<1> QED
  BY <1>1, <1>2 DEF Discussion!Shown, ShownAsCounted

LEMMA AddIsWritten ==
    ASSUME CommentShape, Unused # {}, NEW f \in 0..MaxComments, f = 0 \/ FirstOf(f), Add(f)
    PROVE  \E i \in Ids, r \in Ids \union {0} : Discussion!Written(i, r)
<1>1. PICK n \in Unused : n = NewId
  BY NewIdIsUnused
<1>2. n \in Ids /\ comment[n] = "none"
  BY <1>1 DEF Unused
<1>3. f \in Ids \union {0} /\ (f = 0 \/ Discussion!IsFirst(f))
  BY CommentAssumption DEF Ids, FirstOf, Discussion!IsFirst
<1>4. Discussion!Written(n, f)
  BY <1>1, <1>2, <1>3 DEF Add, Discussion!Written
<1> QED
  BY <1>2, <1>3, <1>4

\* A floor goes as a whole: the transaction waits for the replies in the making.
LEMMA FellIsDeleted ==
    ASSUME CommentShape, \A d \in Callers : Knows(d), NEW c \in Callers, FellFloor(c)
    PROVE  \E r \in Ids : Discussion!FloorDeleted(r)
<1>1. PICK r \in Ids : r = call[c].id /\ FirstOf(r)
  BY DEF FellFloor, Knows, FirstOf
<1>2. Felled(r) = Discussion!Floor(r)
  BY DEF Felled, Live, Discussion!Floor
<1>3. Discussion!IsFirst(r)
  BY <1>1 DEF FirstOf, Discussion!IsFirst
<1>4. Discussion!FloorDeleted(r)
  BY <1>1, <1>2, <1>3 DEF FellFloor, Discussion!FloorDeleted
<1> QED
  BY <1>1, <1>4

LEMMA LowerIsDeleted ==
    ASSUME CommentShape, \A d \in Callers : Knows(d), NEW c \in Callers, LowerReplyCnt(c)
    PROVE  \E i \in Ids : Discussion!ReplyDeleted(i)
<1>1. PICK i \in Ids : i = call[c].id /\ comment[i] = "live" /\ root[i] # 0
  BY DEF LowerReplyCnt, Knows
<1> QED
  BY <1>1 DEF LowerReplyCnt, Discussion!ReplyDeleted

\* Comments implements Threads: the transactions of any number of requests come
\* out as single changes of the floors, each shown with its number of replies.
THEOREM CommentsImplementThreads == CommentSpec => ImplementsThreads
<1>1. CommentInit => Discussion!ThreadsInit
  <2> SUFFICES ASSUME CommentInit
               PROVE  Discussion!ThreadsInit
    OBVIOUS
  <2>1. ShownAsCounted
    BY CommentsInitial, ShownIsCounted
  <2> QED
    BY <2>1 DEF CommentInit, Discussion!ThreadsInit, ShownAsCounted
<1>2. CommentsInv /\ ShownAsCounted' /\ [CommentNext]_commentVars
        => [Discussion!ThreadsNext]_Discussion!threadVars
  <2> SUFFICES ASSUME CommentsInv, ShownAsCounted', [CommentNext]_commentVars
               PROVE  [Discussion!ThreadsNext]_Discussion!threadVars
    OBVIOUS
  <2>1. CommentShape /\ Floors /\ \A d \in Callers : Knows(d)
    BY DEF CommentsInv
  <2>2. [r \in {i \in Live : root[i] = 0} |-> replyCnt[r]]' = Discussion!Shown(comment', root')
    BY DEF ShownAsCounted, Discussion!Shown, Discussion!Firsts, Discussion!Replies
  <2>3. CASE UNCHANGED <<comment, root, replyCnt>>
    BY <2>3 DEF Live, Discussion!threadVars
  <2>4. ASSUME NEW c \in Callers, InsertFirst(c) \/ RaiseReplyCnt(c)
        PROVE  \E i \in Ids, r \in Ids \union {0} : Discussion!Written(i, r)
    <3>1. PICK f \in 0..MaxComments : Unused # {} /\ Add(f) /\ (f = 0 \/ FirstOf(f))
      <4>1. InsertFirst(c) => Unused # {} /\ Add(0) /\ 0 \in 0..MaxComments
        BY CommentAssumption DEF InsertFirst
      <4>2. RaiseReplyCnt(c) => /\ Unused # {} /\ Add(call[c].floor)
                                /\ FirstOf(call[c].floor) /\ call[c].floor \in 0..MaxComments
        BY <2>1, CommentAssumption DEF RaiseReplyCnt, Knows, FirstOf, Ids
      <4> QED
        BY <2>4, <4>1, <4>2
    <3> QED
      BY <2>1, <3>1, AddIsWritten
  <2>5. ASSUME NEW c \in Callers, FellFloor(c)
        PROVE  \E r \in Ids : Discussion!FloorDeleted(r)
    BY <2>1, <2>5, FellIsDeleted
  <2>6. ASSUME NEW c \in Callers, LowerReplyCnt(c)
        PROVE  \E i \in Ids : Discussion!ReplyDeleted(i)
    BY <2>1, <2>6, LowerIsDeleted
  <2>7. ASSUME NEW c \in Callers,
               \/ AskComment(c) \/ ReadParent(c) \/ InsertReply(c) \/ FindComment(c) \/ Unlink(c)
               \/ RollBack(c) \/ ClearTotal(c) \/ LookTotal(c) \/ StoreTotal(c)
        PROVE  UNCHANGED <<comment, root, replyCnt>>
    BY <2>1, <2>7, AdvancingSteps
  <2>8. ASSUME ExpireTotal
        PROVE  UNCHANGED <<comment, root, replyCnt>>
    BY <2>8 DEF ExpireTotal
  <2>9. \/ UNCHANGED <<comment, root, replyCnt>>
        \/ \E i \in Ids :
              \/ \E r \in Ids \union {0} : Discussion!Written(i, r)
              \/ Discussion!ReplyDeleted(i) \/ Discussion!FloorDeleted(i)
    BY <2>4, <2>5, <2>6, <2>7, <2>8 DEF CommentNext, commentVars
  <2> QED
    BY <2>2, <2>3, <2>9 DEF Discussion!ThreadsNext
<1> QED
  BY <1>1, <1>2, ShownIsCounted, CommentsInitial, CommentsStep, PTL
     DEF CommentSpec, ImplementsThreads, Discussion!ThreadsSpec

-----------------------------------------------------------------------------
(* The types of the comments.                                              *)

CommentOps == {"create", "reply", "delete", "count"}
Bounded(r) == r = NotCalling \/ (r.op \in CommentOps /\ r.floor \in 0..MaxComments)

CountBounds ==
    /\ \A i \in Ids : replyCnt[i] \in 0..MaxComments
    /\ \A c \in Callers : Bounded(call[c])
    /\ total \in -1..MaxComments /\ totalSpoilt \in BOOLEAN

LEMMA NumbersBounded == \A T \in SUBSET Ids : Cardinality(T) \in 0..MaxComments
<1>1. 1 \in Int /\ MaxComments \in Int /\ MaxComments \in Nat \ {0}
  BY CommentAssumption
<1>2. IsFiniteSet(Ids) /\ Cardinality(Ids) = MaxComments
  <2>1. /\ IsFiniteSet(1..MaxComments)
        /\ Cardinality(1..MaxComments) = IF 1 > MaxComments THEN 0 ELSE MaxComments - 1 + 1
    BY <1>1, FS_Interval
  <2> QED
    BY <1>1, <2>1 DEF Ids
<1>3. ASSUME NEW T \in SUBSET Ids
      PROVE  Cardinality(T) \in 0..MaxComments
  <2>1. IsFiniteSet(T) /\ Cardinality(T) <= MaxComments
    BY <1>2, FS_Subset
  <2>2. Cardinality(T) \in Nat
    BY <2>1, FS_CardinalityType
  <2> QED
    BY <1>1, <2>1, <2>2
<1> QED
  BY <1>3

LEMMA CallsBounded ==
    ASSUME CommentShape, NEW c \in Callers, Knows(c), Bounded(call[c]),
           \/ AskComment(c) \/ InsertFirst(c) \/ ReadParent(c) \/ InsertReply(c)
           \/ RaiseReplyCnt(c) \/ FindComment(c) \/ FellFloor(c) \/ Unlink(c)
           \/ LowerReplyCnt(c) \/ RollBack(c) \/ ClearTotal(c) \/ LookTotal(c) \/ StoreTotal(c)
    PROVE  Bounded(call'[c]) /\ \A d \in Callers \ {c} : call'[d] = call[d]
<1>1. call[c] \in CommentCall /\ call \in [Callers -> CommentCall]
  BY DEF CommentShape
<1>2. CASE Returns(c)
  BY <1>1, <1>2 DEF Returns, Bounded
<1>3. ASSUME NEW at, Goes(c, at), call[c].at # "idle"
      PROVE  Bounded(call'[c]) /\ \A d \in Callers \ {c} : call'[d] = call[d]
  <2>1. call[c].op \in CommentOps /\ call[c].floor \in 0..MaxComments
    BY <1>3 DEF Bounded, NotCalling
  <2>2. call'[c] = [call[c] EXCEPT !.at = at]
    BY <1>1, <1>3 DEF Goes
  <2>3. call'[c].op = call[c].op /\ call'[c].floor = call[c].floor
    BY <1>1, <2>2 DEF CommentCall
  <2> QED
    BY <1>3, <2>1, <2>3 DEF Bounded, Goes
<1>4. CASE AskComment(c)
  <2>1. ASSUME NEW op \in CommentOps, NEW at, NEW i, Asks(c, op, at, i)
        PROVE  Bounded(call'[c]) /\ \A d \in Callers \ {c} : call'[d] = call[d]
    <3>1. call'[c] = [op |-> op, at |-> at, id |-> i, floor |-> 0]
      BY <1>1, <2>1 DEF Asks, NotCalling
    <3>2. call'[c].op = op /\ call'[c].floor = 0
      BY <3>1
    <3>3. 0 \in 0..MaxComments
      BY CommentAssumption
    <3>4. \A d \in Callers \ {c} : call'[d] = call[d]
      BY <1>1, <2>1 DEF Asks
    <3> QED
      BY <2>1, <3>2, <3>3, <3>4 DEF Bounded
  <2>2. \/ Asks(c, "create", "write", 0) \/ Asks(c, "count", "look", 0)
        \/ \E i \in Ids \ Unused : Asks(c, "reply", "parent", i) \/ Asks(c, "delete", "find", i)
    BY <1>4 DEF AskComment
  <2>3. \A op \in {"create", "reply", "delete", "count"} : op \in CommentOps
    BY DEF CommentOps
  <2> QED
    BY <2>1, <2>2, <2>3
<1>5. ASSUME NEW at, NEW f \in 0..MaxComments, call[c].at # "idle",
             call' = [call EXCEPT ![c].at = at, ![c].floor = f]
      PROVE  Bounded(call'[c]) /\ \A d \in Callers \ {c} : call'[d] = call[d]
  <2>1. call[c].op \in CommentOps
    BY <1>5 DEF Bounded, NotCalling
  <2>2. call'[c] = [call[c] EXCEPT !.at = at, !.floor = f]
    BY <1>1, <1>5
  <2>3. call'[c].op = call[c].op /\ call'[c].floor = f
    BY <1>1, <2>2 DEF CommentCall
  <2>4. \A d \in Callers \ {c} : call'[d] = call[d]
    BY <1>1, <1>5
  <2> QED
    BY <2>1, <2>3, <2>4 DEF Bounded
<1>6. CASE ReadParent(c)
  <2>1. CASE comment[call[c].id] = "live"
    <3>1. call[c].id \in Ids /\ call[c].at = "parent"
      BY <1>6 DEF ReadParent, Knows
    <3>2. PICK f \in 0..MaxComments :
              f = IF root[call[c].id] = 0 THEN call[c].id ELSE root[call[c].id]
      BY <3>1, CommentAssumption DEF CommentShape, Ids
    <3>3. call' = [call EXCEPT ![c].at = "insert", ![c].floor = f]
      BY <1>6, <2>1, <3>2 DEF ReadParent
    <3> QED
      BY <1>5, <3>1, <3>3
  <2> QED
    BY <1>2, <1>6, <2>1 DEF ReadParent
<1>7. CASE LookTotal(c)
  <2>1. CASE total = Absent
    <3>1. call' = [call EXCEPT ![c].at = "store", ![c].floor = Cardinality(Live)]
          /\ call[c].at = "look"
      BY <1>7, <2>1 DEF LookTotal
    <3> QED
      BY <1>5, <3>1, NumbersBounded DEF Live
  <2> QED
    BY <1>2, <1>7, <2>1 DEF LookTotal
<1>8. CASE InsertFirst(c) \/ InsertReply(c) \/ RaiseReplyCnt(c) \/ FellFloor(c) \/ LowerReplyCnt(c)
  <2>1. call[c].at # "idle" /\ \E at : Goes(c, at)
    BY <1>8 DEF InsertFirst, InsertReply, RaiseReplyCnt, FellFloor, LowerReplyCnt
  <2> QED
    BY <1>3, <2>1
<1>9. CASE FindComment(c) \/ Unlink(c)
  <2>1. call[c].at # "idle" /\ (Returns(c) \/ \E at : Goes(c, at))
    BY <1>9 DEF FindComment, Unlink
  <2> QED
    BY <1>2, <1>3, <2>1
<1>10. CASE RollBack(c) \/ ClearTotal(c) \/ StoreTotal(c)
  BY <1>2, <1>10 DEF RollBack, ClearTotal, StoreTotal
<1> QED
  BY <1>4, <1>6, <1>7, <1>8, <1>9, <1>10

\* A counter that is raised counts live replies afterwards.
LEMMA CountersBounded ==
    ASSUME CommentsInv, CommentsInv', CountBounds, NEW c \in Callers,
           RaiseReplyCnt(c) \/ LowerReplyCnt(c)
    PROVE  \A i \in Ids : replyCnt'[i] \in 0..MaxComments
<1>1. replyCnt \in [Ids -> Nat] /\ replyCnt' \in [Ids -> Nat]
  BY DEF CommentsInv, CommentShape
<1>2. CASE RaiseReplyCnt(c)
  <2>1. PICK r : r = call[c].floor
    OBVIOUS
  <2>2. /\ r \in Ids /\ root[r] = 0 /\ comment[r] # "none" /\ Unused # {}
        /\ comment' = [comment EXCEPT ![NewId] = "live"]
        /\ root' = [root EXCEPT ![NewId] = r]
        /\ replyCnt' = Counted(r, replyCnt[r] + 1)
    BY <1>2, <2>1 DEF RaiseReplyCnt, Add, CommentsInv, Knows, FirstOf
  <2>3. NewId # r
    BY <2>2, NewIdIsUnused DEF Unused
  <2>4. CASE comment[r] = "live"
    <3>1. r \in Live' /\ root'[r] = 0
      BY <2>2, <2>3, <2>4 DEF CommentsInv, CommentShape, Live
    <3>2. replyCnt'[r] = Cardinality(Live' \cap FloorOf(r)')
      BY <3>1 DEF CommentsInv, CommentsCounted, FloorsCounted, FloorOf
    <3>3. Cardinality(Live' \cap FloorOf(r)') \in 0..MaxComments
      BY NumbersBounded DEF Live
    <3>4. replyCnt'[r] \in 0..MaxComments
      BY <3>2, <3>3
    <3> QED
      BY <1>1, <2>2, <3>4 DEF Counted, CountBounds
  <2>5. CASE comment[r] # "live"
    BY <1>1, <2>2, <2>5 DEF Counted, CountBounds
  <2> QED
    BY <2>4, <2>5
<1>3. CASE LowerReplyCnt(c)
  <2>1. PICK r : r = root[call[c].id]
    OBVIOUS
  <2>2. replyCnt' = Counted(r, IF replyCnt[r] > 0 THEN replyCnt[r] - 1 ELSE 0)
    BY <1>3, <2>1 DEF LowerReplyCnt
  <2>3. ASSUME NEW i \in Ids
        PROVE  replyCnt'[i] \in 0..MaxComments
    <3>1. replyCnt[i] \in 0..MaxComments
      BY DEF CountBounds
    <3>2. replyCnt'[i] \in {replyCnt[i], IF replyCnt[i] > 0 THEN replyCnt[i] - 1 ELSE 0}
      BY <1>1, <2>2 DEF Counted
    <3> QED
      BY <3>1, <3>2, CommentAssumption
  <2> QED
    BY <2>3
<1> QED
  BY <1>2, <1>3

LEMMA BoundsStep == CommentsInv /\ CommentsInv' /\ CountBounds /\ [CommentNext]_commentVars
                        => CountBounds'
<1> SUFFICES ASSUME CommentsInv, CommentsInv', CountBounds, [CommentNext]_commentVars
             PROVE  CountBounds'
  OBVIOUS
<1>1. ASSUME NEW c \in Callers,
             \/ AskComment(c) \/ InsertFirst(c) \/ ReadParent(c) \/ InsertReply(c)
             \/ RaiseReplyCnt(c) \/ FindComment(c) \/ FellFloor(c) \/ Unlink(c)
             \/ LowerReplyCnt(c) \/ RollBack(c) \/ ClearTotal(c) \/ LookTotal(c) \/ StoreTotal(c)
      PROVE  CountBounds'
  <2>1. Bounded(call'[c]) /\ \A d \in Callers \ {c} : call'[d] = call[d]
    BY <1>1, CallsBounded DEF CommentsInv, CountBounds
  <2>2. \A d \in Callers : Bounded(call'[d])
    BY <2>1 DEF CountBounds
  <2>3. \A i \in Ids : replyCnt'[i] \in 0..MaxComments
    <3>1. CASE RaiseReplyCnt(c) \/ LowerReplyCnt(c)
      BY <3>1, CountersBounded
    <3>2. CASE UNCHANGED replyCnt
      BY <3>2 DEF CountBounds
    <3> QED
      BY <1>1, <3>1, <3>2
         DEF AskComment, InsertFirst, ReadParent, InsertReply, FindComment, FellFloor, Unlink,
             RollBack, ClearTotal, LookTotal, StoreTotal
  <2>4. total' \in -1..MaxComments /\ totalSpoilt' \in BOOLEAN
    <3>1. CASE UNCHANGED <<total, totalSpoilt>>
      BY <3>1 DEF CountBounds
    <3>2. CASE ClearTotal(c)
      <4>1. total' \in {total, -1} /\ totalSpoilt' \in BOOLEAN
        BY <3>2 DEF ClearTotal, Absent
      <4> QED
        BY <4>1, CommentAssumption DEF CountBounds
    <3>3. CASE StoreTotal(c)
      <4>1. call[c].floor \in 0..MaxComments
        BY <3>3 DEF StoreTotal, CountBounds, Bounded, NotCalling
      <4> QED
        BY <3>3, <4>1, CommentAssumption DEF StoreTotal
    <3> QED
      BY <1>1, <3>1, <3>2, <3>3
         DEF AskComment, InsertFirst, ReadParent, InsertReply, RaiseReplyCnt, FindComment,
             FellFloor, Unlink, LowerReplyCnt, RollBack, LookTotal
  <2> QED
    BY <2>2, <2>3, <2>4 DEF CountBounds, Bounded
<1>2. CASE ExpireTotal
  <2>1. total' = -1 /\ totalSpoilt' = FALSE /\ UNCHANGED <<call, replyCnt>>
    BY <1>2 DEF ExpireTotal, Absent
  <2>2. total' \in -1..MaxComments
    BY <2>1, CommentAssumption
  <2> QED
    BY <2>1, <2>2 DEF CountBounds, Bounded
<1>3. CASE UNCHANGED commentVars
  BY <1>3 DEF commentVars, CountBounds, Bounded
<1> QED
  BY <1>1, <1>2, <1>3 DEF CommentNext

\* The types of the comments: floors have one level whatever requests overlap,
\* and no counter exceeds the number of comments.
THEOREM CommentTypeCorrect == CommentSpec => []CommentTypeOK
<1>1. CommentInit => CountBounds
  <2>1. 0 \in 0..MaxComments /\ -1 \in -1..MaxComments
    BY CommentAssumption
  <2> QED
    BY <2>1 DEF CommentInit, CountBounds, Bounded, Absent
<1>2. CommentsInv /\ CountBounds => CommentTypeOK
  <2> SUFFICES ASSUME CommentsInv, CountBounds
               PROVE  CommentTypeOK
    OBVIOUS
  <2>1. \A i \in Ids : root[i] # 0 => comment[root[i]] # "none" /\ root[root[i]] = 0
    BY DEF CommentsInv, Floors, FirstOf
  <2>2. replyCnt \in [Ids -> 0..MaxComments]
    BY DEF CommentsInv, CommentShape, CountBounds
  <2> QED
    BY <2>1, <2>2 DEF CommentsInv, CommentShape, CountBounds, Bounded, CommentOps, CommentTypeOK
<1> QED
  BY <1>1, <1>2, CommentsInitial, CommentsStep, BoundsStep, PTL DEF CommentSpec

-----------------------------------------------------------------------------
(* The boards of the ranking.                                              *)

JobRun == [date : 0 .. LastDay, seen : 0 .. MaxVisits,
           left : Seq(Boards), open : Boards \union {NoBoard}]

ArchiveRun == [date : 0 .. LastDay, left : Seq(Boards)]

Tables == [Dates -> [Boards -> Nat]]

RankShape ==
    /\ day \in Dates /\ night \in BOOLEAN
    /\ visits \in 0 .. MaxVisits /\ boosts \in 0 .. visits
    /\ board \in Tables /\ snap \in Tables
    /\ job \in [Jobs -> JobRun]
    /\ archive \in ArchiveRun
    /\ byHand \in 0 .. MaxByHand

\* What a run works with is of the past.
RunsAreOfThePast ==
    /\ \A j \in Jobs : job[j].date <= day /\ job[j].seen <= visits
    /\ archive.date <= day

\* Each read is shown at most twice: by a job that has counted it, and by its
\* increment, which may run after that.
ShownTwice ==
    \A d \in Dates, b \in Boards :
        board[d][b] + boosts <= 2 * visits /\ snap[d][b] <= 2 * visits

FutureIsBlank ==
    \A d \in Dates, b \in Boards : d > day => board[d][b] = 0 /\ snap[d][b] = 0

RankInv == RankShape /\ RunsAreOfThePast /\ ShownTwice /\ FutureIsBlank

LEMMA BoardsOfJobs == Hot \in Boards /\ Jobs \subseteq Boards
<1>1. \A i \in 1 .. Len(Totals) : Totals[i] \in Boards
  BY RankAssumption
<1>2. Len(Totals) \in Nat /\ Len(Totals) # 0
  BY RankAssumption
<1>3. 1 \in 1 .. Len(Totals)
  BY <1>2
<1> QED
  BY <1>1, <1>3 DEF Hot, Jobs

\* One cell of a table is written.
LEMMA CellWritten ==
    ASSUME NEW f \in Tables, NEW d \in Dates, NEW b \in Boards, NEW v \in Nat
    PROVE  /\ [f EXCEPT ![d][b] = v] \in Tables
           /\ \A e \in Dates, c \in Boards :
                [f EXCEPT ![d][b] = v][e][c] = IF e = d /\ c = b THEN v ELSE f[e][c]
BY DEF Tables

LEMMA RankInvImplies == RankInv => RankTypeOK
<1> SUFFICES ASSUME RankInv
             PROVE  RankTypeOK
  OBVIOUS
<1> USE DEF RankInv
<1>1. \A d \in Dates, b \in Boards : board[d][b] \in Counts /\ snap[d][b] \in Counts
  <2> SUFFICES ASSUME NEW d \in Dates, NEW b \in Boards
               PROVE  board[d][b] \in Counts /\ snap[d][b] \in Counts
    OBVIOUS
  <2>1. board[d][b] \in Nat /\ snap[d][b] \in Nat
    BY DEF RankShape, Tables
  <2>2. /\ visits \in Nat /\ visits <= MaxVisits /\ MaxVisits \in Nat
        /\ boosts \in Nat
    BY RankAssumption DEF RankShape
  <2>3. board[d][b] + boosts <= 2 * visits /\ snap[d][b] <= 2 * visits
    BY DEF ShownTwice
  <2> QED
    BY <2>1, <2>2, <2>3 DEF Counts
<1>2. board \in [Dates -> [Boards -> Counts]] /\ snap \in [Dates -> [Boards -> Counts]]
  BY <1>1 DEF RankShape, Tables
<1>3. ASSUME NEW j \in Jobs
      PROVE  /\ job[j].date \in 0 .. LastDay /\ job[j].seen \in 0 .. MaxVisits
             /\ job[j].open \in Boards \cup {NoBoard}
             /\ \A i \in 1 .. Len(job[j].left) : job[j].left[i] \in Boards
  <2>1. job[j] \in JobRun
    BY DEF RankShape
  <2>2. job[j].left \in Seq(Boards)
    BY <2>1 DEF JobRun
  <2>3. \A i \in 1 .. Len(job[j].left) : job[j].left[i] \in Boards
    BY <2>2
  <2> QED
    BY <2>1, <2>3 DEF JobRun
<1>4. archive.date \in 0 .. LastDay
  BY DEF RankShape, ArchiveRun
<1>5. boosts \in 0 .. MaxVisits
  BY RankAssumption DEF RankShape
<1> QED
  BY <1>2, <1>3, <1>4, <1>5 DEF RankShape, RankTypeOK, FutureIsBlank

LEMMA RankStarts == RankInit => RankInv
<1> SUFFICES ASSUME RankInit
             PROVE  RankInv
  OBVIOUS
<1>1. 1 \in Dates /\ 0 \in 0 .. MaxVisits /\ 0 \in 0 .. 0 /\ 0 \in 0 .. LastDay
      /\ 0 \in 0 .. MaxByHand /\ 0 <= 1
  BY RankAssumption DEF Dates
<1>2. <<>> \in Seq(Boards)
  OBVIOUS
<1>3. job \in [Jobs -> JobRun] /\ archive \in ArchiveRun
  BY <1>1, <1>2 DEF RankInit, Resting, JobRun, ArchiveRun
<1>4. board \in Tables /\ snap \in Tables
  BY DEF RankInit, Tables
<1>5. RankShape
  BY <1>1, <1>3, <1>4 DEF RankInit, RankShape
<1>6. RunsAreOfThePast
  BY DEF RankInit, RunsAreOfThePast, Resting
<1>7. \A d \in Dates, b \in Boards : board[d][b] = 0 /\ snap[d][b] = 0
  BY DEF RankInit
<1>8. ShownTwice /\ FutureIsBlank
  BY <1>7 DEF RankInit, ShownTwice, FutureIsBlank
<1> QED
  BY <1>5, <1>6, <1>8 DEF RankInv

LEMMA VisitKeeps ==
    ASSUME RankInv, Visit
    PROVE  RankInv'
<1> USE DEF RankInv
<1>1. /\ visits < MaxVisits /\ visits' = visits + 1
      /\ boosts' = boosts \/ boosts' = boosts + 1
      /\ UNCHANGED <<day, night, board, snap, job, archive, byHand>>
  BY DEF Visit
<1>2. visits \in Nat /\ boosts \in Nat /\ boosts <= visits /\ MaxVisits \in Nat
  BY RankAssumption DEF RankShape
<1>3. visits' \in 0 .. MaxVisits /\ boosts' \in 0 .. visits'
  BY <1>1, <1>2
<1>4. RankShape'
  BY <1>1, <1>3 DEF RankShape
<1>5. RunsAreOfThePast'
  <2>1. \A j \in Jobs : job[j].seen \in Nat
    BY RankAssumption DEF RankShape, JobRun
  <2> QED
    BY <1>1, <1>2, <2>1 DEF RunsAreOfThePast
<1>6. ShownTwice'
  <2>1. \A d \in Dates, b \in Boards : board[d][b] \in Nat /\ snap[d][b] \in Nat
    BY DEF RankShape, Tables
  <2> QED
    BY <1>1, <1>2, <2>1 DEF ShownTwice
<1> QED
  BY <1>1, <1>4, <1>5, <1>6 DEF FutureIsBlank

\* A board of a day that has come is written, and no more increments wait.
LEMMA BoardWritten ==
    ASSUME RankInv, NEW d \in Dates, d <= day, NEW b \in Boards, NEW v \in Nat,
           v + boosts' <= 2 * visits, boosts' \in 0 .. boosts,
           board' = [board EXCEPT ![d][b] = v],
           UNCHANGED <<day, night, visits, snap, archive, byHand>>,
           job' \in [Jobs -> JobRun],
           \A j \in Jobs : job'[j].date <= day /\ job'[j].seen <= visits
    PROVE  RankInv'
<1> USE DEF RankInv
<1>1. /\ board' \in Tables
      /\ \A e \in Dates, c \in Boards :
            board'[e][c] = IF e = d /\ c = b THEN v ELSE board[e][c]
  <2>1. board \in Tables
    BY DEF RankShape
  <2>2. \A f \in Tables :
          /\ [f EXCEPT ![d][b] = v] \in Tables
          /\ \A e \in Dates, c \in Boards :
               [f EXCEPT ![d][b] = v][e][c] = IF e = d /\ c = b THEN v ELSE f[e][c]
    BY CellWritten
  <2> QED
    BY <2>1, <2>2
<1>2. visits \in Nat /\ boosts \in Nat /\ boosts' \in Nat /\ boosts' <= boosts /\ boosts <= visits
      /\ day \in Nat /\ d \in Nat
  BY RankAssumption DEF RankShape, Dates
<1>3. RankShape'
  BY <1>1, <1>2 DEF RankShape
<1>4. RunsAreOfThePast'
  BY DEF RunsAreOfThePast
<1>5. ShownTwice'
  <2>1. \A e \in Dates, c \in Boards : board[e][c] \in Nat /\ snap[e][c] \in Nat
    BY DEF RankShape, Tables
  <2>2. ASSUME NEW e \in Dates, NEW c \in Boards
        PROVE  board'[e][c] + boosts' <= 2 * visits' /\ snap'[e][c] <= 2 * visits'
    BY <1>1, <1>2, <2>1 DEF ShownTwice
  <2> QED
    BY <2>2 DEF ShownTwice
<1>6. FutureIsBlank'
  <2>1. \A e \in Dates : e > day => e # d
    BY <1>2 DEF Dates
  <2> QED
    BY <1>1, <2>1 DEF FutureIsBlank
<1> QED
  BY <1>3, <1>4, <1>5, <1>6

LEMMA BoostKeeps ==
    ASSUME RankInv, Boost
    PROVE  RankInv'
<1> USE DEF RankInv
<1>1. /\ boosts > 0 /\ boosts' = boosts - 1
      /\ board' = [board EXCEPT ![day][Hot] = board[day][Hot] + 1] \/ board' = board
      /\ UNCHANGED <<day, night, visits, snap, job, archive, byHand>>
  BY DEF Boost
<1>2. boosts \in Nat /\ visits \in Nat /\ day \in Dates /\ day \in Nat /\ day <= day
      /\ Hot \in Boards /\ boosts <= visits
  BY BoardsOfJobs DEF RankShape, Dates
<1>3. boosts' \in 0 .. boosts /\ boosts' \in Nat
  BY <1>1, <1>2
<1>4. /\ job' \in [Jobs -> JobRun]
      /\ \A j \in Jobs : job'[j].date <= day /\ job'[j].seen <= visits
  BY <1>1 DEF RankShape, RunsAreOfThePast
<1>5. CASE board' = [board EXCEPT ![day][Hot] = board[day][Hot] + 1]
  <2>1. board[day][Hot] \in Nat
    BY <1>2 DEF RankShape, Tables
  <2>2. board[day][Hot] + 1 \in Nat /\ board[day][Hot] + 1 + boosts' <= 2 * visits
    BY <1>1, <1>2, <2>1 DEF ShownTwice
  <2> HIDE DEF RankInv
  <2> QED
    BY <1>1, <1>2, <1>3, <1>4, <1>5, <2>2, BoardWritten
<1>6. CASE board' = board
  <2>1. RankShape'
    BY <1>1, <1>2, <1>3, <1>6 DEF RankShape
  <2>2. ShownTwice'
    <3>1. \A d \in Dates, b \in Boards : board[d][b] \in Nat
      BY DEF RankShape, Tables
    <3> QED
      BY <1>1, <1>2, <1>6, <3>1 DEF ShownTwice
  <2> QED
    BY <1>1, <1>6, <2>1, <2>2 DEF RunsAreOfThePast, FutureIsBlank
<1> QED
  BY <1>1, <1>5, <1>6
\* Only the run of a job moves.
LEMMA JobMoved ==
    ASSUME RankInv, UNCHANGED <<day, night, visits, boosts, board, snap, archive, byHand>>,
           job' \in [Jobs -> JobRun],
           \A j \in Jobs : job'[j].date <= day /\ job'[j].seen <= visits
    PROVE  RankInv'
BY DEF RankInv, RankShape, RunsAreOfThePast, ShownTwice, FutureIsBlank

LEMMA JobShape ==
    ASSUME RankInv, NEW j \in Jobs
    PROVE  /\ job[j].date \in 0 .. LastDay /\ job[j].seen \in 0 .. MaxVisits
           /\ job[j].left \in Seq(Boards) /\ job[j].open \in Boards \union {NoBoard}
           /\ job[j].date <= day /\ job[j].seen <= visits
BY DEF RankInv, RankShape, JobRun, RunsAreOfThePast

\* The run of one job becomes r.
LEMMA JobBecomes ==
    ASSUME RankInv, NEW j \in Jobs, NEW r \in JobRun, r.date <= day, r.seen <= visits,
           job' = [job EXCEPT ![j] = r]
    PROVE  /\ job' \in [Jobs -> JobRun]
           /\ \A i \in Jobs : job'[i].date <= day /\ job'[i].seen <= visits
<1>1. job \in [Jobs -> JobRun] /\ \A i \in Jobs : job[i].date <= day /\ job[i].seen <= visits
  BY DEF RankInv, RankShape, RunsAreOfThePast
<1> QED
  BY <1>1

LEMMA RecomputeBeginKeeps ==
    ASSUME RankInv, NEW j \in Jobs, RecomputeBegin(j)
    PROVE  RankInv'
<1> DEFINE r == [date |-> day, seen |-> visits, open |-> NoBoard,
                 left |-> IF j = Hot THEN <<j>> \o Categories ELSE <<j>>]
<1>1. /\ job' = [job EXCEPT ![j] = r]
      /\ UNCHANGED <<day, night, visits, boosts, board, snap, archive, byHand>>
  BY DEF RecomputeBegin, RunDate
<1>2. day \in 0 .. LastDay /\ visits \in 0 .. MaxVisits /\ day <= day /\ visits <= visits
  BY RankAssumption DEF RankInv, RankShape, Dates
<1>3. <<j>> \in Seq(Boards) /\ <<j>> \o Categories \in Seq(Boards)
  <2>1. j \in Boards
    BY BoardsOfJobs
  <2> QED
    BY <2>1, RankAssumption
<1>4. r \in JobRun
  BY <1>2, <1>3 DEF JobRun
<1>5. r.date <= day /\ r.seen <= visits
  BY <1>2
<1> HIDE DEF r
<1>6. /\ job' \in [Jobs -> JobRun]
      /\ \A i \in Jobs : job'[i].date <= day /\ job'[i].seen <= visits
  BY <1>1, <1>4, <1>5, JobBecomes
<1> QED
  BY <1>1, <1>6, JobMoved

LEMMA RecomputeFailsKeeps ==
    ASSUME RankInv, NEW j \in Jobs, RecomputeFails(j)
    PROVE  RankInv'
<1> DEFINE rest == IF Head(job[j].left) = j THEN <<>> ELSE Tail(job[j].left)
           r == [job[j] EXCEPT !.left = rest]
<1>1. /\ job[j].left # <<>> /\ job' = [job EXCEPT ![j] = r]
      /\ UNCHANGED <<day, night, visits, boosts, board, snap, archive, byHand>>
  BY DEF RecomputeFails
<1>2. rest \in Seq(Boards)
  BY <1>1, JobShape
<1>3. job[j] \in JobRun
  BY DEF RankInv, RankShape
<1> HIDE DEF rest
<1>4. r \in JobRun /\ r.date <= day /\ r.seen <= visits
  BY <1>2, <1>3, JobShape DEF JobRun
<1> HIDE DEF r
<1>5. /\ job' \in [Jobs -> JobRun]
      /\ \A i \in Jobs : job'[i].date <= day /\ job'[i].seen <= visits
  BY <1>1, <1>4, JobBecomes
<1> QED
  BY <1>1, <1>5, JobMoved

\* A run that is under way started on some day.
LEMMA ReplaceDelKeeps ==
    ASSUME RankInv, NEW j \in Jobs, NEW b \in Boards, ReplaceDel(j, b)
    PROVE  RankInv'
<1> DEFINE r == [job[j] EXCEPT !.open = b, !.left = Tail(job[j].left)]
<1>1. /\ job[j].left # <<>>
      /\ board' = [board EXCEPT ![job[j].date][b] = 0]
      /\ job' = [job EXCEPT ![j].open = b, ![j].left = Tail(@)]
      /\ UNCHANGED <<day, night, visits, boosts, snap, archive, byHand>>
  BY DEF ReplaceDel
<1>2. job[j] \in JobRun /\ job \in [Jobs -> JobRun]
  BY DEF RankInv, RankShape
<1>3. Tail(job[j].left) \in Seq(Boards)
  BY <1>1, JobShape
<1>4. r \in JobRun /\ r.date <= day /\ r.seen <= visits
  BY <1>2, <1>3, JobShape DEF JobRun
<1>5. job' = [job EXCEPT ![j] = r]
  BY <1>1, <1>2
<1> HIDE DEF r
<1>6. /\ job' \in [Jobs -> JobRun]
      /\ \A i \in Jobs : job'[i].date <= day /\ job'[i].seen <= visits
  BY <1>4, <1>5, JobBecomes
<1>7. /\ boosts' \in 0 .. boosts /\ 0 + boosts' <= 2 * visits /\ 0 \in Nat
      /\ job[j].date <= day
  <2>1. boosts \in Nat /\ visits \in Nat /\ boosts <= visits /\ boosts' = boosts
    BY <1>1 DEF RankInv, RankShape
  <2> QED
    BY <2>1, JobShape
<1>8. CASE job[j].date \in Dates
  BY <1>1, <1>6, <1>7, <1>8, BoardWritten
<1>9. CASE job[j].date \notin Dates
  <2>1. board' = board
    BY <1>1, <1>9 DEF RankInv, RankShape, Tables
  <2> QED
    BY <1>1, <1>6, <2>1, JobMoved
<1> QED
  BY <1>8, <1>9

LEMMA ReplaceAddKeeps ==
    ASSUME RankInv, NEW j \in Jobs, ReplaceAdd(j)
    PROVE  RankInv'
<1> DEFINE r == [job[j] EXCEPT !.open = NoBoard]
           d == job[j].date
           b == job[j].open
           v == IF job[j].seen = 0 THEN board[d][b] ELSE job[j].seen
<1>1. /\ b # NoBoard
      /\ board' = [board EXCEPT ![d][b] = v]
      /\ job' = [job EXCEPT ![j].open = NoBoard]
      /\ UNCHANGED <<day, night, visits, boosts, snap, archive, byHand>>
  BY DEF ReplaceAdd
<1>2. job[j] \in JobRun /\ job \in [Jobs -> JobRun]
  BY DEF RankInv, RankShape
<1>3. r \in JobRun /\ r.date <= day /\ r.seen <= visits
  BY <1>2, JobShape DEF JobRun
<1>4. job' = [job EXCEPT ![j] = r]
  BY <1>1, <1>2
<1> HIDE DEF r
<1>5. /\ job' \in [Jobs -> JobRun]
      /\ \A i \in Jobs : job'[i].date <= day /\ job'[i].seen <= visits
  BY <1>3, <1>4, JobBecomes
<1>6. b \in Boards /\ d <= day /\ job[j].seen \in Nat /\ job[j].seen <= visits
  BY <1>1, JobShape, RankAssumption
<1>7. boosts \in Nat /\ visits \in Nat /\ boosts <= visits /\ boosts' = boosts
      /\ boosts' \in 0 .. boosts
  BY <1>1 DEF RankInv, RankShape
<1>8. CASE d \in Dates
  <2>1. board[d][b] \in Nat /\ board[d][b] + boosts <= 2 * visits
    BY <1>6, <1>8 DEF RankInv, RankShape, Tables, ShownTwice
  <2>2. v \in Nat /\ v + boosts' <= 2 * visits
    BY <1>6, <1>7, <2>1
  <2> HIDE DEF v, d, b
  <2> QED
    BY <1>1, <1>5, <1>6, <1>7, <1>8, <2>2, BoardWritten
<1>9. CASE d \notin Dates
  <2>1. board' = board
    BY <1>1, <1>9 DEF RankInv, RankShape, Tables
  <2> QED
    BY <1>1, <1>5, <2>1, JobMoved
<1> QED
  BY <1>8, <1>9

\* Only the archive, the day and what was copied move.
LEMMA ArchiveMoved ==
    ASSUME RankInv, UNCHANGED <<day, visits, boosts, board, snap, job>>,
           night' \in BOOLEAN, byHand' \in 0 .. MaxByHand,
           archive' \in ArchiveRun, archive'.date <= day
    PROVE  RankInv'
BY DEF RankInv, RankShape, RunsAreOfThePast, ShownTwice, FutureIsBlank

LEMMA RestingShape ==
    ASSUME RankInv
    PROVE  Resting \in ArchiveRun /\ Resting.date <= day
<1>1. 0 \in 0 .. LastDay /\ 0 <= day
  BY RankAssumption DEF RankInv, RankShape, Dates
<1>2. <<>> \in Seq(Boards)
  OBVIOUS
<1> QED
  BY <1>1, <1>2 DEF Resting, ArchiveRun

LEMMA OrderShape == Order \in Seq(Boards)
BY RankAssumption DEF Order

LEMMA ArchiveBeginsKeeps ==
    ASSUME RankInv, TenPast \/ \E d \in Dates : ArchiveByHand(d)
    PROVE  RankInv'
<1>1. CASE TenPast
  <2>1. day \in 0 .. LastDay /\ day <= day
    BY RankAssumption DEF RankInv, RankShape, Dates
  <2>2. [date |-> day, left |-> Order] \in ArchiveRun
    BY <2>1, OrderShape DEF ArchiveRun
  <2>3. /\ archive' \in {[date |-> day, left |-> Order], Resting} /\ night' = FALSE
        /\ UNCHANGED <<day, visits, boosts, board, snap, job, byHand>>
    BY <1>1 DEF TenPast
  <2>4. archive' \in ArchiveRun /\ archive'.date <= day
    BY <2>1, <2>2, <2>3, RestingShape
  <2>5. byHand' \in 0 .. MaxByHand
    BY <2>3 DEF RankInv, RankShape
  <2> QED
    BY <2>3, <2>4, <2>5, ArchiveMoved
<1>2. ASSUME NEW d \in Dates, ArchiveByHand(d)
      PROVE  RankInv'
  <2>1. /\ byHand < MaxByHand /\ d <= day /\ byHand' = byHand + 1
        /\ archive' = [date |-> d, left |-> Order]
        /\ UNCHANGED <<day, night, visits, boosts, board, snap, job>>
    BY <1>2 DEF ArchiveByHand
  <2>2. archive' \in ArchiveRun /\ archive'.date <= day
    <3>1. d \in 0 .. LastDay
      BY RankAssumption DEF Dates
    <3> QED
      BY <2>1, <3>1, OrderShape DEF ArchiveRun
  <2>3. byHand' \in 0 .. MaxByHand /\ night' \in BOOLEAN
    BY <2>1, RankAssumption DEF RankInv, RankShape
  <2> QED
    BY <2>1, <2>2, <2>3, ArchiveMoved
<1> QED
  BY <1>1, <1>2

LEMMA ArchiveOneKeeps ==
    ASSUME RankInv, ArchiveOne
    PROVE  RankInv'
<1> DEFINE d == archive.date
           top == Head(archive.left)
           next == [archive EXCEPT !.left = Tail(@)]
<1>1. /\ archive.left # <<>>
      /\ archive' \in {next, Resting}
      /\ \/ UNCHANGED snap
         \/ snap' = [snap EXCEPT ![d][top] = board[d][top]]
      /\ UNCHANGED <<day, night, visits, boosts, board, job, byHand>>
  BY DEF ArchiveOne
<1>2. archive \in ArchiveRun /\ archive.date <= day
  BY DEF RankInv, RankShape, RunsAreOfThePast
<1>3. archive.left \in Seq(Boards) /\ archive.date \in 0 .. LastDay
  BY <1>2 DEF ArchiveRun
<1>4. top \in Boards /\ Tail(archive.left) \in Seq(Boards)
  BY <1>1, <1>3
<1>5. next \in ArchiveRun /\ next.date <= day
  BY <1>2, <1>4 DEF ArchiveRun
<1> HIDE DEF next
<1>6. archive' \in ArchiveRun /\ archive'.date <= day
  BY <1>1, <1>5, RestingShape
<1>7. night' \in BOOLEAN /\ byHand' \in 0 .. MaxByHand
  BY <1>1 DEF RankInv, RankShape
<1>8. CASE snap' = snap
  BY <1>1, <1>6, <1>7, <1>8, ArchiveMoved
<1>9. CASE snap' = [snap EXCEPT ![d][top] = board[d][top]] /\ d \in Dates
  <2>1. board[d][top] \in Nat /\ snap \in Tables
    BY <1>4, <1>9 DEF RankInv, RankShape, Tables
  <2>2. PICK e \in Dates, c \in Boards, v \in Nat : e = d /\ c = top /\ v = board[d][top]
    BY <1>4, <1>9, <2>1
  <2>3. /\ snap' \in Tables
        /\ \A x \in Dates, y \in Boards :
             snap'[x][y] = IF x = d /\ y = top THEN board[d][top] ELSE snap[x][y]
    <3>1. snap' = [snap EXCEPT ![e][c] = v]
      BY <1>9, <2>2
    <3>2. \A f \in Tables :
            /\ [f EXCEPT ![e][c] = v] \in Tables
            /\ \A x \in Dates, y \in Boards :
                 [f EXCEPT ![e][c] = v][x][y] = IF x = e /\ y = c THEN v ELSE f[x][y]
      BY CellWritten
    <3>3. /\ snap' \in Tables
          /\ \A x \in Dates, y \in Boards :
               snap'[x][y] = IF x = e /\ y = c THEN v ELSE snap[x][y]
      BY <2>1, <3>1, <3>2
    <3> QED
      BY <2>2, <3>3
  <2>4. RankShape'
    BY <1>1, <1>6, <1>7, <2>3 DEF RankInv, RankShape
  <2>5. RunsAreOfThePast'
    BY <1>1, <1>6 DEF RankInv, RunsAreOfThePast
  <2>6. ShownTwice'
    <3>1. board[d][top] <= 2 * visits
      <4>1. board[d][top] + boosts <= 2 * visits /\ boosts \in Nat /\ visits \in Nat
        BY <1>4, <1>9 DEF RankInv, RankShape, ShownTwice
      <4> QED
        BY <2>1, <4>1
    <3> QED
      BY <1>1, <2>3, <3>1 DEF RankInv, ShownTwice
  <2>7. FutureIsBlank'
    <3>1. \A x \in Dates : x > day => x # d
      BY <1>2, <1>9 DEF Dates, RankInv, RankShape
    <3> QED
      BY <1>1, <2>3, <3>1 DEF RankInv, FutureIsBlank
  <2> QED
    BY <2>4, <2>5, <2>6, <2>7 DEF RankInv
<1>10. CASE snap' = [snap EXCEPT ![d][top] = board[d][top]] /\ d \notin Dates
  <2>1. snap' = snap
    BY <1>10 DEF RankInv, RankShape, Tables
  <2> QED
    BY <1>8, <2>1
<1> QED
  BY <1>1, <1>8, <1>9, <1>10

\* Boards are emptied, and nothing else but the archive moves.
LEMMA BoardsEmptied ==
    ASSUME RankInv, board' \in Tables,
           \A d \in Dates, b \in Boards : board'[d][b] \in {0, board[d][b]},
           UNCHANGED <<day, night, visits, boosts, snap, job, byHand>>,
           archive' \in ArchiveRun, archive'.date <= day
    PROVE  RankInv'
<1>1. RankShape'
  BY DEF RankInv, RankShape
<1>2. RunsAreOfThePast'
  BY DEF RankInv, RunsAreOfThePast
<1>3. ShownTwice'
  <2>1. boosts \in Nat /\ visits \in Nat /\ boosts <= visits
    BY DEF RankInv, RankShape
  <2>2. 0 + boosts <= 2 * visits
    BY <2>1
  <2> QED
    BY <2>2 DEF RankInv, ShownTwice
<1>4. FutureIsBlank'
  BY DEF RankInv, FutureIsBlank
<1> QED
  BY <1>1, <1>2, <1>3, <1>4 DEF RankInv

LEMMA EmptyingKeeps ==
    ASSUME RankInv,
           ArchiveClear \/ ArchiveFails \/ \E d \in Dates, b \in Boards : ExpireBoard(d, b)
    PROVE  RankInv'
<1>1. board \in Tables /\ archive \in ArchiveRun /\ archive.date <= day
  BY DEF RankInv, RankShape, RunsAreOfThePast
<1>2. CASE ArchiveClear
  <2>1. /\ board' = [board EXCEPT ![archive.date] = [b \in Boards |-> 0]]
        /\ archive' = Resting
        /\ UNCHANGED <<day, night, visits, boosts, snap, job, byHand>>
    BY <1>2 DEF ArchiveClear
  <2>2. board' \in Tables /\ \A d \in Dates, b \in Boards : board'[d][b] \in {0, board[d][b]}
    BY <1>1, <2>1 DEF Tables
  <2> QED
    BY <2>1, <2>2, RestingShape, BoardsEmptied
<1>3. CASE ArchiveFails
  <2>1. /\ archive' = Resting
        /\ UNCHANGED <<day, night, visits, boosts, board, snap, job, byHand>>
    BY <1>3 DEF ArchiveFails
  <2> QED
    BY <1>1, <2>1, RestingShape, BoardsEmptied
<1>4. ASSUME NEW d \in Dates, NEW b \in Boards, ExpireBoard(d, b)
      PROVE  RankInv'
  <2>1. /\ board' = [board EXCEPT ![d][b] = 0]
        /\ UNCHANGED <<day, night, visits, boosts, snap, job, archive, byHand>>
    BY <1>4 DEF ExpireBoard
  <2>2. board' \in Tables /\ \A e \in Dates, c \in Boards : board'[e][c] \in {0, board[e][c]}
    BY <1>1, <2>1 DEF Tables
  <2> QED
    BY <1>1, <2>1, <2>2, BoardsEmptied
<1> QED
  BY <1>2, <1>3, <1>4

LEMMA MidnightKeeps ==
    ASSUME RankInv, Midnight
    PROVE  RankInv'
<1>1. /\ day < LastDay /\ day' = day + 1 /\ night' = TRUE
      /\ UNCHANGED <<visits, boosts, board, snap, job, archive, byHand>>
  BY DEF Midnight
<1>2. day \in Nat /\ day' \in Dates
  BY <1>1, RankAssumption DEF RankInv, RankShape, Dates
<1>3. RankShape'
  BY <1>1, <1>2 DEF RankInv, RankShape
<1>4. RunsAreOfThePast'
  <2>1. archive.date \in Nat /\ \A j \in Jobs : job[j].date \in Nat
    BY RankAssumption DEF RankInv, RankShape, JobRun, ArchiveRun
  <2> QED
    BY <1>1, <1>2, <2>1 DEF RankInv, RunsAreOfThePast
<1>5. ShownTwice'
  BY <1>1 DEF RankInv, ShownTwice
<1>6. FutureIsBlank'
  <2>1. \A d \in Dates : d > day' => d > day
    BY <1>1, <1>2 DEF Dates
  <2> QED
    BY <1>1, <2>1 DEF RankInv, FutureIsBlank
<1> QED
  BY <1>3, <1>4, <1>5, <1>6 DEF RankInv

LEMMA RankStep == RankInv /\ [RankNext]_rankVars => RankInv'
<1> SUFFICES ASSUME RankInv, [RankNext]_rankVars
             PROVE  RankInv'
  OBVIOUS
<1>1. CASE Visit \/ Boost \/ Midnight
  BY <1>1, VisitKeeps, BoostKeeps, MidnightKeeps
<1>2. CASE TenPast \/ \E d \in Dates : ArchiveByHand(d)
  BY <1>2, ArchiveBeginsKeeps
<1>3. CASE ArchiveOne
  BY <1>3, ArchiveOneKeeps
<1>4. CASE ArchiveClear \/ ArchiveFails \/ \E d \in Dates, b \in Boards : ExpireBoard(d, b)
  BY <1>4, EmptyingKeeps
<1>5. ASSUME NEW j \in Jobs, RecomputeBegin(j) \/ ReplaceAdd(j) \/ RecomputeFails(j)
      PROVE  RankInv'
  BY <1>5, RecomputeBeginKeeps, ReplaceAddKeeps, RecomputeFailsKeeps
<1>6. ASSUME NEW j \in Jobs, NEW b \in Boards, ReplaceDel(j, b)
      PROVE  RankInv'
  BY <1>6, ReplaceDelKeeps
<1>7. CASE UNCHANGED rankVars
  BY <1>7 DEF rankVars, RankInv, RankShape, RunsAreOfThePast, ShownTwice, FutureIsBlank
<1> QED
  BY <1>1, <1>2, <1>3, <1>4, <1>5, <1>6, <1>7 DEF RankNext

\* The boards keep their types: whatever jobs, increments, archives and
\* expiries meet, no board shows a read more than twice, a run of a job or of
\* the archive is never of a day ahead of today, and the boards of days that
\* have not come are empty.
THEOREM RankTypeCorrect == RankSpec => []RankTypeOK
BY RankInvImplies, RankStarts, RankStep, PTL DEF RankSpec
=============================================================================
