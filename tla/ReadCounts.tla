----------------------------- MODULE ReadCounts -----------------------------
(***************************************************************************)
(* Read events on their way to the counters: a partition of                *)
(* interaction_events, the batch consumer of package saramax, the worker's *)
(* handler and the transaction of the interaction service.  One event is   *)
(* one read of some article: counted says how often it went into the sum.  *)
(***************************************************************************)
EXTENDS Naturals, Sequences, FiniteSets

CONSTANTS ReadBatchSize,
          MaxTopic,     \* bound on the events
          MaxRestarts   \* bound on the crashes of the worker

ASSUME ReadsAssumption ==
    ReadBatchSize \in Nat \ {0} /\ MaxTopic \in Nat /\ MaxRestarts \in Nat

VARIABLES topic,      \* reads, other events, and messages that do not parse
          fetched,    \* the claim: how far the messages are read
          readBatch,  \* the offsets of the batch, gathered or handled
          handling,   \* whether the handler has the batch
          markedTo,   \* all offsets below or at it are marked in the session
          committed,  \* ... and committed to Kafka
          counted,    \* how often each read has been added to read_count
          restarts,
          failed,     \* history: reads of batches whose handler failed
          overtaken   \* history: reads not handled when a message after them was marked

readsVars == <<topic, fetched, readBatch, handling, markedTo, committed, counted,
               restarts, failed, overtaken>>

Offsets == 1 .. MaxTopic
Written == 1 .. Len(topic)
Reads == {o \in Written : topic[o] = "read"}

ReadsTypeOK ==
    /\ topic \in Seq({"read", "other", "bad"}) /\ Len(topic) <= MaxTopic
    /\ fetched \in 0 .. Len(topic)
    /\ readBatch \subseteq 1 .. fetched /\ Cardinality(readBatch) <= ReadBatchSize
    /\ handling \in BOOLEAN /\ (handling => readBatch # {})
    /\ committed \in 0 .. markedTo /\ markedTo \in 0 .. fetched
    /\ counted \in [Offsets -> Nat]
    /\ restarts \in 0 .. MaxRestarts
    /\ failed \subseteq Reads /\ overtaken \subseteq Reads

ReadsInit ==
    /\ topic = <<>> /\ fetched = 0 /\ readBatch = {} /\ handling = FALSE
    /\ markedTo = 0 /\ committed = 0
    /\ counted = [o \in Offsets |-> 0]
    /\ restarts = 0 /\ failed = {} /\ overtaken = {}

Emit ==
    /\ Len(topic) < MaxTopic
    /\ \E type \in {"read", "other", "bad"} : topic' = Append(topic, type)
    /\ UNCHANGED <<fetched, readBatch, handling, markedTo, committed, counted, restarts,
                   failed, overtaken>>

Further(m, n) == IF m < n THEN n ELSE m

\* The batch is gathered: a message that does not parse counts for its size and
\* is marked at once, whatever the batch holds by then.
GatherOne ==
    LET o == fetched + 1
    IN  /\ ~ handling /\ fetched < Len(topic)
        /\ \A p \in readBatch : o < p + ReadBatchSize
        /\ fetched' = o
        /\ IF topic[o] = "bad"
             THEN /\ markedTo' = Further(markedTo, o)
                  /\ overtaken' = overtaken \union (readBatch \intersect Reads)
                  /\ UNCHANGED readBatch
             ELSE readBatch' = readBatch \union {o} /\ UNCHANGED <<markedTo, overtaken>>
        /\ UNCHANGED <<topic, handling, committed, counted, restarts, failed>>

\* Mutant: only a full batch is handed over.
HandOverFull ==
    /\ ~ handling /\ Cardinality(readBatch) = ReadBatchSize
    /\ handling' = TRUE
    /\ UNCHANGED <<topic, fetched, readBatch, markedTo, committed, counted, restarts,
                   failed, overtaken>>

\* The batch is full, or its time is over.
HandOver ==
    /\ ~ handling /\ readBatch # {}
    /\ handling' = TRUE
    /\ UNCHANGED <<topic, fetched, readBatch, markedTo, committed, counted, restarts,
                   failed, overtaken>>

\* BatchIncrReadCount: one transaction for all reads of the batch.
AddReads ==
    counted' = [o \in Offsets |-> IF o \in readBatch \intersect Reads THEN counted[o] + 1
                                                                ELSE counted[o]]

\* Mutant: marked whatever the handler answers.
HandlerFailsMarked ==
    /\ handling
    /\ readBatch \intersect Reads # {}
    /\ AddReads \/ UNCHANGED counted
    /\ markedTo' = Further(markedTo, CHOOSE o \in readBatch : \A p \in readBatch : p <= o)
    /\ handling' = FALSE /\ readBatch' = {}
    /\ UNCHANGED <<topic, fetched, committed, restarts, failed, overtaken>>

\* The call fails, its transaction committed or not: nothing is marked, and the
\* consumer goes on with the next batch.
HandlerFails ==
    /\ handling
    /\ readBatch \intersect Reads # {}
    /\ AddReads \/ UNCHANGED counted
    /\ failed' = failed \union (readBatch \intersect Reads)
    /\ handling' = FALSE /\ readBatch' = {}
    /\ UNCHANGED <<topic, fetched, markedTo, committed, restarts, overtaken>>

\* Marking the last message of the batch marks all before it.
HandlerSucceeds ==
    /\ handling
    /\ AddReads
    /\ markedTo' = Further(markedTo, CHOOSE o \in readBatch : \A p \in readBatch : p <= o)
    /\ handling' = FALSE /\ readBatch' = {}
    /\ UNCHANGED <<topic, fetched, committed, restarts, failed, overtaken>>

CommitMarks ==
    /\ committed < markedTo
    /\ committed' = markedTo
    /\ UNCHANGED <<topic, fetched, readBatch, handling, markedTo, counted, restarts,
                   failed, overtaken>>

\* A crash loses what is not committed; a call under way may still commit.
RestartWorker ==
    /\ restarts < MaxRestarts
    /\ restarts' = restarts + 1
    /\ (handling /\ AddReads) \/ UNCHANGED counted
    /\ fetched' = committed /\ markedTo' = committed
    /\ handling' = FALSE /\ readBatch' = {}
    /\ UNCHANGED <<topic, committed, failed, overtaken>>

WorkerStep == GatherOne \/ HandOver \/ HandlerFails \/ HandlerSucceeds

ReadsNext == Emit \/ WorkerStep \/ CommitMarks \/ RestartWorker

\* The worker runs, and sarama's ticker commits.
ReadsFairness == WF_readsVars(WorkerStep) /\ WF_readsVars(CommitMarks)

ReadsSpec == ReadsInit /\ [][ReadsNext]_readsVars /\ ReadsFairness

-----------------------------------------------------------------------------
(* Properties.                                                             *)

\* What is committed is counted: a crash between the transaction, the mark and
\* the commit makes the worker count again rather than forget, unless a batch
\* failed, or a message that does not parse was marked ahead of its batch.  "All
\* items of a batch in one commit: a redelivery does not add again what
\* succeeded" (the handler's comment): only a restart counts a read once more.
CountedOncePerLife ==
    \A o \in Reads :
       /\ o <= committed => counted[o] > 0 \/ o \in failed \union overtaken
       /\ counted[o] <= 1 + restarts

\* Every read reaches the handler, also the last ones of a quiet topic.
EveryReadHandled ==
    \A o \in Offsets :
       o \in Reads ~> counted[o] > 0 \/ o \in failed \union overtaken
=============================================================================
