---------------------------- MODULE CutoverProofs ----------------------------
(***************************************************************************)
(* Proofs about Cutover for every set of writers, readers, operators and   *)
(* persons and any number of writes.                                       *)
(***************************************************************************)
EXTENDS Cutover, TLAPS

\* A call that has passed the review carries the names of two persons.
Reviewed ==
    \A c \in Consoles :
        call[c].at \in {"consume", "store"} /\ call[c].next = "DST_ONLY" =>
            /\ call[c].propose \in Persons
            /\ call[c].approve \in Persons
            /\ call[c].propose # call[c].approve

ReviewInv == CutoverTypeOK /\ Reviewed /\ TwoPersons

\* A step of a console; the rest of the system leaves the service alone.
ConsoleStep(c) ==
    \/ SetStage(c) \/ Propose(c) \/ Approve(c) \/ ConsumePropose(c) \/ StoreStage(c)
    \/ SyncStatus(c) \/ Rollback(c) \/ Revert(c) \/ CallFails(c)

LEMMA ConsoleKeepsTypes ==
    ASSUME CutoverTypeOK, Reviewed, NEW c \in Consoles, ConsoleStep(c)
    PROVE  CutoverTypeOK'
<1> USE CutoverAssumption
        DEF CutoverTypeOK, MaybePerson, Go, Return, Idle, CallAt, Call, Stage
<1>1. UNCHANGED <<tables, requests, history>>
  BY DEF ConsoleStep, SetStage, Propose, Approve, ConsumePropose, StoreStage,
         SyncStatus, Rollback, Revert, CallFails, redis
<1>2. call[c] \in Call
  OBVIOUS
<1>3. CASE SetStage(c)
  <2>1. PICK next \in Stage :
           IF next = "DST_ONLY"
           THEN \E p, q \in MaybePerson :
                    call' = [call EXCEPT ![c] = CallAt("review", next, p, q)]
           ELSE call' = [call EXCEPT ![c] = CallAt("store", next, NoOne, NoOne)]
    BY <1>3 DEF SetStage
  <2>2. call' \in [Consoles -> Call]
    <3>1. CASE next = "DST_ONLY"
      BY <2>1, <3>1
    <3>2. CASE next # "DST_ONLY"
      BY <2>1, <3>2
    <3> QED
      BY <3>1, <3>2
  <2> QED
    BY <1>1, <1>3, <2>2 DEF SetStage, redis, tables, requests, history
<1>4. CASE Propose(c)
  BY <1>1, <1>2, <1>4 DEF Propose, redis, tables, requests, history
<1>5. CASE Approve(c)
  <2>4. Proposer(c) \in MaybePerson
    BY <1>2 DEF Proposer
  <2>1. call' \in [Consoles -> Call]
    <3>1. CASE TwoActors(c)
      <4>1. call' = [call EXCEPT ![c].at = "consume", ![c].propose = Proposer(c)]
        BY <1>5, <3>1 DEF Approve
      <4>2. [call[c] EXCEPT !.at = "consume", !.propose = Proposer(c)] \in Call
        BY <1>2, <2>4
      <4> QED
        BY <4>1, <4>2
    <3>2. CASE ~ TwoActors(c)
      BY <1>2, <1>5, <3>2 DEF Approve
    <3> QED
      BY <3>1, <3>2
  <2> QED
    BY <1>1, <1>5, <2>1 DEF Approve, redis, tables, requests, history
<1>6. CASE ConsumePropose(c)
  BY <1>1, <1>2, <1>6 DEF ConsumePropose, redis, tables, requests, history
<1>7. CASE StoreStage(c)
  <2>1. call' \in [Consoles -> Call]
    <3>1. CASE call[c].next = "DST_ONLY"
      BY <1>2, <1>7, <3>1 DEF StoreStage
    <3>2. CASE call[c].next # "DST_ONLY"
      BY <1>2, <1>7, <3>2 DEF StoreStage
    <3> QED
      BY <3>1, <3>2
  <2>3. stage' \in Stage
    BY <1>2, <1>7 DEF StoreStage
  <2>2. approvers' \subseteq Persons
    BY <1>7 DEF StoreStage, Reviewed
  <2> QED
    BY <1>1, <1>7, <2>1, <2>2, <2>3 DEF StoreStage, redis, tables, requests, history
<1>8. CASE SyncStatus(c) \/ Rollback(c) \/ Revert(c) \/ CallFails(c)
  BY <1>1, <1>2, <1>8
     DEF SyncStatus, Rollback, Revert, CallFails, redis, tables, requests, history
<1> QED
  BY <1>3, <1>4, <1>5, <1>6, <1>7, <1>8 DEF ConsoleStep

\* What the binlog holds, and holds after one more commit.
LEMMA BinlogTyped ==
    ASSUME CutoverTypeOK
    PROVE  /\ \A i \in 1 .. Len(binlog) : binlog[i] \in Values
           /\ \A v \in Values : /\ Append(binlog, v) \in Seq(Values)
                               /\ Len(Append(binlog, v)) = Len(binlog) + 1
           /\ Len(binlog) \in Nat
BY DEF CutoverTypeOK

LEMMA RequestKeepsTypes ==
    ASSUME CutoverTypeOK,
           \/ \E w \in Writers :
                \/ BeginWrite(w) \/ WriteFirst(w) \/ FirstFails(w)
                \/ WriteSecond(w) \/ SecondFails(w)
           \/ Apply \/ Restart
           \/ \E r \in Readers :
                ChooseSide(r) \/ ChooseBlind(r) \/ ReadTable(r) \/ EndRead(r)
    PROVE  CutoverTypeOK' /\ UNCHANGED service
<1> USE CutoverAssumption DEF CutoverTypeOK, Writes, Values, tables, history
<1>1. ASSUME NEW w \in Writers, BeginWrite(w)
      PROVE  CutoverTypeOK' /\ UNCHANGED service
  <2>1. issued' \in Writes /\ issued' = issued + 1 /\ issued' \in Values
    BY <1>1 DEF BeginWrite
  <2>2. StageSeen \subseteq Stage
    BY DEF StageSeen, Stage
  <2>3. PICK s \in StageSeen :
            /\ writer' = [writer EXCEPT ![w] = [at |-> "first", by |-> s, val |-> issued + 1]]
            /\ routed' = [routed EXCEPT ![issued + 1] = s]
            /\ exposed' = exposed \union
                             {v \in {issued + 1} : s = "DST_ONLY" /\ ~CaughtUp}
    BY <1>1 DEF BeginWrite
  <2>4. writer' \in [Writers -> WriteState]
    BY <2>1, <2>2, <2>3 DEF WriteState
  <2>5. before' \in [Writes -> SUBSET Writes]
    BY <1>1, <2>1 DEF BeginWrite, Ended
  <2>6. routed' \in [Writes -> Stage] /\ exposed' \subseteq Writes
    BY <2>1, <2>2, <2>3
  <2> QED
    BY <1>1, <2>1, <2>4, <2>5, <2>6 DEF BeginWrite, service, redis
<1>2. ASSUME NEW w \in Writers,
             WriteFirst(w) \/ FirstFails(w) \/ WriteSecond(w) \/ SecondFails(w)
      PROVE  CutoverTypeOK' /\ UNCHANGED service
  <2>1. writer[w] \in WriteState /\ NoWrite \in WriteState
    BY DEF NoWrite, WriteState, Stage
  <2>2. UNCHANGED <<service, reader, issued, before, routed, exposed>>
    BY <1>2 DEF WriteFirst, FirstFails, WriteSecond, SecondFails, EndWrite
  <2>3. /\ old' \in Values /\ new' \in Values
        /\ binlog' \in Seq(Values) /\ applied' \in 0 .. Len(binlog')
    <3>1. UNCHANGED tables \/ \E side \in Side : Put(side, writer[w].val)
      BY <1>2 DEF WriteFirst, FirstFails, WriteSecond, SecondFails, FirstSide, Side
    <3>2. CASE UNCHANGED tables
      BY <3>2
    <3>3. ASSUME NEW side \in Side, Put(side, writer[w].val)
          PROVE  /\ old' \in Values /\ new' \in Values
                 /\ binlog' \in Seq(Values) /\ applied' \in 0 .. Len(binlog')
      <4>1. writer[w].val \in Values
        BY <2>1 DEF WriteState
      <4>2. old' \in Values /\ new' \in Values
        BY <3>3, <4>1 DEF Put
      <4>3. /\ applied' = applied /\ Len(binlog) \in Nat
            /\ binlog' \in Seq(Values)
            /\ Len(binlog') \in {Len(binlog), Len(binlog) + 1}
        <5>1. applied' = applied /\ binlog' \in {binlog, Append(binlog, writer[w].val)}
          BY <3>3 DEF Put
        <5> QED
          BY <4>1, <5>1, BinlogTyped
      <4> QED
        BY <4>2, <4>3
    <3> QED
      BY <3>1, <3>2, <3>3
  <2>4. writer' \in [Writers -> WriteState]
    <3>1. writer' = [writer EXCEPT ![w] = NoWrite]
          \/ writer' = [writer EXCEPT ![w].at = "second"]
      BY <1>2 DEF WriteFirst, FirstFails, WriteSecond, SecondFails, EndWrite
    <3>2. [writer[w] EXCEPT !.at = "second"] \in WriteState
      BY <2>1 DEF WriteState
    <3> QED
      BY <2>1, <3>1, <3>2
  <2>5. outcome' \in [Writes -> {"running", "acked", "failed"}]
    BY <1>2 DEF WriteFirst, FirstFails, WriteSecond, SecondFails, EndWrite
  <2> QED
    BY <2>2, <2>3, <2>4, <2>5 DEF service, redis
<1>3. ASSUME NEW r \in Readers,
             ChooseSide(r) \/ ChooseBlind(r) \/ ReadTable(r) \/ EndRead(r)
      PROVE  CutoverTypeOK' /\ UNCHANGED service
  <2>1. UNCHANGED <<service, tables, writer, history>>
    BY <1>3 DEF ChooseSide, ChooseBlind, ReadTable, EndRead
  <2>2. reader[r] \in ReadState /\ NoRead \in ReadState
    BY DEF NoRead, ReadState, Side
  <2>3. reader' \in [Readers -> ReadState]
    <3>1. CASE ChooseSide(r) \/ ChooseBlind(r)
      <4>1. Acked \subseteq Writes
        BY DEF Acked
      <4>2. ASSUME NEW side \in Side, NEW since \in SUBSET Writes, RouteTo(r, side, since)
            PROVE  reader' \in [Readers -> ReadState]
        BY <4>2 DEF RouteTo, ReadState
      <4>3. CASE ChooseSide(r)
        <5>1. ReadSide(stage, gray) \in Side
          BY DEF ReadSide, Side
        <5> QED
          BY <4>1, <4>2, <4>3, <5>1 DEF ChooseSide
      <4>4. CASE ChooseBlind(r)
        <5>1. {v \in Acked : routed[v] # "DST_ONLY"} \in SUBSET Writes /\ "old" \in Side
          BY <4>1 DEF Side
        <5> QED
          BY <4>2, <4>4, <5>1 DEF ChooseBlind
      <4> QED
        BY <3>1, <4>3, <4>4
    <3>2. CASE ReadTable(r)
      BY <2>2, <3>2 DEF ReadTable, ReadState
    <3>3. CASE EndRead(r)
      BY <2>2, <3>3 DEF EndRead
    <3> QED
      BY <1>3, <3>1, <3>2, <3>3
  <2> QED
    BY <2>1, <2>3 DEF service, redis
<1>4. CASE Apply
  <2>1. applied + 1 \in 1 .. Len(binlog)
    BY <1>4 DEF Apply, CaughtUp
  <2>2. new' \in Values
    <3>1. \A i \in 1 .. Len(binlog) : binlog[i] \in Values
      BY BinlogTyped
    <3> QED
      BY <1>4, <2>1, <3>1 DEF Apply
  <2>3. applied' \in 0 .. Len(binlog)
    <3>1. applied' = applied + 1
      BY <1>4 DEF Apply
    <3>2. applied \in Nat /\ Len(binlog) \in Nat
      BY BinlogTyped
    <3> QED
      BY <2>1, <3>1, <3>2
  <2> QED
    BY <1>4, <2>2, <2>3 DEF Apply, requests, service, redis
<1>5. CASE Restart
  <2>1. exposed' \subseteq Writes
    BY <1>5 DEF Restart
  <2>2. applied' \in 0 .. Len(binlog)
    <3>1. applied' \in 0 .. applied
      BY <1>5 DEF Restart
    <3>2. applied \in Nat /\ Len(binlog) \in Nat /\ applied \leq Len(binlog)
      BY BinlogTyped
    <3> QED
      BY <3>1, <3>2
  <2> QED
    BY <1>5, <2>1, <2>2 DEF Restart, requests, service, redis
<1> QED
  BY <1>1, <1>2, <1>3, <1>4, <1>5

LEMMA ConsoleKeepsReview ==
    ASSUME CutoverTypeOK, Reviewed, TwoPersons, NEW c \in Consoles, ConsoleStep(c)
    PROVE  Reviewed' /\ TwoPersons'
<1> USE DEF Go, Return, Idle, CallAt
<1>1. \A d \in Consoles \ {c} : call'[d] = call[d]
  BY DEF CutoverTypeOK, ConsoleStep, SetStage, Propose, Approve, ConsumePropose,
         StoreStage, SyncStatus, Rollback, Revert, CallFails
<1>2. SUFFICES
        /\ call'[c].at \in {"consume", "store"} /\ call'[c].next = "DST_ONLY" =>
              /\ call'[c].propose \in Persons
              /\ call'[c].approve \in Persons
              /\ call'[c].propose # call'[c].approve
        /\ TwoPersons'
  BY <1>1 DEF Reviewed
<1>3. CASE SetStage(c)
  BY <1>3 DEF SetStage, TwoPersons, redis, CutoverTypeOK
<1>4. CASE Approve(c)
  BY <1>4, CutoverAssumption
     DEF Approve, TwoActors, Proposer, TwoPersons, redis, CutoverTypeOK, Call, MaybePerson
<1>5. CASE ConsumePropose(c)
  BY <1>5 DEF ConsumePropose, Reviewed, TwoPersons, CutoverTypeOK, Call
<1>6. CASE StoreStage(c)
  BY <1>6 DEF StoreStage, Reviewed, TwoPersons, CutoverTypeOK, Call
<1>7. CASE Propose(c) \/ SyncStatus(c) \/ Rollback(c) \/ Revert(c) \/ CallFails(c)
  BY <1>7 DEF Propose, SyncStatus, Rollback, Revert, CallFails, redis,
              TwoPersons, CutoverTypeOK, Call
<1> QED
  BY <1>3, <1>4, <1>5, <1>6, <1>7, Zenon DEF ConsoleStep

LEMMA ReviewInvariant == CutoverSpec => []ReviewInv
<1>1. ASSUME Init PROVE ReviewInv
  <2> USE <1>1 DEF Init
  <2>1. call \in [Consoles -> Call]
    BY DEF Idle, CallAt, Call, Stage, MaybePerson
  <2>2. writer \in [Writers -> WriteState]
    BY CutoverAssumption DEF NoWrite, WriteState, Stage, Values
  <2>3. reader \in [Readers -> ReadState]
    BY CutoverAssumption DEF NoRead, ReadState, Side, Values
  <2>4. CutoverTypeOK
    <3>1. before \in [Writes -> SUBSET Writes] /\ routed \in [Writes -> Stage]
          /\ outcome \in [Writes -> {"running", "acked", "failed"}]
          /\ binlog \in Seq(Values) /\ applied \in 0 .. Len(binlog)
      BY DEF Stage
    <3>2. 0 \in Values
      BY CutoverAssumption DEF Values
    <3> QED
      BY <2>1, <2>2, <2>3, <3>1, <3>2 DEF CutoverTypeOK, Stage, MaybePerson
  <2>5. Reviewed
    BY DEF Reviewed, Idle, CallAt
  <2>6. TwoPersons
    BY DEF TwoPersons
  <2> QED
    BY <2>4, <2>5, <2>6 DEF ReviewInv
<1>2. ASSUME ReviewInv, [Next]_vars PROVE ReviewInv'
  <2> USE <1>2 DEF ReviewInv
  <2>1. ASSUME NEW c \in Consoles, ConsoleStep(c) PROVE ReviewInv'
    BY <2>1, ConsoleKeepsTypes, ConsoleKeepsReview
  <2>2. CASE SetGray \/ ProposeExpires
    BY <2>2 DEF SetGray, ProposeExpires, CutoverTypeOK, Reviewed, TwoPersons,
                tables, requests, history, MaybePerson
  <2>3. CASE UNCHANGED service /\ CutoverTypeOK'
    BY <2>3 DEF service, redis, Reviewed, TwoPersons
  <2>4. CASE UNCHANGED vars
    BY <2>4 DEF vars, service, redis, tables, requests, history,
                CutoverTypeOK, Reviewed, TwoPersons
  <2> QED
    BY <2>1, <2>2, <2>3, <2>4, RequestKeepsTypes DEF Next, ConsoleStep
<1> QED
  BY <1>1, <1>2, PTL DEF CutoverSpec

(* Every variable keeps its type.                                          *)
THEOREM CutoverTypeCorrect == CutoverSpec => []CutoverTypeOK
<1>1. ReviewInv => CutoverTypeOK
  BY DEF ReviewInv
<1> QED
  BY <1>1, ReviewInvariant, PTL

(* No run of operator calls enters DST_ONLY on one person's word, whoever  *)
(* proposes, approves, fails or lets a proposal expire in between.         *)
THEOREM TwoPersonsAlways == CutoverSpec => []TwoPersons
<1>1. ReviewInv => TwoPersons
  BY DEF ReviewInv
<1> QED
  BY <1>1, ReviewInvariant, PTL

-----------------------------------------------------------------------------
(* The writes and what becomes of them.                                    *)

\* A write under way has not ended, and is routed by the stage it began in.
UnderWay ==
    \A w \in Writers : writer[w].at # "idle" =>
        /\ writer[w].val \in 1 .. issued
        /\ outcome[writer[w].val] = "running"
        /\ writer[w].by = routed[writer[w].val]
        /\ writer[w].at = "second" => IsDual(writer[w].by)

OneWriterEach ==
    \A w, x \in Writers :
        /\ writer[w].at # "idle"
        /\ writer[x].at # "idle"
        /\ writer[w].val = writer[x].val
        => w = x

Unborn == \A v \in Writes : v > issued => outcome[v] = "running"

PastEnded == \A v \in Writes : before[v] \subseteq Ended

\* The binlog holds writes, and none after one that it had ended before.
LogInOrder ==
    /\ \A i \in 1 .. Len(binlog) : binlog[i] \in 1 .. issued
    /\ \A i, j \in 1 .. Len(binlog) : i <= j => binlog[j] \notin before[binlog[i]]

\* What the engine has left does not undo a write that found it caught up.
AloneSafe ==
    \A v \in Writes : routed[v] = "DST_ONLY" /\ v \notin exposed =>
        \A j \in 1 .. Len(binlog) : j > applied => binlog[j] \notin before[v]

WriteInv ==
    /\ CutoverTypeOK /\ UnderWay /\ OneWriterEach /\ Unborn /\ PastEnded
    /\ LogInOrder /\ AloneSafe /\ LosesNothing

\* One table, or none, takes the value of w.
TableStep(w) ==
    \/ UNCHANGED tables
    \/ \E side \in Side : Put(side, writer[w].val)

\* What is known of the value that a writer has in hand.
LEMMA InHand ==
    ASSUME WriteInv, NEW w \in Writers, writer[w].at # "idle"
    PROVE  /\ writer[w].val \in Writes /\ writer[w].val \in 1 .. issued
           /\ outcome[writer[w].val] = "running"
           /\ writer[w].val \notin Ended /\ writer[w].val \notin Acked
           /\ \A v \in Writes : ~OlderThan(writer[w].val, v)
<1> DEFINE u == writer[w].val
<1> USE DEF WriteInv
<1>1. u \in 1 .. issued /\ outcome[u] = "running"
  BY DEF UnderWay
<1>2. u \in Writes /\ u # 0
  BY <1>1, CutoverAssumption DEF CutoverTypeOK, Writes, Values
<1>3. u \notin Ended /\ u \notin Acked
  BY <1>1 DEF Ended, Acked
<1> QED
  BY <1>1, <1>2, <1>3 DEF PastEnded, OlderThan

\* All that a writer's step in the tables does to the binlog and to NEW.
LEMMA TableKeeps ==
    ASSUME WriteInv, NEW w \in Writers, writer[w].at # "idle", TableStep(w),
           UNCHANGED <<issued, before, routed, exposed>>
    PROVE  /\ LogInOrder' /\ AloneSafe'
           /\ new' \in {new, writer[w].val}
           /\ \A v : Passed(v)' <=> Passed(v)
<1> DEFINE u == writer[w].val
<1> USE DEF WriteInv
<1>1. binlog \in Seq(Values) /\ applied \in 0 .. Len(binlog) /\ Len(binlog) \in Nat
      /\ u \in Values
  BY InHand DEF CutoverTypeOK, Writes, Values
<1>2. CASE UNCHANGED tables
  BY <1>2 DEF tables, LogInOrder, AloneSafe, Passed
<1>3. ASSUME NEW side \in Side, Put(side, u)
      PROVE  /\ LogInOrder' /\ AloneSafe' /\ new' \in {new, u}
             /\ \A v : Passed(v)' <=> Passed(v)
  <2>1. new' \in {new, u} /\ applied' = applied
    BY <1>3 DEF Put
  <2>2. CASE binlog' = binlog
    BY <2>1, <2>2 DEF LogInOrder, AloneSafe, Passed
  <2>3. CASE binlog' = Append(binlog, u)
    <3>1. /\ Len(binlog') = Len(binlog) + 1
          /\ binlog'[Len(binlog) + 1] = u
          /\ \A i \in 1 .. Len(binlog) : binlog'[i] = binlog[i]
      BY <1>1, <2>3
    <3>2. \A i \in 1 .. Len(binlog') : i \in 1 .. Len(binlog) \/ binlog'[i] = u
      BY <1>1, <3>1
    <3>3. u \in 1 .. issued /\ \A v \in Writes : u \notin before[v]
      BY InHand DEF OlderThan
    <3>4. \A i \in 1 .. Len(binlog) : binlog[i] \in Writes
      BY CutoverAssumption DEF LogInOrder, CutoverTypeOK, Writes, Values
    <3>5. LogInOrder'
      <4>1. \A i \in 1 .. Len(binlog') : binlog'[i] \in 1 .. issued
        BY <3>1, <3>2, <3>3 DEF LogInOrder
      <4>2. ASSUME NEW i \in 1 .. Len(binlog'), NEW j \in 1 .. Len(binlog'), i <= j
            PROVE  binlog'[j] \notin before[binlog'[i]]
        <5>1. CASE binlog'[j] = u
          <6>1. binlog'[i] \in Writes
            BY <3>1, <3>2, <3>4, InHand
          <6> QED
            BY <3>3, <5>1, <6>1
        <5>2. CASE j \in 1 .. Len(binlog)
          <6>1. i \in 1 .. Len(binlog)
            BY <1>1, <4>2, <5>2
          <6> QED
            BY <3>1, <4>2, <5>2, <6>1 DEF LogInOrder
        <5> QED
          BY <3>2, <5>1, <5>2
      <4> QED
        BY <4>1, <4>2 DEF LogInOrder
    <3>6. AloneSafe'
      <4> SUFFICES ASSUME NEW v \in Writes, routed[v] = "DST_ONLY", v \notin exposed,
                          NEW j \in 1 .. Len(binlog'), j > applied
                   PROVE  binlog'[j] \notin before[v]
        BY <2>1 DEF AloneSafe
      <4> QED
        BY <3>1, <3>2, <3>3 DEF AloneSafe
    <3>7. \A v : Passed(v)' <=> Passed(v)
      BY <1>1, <2>1, <3>1 DEF Passed
    <3> QED
      BY <2>1, <3>5, <3>6, <3>7
  <2> QED
    BY <1>3, <2>2, <2>3 DEF Put
<1> QED
  BY <1>2, <1>3 DEF TableStep

\* All that a write's last step does to the invariant, whoever ends it.
LEMMA EndKeeps ==
    ASSUME WriteInv, NEW w \in Writers, NEW how \in {"acked", "failed"},
           writer[w].at # "idle", EndWrite(w, how),
           CutoverTypeOK', UNCHANGED reader, TableStep(w),
           how = "acked" => \/ routed[writer[w].val] # "DST_ONLY"
                            \/ new' = writer[w].val
    PROVE  WriteInv'
<1> DEFINE u == writer[w].val
<1> USE DEF WriteInv, CutoverTypeOK, Values, Writes
<1>1. /\ u \in Writes
      /\ outcome[u] = "running"
      /\ u \notin Ended
  BY InHand
<1>2. /\ outcome' = [outcome EXCEPT ![u] = how]
      /\ writer' = [writer EXCEPT ![w] = NoWrite]
      /\ UNCHANGED <<issued, before, routed, exposed>>
  BY DEF EndWrite
<1>3. \A x \in Writers : writer'[x].at # "idle" =>
          x # w /\ writer'[x] = writer[x] /\ writer[x].val # u
  <2> TAKE x \in Writers
  <2>1. CASE x = w
    BY <1>2, <2>1 DEF NoWrite
  <2>2. CASE x # w
    BY <1>2, <2>2 DEF OneWriterEach
  <2> QED
    BY <2>1, <2>2
<1>4. UnderWay'
  BY <1>1, <1>2, <1>3 DEF UnderWay
<1>5. OneWriterEach'
  BY <1>3 DEF OneWriterEach
<1>6. Unborn'
  BY <1>1, <1>2 DEF Unborn, UnderWay
<1>7. Ended' = Ended \union {u}
  BY <1>1, <1>2 DEF Ended
<1>8. PastEnded'
  BY <1>2, <1>7 DEF PastEnded
<1>9. /\ LogInOrder' /\ AloneSafe' /\ new' \in {new, u}
      /\ \A v : Passed(v)' <=> Passed(v)
  BY <1>2, TableKeeps
<1>10. LosesNothing'
  <2> SUFFICES ASSUME NEW v \in Writes, InNew(v)' PROVE (~OlderThan(new, v))'
    BY DEF LosesNothing
  <2>1. CASE new' = u
    BY <1>2, <2>1, InHand DEF OlderThan
  <2>2. CASE new' = new
    <3>1. v \in Acked' => v \in Acked \/ (v = u /\ how = "acked")
      BY <1>1, <1>2 DEF Acked
    <3>2. InNew(v) \/ new' = u
      BY <1>2, <1>9, <3>1 DEF InNew
    <3> QED
      BY <1>2, <2>1, <2>2, <3>2 DEF LosesNothing, OlderThan
  <2> QED
    BY <1>9, <2>1, <2>2
<1> QED
  BY <1>4, <1>5, <1>6, <1>8, <1>9, <1>10

LEMMA BeginKeeps ==
    ASSUME WriteInv, NEW w \in Writers, BeginWrite(w), CutoverTypeOK'
    PROVE  WriteInv'
<1> DEFINE u == issued + 1
<1> USE DEF WriteInv, CutoverTypeOK, Values, Writes
<1>1. PICK s \in StageSeen :
          /\ writer' = [writer EXCEPT ![w] = [at |-> "first", by |-> s, val |-> u]]
          /\ routed' = [routed EXCEPT ![u] = s]
          /\ exposed' = exposed \union {v \in {u} : s = "DST_ONLY" /\ ~CaughtUp}
  BY DEF BeginWrite
<1>2. /\ u \in Writes /\ issued' = u /\ issued \in Nat
      /\ before' = [before EXCEPT ![u] = Ended]
      /\ UNCHANGED <<tables, outcome>>
      /\ writer[w].at = "idle"
  BY CutoverAssumption DEF BeginWrite
<1>3. outcome[u] = "running"
  BY <1>2 DEF Unborn
<1>4. \A x \in Writers : writer'[x].at # "idle" =>
          \/ x = w /\ writer'[x] = [at |-> "first", by |-> s, val |-> u]
          \/ x # w /\ writer'[x] = writer[x] /\ writer[x].val \in 1 .. issued
  BY <1>1 DEF UnderWay
<1>5. UnderWay'
  BY <1>1, <1>2, <1>3, <1>4 DEF UnderWay
<1>6. OneWriterEach'
  BY <1>2, <1>4 DEF OneWriterEach
<1>7. Unborn'
  BY <1>2 DEF Unborn
<1>8. Ended' = Ended /\ Acked' = Acked /\ u \notin Acked
  BY <1>2, <1>3 DEF Ended, Acked
<1>9. PastEnded'
  BY <1>2, <1>8 DEF PastEnded
<1>10. \A i \in 1 .. Len(binlog) : binlog[i] \in 1 .. issued /\ binlog[i] # u
  BY <1>2 DEF LogInOrder
<1>11. LogInOrder'
  <2>1. \A i \in 1 .. Len(binlog) : binlog[i] \in 1 .. u /\ before'[binlog[i]] = before[binlog[i]]
    BY <1>2, <1>10
  <2> QED
    BY <1>2, <2>1 DEF LogInOrder, tables
<1>12. AloneSafe'
  <2> SUFFICES ASSUME NEW v \in Writes, routed'[v] = "DST_ONLY", v \notin exposed',
                      NEW j \in 1 .. Len(binlog), j > applied
               PROVE  binlog[j] \notin before'[v]
    BY <1>2 DEF AloneSafe, tables
  <2>1. CASE v = u
    <3>1. CaughtUp
      BY <1>1, <1>2, <2>1
    <3> QED
      BY <3>1 DEF CaughtUp
  <2>2. CASE v # u
    BY <1>1, <1>2, <2>2 DEF AloneSafe
  <2> QED
    BY <2>1, <2>2
<1>13. LosesNothing'
  <2> SUFFICES ASSUME NEW v \in Writes, InNew(v)' PROVE (~OlderThan(new, v))'
    BY DEF LosesNothing
  <2>1. Passed(v)' <=> Passed(v)
    BY <1>2 DEF Passed, tables
  <2>2. v # u
    <3>1. ASSUME Passed(v) PROVE v # u
      BY <1>10, <3>1 DEF Passed
    <3> QED
      BY <1>8, <2>1, <3>1 DEF InNew
  <2>3. InNew(v)
    BY <1>1, <1>8, <2>1, <2>2 DEF InNew
  <2> QED
    BY <1>2, <2>2, <2>3 DEF LosesNothing, OlderThan, tables
<1> QED
  BY <1>5, <1>6, <1>7, <1>9, <1>11, <1>12, <1>13

\* The engine goes on, or starts again.
LEMMA EngineKeeps ==
    ASSUME WriteInv, Apply \/ Restart, CutoverTypeOK'
    PROVE  WriteInv'
<1> USE DEF WriteInv, CutoverTypeOK
<1>1. UNCHANGED <<writer, issued, before, routed, outcome, binlog>>
  BY DEF Apply, Restart, requests, history
<1>2. UnderWay' /\ OneWriterEach' /\ Unborn' /\ PastEnded' /\ LogInOrder'
  BY <1>1 DEF UnderWay, OneWriterEach, Unborn, PastEnded, Ended, LogInOrder
<1>3. \A i \in 1 .. Len(binlog) : binlog[i] \in Writes /\ binlog[i] # 0
  BY CutoverAssumption DEF LogInOrder, Writes, Values
<1>4. CASE Apply
  <2>1. /\ applied + 1 \in 1 .. Len(binlog) /\ applied' = applied + 1
        /\ new' = binlog[applied + 1] /\ exposed' = exposed
    BY <1>4 DEF Apply, CaughtUp, history
  <2>2. AloneSafe'
    BY <1>1, <2>1 DEF AloneSafe
  <2>3. LosesNothing'
    <3> SUFFICES ASSUME NEW v \in Writes, InNew(v)' PROVE binlog[applied + 1] \notin before[v]
      BY <1>1, <1>3, <2>1 DEF LosesNothing, OlderThan
    <3>1. CASE Passed(v)'
      <4>1. PICK i \in 1 .. applied + 1 : binlog[i] = v
        BY <1>1, <2>1, <3>1 DEF Passed
      <4>2. i \in 1 .. Len(binlog) /\ i <= applied + 1
        BY <2>1, <4>1
      <4> QED
        BY <2>1, <4>1, <4>2 DEF LogInOrder
    <3>2. CASE ~Passed(v)'
      <4>1. routed[v] = "DST_ONLY" /\ v \notin exposed
        BY <1>1, <2>1, <3>2 DEF InNew
      <4> QED
        BY <2>1, <4>1 DEF AloneSafe
    <3> QED
      BY <3>1, <3>2
  <2> QED
    BY <1>2, <2>2, <2>3
<1>5. CASE Restart
  <2>1. /\ applied' \in 0 .. applied /\ new' = new
        /\ \A v \in Writes : routed[v] = "DST_ONLY" => v \in exposed'
    BY <1>5 DEF Restart
  <2>2. AloneSafe'
    BY <1>1, <2>1 DEF AloneSafe
  <2>3. LosesNothing'
    <3> SUFFICES ASSUME NEW v \in Writes, InNew(v)' PROVE ~OlderThan(new, v)
      BY <1>1, <2>1 DEF LosesNothing, OlderThan
    <3>1. Passed(v)'
      BY <1>1, <2>1 DEF InNew
    <3>2. Passed(v)
      BY <1>1, <2>1, <3>1 DEF Passed
    <3> QED
      BY <3>2 DEF LosesNothing, InNew
  <2> QED
    BY <1>2, <2>2, <2>3
<1> QED
  BY <1>4, <1>5

LEMMA WriteInvariant == CutoverSpec => []WriteInv
<1>1. ASSUME Init, CutoverTypeOK PROVE WriteInv
  <2>1. \A i \in 1 .. Len(binlog) : FALSE
    BY <1>1 DEF Init
  <2>2. \A v \in Writes : ~InNew(v)
    BY <1>1 DEF Init, InNew, Passed, Acked
  <2> QED
    BY <1>1, <2>1, <2>2
       DEF Init, WriteInv, UnderWay, OneWriterEach, Unborn, PastEnded, LogInOrder,
           AloneSafe, LosesNothing, NoWrite, Writes
<1>2. ASSUME WriteInv, CutoverTypeOK', [Next]_vars PROVE WriteInv'
  <2> USE <1>2
  <2>1. CASE UNCHANGED <<writer, tables, history>>
    <3>1. UnderWay' /\ OneWriterEach' /\ Unborn' /\ PastEnded'
      BY <2>1 DEF history, WriteInv, UnderWay, OneWriterEach, Unborn, PastEnded, Ended
    <3>2. LogInOrder' /\ AloneSafe' /\ LosesNothing'
      BY <2>1 DEF history, tables, WriteInv, LogInOrder, AloneSafe, LosesNothing,
                  InNew, Passed, Acked, OlderThan
    <3> QED
      BY <3>1, <3>2 DEF WriteInv
  <2>2. ASSUME NEW w \in Writers, BeginWrite(w) PROVE WriteInv'
    BY <2>2, BeginKeeps
  <2>3. ASSUME NEW w \in Writers, WriteFirst(w) PROVE WriteInv'
    <3>0. /\ writer[w].at = "first" /\ UNCHANGED reader /\ FirstSide(writer[w].by) \in Side
          /\ Put(FirstSide(writer[w].by), writer[w].val)
          /\ writer[w].by = routed[writer[w].val] /\ writer[w].by \in Stage
      BY <2>3 DEF WriteFirst, FirstSide, Side, WriteInv, UnderWay, CutoverTypeOK, WriteState
    <3>1. CASE IsDual(writer[w].by)
      <4>1. /\ writer' = [writer EXCEPT ![w].at = "second"]
            /\ UNCHANGED history /\ new' = new
        BY <2>3, <3>0, <3>1 DEF WriteFirst, Put, FirstSide, IsDual
      <4>2. \A x \in Writers :
                /\ writer'[x].val = writer[x].val /\ writer'[x].by = writer[x].by
                /\ writer'[x].at # "idle" => writer[x].at # "idle"
                /\ x # w => writer'[x] = writer[x]
        BY <3>0, <4>1 DEF WriteInv, CutoverTypeOK, WriteState
      <4>3. UnderWay' /\ OneWriterEach'
        BY <3>1, <4>1, <4>2 DEF WriteInv, UnderWay, OneWriterEach, history
      <4>4. /\ LogInOrder' /\ AloneSafe'
            /\ \A v : Passed(v)' <=> Passed(v)
        BY <3>0, <4>1, TableKeeps DEF TableStep, history
      <4>5. LosesNothing'
        BY <4>1, <4>4 DEF WriteInv, LosesNothing, InNew, Acked, OlderThan, history
      <4> QED
        BY <4>1, <4>3, <4>4, <4>5 DEF history, WriteInv, Unborn, PastEnded, Ended
    <3>2. CASE ~IsDual(writer[w].by)
      <4>1. EndWrite(w, "acked") /\ TableStep(w)
        BY <2>3, <3>0, <3>2 DEF WriteFirst, TableStep
      <4>2. routed[writer[w].val] # "DST_ONLY" \/ new' = writer[w].val
        BY <3>0 DEF Put, FirstSide
      <4> QED
        BY <3>0, <4>1, <4>2, EndKeeps
    <3> QED
      BY <3>1, <3>2
  <2>4. ASSUME NEW w \in Writers, FirstFails(w) PROVE WriteInv'
    <3>1. writer[w].at # "idle" /\ EndWrite(w, "failed") /\ UNCHANGED reader
          /\ TableStep(w)
      BY <2>4 DEF FirstFails, TableStep, FirstSide, Side
    <3> QED
      BY <3>1, EndKeeps
  <2>5. ASSUME NEW w \in Writers, WriteSecond(w) PROVE WriteInv'
    <3>1. writer[w].at # "idle" /\ EndWrite(w, "acked") /\ UNCHANGED reader
          /\ TableStep(w) /\ new' = writer[w].val
      BY <2>5 DEF WriteSecond, TableStep, Side, Put
    <3> QED
      BY <3>1, EndKeeps
  <2>6. ASSUME NEW w \in Writers, SecondFails(w) PROVE WriteInv'
    <3>1. PICK how \in {"acked", "failed"} : EndWrite(w, how)
      BY <2>6 DEF SecondFails
    <3>2. writer[w].at # "idle" /\ UNCHANGED reader /\ TableStep(w)
      BY <2>6 DEF SecondFails, TableStep, Side
    <3>3. routed[writer[w].val] # "DST_ONLY"
      BY <2>6 DEF SecondFails, WriteInv, UnderWay, IsDual
    <3> QED
      BY <3>1, <3>2, <3>3, EndKeeps
  <2>7. ASSUME NEW c \in Consoles, ConsoleStep(c) PROVE UNCHANGED <<writer, tables, history>>
    BY <2>7 DEF ConsoleStep, SetStage, Propose, Approve, ConsumePropose, StoreStage,
                SyncStatus, Rollback, Revert, CallFails, requests
  <2>8. CASE SetGray \/ ProposeExpires \/ UNCHANGED vars
    BY <2>1, <2>8 DEF SetGray, ProposeExpires, vars, requests
  <2>9. ASSUME NEW r \in Readers,
               ChooseSide(r) \/ ChooseBlind(r) \/ ReadTable(r) \/ EndRead(r)
        PROVE  UNCHANGED <<writer, tables, history>>
    BY <2>9 DEF ChooseSide, ChooseBlind, ReadTable, EndRead
  <2> QED
    BY <2>1, <2>2, <2>3, <2>4, <2>5, <2>6, <2>7, <2>8, <2>9, EngineKeeps
       DEF Next, ConsoleStep
<1> QED
  BY <1>1, <1>2, CutoverTypeCorrect, PTL DEF CutoverSpec

(* NEW never falls behind a write that the engine has been past, nor one   *)
(* made to NEW alone when the engine had nothing left to apply: for any    *)
(* number of writers and operators, with an engine that lags and replays,  *)
(* rollbacks, stages that change under the writers' feet, and a Redis that *)
(* fails the SDK.                                                          *)
THEOREM NewLosesNothing == CutoverSpec => []LosesNothing
<1>1. WriteInv => LosesNothing
  BY DEF WriteInv
<1> QED
  BY <1>1, WriteInvariant, PTL

-----------------------------------------------------------------------------
(* One operator call at a time: the order of the stages.                   *)

OneConsole == \A c, d \in Consoles : c = d

\* What a call has read is still true when it writes.
ReadIsTrue ==
    \A c \in Consoles :
        /\ call[c].at \in {"review", "consume", "store"} => CanTransitionTo(stage, call[c].next)
        /\ call[c].at = "revert" => stage = "DST_FIRST"

\* No write has gone to NEW alone before the stage is DST_ONLY.
RoutedInOrder == stage # "DST_ONLY" => \A v \in Writes : routed[v] # "DST_ONLY"

OrderInv == CutoverTypeOK /\ ReadIsTrue /\ RoutedInOrder

StageStep ==
    stage' # stage => \/ CanTransitionTo(stage, stage')
                      \/ stage = "DST_FIRST" /\ stage' = "SRC_FIRST"

LEMMA OrderStep ==
    ASSUME OneConsole, OrderInv, CutoverTypeOK', [Next]_vars
    PROVE  OrderInv' /\ StageStep
<1> USE DEF OrderInv
<1>1. ASSUME NEW c \in Consoles, ConsoleStep(c) PROVE OrderInv' /\ StageStep
  <2>1. \A d \in Consoles : d = c
    BY DEF OneConsole
  <2>2. StageStep /\ (stage' # stage => call'[c].at \in {"idle", "sync"})
    BY <1>1, CutoverAssumption
       DEF ConsoleStep, SetStage, Propose, Approve, ConsumePropose, StoreStage, SyncStatus,
           Rollback, Revert, CallFails, redis, StageStep, ReadIsTrue, CutoverTypeOK,
           Go, Return, Idle, CallAt, Call
  <2>3. stage' = stage =>
            /\ call'[c].at \in {"review", "consume", "store"} =>
                   CanTransitionTo(stage, call'[c].next)
            /\ call'[c].at = "revert" => stage = "DST_FIRST"
    <3>1. CASE SetStage(c)
      BY <3>1 DEF SetStage, CallAt, CutoverTypeOK
    <3>2. CASE Rollback(c)
      BY <3>2 DEF Rollback, CanRollback, Go, CutoverTypeOK, Call
    <3>3. CASE Approve(c)
      BY <3>3 DEF Approve, ReadIsTrue, CutoverTypeOK, Return, Idle, CallAt, Call
    <3>4. CASE ConsumePropose(c)
      BY <3>4 DEF ConsumePropose, ReadIsTrue, CutoverTypeOK, Go, Call
    <3>5. CASE StoreStage(c)
      BY <3>5 DEF StoreStage, CutoverTypeOK, Go, Return, Idle, CallAt, Call
    <3>6. CASE Propose(c) \/ SyncStatus(c) \/ Revert(c) \/ CallFails(c)
      BY <3>6 DEF Propose, SyncStatus, Revert, CallFails, CutoverTypeOK,
                  Return, Idle, CallAt, Call
    <3> QED
      BY <1>1, <3>1, <3>2, <3>3, <3>4, <3>5, <3>6, Zenon DEF ConsoleStep
  <2>4. ReadIsTrue'
    BY <2>1, <2>2, <2>3 DEF ReadIsTrue
  <2>5. UNCHANGED routed
    BY <1>1 DEF ConsoleStep, SetStage, Propose, Approve, ConsumePropose, StoreStage,
                SyncStatus, Rollback, Revert, CallFails, history
  <2>6. stage = "DST_ONLY" => stage' = stage
    BY <2>2 DEF StageStep, CanTransitionTo
  <2> QED
    BY <2>2, <2>4, <2>5, <2>6 DEF RoutedInOrder
<1>2. ASSUME NEW w \in Writers, BeginWrite(w) PROVE OrderInv' /\ StageStep
  <2>1. UNCHANGED <<stage, call>> /\ \E s \in StageSeen : routed' = [routed EXCEPT ![issued + 1] = s]
    BY <1>2 DEF BeginWrite, service, redis
  <2>2. stage # "DST_ONLY" => "DST_ONLY" \notin StageSeen
    BY DEF StageSeen
  <2> QED
    BY <2>1, <2>2 DEF ReadIsTrue, RoutedInOrder, StageStep, CutoverTypeOK
<1>3. CASE UNCHANGED <<stage, call, routed>>
  BY <1>3 DEF ReadIsTrue, RoutedInOrder, StageStep
<1>4. ASSUME NEW w \in Writers,
             WriteFirst(w) \/ FirstFails(w) \/ WriteSecond(w) \/ SecondFails(w)
      PROVE  UNCHANGED <<stage, call, routed>>
  BY <1>4 DEF WriteFirst, FirstFails, WriteSecond, SecondFails, EndWrite,
              service, redis, history
<1>5. ASSUME NEW r \in Readers,
             ChooseSide(r) \/ ChooseBlind(r) \/ ReadTable(r) \/ EndRead(r)
      PROVE  UNCHANGED <<stage, call, routed>>
  BY <1>5 DEF ChooseSide, ChooseBlind, ReadTable, EndRead, service, redis, history
<1>6. CASE SetGray \/ ProposeExpires \/ Apply \/ Restart \/ UNCHANGED vars
  BY <1>3, <1>6 DEF SetGray, ProposeExpires, Apply, Restart, vars, service, redis, history
<1> QED
  BY <1>1, <1>2, <1>3, <1>4, <1>5, <1>6 DEF Next, ConsoleStep

LEMMA OrderInvariant ==
    ASSUME OneConsole
    PROVE  CutoverSpec => []OrderInv
<1>1. ASSUME Init, CutoverTypeOK PROVE OrderInv
  BY <1>1 DEF Init, OrderInv, ReadIsTrue, RoutedInOrder, Idle, CallAt
<1>2. OrderInv /\ CutoverTypeOK' /\ [Next]_vars => OrderInv'
  BY OrderStep
<1> QED
  BY <1>1, <1>2, CutoverTypeCorrect, PTL DEF CutoverSpec

(* As long as operator calls do not overlap, no stage is skipped and       *)
(* DST_ONLY is never left, whatever fails in between.                      *)
THEOREM StagesInOrder ==
    ASSUME OneConsole
    PROVE  CutoverSpec => InOrder
<1>1. OrderInv /\ CutoverTypeOK' /\ [Next]_vars =>
          [stage' # stage =>
              \/ CanTransitionTo(stage, stage')
              \/ stage = "DST_FIRST" /\ stage' = "SRC_FIRST"]_vars
  BY OrderStep DEF StageStep
<1> QED
  BY <1>1, OrderInvariant, CutoverTypeCorrect, PTL DEF CutoverSpec, InOrder

-----------------------------------------------------------------------------
(* What OLD holds, and why a rollback loses nothing.                       *)

\* Writes that OLD must have: acknowledged, or half done.
InOld(v) ==
    \/ v \in Acked /\ routed[v] # "DST_ONLY"
    \/ \E w \in Writers : writer[w].at = "second" /\ writer[w].val = v

OldHeld == \A v \in Writes : InOld(v) => ~OlderThan(old, v)

LEMMA OldStep ==
    ASSUME WriteInv, WriteInv', OldHeld, NEW w \in Writers,
           WriteFirst(w) \/ FirstFails(w) \/ WriteSecond(w) \/ SecondFails(w)
    PROVE  OldHeld'
<1> DEFINE u == writer[w].val
<1> USE DEF WriteInv, CutoverTypeOK
<1>1. /\ u \in Writes /\ u # 0 /\ outcome[u] = "running" /\ u \notin Ended
      /\ writer[w].by = routed[u] /\ writer[w].by \in Stage
      /\ writer[w].at = "second" => IsDual(writer[w].by)
  <2>1. writer[w].at # "idle"
    BY DEF WriteFirst, FirstFails, WriteSecond, SecondFails
  <2>2. u \in 1 .. issued /\ outcome[u] = "running" /\ writer[w].by = routed[u]
        /\ (writer[w].at = "second" => IsDual(writer[w].by))
    BY <2>1 DEF UnderWay
  <2>3. u \in Writes /\ u # 0
    BY <2>2, CutoverAssumption DEF Writes, Values
  <2> QED
    BY <2>2, <2>3 DEF Ended, WriteState
<1>2. /\ old' \in {old, u}
      /\ UNCHANGED <<before, routed>>
      /\ \A v \in Writes \ {u} : outcome'[v] = outcome[v]
      /\ \A x \in Writers \ {w} : writer'[x] = writer[x]
  BY DEF WriteFirst, FirstFails, WriteSecond, SecondFails, EndWrite, Put, tables, history
<1>3. writer'[w].at = "second" \/ outcome'[u] = "acked" =>
          \/ old' = u
          \/ writer[w].at = "second" /\ old' = old
          \/ routed[u] = "DST_ONLY" /\ writer'[w].at # "second"
  <2>1. CASE WriteFirst(w)
    <3>1. CASE IsDual(writer[w].by)
      BY <1>1, <2>1, <3>1 DEF WriteFirst, Put, FirstSide, IsDual
    <3>2. CASE ~IsDual(writer[w].by) /\ writer[w].by = "SRC_ONLY"
      BY <1>1, <2>1, <3>2 DEF WriteFirst, Put, FirstSide
    <3>3. CASE ~IsDual(writer[w].by) /\ writer[w].by = "DST_ONLY"
      <4>1. writer' = [writer EXCEPT ![w] = NoWrite]
        BY <2>1, <3>3 DEF WriteFirst, EndWrite
      <4> QED
        BY <1>1, <3>3, <4>1 DEF NoWrite
    <3> QED
      BY <1>1, <3>1, <3>2, <3>3 DEF IsDual, Stage
  <2>2. CASE FirstFails(w)
    BY <1>1, <2>2 DEF FirstFails, EndWrite, NoWrite
  <2>3. CASE WriteSecond(w)
    <3>1. writer[w].at = "second" /\ old' = old
      BY <2>3 DEF WriteSecond, Put
    <3> QED
      BY <3>1
  <2>4. CASE SecondFails(w)
    <3>1. writer[w].at = "second" /\ old' = old
      BY <2>4 DEF SecondFails, Put, tables
    <3> QED
      BY <3>1
  <2> QED
    BY <2>1, <2>2, <2>3, <2>4
<1>4. SUFFICES ASSUME NEW v \in Writes, InOld(v)' PROVE (~OlderThan(old, v))'
  BY DEF OldHeld
<1>5. u \notin before[v]
  BY <1>1 DEF PastEnded
<1>6. CASE v # u
  <2>1. InOld(v)
    <3>1. CASE v \in Acked' /\ routed'[v] # "DST_ONLY"
      BY <1>2, <1>6, <3>1 DEF InOld, Acked
    <3>2. ASSUME NEW x \in Writers, writer'[x].at = "second", writer'[x].val = v
          PROVE  InOld(v)
      <4>1. x # w
        BY <1>6, <3>2 DEF WriteFirst, FirstFails, WriteSecond, SecondFails, EndWrite,
                          NoWrite, WriteState
      <4> QED
        BY <1>2, <3>2, <4>1 DEF InOld
    <3>3. InOld(v)' <=> \/ v \in Acked' /\ routed'[v] # "DST_ONLY"
                        \/ \E x \in Writers : writer'[x].at = "second" /\ writer'[x].val = v
      BY DEF InOld
    <3> QED
      BY <1>4, <3>1, <3>2, <3>3
  <2> QED
    BY <1>1, <1>2, <1>5, <2>1 DEF OldHeld, OlderThan
<1>7. CASE v = u
  <2>1. (outcome'[u] = "acked" /\ routed[u] # "DST_ONLY") \/ writer'[w].at = "second"
    <3>1. ASSUME NEW x \in Writers, writer'[x].at = "second", writer'[x].val = u, x # w
          PROVE  FALSE
      BY <1>2, <3>1 DEF OneWriterEach, WriteFirst, FirstFails, WriteSecond, SecondFails
    <3>2. InOld(v)' <=> \/ v \in Acked' /\ routed'[v] # "DST_ONLY"
                        \/ \E x \in Writers : writer'[x].at = "second" /\ writer'[x].val = v
      BY DEF InOld
    <3>3. v \in Acked' => outcome'[v] = "acked"
      BY DEF Acked
    <3> QED
      BY <1>2, <1>4, <1>7, <3>1, <3>2, <3>3
  <2>2. CASE old' = u
    BY <1>1, <1>2, <1>5, <1>7, <2>2 DEF OlderThan
  <2>3. CASE writer[w].at = "second" /\ old' = old
    BY <1>1, <1>2, <1>7, <2>3 DEF OldHeld, InOld, OlderThan
  <2> QED
    BY <1>3, <2>1, <2>2, <2>3
<1> QED
  BY <1>6, <1>7

LEMMA OldInvariant == CutoverSpec => []OldHeld
<1>1. Init => OldHeld
  BY DEF Init, OldHeld, InOld, Acked, NoWrite
<1>2. ASSUME OldHeld, WriteInv, WriteInv', [Next]_vars PROVE OldHeld'
  <2> USE <1>2
  <2>1. CASE UNCHANGED <<writer, old, before, routed, outcome>>
    BY <2>1 DEF OldHeld, InOld, Acked, OlderThan
  <2>2. ASSUME NEW w \in Writers, BeginWrite(w) PROVE OldHeld'
    <3> DEFINE u == issued + 1
    <3>1. /\ before' = [before EXCEPT ![u] = Ended]
          /\ UNCHANGED <<old, outcome>>
          /\ u \in Writes /\ outcome[u] = "running"
          /\ writer'[w].at = "first"
          /\ \A x \in Writers \ {w} : writer'[x] = writer[x]
      BY <2>2, CutoverAssumption
         DEF BeginWrite, WriteInv, CutoverTypeOK, Unborn, tables, Writes, Values
    <3>4. \A v \in Writes \ {u} : routed'[v] = routed[v]
      BY <2>2 DEF BeginWrite, WriteInv, CutoverTypeOK
    <3> SUFFICES ASSUME NEW v \in Writes, InOld(v)' PROVE (~OlderThan(old, v))'
      BY DEF OldHeld
    <3>2. v # u
      <4>1. ASSUME NEW x \in Writers, writer'[x].at = "second" PROVE writer'[x].val # u
        <5>1. x # w /\ writer[x].at = "second" /\ writer'[x] = writer[x]
          BY <3>1, <4>1
        <5>2. writer[x].val \in 1 .. issued
          BY <5>1 DEF WriteInv, UnderWay
        <5> QED
          BY <5>1, <5>2 DEF WriteInv, CutoverTypeOK, Values
      <4> QED
        BY <3>1, <4>1 DEF InOld, Acked
    <3>3. InOld(v)
      BY <3>1, <3>2, <3>4 DEF InOld, Acked, WriteInv, CutoverTypeOK
    <3> QED
      BY <3>1, <3>2, <3>3 DEF OldHeld, OlderThan, WriteInv, CutoverTypeOK
  <2>3. ASSUME NEW c \in Consoles, ConsoleStep(c) PROVE UNCHANGED <<writer, old, before, routed, outcome>>
    BY <2>3 DEF ConsoleStep, SetStage, Propose, Approve, ConsumePropose, StoreStage,
                SyncStatus, Rollback, Revert, CallFails, tables, requests, history
  <2>4. CASE SetGray \/ ProposeExpires \/ Apply \/ Restart \/ UNCHANGED vars
    BY <2>1, <2>4 DEF SetGray, ProposeExpires, Apply, Restart, vars, tables, requests, history
  <2>5. ASSUME NEW r \in Readers,
             ChooseSide(r) \/ ChooseBlind(r) \/ ReadTable(r) \/ EndRead(r)
        PROVE  UNCHANGED <<writer, old, before, routed, outcome>>
    BY <2>5 DEF ChooseSide, ChooseBlind, ReadTable, EndRead, tables, history
  <2> QED
    BY <2>1, <2>2, <2>3, <2>4, <2>5, OldStep DEF Next, ConsoleStep
<1> QED
  BY <1>1, <1>2, WriteInvariant, PTL DEF CutoverSpec

(* Until DST_ONLY the table OLD holds every acknowledged write, so that a  *)
(* rollback loses none, if operator calls do not overlap, even when Redis  *)
(* fails the SDK.                                                          *)
THEOREM RollbackIsSafe ==
    ASSUME OneConsole
    PROVE  CutoverSpec => []RollbackSafe
<1>1. OldHeld /\ OrderInv => RollbackSafe
  BY DEF OldHeld, OrderInv, RoutedInOrder, RollbackSafe, InOld, Acked
<1> QED
  BY <1>1, OldInvariant, OrderInvariant, PTL

-----------------------------------------------------------------------------
(* What a read returns.                                                    *)

\* The writes a read must not fall behind stay acknowledged; a read of OLD
\* still on its way was routed before any write lived on NEW alone.
ReadSound(r) ==
    /\ reader[r].at # "idle" => reader[r].since \subseteq Acked
    /\ reader[r].at = "table" /\ reader[r].side = "old" =>
           \A v \in reader[r].since : routed[v] # "DST_ONLY"
    /\ reader[r].at = "done" =>
           \A v \in reader[r].since : ~OlderThan(reader[r].got, v)

AllReadsSound == \A r \in Readers : ReadSound(r)

\* The history of an acknowledged write is closed.
AckedStay == \A v \in Acked : /\ v \in Acked'
                              /\ before'[v] = before[v] /\ routed'[v] = routed[v]

LEMMA AckedStaySteps ==
    ASSUME WriteInv, [Next]_vars
    PROVE  AckedStay
<1> USE DEF WriteInv, CutoverTypeOK
<1>1. CASE UNCHANGED <<before, routed, outcome>>
  BY <1>1 DEF AckedStay, Acked
<1>2. ASSUME NEW w \in Writers, BeginWrite(w) PROVE AckedStay
  <2>1. issued + 1 \notin Acked
    BY <1>2, CutoverAssumption DEF BeginWrite, Unborn, Acked, Writes, Values
  <2> QED
    BY <1>2, <2>1 DEF BeginWrite, AckedStay, Acked
<1>3. ASSUME NEW w \in Writers,
             WriteFirst(w) \/ FirstFails(w) \/ WriteSecond(w) \/ SecondFails(w)
      PROVE  AckedStay
  <2>1. writer[w].val \notin Acked
    BY <1>3 DEF WriteFirst, FirstFails, WriteSecond, SecondFails, UnderWay, Acked
  <2>2. UNCHANGED history \/ \E how \in {"acked", "failed"} : EndWrite(w, how)
    BY <1>3 DEF WriteFirst, FirstFails, WriteSecond, SecondFails
  <2> QED
    BY <1>1, <2>1, <2>2 DEF EndWrite, AckedStay, Acked, history
<1>4. ASSUME NEW c \in Consoles, ConsoleStep(c) PROVE UNCHANGED history
  BY <1>4 DEF ConsoleStep, SetStage, Propose, Approve, ConsumePropose, StoreStage,
              SyncStatus, Rollback, Revert, CallFails
<1>5. ASSUME NEW r \in Readers,
             ChooseSide(r) \/ ChooseBlind(r) \/ ReadTable(r) \/ EndRead(r)
      PROVE  UNCHANGED history
  BY <1>5 DEF ChooseSide, ChooseBlind, ReadTable, EndRead
<1>6. CASE SetGray \/ ProposeExpires \/ Apply \/ Restart \/ UNCHANGED vars
  BY <1>1, <1>6 DEF SetGray, ProposeExpires, Apply, Restart, vars, history
<1> QED
  BY <1>1, <1>2, <1>3, <1>4, <1>5, <1>6 DEF Next, ConsoleStep, history

LEMMA ReadStep ==
    ASSUME WriteInv, OldHeld, RoutedInOrder, AllReadsSound,
           AckedStay, [Next]_vars
    PROVE  AllReadsSound'
<1> USE DEF WriteInv, CutoverTypeOK
<1>a. \A r \in Readers : reader[r] \in ReadState
  OBVIOUS
<1>1. ASSUME NEW r \in Readers, reader'[r] = reader[r]
      PROVE  ReadSound(r)'
  <2>1. ReadSound(r)
    BY DEF AllReadsSound
  <2> QED
    BY <1>1, <1>a, <2>1 DEF ReadSound, AckedStay, OlderThan, ReadState
<1>2. ASSUME NEW r \in Readers, ChooseSide(r) \/ ChooseBlind(r)
      PROVE  AllReadsSound'
  <2>1. PICK side \in Side, since \in SUBSET Acked :
            /\ RouteTo(r, side, since)
            /\ side = "old" => \A v \in since : routed[v] # "DST_ONLY"
    <3>1. CASE ChooseSide(r)
      <4>1. ReadSide(stage, gray) \in Side /\ RouteTo(r, ReadSide(stage, gray), Acked)
        BY <3>1 DEF ChooseSide, ReadSide, Side
      <4>2. ReadSide(stage, gray) = "old" => stage # "DST_ONLY"
        BY DEF ReadSide
      <4> QED
        BY <4>1, <4>2 DEF RoutedInOrder, Acked
    <3>2. CASE ChooseBlind(r)
      BY <3>2 DEF ChooseBlind, Side
    <3> QED
      BY <1>2, <3>1, <3>2
  <2>2. reader'[r] = [at |-> "table", side |-> side, since |-> since, got |-> 0]
        /\ \A q \in Readers \ {r} : reader'[q] = reader[q]
    BY <2>1 DEF RouteTo
  <2>3. UNCHANGED history /\ since \subseteq Acked
    BY <1>2 DEF ChooseSide, ChooseBlind
  <2>4. Acked' = Acked
    BY <2>3 DEF Acked, history
  <2>5. ReadSound(r)'
    BY <2>1, <2>2, <2>3, <2>4 DEF ReadSound, history
  <2> QED
    BY <1>1, <2>2, <2>5 DEF AllReadsSound
<1>3. ASSUME NEW r \in Readers, ReadTable(r)
      PROVE  AllReadsSound'
  <2>1. /\ reader[r].at = "table"
        /\ reader'[r].at = "done"
        /\ reader'[r].got = IF reader[r].side = "old" THEN old ELSE new
        /\ reader'[r].since = {v \in reader[r].since : reader[r].side = "old" \/ InNew(v)}
        /\ \A q \in Readers \ {r} : reader'[q] = reader[q]
        /\ UNCHANGED history
    BY <1>3, <1>a DEF ReadTable, ReadState
  <2>2. ReadSound(r) /\ reader[r].since \subseteq Acked
    BY <2>1 DEF AllReadsSound, ReadSound
  <2>3. Acked' = Acked
    BY <2>1 DEF Acked, history
  <2>4. ASSUME NEW v \in reader'[r].since
        PROVE  ~OlderThan(reader'[r].got, v)
    <3>1. v \in reader[r].since /\ v \in Acked /\ v \in Writes
      BY <2>1, <2>2 DEF Acked
    <3>2. CASE reader[r].side = "old"
      BY <2>1, <2>2, <3>1, <3>2 DEF ReadSound, OldHeld, InOld
    <3>3. CASE reader[r].side # "old"
      BY <2>1, <3>1, <3>3 DEF LosesNothing
    <3> QED
      BY <3>2, <3>3
  <2>5. ReadSound(r)'
    <3>1. \A x, v : (x = 0 \/ x \in before'[v]) <=> (x = 0 \/ x \in before[v])
      BY <2>1 DEF history
    <3> QED
      BY <2>1, <2>2, <2>3, <2>4, <3>1 DEF ReadSound, OlderThan
  <2> QED
    BY <1>1, <2>1, <2>5 DEF AllReadsSound
<1>4. ASSUME NEW r \in Readers, EndRead(r)
      PROVE  AllReadsSound'
  <2>1. /\ reader'[r] = NoRead
        /\ \A q \in Readers \ {r} : reader'[q] = reader[q]
    BY <1>4 DEF EndRead
  <2>2. ReadSound(r)'
    BY <2>1 DEF ReadSound, NoRead
  <2> QED
    BY <1>1, <2>1, <2>2 DEF AllReadsSound
<1>5. CASE UNCHANGED reader
  BY <1>1, <1>5 DEF AllReadsSound
<1>6. ASSUME NEW w \in Writers,
             \/ BeginWrite(w) \/ WriteFirst(w) \/ FirstFails(w)
             \/ WriteSecond(w) \/ SecondFails(w)
      PROVE  UNCHANGED reader
  BY <1>6 DEF BeginWrite, WriteFirst, FirstFails, WriteSecond, SecondFails
<1>7. ASSUME NEW c \in Consoles, ConsoleStep(c) PROVE UNCHANGED reader
  BY <1>7 DEF ConsoleStep, SetStage, Propose, Approve, ConsumePropose, StoreStage,
              SyncStatus, Rollback, Revert, CallFails, requests
<1>8. CASE SetGray \/ ProposeExpires \/ Apply \/ Restart \/ UNCHANGED vars
  BY <1>5, <1>8 DEF SetGray, ProposeExpires, Apply, Restart, vars, requests
<1> QED
  BY <1>2, <1>3, <1>4, <1>5, <1>6, <1>7, <1>8 DEF Next, ConsoleStep

(* A read never returns what a write acknowledged before it began had      *)
(* replaced, however far the stage moves between its routing and its look  *)
(* at the table, but for what NEW does not answer for yet and for what a   *)
(* reader that Redis fails cannot find on OLD; if operator calls do not    *)
(* overlap.                                                                *)
THEOREM ReadsAreLatest ==
    ASSUME OneConsole
    PROVE  CutoverSpec => []ReadsLatest
<1>1. Init => AllReadsSound
  BY DEF Init, AllReadsSound, ReadSound, NoRead
<1>2. WriteInv /\ OldHeld /\ OrderInv /\ AllReadsSound /\ [Next]_vars => AllReadsSound'
  BY AckedStaySteps, ReadStep DEF OrderInv
<1>3. AllReadsSound => ReadsLatest
  BY DEF AllReadsSound, ReadSound, ReadsLatest
<1> QED
  BY <1>1, <1>2, <1>3, WriteInvariant, OldInvariant, OrderInvariant, PTL DEF CutoverSpec
=============================================================================
