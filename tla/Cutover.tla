------------------------------ MODULE Cutover ------------------------------
(***************************************************************************)
(* A cutover from table OLD to table NEW: the switching service that moves *)
(* the stage on an operator's request, the dual writer and the switch      *)
(* reader that the application calls with the stage they read from Redis,  *)
(* and the incremental engine, which no switch stops: it brings to NEW     *)
(* what OLD's binlog holds, however late.                                  *)
(*                                                                         *)
(* One row is followed.  Its values are numbered in the order in which the *)
(* writes of it begin; 0 is the value before the first, in both tables.  A *)
(* writer reads the stage once, so its two table writes may come long      *)
(* after the stage has moved on.  The tables have no version column, as    *)
(* the shipped ones have none.                                             *)
(***************************************************************************)
EXTENDS Stages, Naturals, Sequences

CONSTANTS Writers,      \* requests that write the row (Upsert, Delete)
          Readers,      \* requests that read it past the article cache
          Consoles,     \* operator calls that can be under way at once
          Persons,      \* who can propose or approve
          MaxWrites,    \* bound on the writes of the row
          RedisFails,   \* whether the SDK can fail to read Redis
          NoOne         \* an empty propose or approve parameter

ASSUME CutoverAssumption ==
    /\ MaxWrites \in Nat
    /\ RedisFails \in BOOLEAN
    /\ NoOne \notin Persons

VARIABLES stage,      \* migrator:stage:<task> in Redis
          gray,       \* whether the row's hash falls below migrator:gray:<task>
          propose,    \* the proposal key, NoOne when absent or expired
          status,     \* task.status in the database
          call,       \* the switching call of each console
          approvers,  \* history: the two names that let DST_ONLY in
          old, new,   \* the value of the row in each table
          binlog,     \* OLD's binlog: the values of the row, in the order of commits
          applied,    \* how many of them the engine has brought to NEW
          writer,     \* where each write is
          reader,     \* where each read is
          issued,     \* history: writes begun
          before,     \* history: the writes that had ended when each began
          routed,     \* history: the stage that each write went by
          outcome,    \* history: how each write ended
          exposed     \* history: writes to NEW alone that the engine was not done with

redis == <<stage, gray, propose>>
service == <<redis, status, call, approvers>>
tables == <<old, new, binlog, applied>>
history == <<issued, before, routed, outcome, exposed>>
requests == <<writer, reader>>
vars == <<service, tables, requests, history>>

Writes == 1 .. MaxWrites
Values == 0 .. MaxWrites

CallAt(at, next, p, q) == [at |-> at, next |-> next, propose |-> p, approve |-> q]
Idle == CallAt("idle", "SRC_ONLY", NoOne, NoOne)
NoWrite == [at |-> "idle", by |-> "SRC_ONLY", val |-> 0]
NoRead == [at |-> "idle", side |-> "old", since |-> {}, got |-> 0]

Ended == {v \in Writes : outcome[v] # "running"}
Acked == {v \in Writes : outcome[v] = "acked"}

\* The engine has nothing left to apply.
CaughtUp == applied = Len(binlog)

\* It has brought v to NEW.
Passed(v) == \E i \in 1 .. applied : binlog[i] = v

\* What NEW answers for: what the engine has brought, and what was written to
\* NEW alone when the engine had nothing left that was older.
InNew(v) == Passed(v) \/ (v \in Acked \ exposed /\ routed[v] = "DST_ONLY")

MaybePerson == Persons \union {NoOne}
Call == [at : {"idle", "review", "consume", "store", "sync", "revert"},
         next : Stage, propose : MaybePerson, approve : MaybePerson]
WriteState == [at : {"idle", "first", "second"}, by : Stage, val : Values]
ReadState == [at : {"idle", "table", "done"}, side : Side, since : SUBSET Writes, got : Values]

CutoverTypeOK ==
    /\ stage \in Stage
    /\ gray \in BOOLEAN
    /\ propose \in MaybePerson
    /\ status \in {"incr_running", "switched"}
    /\ call \in [Consoles -> Call]
    /\ approvers \subseteq Persons
    /\ old \in Values /\ new \in Values
    /\ binlog \in Seq(Values) /\ applied \in 0 .. Len(binlog)
    /\ writer \in [Writers -> WriteState]
    /\ reader \in [Readers -> ReadState]
    /\ issued \in Values
    /\ before \in [Writes -> SUBSET Writes]
    /\ routed \in [Writes -> Stage]
    /\ outcome \in [Writes -> {"running", "acked", "failed"}]
    /\ exposed \subseteq Writes

Init ==
    /\ stage = "SRC_ONLY" /\ gray = FALSE /\ propose = NoOne
    /\ status = "incr_running"
    /\ call = [c \in Consoles |-> Idle]
    /\ approvers = {}
    /\ old = 0 /\ new = 0
    /\ binlog = <<>> /\ applied = 0
    /\ writer = [w \in Writers |-> NoWrite]
    /\ reader = [r \in Readers |-> NoRead]
    /\ issued = 0
    /\ before = [v \in Writes |-> {}]
    /\ routed = [v \in Writes |-> "SRC_ONLY"]
    /\ outcome = [v \in Writes |-> "running"]
    /\ exposed = {}

-----------------------------------------------------------------------------
(* The switching service.  Each step is one command to Redis or the        *)
(* database; a call that fails answers its error and is over.              *)

Go(c, at) == call' = [call EXCEPT ![c].at = at]
Return(c) == call' = [call EXCEPT ![c] = Idle]

\* SetGray: a SET, and a copy of the percentage in the task row.
SetGray ==
    /\ gray' \in BOOLEAN
    /\ UNCHANGED <<stage, propose, status, call, approvers, tables, requests, history>>

\* POST /tasks/:id/switch: SetStage reads the stage and decides by what it
\* has read.  A refusal, and a stage that is already set, change nothing.
SetStage(c) ==
    /\ call[c].at = "idle"
    /\ \E next \in Stage :
         /\ CanTransitionTo(stage, next)
         /\ IF next = "DST_ONLY"
            THEN \E p, q \in MaybePerson :
                     call' = [call EXCEPT ![c] = CallAt("review", next, p, q)]
            ELSE call' = [call EXCEPT ![c] = CallAt("store", next, NoOne, NoOne)]
    /\ UNCHANGED <<redis, status, approvers, tables, requests, history>>

\* consumePropose with no approver: the proposal is stored and the call over.
Propose(c) ==
    /\ call[c].at = "review"
    /\ call[c].approve = NoOne
    /\ propose' = IF call[c].propose = NoOne THEN propose ELSE call[c].propose
    /\ Return(c)
    /\ UNCHANGED <<stage, gray, status, approvers, tables, requests, history>>

\* Who is taken for the proposer: the parameter, or else the stored proposal.
Proposer(c) == IF call[c].propose = NoOne THEN propose ELSE call[c].propose

\* What TwoActors would be without the test for the same actor, and without
\* the test for a missing proposal.
SameActorToo(c) == Proposer(c) # NoOne
AbsentToo(c) == Proposer(c) # call[c].approve

TwoActors(c) == Proposer(c) # NoOne /\ Proposer(c) # call[c].approve

Approve(c) ==
    /\ call[c].at = "review"
    /\ call[c].approve # NoOne
    /\ IF TwoActors(c)
       THEN call' = [call EXCEPT ![c].at = "consume", ![c].propose = Proposer(c)]
       ELSE Return(c)
    /\ UNCHANGED <<redis, status, approvers, tables, requests, history>>

\* DeletePropose; its failure is only logged.
ConsumePropose(c) ==
    /\ call[c].at = "consume"
    /\ propose' \in {NoOne, propose}
    /\ Go(c, "store")
    /\ UNCHANGED <<stage, gray, status, approvers, tables, requests, history>>

\* The SET is unconditional, whatever the stage has become since it was read.
StoreStage(c) ==
    /\ call[c].at = "store"
    /\ stage' = call[c].next
    /\ IF call[c].next = "DST_ONLY"
       THEN /\ Go(c, "sync")
            /\ approvers' = {call[c].propose, call[c].approve}
       ELSE /\ Return(c)
            /\ UNCHANGED approvers
    /\ UNCHANGED <<gray, propose, status, tables, requests, history>>

\* UpdateStatus(switched); its failure is only logged.
SyncStatus(c) ==
    /\ call[c].at = "sync"
    /\ status' \in {"switched", status}
    /\ Return(c)
    /\ UNCHANGED <<redis, approvers, tables, requests, history>>

\* The same route with action "rollback"; nothing to do in SRC_FIRST.
Rollback(c) ==
    /\ call[c].at = "idle"
    /\ CanRollback(stage)
    /\ stage # "SRC_FIRST"
    /\ Go(c, "revert")
    /\ UNCHANGED <<redis, status, approvers, tables, requests, history>>

Revert(c) ==
    /\ call[c].at = "revert"
    /\ stage' = "SRC_FIRST"
    /\ Return(c)
    /\ UNCHANGED <<gray, propose, status, approvers, tables, requests, history>>

\* Any command of a call under way can fail before it takes effect.
CallFails(c) ==
    /\ call[c].at # "idle"
    /\ Return(c)
    /\ UNCHANGED <<redis, status, approvers, tables, requests, history>>

\* CutoverProposeTTL has passed.
ProposeExpires ==
    /\ propose # NoOne
    /\ propose' = NoOne
    /\ UNCHANGED <<stage, gray, status, call, approvers, tables, requests, history>>

-----------------------------------------------------------------------------
(* RedisDualWriter.Write around Upsert and Delete of the row.              *)

\* A failed read of the stage is taken for SRC_ONLY.
StageSeen == {stage} \union (IF RedisFails THEN {"SRC_ONLY"} ELSE {})

BeginWrite(w) ==
    /\ writer[w].at = "idle"
    /\ issued < MaxWrites
    /\ issued' = issued + 1
    /\ \E s \in StageSeen :
         /\ writer' = [writer EXCEPT ![w] = [at |-> "first", by |-> s, val |-> issued + 1]]
         /\ routed' = [routed EXCEPT ![issued + 1] = s]
         /\ exposed' = exposed \union
                          {v \in {issued + 1} : s = "DST_ONLY" /\ ~CaughtUp}
    /\ before' = [before EXCEPT ![issued + 1] = Ended]
    /\ UNCHANGED <<service, tables, reader, outcome>>

EndWrite(w, how) ==
    /\ writer' = [writer EXCEPT ![w] = NoWrite]
    /\ outcome' = [outcome EXCEPT ![writer[w].val] = how]
    /\ UNCHANGED <<issued, before, routed, exposed>>

Put(side, v) ==
    /\ old' = IF side = "old" THEN v ELSE old
    /\ new' = IF side = "new" THEN v ELSE new
    /\ binlog' = IF side = "old" THEN Append(binlog, v) ELSE binlog
    /\ UNCHANGED applied

\* The dual write as the playbook sketches it: the caller is answered after
\* the first table, while the second write is still on its way.
WriteFirstAsync(w) ==
    /\ writer[w].at = "first"
    /\ Put(FirstSide(writer[w].by), writer[w].val)
    /\ outcome' = [outcome EXCEPT ![writer[w].val] = "acked"]
    /\ writer' = [writer EXCEPT ![w] = IF IsDual(writer[w].by)
                                       THEN [writer[w] EXCEPT !.at = "second"] ELSE NoWrite]
    /\ UNCHANGED <<issued, before, routed, exposed>>
    /\ UNCHANGED <<service, reader>>

WriteFirst(w) ==
    /\ writer[w].at = "first"
    /\ Put(FirstSide(writer[w].by), writer[w].val)
    /\ IF IsDual(writer[w].by)
       THEN /\ writer' = [writer EXCEPT ![w].at = "second"]
            /\ UNCHANGED history
       ELSE EndWrite(w, "acked")
    /\ UNCHANGED <<service, reader>>

\* An error is returned at once, whether or not the table took the value.
FirstFails(w) ==
    /\ writer[w].at = "first"
    /\ \/ Put(FirstSide(writer[w].by), writer[w].val)
       \/ UNCHANGED tables
    /\ EndWrite(w, "failed")
    /\ UNCHANGED <<service, reader>>

WriteSecond(w) ==
    /\ writer[w].at = "second"
    /\ Put("new", writer[w].val)
    /\ EndWrite(w, "acked")
    /\ UNCHANGED <<service, reader>>

SecondFails(w) ==
    /\ writer[w].at = "second"
    /\ \/ Put("new", writer[w].val)
       \/ UNCHANGED tables
    /\ EndWrite(w, IF BestEffort(writer[w].by) THEN "acked" ELSE "failed")
    /\ UNCHANGED <<service, reader>>

-----------------------------------------------------------------------------
(* The incremental engine, as far as one row goes.  Its sink puts the row  *)
(* of the event over whatever NEW has.                                     *)

Apply ==
    /\ ~CaughtUp
    /\ applied' = applied + 1
    /\ new' = binlog[applied + 1]
    /\ UNCHANGED <<service, old, binlog, requests, history>>

\* Started again, after a pause, an error or a crash, it subscribes at the
\* position of the slowest partition, and meets changes of the row again.
Restart ==
    /\ applied' \in {i \in 0 .. applied : i < applied}
    /\ exposed' = exposed \union {v \in Writes : routed[v] = "DST_ONLY"}
    /\ UNCHANGED <<service, old, new, binlog, requests, issued, before, routed, outcome>>

-----------------------------------------------------------------------------
(* RedisSwitchReader.ChooseSide and the read of the table it names.  A     *)
(* failed read of the stage or of the percentage is taken for SideOld.     *)
(* since is a history: the writes that the read has to know of.            *)

RouteTo(r, side, since) ==
    reader' = [reader EXCEPT ![r] = [at |-> "table", side |-> side, since |-> since, got |-> 0]]

ChooseSide(r) ==
    /\ reader[r].at = "idle"
    /\ RouteTo(r, ReadSide(stage, gray), Acked)
    /\ UNCHANGED <<service, tables, writer, history>>

\* OLD has none of the writes that went to NEW alone.
ChooseBlind(r) ==
    /\ RedisFails
    /\ reader[r].at = "idle"
    /\ RouteTo(r, "old", {v \in Acked : routed[v] # "DST_ONLY"})
    /\ UNCHANGED <<service, tables, writer, history>>

ReadTable(r) ==
    /\ reader[r].at = "table"
    /\ reader' =
         [reader EXCEPT
             ![r].at = "done",
             ![r].got = IF reader[r].side = "old" THEN old ELSE new,
             ![r].since = {v \in reader[r].since : reader[r].side = "old" \/ InNew(v)}]
    /\ UNCHANGED <<service, tables, writer, history>>

EndRead(r) ==
    /\ reader[r].at = "done"
    /\ reader' = [reader EXCEPT ![r] = NoRead]
    /\ UNCHANGED <<service, tables, writer, history>>

Next ==
    \/ \E c \in Consoles :
         \/ SetStage(c) \/ Propose(c) \/ Approve(c) \/ ConsumePropose(c)
         \/ StoreStage(c) \/ SyncStatus(c) \/ Rollback(c) \/ Revert(c) \/ CallFails(c)
    \/ SetGray \/ ProposeExpires
    \/ \E w \in Writers :
         \/ BeginWrite(w) \/ WriteFirst(w) \/ FirstFails(w)
         \/ WriteSecond(w) \/ SecondFails(w)
    \/ Apply \/ Restart
    \/ \E r \in Readers : ChooseSide(r) \/ ChooseBlind(r) \/ ReadTable(r) \/ EndRead(r)

CutoverSpec == Init /\ [][Next]_vars

-----------------------------------------------------------------------------
\* x was written by a request that had ended before v began, or is older.
OlderThan(x, v) == x = 0 \/ x \in before[v]

(* NEW has three hands in it: the writers that write both tables, those    *)
(* that write NEW alone, and the engine, which comes late, again, and over *)
(* newer values.  Still NEW never falls behind a write once the engine has *)
(* been past it, nor behind one made to NEW alone when the engine had      *)
(* nothing left to apply: whatever the order in which the writers, their   *)
(* failures, the engine and the operators' steps fall.                     *)
LosesNothing ==
    \A v \in Writes : InNew(v) => ~OlderThan(new, v)

(* Until DST_ONLY a rollback is safe: OLD holds every acknowledged write,  *)
(* as Stage.CanRollback counts on ("OLD keeps being written, complete").   *)
RollbackSafe ==
    stage # "DST_ONLY" => \A v \in Acked : ~OlderThan(old, v)

(* A read that starts after a write was acknowledged does not return what  *)
(* the write replaced, however often the stage moves between their steps:  *)
(* on OLD never, unless Redis failed the reader after writes to NEW alone, *)
(* and on NEW not once NEW answers for the write.                          *)
ReadsLatest ==
    \A r \in Readers : reader[r].at = "done" =>
        \A v \in reader[r].since : ~OlderThan(reader[r].got, v)

(* DST_ONLY is never entered on one person's word, with proposals stored,  *)
(* overwritten, expired or not deleted between the two calls.              *)
TwoPersons ==
    stage = "DST_ONLY" => \E p, q \in Persons : p # q /\ approvers = {p, q}

(* The stage moves one step forward or is rolled back from DST_FIRST: no   *)
(* stage is skipped and DST_ONLY is never left.                            *)
InOrder ==
    [][stage' # stage =>
           \/ CanTransitionTo(stage, stage')
           \/ stage = "DST_FIRST" /\ stage' = "SRC_FIRST"]_vars
=============================================================================
