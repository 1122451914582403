------------------------------ MODULE Comments ------------------------------
(***************************************************************************)
(* The comments of one article (comment/repository): floors of replies,    *)
(* the number of replies kept on the first comment of a floor, and the     *)
(* cached total.  Callers are requests in progress; each statement of a    *)
(* transaction that reads or waits is a step, and what it writes appears   *)
(* at its commit, as its row locks hide it until then.                     *)
(*                                                                         *)
(* Inserting a reply locks its parent's row shared (the foreign key), so   *)
(* that two replies to the first comment of a floor both wait to raise its *)
(* reply_cnt: such transactions end by RollBack.  Texts, authors and pages *)
(* are left out; a request to delete is its author's.                      *)
(***************************************************************************)
EXTENDS Integers, FiniteSets

CONSTANTS Callers,
          MaxComments  \* bound: comments ever written

ASSUME CommentAssumption == MaxComments \in Nat \ {0}

VARIABLES comment,  \* of each comment: none, live, or deleted (softly)
          root,     \* root_id: the first comment of its floor, 0 for one itself
          replyCnt, \* reply_cnt
          call,     \* what each caller is doing
          total,    \* the cached number of comments, or Absent
          totalSpoilt    \* history: a race or a failing DEL spoilt the cached number

commentVars == <<comment, root, replyCnt, call, total, totalSpoilt>>

Ids == 1..MaxComments
Absent == -1
NotCalling == [op |-> "none", at |-> "idle", id |-> 0, floor |-> 0]

Live == {i \in Ids : comment[i] = "live"}
Unused == {i \in Ids : comment[i] = "none"}
FloorOf(r) == {i \in Ids : root[i] = r}

CommentTypeOK ==
    /\ comment \in [Ids -> {"none", "live", "deleted"}]
    /\ root \in [Ids -> 0..MaxComments]
    /\ replyCnt \in [Ids -> 0..MaxComments]
    /\ \A c \in Callers : call[c] = NotCalling \/
          /\ call[c].op \in {"create", "reply", "delete", "count"}
          /\ call[c].floor \in 0..MaxComments
    /\ total \in -1..MaxComments /\ totalSpoilt \in BOOLEAN
    \* a floor has one level: the root of a reply is a first comment, deleted or not
    /\ \A i \in Ids : root[i] # 0 => comment[root[i]] # "none" /\ root[root[i]] = 0

CommentInit ==
    /\ comment = [i \in Ids |-> IF i = 1 THEN "live" ELSE "none"]
    /\ root = [i \in Ids |-> 0]
    /\ replyCnt = [i \in Ids |-> 0]
    /\ call = [c \in Callers |-> NotCalling]
    /\ total = Absent /\ totalSpoilt = FALSE

-----------------------------------------------------------------------------
(* Requests.                                                               *)

Asks(c, op, at, id) == call' = [call EXCEPT ![c] = [NotCalling EXCEPT !.op = op, !.at = at, !.id = id]]
Goes(c, at) == call' = [call EXCEPT ![c].at = at]
Returns(c) == call' = [call EXCEPT ![c] = NotCalling]

AskComment(c) ==
    /\ call[c].at = "idle"
    /\ \/ Asks(c, "create", "write", 0)
       \/ Asks(c, "count", "look", 0)
       \/ \E i \in Ids \ Unused : Asks(c, "reply", "parent", i) \/ Asks(c, "delete", "find", i)
    /\ UNCHANGED <<comment, root, replyCnt, total, totalSpoilt>>

\* The rows a transaction has locked: the parent of a reply shared, a reply
\* that is being deleted exclusively.  (The reply itself is new, see Felled.)
SharesLock(c, i) == call[c].op = "reply" /\ call[c].at = "raise" /\ call[c].id = i
OwnsLock(c, i) == call[c].op = "delete" /\ call[c].at = "lower" /\ call[c].id = i

MayLock(c, i) == \A o \in Callers \ {c} : ~ SharesLock(o, i) /\ ~ OwnsLock(o, i)

NewId == CHOOSE i \in Unused : \A j \in Unused : i <= j

Add(r) == comment' = [comment EXCEPT ![NewId] = "live"] /\ root' = [root EXCEPT ![NewId] = r]

\* A first comment is one insertion.
InsertFirst(c) ==
    /\ call[c].op = "create" /\ call[c].at = "write" /\ Unused # {}
    /\ Add(0) /\ Goes(c, "clear")
    /\ UNCHANGED <<replyCnt, total, totalSpoilt>>

-----------------------------------------------------------------------------
(* A reply: read the parent, insert, raise reply_cnt of the floor.         *)

\* The parent is read without a lock; a deleted one is not found.
ReadParent(c) ==
    /\ call[c].op = "reply" /\ call[c].at = "parent"
    /\ LET p == call[c].id
       IN  IF comment[p] = "live"
           THEN call' = [call EXCEPT ![c].at = "insert",
                                     ![c].floor = IF root[p] = 0 THEN p ELSE root[p]]
           ELSE Returns(c)
    /\ UNCHANGED <<comment, root, replyCnt, total, totalSpoilt>>

\* The foreign key checks that the parent's row exists, deleted or not.
InsertReply(c) ==
    /\ call[c].op = "reply" /\ call[c].at = "insert" /\ Unused # {}
    /\ \A o \in Callers \ {c} : ~ OwnsLock(o, call[c].id)
    /\ Goes(c, "raise")
    /\ UNCHANGED <<comment, root, replyCnt, total, totalSpoilt>>

\* The counter of a comment that has been deleted is not found, and stays.
Counted(r, n) == [replyCnt EXCEPT ![r] = IF comment[r] = "live" THEN n ELSE @]

RaiseReplyCnt(c) ==
    /\ call[c].op = "reply" /\ call[c].at = "raise" /\ Unused # {}
    /\ MayLock(c, call[c].floor)
    /\ Add(call[c].floor)
    /\ replyCnt' = Counted(call[c].floor, replyCnt[call[c].floor] + 1)
    /\ Goes(c, "clear")
    /\ UNCHANGED <<total, totalSpoilt>>

-----------------------------------------------------------------------------
(* A deletion: the whole floor, or one reply and reply_cnt of its floor.   *)

FindComment(c) ==
    /\ call[c].op = "delete" /\ call[c].at = "find"
    /\ LET i == call[c].id
       IN  IF comment[i] = "live" THEN Goes(c, IF root[i] = 0 THEN "fell" ELSE "unlink")
           ELSE Returns(c)
    /\ UNCHANGED <<comment, root, replyCnt, total, totalSpoilt>>

\* Mutant: the row asked for and no more, without "OR root_id = ?".
FelledAlone(r) == Live \cap {r}

\* The first comment goes with its replies; those in the making are waited for.
Felled(r) == {i \in Live : i = r \/ root[i] = r}

FellFloor(c) ==
    /\ call[c].op = "delete" /\ call[c].at = "fell"
    /\ \A o \in Callers : ~ (call[o].at = "raise" /\ call[o].floor = call[c].id)
    /\ \A i \in Felled(call[c].id) : MayLock(c, i)
    /\ comment' = [i \in Ids |-> IF i \in Felled(call[c].id) THEN "deleted" ELSE comment[i]]
    /\ Goes(c, "clear")
    /\ UNCHANGED <<root, replyCnt, total, totalSpoilt>>

\* Mutant: the number of rows the deletion has hit is not looked at.
UnlinkAgain(c) ==
    /\ call[c].op = "delete" /\ call[c].at = "unlink"
    /\ MayLock(c, call[c].id)
    /\ Goes(c, "lower")
    /\ UNCHANGED <<comment, root, replyCnt, total, totalSpoilt>>

\* A reply that somebody else has deleted meanwhile is not deleted again.
Unlink(c) ==
    /\ call[c].op = "delete" /\ call[c].at = "unlink"
    /\ MayLock(c, call[c].id)
    /\ IF comment[call[c].id] = "live" THEN Goes(c, "lower") ELSE Returns(c)
    /\ UNCHANGED <<comment, root, replyCnt, total, totalSpoilt>>

LowerReplyCnt(c) ==
    /\ call[c].op = "delete" /\ call[c].at = "lower"
    /\ LET r == root[call[c].id]
       IN  /\ MayLock(c, r)
           /\ comment' = [comment EXCEPT ![call[c].id] = "deleted"]
           /\ replyCnt' = Counted(r, IF replyCnt[r] > 0 THEN replyCnt[r] - 1 ELSE 0)
    /\ Goes(c, "clear")
    /\ UNCHANGED <<root, total, totalSpoilt>>

\* A deadlock, a lock that is waited for too long, or an error.
RollBack(c) ==
    /\ call[c].at \in {"write", "parent", "insert", "raise", "find", "fell", "unlink", "lower"}
    /\ Returns(c)
    /\ UNCHANGED <<comment, root, replyCnt, total, totalSpoilt>>

-----------------------------------------------------------------------------
(* The cached total.                                                       *)

\* After its commit a request deletes the cached total; the DEL may fail.
ClearTotal(c) ==
    /\ call[c].at = "clear"
    /\ \/ total' = Absent /\ totalSpoilt' = FALSE
       \/ total' = total /\ totalSpoilt' = (total # Absent)
    /\ Returns(c)
    /\ UNCHANGED <<comment, root, replyCnt>>

LookTotal(c) ==
    /\ call[c].at = "look"
    /\ IF total # Absent THEN Returns(c)
       ELSE call' = [call EXCEPT ![c].at = "store", ![c].floor = Cardinality(Live)]
    /\ UNCHANGED <<comment, root, replyCnt, total, totalSpoilt>>

StoreTotal(c) ==
    /\ call[c].at = "store"
    /\ total' = call[c].floor /\ totalSpoilt' = (call[c].floor # Cardinality(Live))
    /\ Returns(c)
    /\ UNCHANGED <<comment, root, replyCnt>>

ExpireTotal ==
    /\ total # Absent
    /\ total' = Absent /\ totalSpoilt' = FALSE
    /\ UNCHANGED <<comment, root, replyCnt, call>>

CommentNext ==
    \/ ExpireTotal
    \/ \E c \in Callers :
          \/ AskComment(c) \/ InsertFirst(c) \/ ReadParent(c) \/ InsertReply(c) \/ RaiseReplyCnt(c)
          \/ FindComment(c) \/ FellFloor(c) \/ Unlink(c) \/ LowerReplyCnt(c) \/ RollBack(c)
          \/ ClearTotal(c) \/ LookTotal(c) \/ StoreTotal(c)

CommentSpec == CommentInit /\ [][CommentNext]_commentVars

-----------------------------------------------------------------------------
\* A first comment counts the replies that its floor still has.
FloorsCounted ==
    \A r \in Live : root[r] = 0 => replyCnt[r] = Cardinality(Live \cap FloorOf(r))

\* The cached total is wrong only while the request that changed the number has
\* yet to clear it, or after a refill that raced with a change or a failing DEL.
TotalWrongInRace ==
    total \in {Absent, Cardinality(Live)} \/ totalSpoilt \/ \E c \in Callers : call[c].at = "clear"

\* Replies and deletions that overlap, of one comment, its parent or its floor,
\* lose and double no count.
CommentsCounted == FloorsCounted /\ TotalWrongInRace

Discussion == INSTANCE Threads WITH
    Size <- Cardinality,
    NoFloor <- 0,
    state <- comment,
    floor <- root,
    shown <- [r \in {i \in Live : root[i] = 0} |-> replyCnt[r]]

\* The statements of any number of requests come out as single changes of the
\* floors, each with the number of replies that is shown: a reply is counted in
\* the floor it joins, and counted out once; a floor goes with its replies.
ImplementsThreads == Discussion!ThreadsSpec
=============================================================================
