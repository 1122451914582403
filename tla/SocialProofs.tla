--------------------------- MODULE SocialProofs ---------------------------
(***************************************************************************)
(* Proofs about RelationService for any finite set of users, any sessions  *)
(* and any requests (the counters are the degrees of the graph, the        *)
(* statements of concurrent requests come out as single changes of it, the *)
(* cached counters are wrong only in a race), and about Feed for any       *)
(* people and articles (outboxes and inboxes through rebuilds, expiries,   *)
(* lost and repeated events).                                              *)
(***************************************************************************)
EXTENDS RelationService, Feed, FiniteSetTheorems, TLAPS

\* Sessions share a lock on an edge only where there is no row, but a gap.
LocksExclude ==
    \A p \in Pairs : \A s, r \in Sessions :
        s # r /\ Holds(s, p) /\ Holds(r, p) => row[p] = "none"

\* What a session has read of an edge it has locked is still so.
ReadsHold ==
    \A p \in Pairs : \A s \in Sessions :
        Holds(s, p) => (p \in req[s].on <=> row[p] = "on")

\* A session has read no edges but those it has locked.
ReadsLocked ==
    \A s \in Sessions : req[s] \in EdgeReqs =>
        /\ req[s].at \in {"gate", "gateBy", "insert", "lock"} => req[s].on = {}
        /\ req[s].at = "lockBack" => req[s].op = "block"
        /\ req[s].at = "lockBack" \/ req[s].op # "block" => req[s].on \subseteq {req[s].pair}

LockInv == RelTypeOK /\ LocksExclude /\ ReadsHold /\ ReadsLocked

RelInv == LockInv /\ CountersExact

LEMMA PairFacts ==
    ASSUME NEW p \in Pairs
    PROVE  /\ Swap(p) \in Pairs /\ Swap(p) # p
           /\ p = <<p[1], p[2]>> /\ p[1] \in Users /\ p[2] \in Users
           /\ Swap(p)[1] = p[2] /\ Swap(p)[2] = p[1] /\ p[1] # p[2]
  BY DEF Pairs, Swap

LEMMA ReqKinds ==
    ASSUME RelTypeOK, NEW s \in Sessions
    PROVE  /\ req[s] \in EdgeReqs \/ req[s] \in StatsReqs \/ req[s] = NoReq
           /\ req[s].op \in EdgeOps => req[s] \in EdgeReqs
           /\ req[s].at \in {"gate", "gateBy", "insert", "lock", "lockBack", "commit", "clear"}
                 => req[s] \in EdgeReqs
           /\ req[s].at \in {"read", "store"} => req[s] \in StatsReqs
  BY DEF RelTypeOK, RequestsOK, EdgeReqs, StatsReqs, NoReq, EdgeOps

\* Steps that leave the tables alone and only move a session that holds no lock
\* before or after.
QuietMove(s) ==
    /\ UNCHANGED row
    /\ \E new \in EdgeReqs \union StatsReqs \union {NoReq} :
          /\ req' = [req EXCEPT ![s] = new]
          /\ new \in EdgeReqs =>
                /\ new.at \in {"gate", "gateBy", "insert", "lock"} => new.on = {}
                /\ new.at \notin {"lockBack", "commit", "clear"}
                /\ new.on \subseteq {new.pair, Swap(new.pair)}
                /\ new.op # "block" => new.on \subseteq {new.pair}

LEMMA QuietKeepsLocks ==
    ASSUME LockInv, NEW s \in Sessions, QuietMove(s)
    PROVE  LocksExclude' /\ ReadsHold' /\ ReadsLocked'
<1>1. PICK new \in EdgeReqs \union StatsReqs \union {NoReq} :
          /\ req' = [req EXCEPT ![s] = new]
          /\ new \in EdgeReqs =>
                /\ new.at \in {"gate", "gateBy", "insert", "lock"} => new.on = {}
                /\ new.at \notin {"lockBack", "commit", "clear"}
                /\ new.on \subseteq {new.pair, Swap(new.pair)}
                /\ new.op # "block" => new.on \subseteq {new.pair}
  BY DEF QuietMove
<1>2. req'[s] = new /\ \A r \in Sessions \ {s} : req'[r] = req[r]
  BY <1>1 DEF LockInv, RelTypeOK, RequestsOK
<1>3. \A p \in Pairs : ~ Holds(s, p)'
  BY <1>1, <1>2 DEF Holds, EdgeReqs, StatsReqs, NoReq
<1>4. \A p \in Pairs : \A r \in Sessions \ {s} : Holds(r, p)' <=> Holds(r, p)
  BY <1>2 DEF Holds
<1>5. row' = row
  BY DEF QuietMove
<1>6. LocksExclude' /\ ReadsHold'
  BY <1>2, <1>3, <1>4, <1>5 DEF LockInv, LocksExclude, ReadsHold
<1>7. ReadsLocked'
  BY <1>1, <1>2 DEF LockInv, ReadsLocked
<1> QED
  BY <1>6, <1>7

LEMMA DoneIsQuiet ==
    ASSUME NEW s \in Sessions, UNCHANGED row, Done(s)
    PROVE  QuietMove(s)
<1>1. NoReq \notin EdgeReqs
  <2>1. NoReq.op \notin EdgeOps
    BY DEF NoReq, EdgeOps
  <2> QED
    BY <2>1 DEF EdgeReqs
<1>2. NoReq \in EdgeReqs \union StatsReqs \union {NoReq}
  OBVIOUS
<1> QED
  BY <1>1, <1>2 DEF QuietMove, Done

-----------------------------------------------------------------------------
(* The steps.                                                              *)

\* Requests and the steps before a lock is asked for.
LEMMA EarlyStep ==
    ASSUME LockInv, NEW s \in Sessions,
           Request(s) \/ Gate(s) \/ GateBy(s) \/ InsertBlock(s)
    PROVE  QuietMove(s) /\ UNCHANGED <<relTables, statsCache, excused>>
<1>0. UNCHANGED <<relTables, statsCache, excused>> /\ UNCHANGED row
  BY DEF Request, Gate, GateBy, InsertBlock, relTables
<1>1. CASE Request(s)
  <2>1. CASE \E op \in EdgeOps, p \in Asked : req' = [req EXCEPT ![s] = EdgeReq(op, p)]
    <3>1. PICK op \in EdgeOps, p \in Pairs : req' = [req EXCEPT ![s] = EdgeReq(op, p)]
      BY <2>1, RelAssumption
    <3>2. EdgeReq(op, p) \in EdgeReqs /\ EdgeReq(op, p).on = {}
          /\ EdgeReq(op, p).at \notin {"lockBack", "commit", "clear"}
      BY DEF EdgeReq, EdgeReqs, EdgeOps
    <3> QED
      BY <1>0, <3>1, <3>2 DEF QuietMove
  <2>2. CASE \E u \in Viewed : req' = [req EXCEPT ![s] = StatsReq(u)]
    <3>1. PICK u \in Users : req' = [req EXCEPT ![s] = StatsReq(u)]
      BY <2>2, RelAssumption
    <3>2. StatsReq(u) \in StatsReqs /\ StatsReq(u) \notin EdgeReqs
      BY DEF StatsReq, StatsReqs, Counters, EdgeReqs, EdgeOps
    <3> QED
      BY <1>0, <3>1, <3>2 DEF QuietMove
  <2> QED
    BY <1>1, <2>1, <2>2 DEF Request
<1>2. CASE Gate(s) \/ GateBy(s) \/ InsertBlock(s)
  <2>1. req[s] \in EdgeReqs /\ req[s].on = {} /\ req[s].at \in {"gate", "gateBy", "insert"}
    BY <1>2, ReqKinds DEF Gate, GateBy, InsertBlock, LockInv, ReadsLocked
  <2>2. CASE Done(s)
    BY <1>0, <2>2, DoneIsQuiet
  <2>3. CASE \E where \in {"gateBy", "lock"} : Goto(s, where)
    <3>1. PICK where \in {"gateBy", "lock"} : Goto(s, where)
      BY <2>3
    <3>2. req' = [req EXCEPT ![s] = [req[s] EXCEPT !.at = where]]
      BY <3>1 DEF Goto
    <3>3. [req[s] EXCEPT !.at = where] \in EdgeReqs /\ [req[s] EXCEPT !.at = where].on = {}
          /\ [req[s] EXCEPT !.at = where].at = where
      BY <2>1 DEF EdgeReqs
    <3> QED
      BY <1>0, <3>2, <3>3 DEF QuietMove
  <2> QED
    BY <1>2, <2>2, <2>3 DEF Gate, GateBy, InsertBlock
<1> QED
  BY <1>0, <1>1, <1>2

\* Steps that end a request, or move one that has no locks.
LEMMA LateStep ==
    ASSUME LockInv, NEW s \in Sessions,
           RelRollback(s) \/ Clear(s) \/ ReadStats(s) \/ StoreStats(s)
    PROVE  QuietMove(s) /\ UNCHANGED relTables
<1>0. UNCHANGED relTables /\ UNCHANGED row
  BY DEF RelRollback, Clear, ReadStats, StoreStats, relTables
<1>1. CASE Done(s)
  BY <1>0, <1>1, DoneIsQuiet
<1>2. CASE ReadStats(s) /\ ~ Done(s)
  <2> DEFINE new == [req[s] EXCEPT !.at = "store", !.val = StatsOf(req[s].uid)]
  <2>1. req[s] \in StatsReqs
    BY <1>2, ReqKinds DEF ReadStats, LockInv
  <2>2. StatsOf(req[s].uid) \in Counters
    BY <2>1 DEF LockInv, RelTypeOK, RequestsOK, StatsOf, Counters, StatsReqs
  <2>3. new \in StatsReqs /\ new \notin EdgeReqs
    BY <2>1, <2>2 DEF StatsReqs, EdgeReqs, EdgeOps
  <2>4. req' = [req EXCEPT ![s] = new]
    BY <1>2 DEF ReadStats
  <2> QED
    BY <1>0, <2>3, <2>4 DEF QuietMove
<1> QED
  BY <1>1, <1>2 DEF RelRollback, Clear, ReadStats, StoreStats

\* A lock that is granted, with the read that goes with it.
LEMMA LockStep ==
    ASSUME LockInv, NEW s \in Sessions, Lock(s) \/ LockBack(s)
    PROVE  /\ LocksExclude' /\ ReadsHold' /\ ReadsLocked'
           /\ UNCHANGED <<relTables, statsCache, excused>>
           /\ \E new \in EdgeReqs :
                 /\ req' = [req EXCEPT ![s] = new] /\ new.at # "clear"
                 /\ new.on \subseteq {new.pair, Swap(new.pair)}
<1> DEFINE back == req[s].at = "lockBack"
           p == IF back THEN Swap(req[s].pair) ELSE req[s].pair
           where == IF ~ back /\ req[s].op = "block" THEN "lockBack" ELSE "commit"
           read == req[s].on \union (IF row[p] = "on" THEN {p} ELSE {})
           new == [req[s] EXCEPT !.at = where, !.on = read]
<1>1. /\ req[s] \in EdgeReqs /\ req[s].at \in {"lock", "lockBack"}
      /\ LockGranted(s, p) /\ UNCHANGED <<relTables, statsCache, excused>>
      /\ req' = [req EXCEPT ![s].at = where, ![s].on = read]
  BY ReqKinds DEF Lock, LockBack, LockRead, LockInv
<1>2. /\ req' = [req EXCEPT ![s] = new]
      /\ req'[s] = new /\ \A r \in Sessions \ {s} : req'[r] = req[r]
  BY <1>1 DEF LockInv, RelTypeOK, RequestsOK
<1>3. /\ req[s].pair \in Pairs /\ p \in Pairs /\ p \in {req[s].pair, Swap(req[s].pair)}
      /\ Swap(req[s].pair) # req[s].pair
  BY <1>1, PairFacts DEF EdgeReqs
<1>4. /\ new \in EdgeReqs /\ new.op = req[s].op /\ new.pair = req[s].pair
      /\ new.at = where /\ new.on = read
  BY <1>1, <1>3 DEF EdgeReqs
<1>5. /\ back => req[s].op = "block" /\ req[s].on \subseteq {req[s].pair}
      /\ ~ back => req[s].on = {}
  BY <1>1 DEF LockInv, ReadsLocked
<1>6. read \subseteq {req[s].pair, p}
  BY <1>5
<1>7. \A q \in Pairs : Holds(s, q)' <=> Holds(s, q) \/ q = p
  <2> SUFFICES ASSUME NEW q \in Pairs PROVE Holds(s, q)' <=> Holds(s, q) \/ q = p
    OBVIOUS
  <2>1. Swap(q) = req[s].pair <=> q = Swap(req[s].pair)
    BY <1>3, PairFacts DEF Swap
  <2>2. CASE back
    BY <1>2, <1>4, <1>5, <2>1, <2>2 DEF Holds
  <2>3. CASE ~ back
    BY <1>1, <1>2, <1>3, <1>4, <2>1, <2>3 DEF Holds, EdgeReqs, EdgeOps
  <2> QED
    BY <2>2, <2>3
<1>8. \A r \in Sessions \ {s}, q \in Pairs : Holds(r, q)' <=> Holds(r, q)
  BY <1>2 DEF Holds
<1>9. row' = row
  BY <1>1 DEF relTables
<1>10. LocksExclude'
  BY <1>1, <1>3, <1>7, <1>8, <1>9 DEF LockGranted, LockInv, LocksExclude
<1>11. ReadsHold'
  <2> SUFFICES ASSUME NEW q \in Pairs, NEW r \in Sessions, Holds(r, q)'
               PROVE  q \in req'[r].on <=> row[q] = "on"
    BY <1>9 DEF ReadsHold
  <2>1. CASE r # s
    BY <1>2, <1>8, <2>1 DEF LockInv, ReadsHold
  <2>2. CASE r = s /\ q = p
    <3>1. p \notin req[s].on
      BY <1>1, <1>3, <1>5
    <3> QED
      BY <1>2, <1>4, <2>2, <3>1
  <2>3. CASE r = s /\ q # p
    BY <1>2, <1>4, <1>7, <2>3 DEF LockInv, ReadsHold
  <2> QED
    BY <2>1, <2>2, <2>3
<1>12. ReadsLocked'
  <2>1. /\ where # "lock"
        /\ where = "lockBack" => req[s].op = "block" /\ p = req[s].pair
        /\ req[s].op # "block" => p = req[s].pair
    BY <1>1, <1>5
  <2> QED
    BY <1>2, <1>4, <1>6, <2>1 DEF LockInv, ReadsLocked
<1>13. new.at # "clear" /\ new.on \subseteq {new.pair, Swap(new.pair)}
  BY <1>3, <1>4, <1>6
<1> HIDE DEF new
<1> QED
  BY <1>1, <1>2, <1>4, <1>10, <1>11, <1>12, <1>13

\* What a transaction turns over, nobody else has locked or read.
LEMMA CommitFlips ==
    ASSUME LockInv, NEW s \in Sessions, Commit(s)
    PROVE  /\ req[s] \in EdgeReqs
           /\ Flips(s) \subseteq Pairs /\ Flips(s) \subseteq {req[s].pair, Swap(req[s].pair)}
           /\ \A p \in Flips(s) :
                 /\ Holds(s, p) /\ (row[p] = "on" <=> req[s].op # "follow")
                 /\ \A r \in Sessions \ {s} : ~ Holds(r, p)
<1>1. /\ req[s] \in EdgeReqs /\ req[s].at = "commit" /\ req[s].pair \in Pairs
      /\ req[s].on \subseteq {req[s].pair, Swap(req[s].pair)}
      /\ req[s].op # "block" => req[s].on \subseteq {req[s].pair}
      /\ req[s].op \in EdgeOps
  BY ReqKinds DEF Commit, LockInv, ReadsLocked, RelTypeOK, RequestsOK, EdgeReqs
<1>2. Swap(req[s].pair) \in Pairs /\ Swap(Swap(req[s].pair)) = req[s].pair
  BY <1>1, PairFacts DEF Swap
<1>3. Flips(s) \subseteq {req[s].pair, Swap(req[s].pair)}
  BY <1>1 DEF Flips
<1>4. ASSUME NEW p \in Flips(s)
      PROVE  /\ Holds(s, p) /\ (row[p] = "on" <=> req[s].op # "follow")
             /\ \A r \in Sessions \ {s} : ~ Holds(r, p)
  <2>1. p \in Pairs
    BY <1>1, <1>2, <1>3
  <2>2. Holds(s, p)
    BY <1>1, <1>2, <1>3 DEF Flips, Holds, EdgeOps
  <2>3. row[p] = "on" <=> req[s].op # "follow"
    BY <1>1, <2>1, <2>2 DEF Flips, LockInv, ReadsHold
  <2>4. \A r \in Sessions \ {s} : ~ Holds(r, p)
    BY <2>1, <2>2 DEF Commit, MayInsert, LockInv, LocksExclude
  <2> QED
    BY <2>2, <2>3, <2>4
<1> QED
  BY <1>1, <1>2, <1>3, <1>4

LEMMA CommitStep ==
    ASSUME LockInv, NEW s \in Sessions, Commit(s)
    PROVE  LocksExclude' /\ ReadsHold' /\ ReadsLocked'
<1>1. \A r \in Sessions \ {s} : req'[r] = req[r]
  BY DEF Commit, Goto, Done, LockInv, RelTypeOK, RequestsOK
<1>2. /\ req'[s] = NoReq \/ (req'[s] = [req[s] EXCEPT !.at = "clear"])
      /\ req[s] \in EdgeReqs
  <2>1. Done(s) \/ Goto(s, "clear")
    BY DEF Commit
  <2>2. Done(s) => req'[s] = NoReq
    BY DEF Done, LockInv, RelTypeOK, RequestsOK
  <2>3. Goto(s, "clear") => req'[s] = [req[s] EXCEPT !.at = "clear"]
    BY DEF Goto, LockInv, RelTypeOK, RequestsOK
  <2> QED
    BY <2>1, <2>2, <2>3, CommitFlips
<1>3. \A p \in Pairs : ~ Holds(s, p)'
  BY <1>2 DEF Holds, NoReq, EdgeReqs
<1>4. \A r \in Sessions \ {s}, p \in Pairs : Holds(r, p)' <=> Holds(r, p)
  BY <1>1 DEF Holds
<1>5. \A p \in Pairs \ Flips(s) : row'[p] = row[p]
  BY DEF Commit, WriteRows
<1>6. \A r \in Sessions \ {s}, p \in Pairs : Holds(r, p) => p \notin Flips(s)
  BY CommitFlips
<1>7. LocksExclude' /\ ReadsHold'
  BY <1>1, <1>3, <1>4, <1>5, <1>6 DEF LockInv, LocksExclude, ReadsHold
<1>8. ReadsLocked'
  <2>1. NoReq \notin EdgeReqs
    <3>1. NoReq.op \notin EdgeOps
      BY DEF NoReq, EdgeOps
    <3> QED
      BY <3>1 DEF EdgeReqs
  <2> QED
    BY <1>1, <1>2, <2>1 DEF LockInv, ReadsLocked, EdgeReqs
<1> QED
  BY <1>7, <1>8

-----------------------------------------------------------------------------
(* Types.                                                                  *)

LEMMA QuietKeepsRequests ==
    ASSUME RequestsOK, NEW s \in Sessions, QuietMove(s)
    PROVE  RequestsOK'
<1>1. PICK new \in EdgeReqs \union StatsReqs \union {NoReq} :
          /\ req' = [req EXCEPT ![s] = new]
          /\ new \in EdgeReqs => new.at # "clear"
                                 /\ new.on \subseteq {new.pair, Swap(new.pair)}
  BY DEF QuietMove
<1>2. req'[s] = new /\ \A r \in Sessions \ {s} : req'[r] = req[r] /\ Flips(r)' = Flips(r)
  BY <1>1 DEF RequestsOK, Flips
<1> QED
  BY <1>1, <1>2 DEF RequestsOK

LEMMA CommitTypes ==
    ASSUME LockInv, NEW s \in Sessions, Commit(s)
    PROVE  RelTypeOK'
<1>1. \A n \in Nat : Recount(s, n) \in Nat
  BY DEF Recount, Larger
<1>2. fanCnt' \in [Users -> Nat] /\ followeeCnt' \in [Users -> Nat]
  BY <1>1 DEF Commit, WriteCounters, LockInv, RelTypeOK
<1>3. row' \in [Pairs -> {"none", "on", "off"}]
  BY DEF Commit, WriteRows, LockInv, RelTypeOK
<1>4. blacklist' \subseteq Pairs
  BY CommitFlips DEF Commit, LockInv, RelTypeOK, EdgeReqs
<1>5. RequestsOK'
  <2>1. CASE Done(s)
    <3>1. /\ req'[s] = NoReq
          /\ \A r \in Sessions \ {s} : req'[r] = req[r] /\ Flips(r)' = Flips(r)
          /\ req' \in [Sessions -> EdgeReqs \union StatsReqs \union {NoReq}]
      BY <2>1 DEF Done, LockInv, RelTypeOK, RequestsOK, Flips
    <3>2. NoReq \notin EdgeReqs
      <4>1. NoReq.op \notin EdgeOps
        BY DEF NoReq, EdgeOps
      <4> QED
        BY <4>1 DEF EdgeReqs
    <3> QED
      BY <3>1, <3>2 DEF LockInv, RelTypeOK, RequestsOK
  <2>2. CASE Goto(s, "clear") /\ (Flips(s) # {} \/ req[s].op = "block")
    <3> DEFINE new == [req[s] EXCEPT !.at = "clear"]
    <3>1. /\ new \in EdgeReqs /\ new.on = req[s].on /\ new.pair = req[s].pair
          /\ new.op = req[s].op
      BY CommitFlips DEF EdgeReqs
    <3>2. /\ req'[s] = new /\ Flips(s)' = Flips(s)
          /\ \A r \in Sessions \ {s} : req'[r] = req[r] /\ Flips(r)' = Flips(r)
          /\ req' \in [Sessions -> EdgeReqs \union StatsReqs \union {NoReq}]
      BY <2>2, <3>1 DEF Goto, LockInv, RelTypeOK, RequestsOK, Flips
    <3> HIDE DEF new
    <3> QED
      BY <2>2, <3>1, <3>2, CommitFlips DEF LockInv, RelTypeOK, RequestsOK
  <2> QED
    BY <2>1, <2>2 DEF Commit
<1> QED
  BY <1>2, <1>3, <1>4, <1>5 DEF Commit, LockInv, RelTypeOK

LEMMA RelTypeStep ==
    ASSUME LockInv, [RelNext]_relVars
    PROVE  RelTypeOK'
<1> USE DEF LockInv
<1>1. ASSUME NEW s \in Sessions, Request(s) \/ Gate(s) \/ GateBy(s) \/ InsertBlock(s)
      PROVE  RelTypeOK'
  BY <1>1, EarlyStep, QuietKeepsRequests DEF RelTypeOK, relTables
<1>2. ASSUME NEW s \in Sessions, Lock(s) \/ LockBack(s)
      PROVE  RelTypeOK'
  <2>1. PICK new \in EdgeReqs :
           /\ req' = [req EXCEPT ![s] = new] /\ new.at # "clear"
           /\ new.on \subseteq {new.pair, Swap(new.pair)}
    BY <1>2, LockStep
  <2>2. req'[s] = new /\ \A r \in Sessions \ {s} : req'[r] = req[r] /\ Flips(r)' = Flips(r)
    BY <2>1 DEF RelTypeOK, RequestsOK, Flips
  <2>3. RequestsOK'
    BY <2>1, <2>2 DEF RelTypeOK, RequestsOK
  <2> QED
    BY <1>2, <2>3, LockStep DEF RelTypeOK, relTables
<1>3. ASSUME NEW s \in Sessions, Commit(s)
      PROVE  RelTypeOK'
  BY <1>3, CommitTypes
<1>4. ASSUME NEW s \in Sessions, RelRollback(s) \/ Clear(s) \/ ReadStats(s) \/ StoreStats(s)
      PROVE  RelTypeOK'
  <2>1. RequestsOK' /\ UNCHANGED relTables
    BY <1>4, LateStep, QuietKeepsRequests DEF RelTypeOK
  <2>2. CASE RelRollback(s) \/ ReadStats(s)
    BY <2>1, <2>2 DEF RelRollback, ReadStats, RelTypeOK, relTables
  <2>3. CASE Clear(s)
    <3>1. req[s] \in EdgeReqs
      BY <2>3, ReqKinds DEF Clear
    <3> QED
      BY <2>1, <2>3, <3>1, RelAssumption
         DEF Clear, RelTypeOK, relTables, Counters, Cleared
  <2>4. CASE StoreStats(s)
    <3>1. req[s] \in StatsReqs
      BY <2>4, ReqKinds DEF StoreStats
    <3> QED
      BY <2>1, <2>4, <3>1 DEF StoreStats, RelTypeOK, relTables, StatsReqs
  <2> QED
    BY <1>4, <2>2, <2>3, <2>4
<1>5. ASSUME NEW s \in Sessions, Unblock(s)
      PROVE  RelTypeOK'
  BY <1>5 DEF Unblock, RelTypeOK, RequestsOK, Flips
<1>6. ASSUME NEW u \in Users, ExpireStats(u)
      PROVE  RelTypeOK'
  BY <1>6 DEF ExpireStats, RelTypeOK, RequestsOK, Flips, relTables, Counters
<1>7. CASE UNCHANGED relVars
  BY <1>7 DEF relVars, RelTypeOK, RequestsOK, Flips, relTables
<1> QED
  BY <1>1, <1>2, <1>3, <1>4, <1>5, <1>6, <1>7 DEF RelNext

LEMMA LockInvInit == RelInit => LockInv
<1> SUFFICES ASSUME RelInit PROVE LockInv
  OBVIOUS
<1>1. NoReq.op = "none" /\ NoReq.at = "idle" /\ NoReq \notin EdgeReqs
  <2>1. NoReq.op = "none" /\ NoReq.at = "idle"
    BY DEF NoReq
  <2> QED
    BY <2>1 DEF EdgeReqs, EdgeOps
<1>2. \A p \in Pairs, s \in Sessions : ~ Holds(s, p)
  BY <1>1 DEF RelInit, Holds
<1> QED
  BY <1>1, <1>2 DEF RelInit, LockInv, RelTypeOK, RequestsOK, Counters,
                     LocksExclude, ReadsHold, ReadsLocked

LEMMA LockInvStep == LockInv /\ [RelNext]_relVars => LockInv'
<1> SUFFICES ASSUME LockInv, [RelNext]_relVars PROVE LockInv'
  OBVIOUS
<1>1. RelTypeOK'
  BY RelTypeStep
<1>2. ASSUME NEW s \in Sessions,
             Request(s) \/ Gate(s) \/ GateBy(s) \/ InsertBlock(s) \/ RelRollback(s)
               \/ Clear(s) \/ ReadStats(s) \/ StoreStats(s)
      PROVE  LockInv'
  BY <1>1, <1>2, EarlyStep, LateStep, QuietKeepsLocks DEF LockInv
<1>3. ASSUME NEW s \in Sessions, Lock(s) \/ LockBack(s)
      PROVE  LockInv'
  BY <1>1, <1>3, LockStep DEF LockInv
<1>4. ASSUME NEW s \in Sessions, Commit(s)
      PROVE  LockInv'
  BY <1>1, <1>4, CommitStep DEF LockInv
<1>5. CASE UNCHANGED <<row, req>>
  BY <1>1, <1>5 DEF LockInv, LocksExclude, ReadsHold, ReadsLocked, Holds
<1> QED
  BY <1>2, <1>3, <1>4, <1>5 DEF RelNext, Unblock, ExpireStats, relTables, relVars

\* Requests, tables and caches stay well formed.
THEOREM RelTypeCorrect == RelSpec => []RelTypeOK
<1>1. LockInv => RelTypeOK
  BY DEF LockInv
<1> QED
  BY <1>1, LockInvInit, LockInvStep, PTL DEF RelSpec

-----------------------------------------------------------------------------
(* Counters.                                                               *)

\* A step that neither writes the edges nor the counters.
LEMMA CountersStay ==
    ASSUME CountersExact, UNCHANGED <<row, fanCnt, followeeCnt>>
    PROVE  CountersExact'
  BY DEF CountersExact, Following

\* The edges after a commit, and no more than one of them at either end.
LEMMA CommitEdges ==
    ASSUME LockInv, NEW s \in Sessions, Commit(s)
    PROVE  /\ Following' = IF req[s].op = "follow" THEN Following \union Flips(s)
                                                   ELSE Following \ Flips(s)
           /\ IF req[s].op = "follow" THEN Flips(s) \intersect Following = {}
                                      ELSE Flips(s) \subseteq Following
           /\ \A p, q \in Flips(s) : p[1] = q[1] \/ p[2] = q[2] => p = q
<1>1. \A p \in Pairs : row'[p] = IF p \in Flips(s)
                                   THEN IF req[s].op = "follow" THEN "on" ELSE "off"
                                   ELSE row[p]
  BY DEF Commit, WriteRows
<1>2. /\ Flips(s) \subseteq Pairs /\ Flips(s) \subseteq {req[s].pair, Swap(req[s].pair)}
      /\ req[s].pair \in Pairs
  BY CommitFlips DEF EdgeReqs
<1>3. \A p \in Flips(s) : row[p] = "on" <=> req[s].op # "follow"
  BY CommitFlips
<1>4. \A p, q \in Flips(s) : p[1] = q[1] \/ p[2] = q[2] => p = q
  BY <1>2, PairFacts
<1> QED
  BY <1>1, <1>2, <1>3, <1>4 DEF Following

LEMMA RecountOne ==
    ASSUME NEW s \in Sessions, NEW S, NEW T, NEW x, IsFiniteSet(S),
           req[s].op = "follow" <=> x \notin S,
           x \notin S => T = S \union {x},
           x \in S => T = S \ {x}
    PROVE  Recount(s, Cardinality(S)) = Cardinality(T)
<1>1. Cardinality(S) \in Nat
  BY FS_CardinalityType
<1>2. CASE x \notin S
  <2>1. Cardinality(T) = Cardinality(S) + 1
    BY <1>2, FS_AddElement
  <2> QED
    BY <1>1, <1>2, <2>1 DEF Recount, Larger
<1>3. CASE x \in S
  <2>1. Cardinality(S) # 0
    BY <1>3, FS_EmptySet
  <2>2. Cardinality(T) = Cardinality(S) - 1
    BY <1>3, FS_RemoveElement
  <2> QED
    BY <1>1, <1>3, <2>1, <2>2 DEF Recount, Larger
<1> QED
  BY <1>2, <1>3

LEMMA CommitCounts ==
    ASSUME LockInv, CountersExact, NEW s \in Sessions, Commit(s)
    PROVE  CountersExact'
<1> DEFINE Fan(u) == {v \in Users : <<v, u>> \in Following}
           Followee(u) == {v \in Users : <<u, v>> \in Following}
<1>1. \A u \in Users : /\ IsFiniteSet(Fan(u)) /\ IsFiniteSet(Followee(u))
                       /\ fanCnt[u] = Cardinality(Fan(u))
                       /\ followeeCnt[u] = Cardinality(Followee(u))
  BY RelAssumption, FS_Subset DEF RelAssumption, CountersExact
<1>2. Flips(s) \subseteq Pairs
  BY CommitFlips
<1>3. ASSUME NEW u \in Users
      PROVE  fanCnt'[u] = Cardinality(Fan(u)')
  <2>1. fanCnt'[u] = IF \E p \in Flips(s) : p[2] = u
                       THEN Recount(s, fanCnt[u]) ELSE fanCnt[u]
    BY DEF Commit, WriteCounters
  <2>2. CASE ~ \E p \in Flips(s) : p[2] = u
    <3>1. Fan(u)' = Fan(u)
      BY <2>2, CommitEdges
    <3> QED
      BY <1>1, <2>1, <2>2, <3>1
  <2>3. CASE \E p \in Flips(s) : p[2] = u
    <3>1. PICK p \in Flips(s) : p[2] = u
      BY <2>3
    <3>2. p = <<p[1], u>> /\ p[1] \in Users
      BY <1>2, <3>1, PairFacts
    <3>3. \A v \in Users : <<v, u>> \in Flips(s) <=> v = p[1]
      BY <3>1, <3>2, CommitEdges
    <3>4. /\ req[s].op = "follow" <=> p[1] \notin Fan(u)
          /\ p[1] \notin Fan(u) => Fan(u)' = Fan(u) \union {p[1]}
          /\ p[1] \in Fan(u) => Fan(u)' = Fan(u) \ {p[1]}
      BY <3>2, <3>3, CommitEdges
    <3>5. PICK before, after : before = Fan(u) /\ after = Fan(u)'
      OBVIOUS
    <3>6. /\ IsFiniteSet(before) /\ (req[s].op = "follow" <=> p[1] \notin before)
          /\ p[1] \notin before => after = before \union {p[1]}
          /\ p[1] \in before => after = before \ {p[1]}
      BY <1>1, <3>4, <3>5
    <3>7. Recount(s, Cardinality(before)) = Cardinality(after)
      BY <3>6, RecountOne
    <3> QED
      BY <1>1, <2>1, <2>3, <3>5, <3>7
  <2> QED
    BY <2>2, <2>3
<1>4. ASSUME NEW u \in Users
      PROVE  followeeCnt'[u] = Cardinality(Followee(u)')
  <2>1. followeeCnt'[u] = IF \E p \in Flips(s) : p[1] = u
                            THEN Recount(s, followeeCnt[u]) ELSE followeeCnt[u]
    BY DEF Commit, WriteCounters
  <2>2. CASE ~ \E p \in Flips(s) : p[1] = u
    <3>1. Followee(u)' = Followee(u)
      BY <2>2, CommitEdges
    <3> QED
      BY <1>1, <2>1, <2>2, <3>1
  <2>3. CASE \E p \in Flips(s) : p[1] = u
    <3>1. PICK p \in Flips(s) : p[1] = u
      BY <2>3
    <3>2. p = <<u, p[2]>> /\ p[2] \in Users
      BY <1>2, <3>1, PairFacts
    <3>3. \A v \in Users : <<u, v>> \in Flips(s) <=> v = p[2]
      BY <3>1, <3>2, CommitEdges
    <3>4. /\ req[s].op = "follow" <=> p[2] \notin Followee(u)
          /\ p[2] \notin Followee(u) => Followee(u)' = Followee(u) \union {p[2]}
          /\ p[2] \in Followee(u) => Followee(u)' = Followee(u) \ {p[2]}
      BY <3>2, <3>3, CommitEdges
    <3>5. PICK before, after : before = Followee(u) /\ after = Followee(u)'
      OBVIOUS
    <3>6. /\ IsFiniteSet(before) /\ (req[s].op = "follow" <=> p[2] \notin before)
          /\ p[2] \notin before => after = before \union {p[2]}
          /\ p[2] \in before => after = before \ {p[2]}
      BY <1>1, <3>4, <3>5
    <3>7. Recount(s, Cardinality(before)) = Cardinality(after)
      BY <3>6, RecountOne
    <3> QED
      BY <1>1, <2>1, <2>3, <3>5, <3>7
  <2> QED
    BY <2>2, <2>3
<1> QED
  BY <1>3, <1>4 DEF CountersExact

LEMMA RelInvInit == RelInit => RelInv
<1> SUFFICES ASSUME RelInit PROVE CountersExact
  BY LockInvInit DEF RelInv
<1>1. Following = {}
  BY DEF RelInit, Following
<1> QED
  BY <1>1, FS_EmptySet DEF RelInit, CountersExact

\* Apart from a commit no step touches the edges or the counters.
LEMMA OnlyCommits ==
    ASSUME LockInv, [RelNext]_relVars, ~ \E s \in Sessions : Commit(s)
    PROVE  UNCHANGED <<row, fanCnt, followeeCnt>>
<1>1. ASSUME NEW s \in Sessions,
             Request(s) \/ Gate(s) \/ GateBy(s) \/ InsertBlock(s) \/ RelRollback(s)
               \/ Clear(s) \/ ReadStats(s) \/ StoreStats(s) \/ Lock(s) \/ LockBack(s)
      PROVE  UNCHANGED relTables
  BY <1>1, EarlyStep, LateStep, LockStep
<1> QED
  BY <1>1 DEF RelNext, Unblock, ExpireStats, relTables, relVars

LEMMA RelInvStep == RelInv /\ [RelNext]_relVars => RelInv'
  BY LockInvStep, CommitCounts, OnlyCommits, CountersStay DEF RelInv

\* The counters of every user are the numbers of the user's fans and followees,
\* however many requests about the same couples run side by side.
THEOREM CountersExactAlways == RelSpec => []CountersExact
<1>1. RelInv => CountersExact
  BY DEF RelInv
<1> QED
  BY <1>1, RelInvInit, RelInvStep, PTL DEF RelSpec

-----------------------------------------------------------------------------
(* The cache of the counters.                                              *)

\* Nobody else's counters are asked for, so nobody else's are cached.
OnlyViewed ==
    /\ \A u \in Users : statsCache[u].hit => u \in Viewed
    /\ \A s \in Sessions : req[s] \in StatsReqs => req[s].uid \in Viewed

RaceInv == LockInv /\ OnlyViewed /\ StaleOnlyInRace

\* One session moves at a time, and what it asks about is asked when it begins.
LEMMA OneSession ==
    ASSUME LockInv, NEW s \in Sessions,
           \/ Request(s) \/ Gate(s) \/ GateBy(s) \/ Lock(s) \/ LockBack(s)
           \/ InsertBlock(s) \/ Commit(s) \/ RelRollback(s) \/ Unblock(s)
           \/ Clear(s) \/ ReadStats(s) \/ StoreStats(s)
    PROVE  /\ \A r \in Sessions \ {s} : req'[r] = req[r]
           /\ \/ req'[s] \notin StatsReqs
              \/ req'[s].uid \in Viewed
              \/ req[s] \in StatsReqs /\ req'[s].uid = req[s].uid
<1>0. req \in [Sessions -> EdgeReqs \union StatsReqs \union {NoReq}] /\ DOMAIN req = Sessions
  BY DEF LockInv, RelTypeOK, RequestsOK
<1>1. NoReq \notin StatsReqs
  BY DEF NoReq, StatsReqs
<1>2. CASE Done(s)
  BY <1>0, <1>1, <1>2 DEF Done
<1>3. CASE Request(s)
  <2>1. CASE \E op \in EdgeOps, p \in Asked : req' = [req EXCEPT ![s] = EdgeReq(op, p)]
    <3>1. PICK op \in EdgeOps, p \in Asked : req' = [req EXCEPT ![s] = EdgeReq(op, p)]
      BY <2>1
    <3>2. EdgeReq(op, p).op # "stats"
      BY DEF EdgeReq, EdgeOps
    <3>3. EdgeReq(op, p) \notin StatsReqs
      BY <3>2 DEF StatsReqs
    <3> QED
      BY <1>0, <3>1, <3>3
  <2>2. CASE \E u \in Viewed : req' = [req EXCEPT ![s] = StatsReq(u)]
    <3>1. PICK u \in Viewed : req' = [req EXCEPT ![s] = StatsReq(u)]
      BY <2>2
    <3>2. StatsReq(u).uid = u
      BY DEF StatsReq
    <3> QED
      BY <1>0, <3>1, <3>2
  <2> QED
    BY <1>3, <2>1, <2>2 DEF Request
<1>4. CASE \E where : Goto(s, where) /\ req[s] \in EdgeReqs
  <2>1. PICK where : req' = [req EXCEPT ![s].at = where]
    BY <1>4 DEF Goto
  <2>2. req[s].op # "stats"
    BY <1>4 DEF EdgeReqs, EdgeOps
  <2>3. req'[s].op # "stats" /\ \A r \in Sessions \ {s} : req'[r] = req[r]
    BY <1>0, <1>4, <2>1, <2>2 DEF EdgeReqs
  <2> QED
    BY <2>3 DEF StatsReqs
<1>5. CASE Lock(s) \/ LockBack(s)
  <2>1. PICK new \in EdgeReqs : req' = [req EXCEPT ![s] = new]
    BY <1>5, LockStep
  <2>2. new.op # "stats"
    BY DEF EdgeReqs, EdgeOps
  <2> QED
    BY <1>0, <2>1, <2>2 DEF StatsReqs
<1>6. CASE Unblock(s)
  BY <1>6 DEF Unblock, NoReq, StatsReqs
<1>7. CASE ReadStats(s) /\ ~ Done(s)
  <2>1. req[s] \in StatsReqs
    BY <1>7, ReqKinds DEF ReadStats, LockInv
  <2>2. req' = [req EXCEPT ![s] = [req[s] EXCEPT !.at = "store", !.val = StatsOf(req[s].uid)]]
    BY <1>7 DEF ReadStats
  <2>3. [req[s] EXCEPT !.at = "store", !.val = StatsOf(req[s].uid)].uid = req[s].uid
    BY <2>1 DEF StatsReqs
  <2> QED
    BY <1>0, <2>1, <2>2, <2>3
<1>8. Gate(s) \/ GateBy(s) \/ InsertBlock(s) \/ Commit(s) => req[s] \in EdgeReqs
  BY ReqKinds DEF Gate, GateBy, InsertBlock, Commit, LockInv
<1> QED
  BY <1>2, <1>3, <1>4, <1>5, <1>6, <1>7, <1>8
     DEF Gate, GateBy, InsertBlock, Commit, RelRollback, Clear, ReadStats, StoreStats

\* What a step does to the cached counters.
LEMMA CacheMoves ==
    ASSUME LockInv, NEW s \in Sessions,
           \/ Request(s) \/ Gate(s) \/ GateBy(s) \/ Lock(s) \/ LockBack(s)
           \/ InsertBlock(s) \/ Commit(s) \/ RelRollback(s) \/ Unblock(s)
           \/ Clear(s) \/ ReadStats(s) \/ StoreStats(s),
           NEW u \in Users
    PROVE  \/ statsCache'[u] = statsCache[u]
           \/ Clear(s) /\ statsCache'[u] = Miss
           \/ req[s] \in StatsReqs /\ req[s].uid = u
<1>1. CASE UNCHANGED statsCache
  BY <1>1
<1>2. CASE Clear(s) /\ ~ UNCHANGED statsCache
  BY <1>2 DEF Clear
<1>3. CASE StoreStats(s) /\ ~ UNCHANGED statsCache
  <2>1. req[s] \in StatsReqs
    BY <1>3, ReqKinds DEF StoreStats, LockInv
  <2>2. statsCache' = [statsCache EXCEPT ![req[s].uid] = req[s].val]
    BY <1>3 DEF StoreStats
  <2> QED
    BY <2>1, <2>2 DEF LockInv, RelTypeOK
<1> QED
  BY <1>1, <1>2, <1>3, EarlyStep, LockStep DEF Commit, RelRollback, Unblock, ReadStats

LEMMA OnlyViewedStep == LockInv /\ OnlyViewed /\ [RelNext]_relVars => OnlyViewed'
<1> SUFFICES ASSUME LockInv, OnlyViewed, [RelNext]_relVars PROVE OnlyViewed'
  OBVIOUS
<1>1. ASSUME NEW s \in Sessions,
             \/ Request(s) \/ Gate(s) \/ GateBy(s) \/ Lock(s) \/ LockBack(s)
             \/ InsertBlock(s) \/ Commit(s) \/ RelRollback(s) \/ Unblock(s)
             \/ Clear(s) \/ ReadStats(s) \/ StoreStats(s)
      PROVE  OnlyViewed'
  <2>1. \A r \in Sessions : req'[r] \in StatsReqs => req'[r].uid \in Viewed
    BY <1>1, OneSession DEF OnlyViewed
  <2>2. Miss.hit = FALSE
    BY DEF Miss
  <2>3. \A u \in Users : statsCache'[u].hit => u \in Viewed
    BY <1>1, <2>2, CacheMoves DEF OnlyViewed
  <2> QED
    BY <2>1, <2>3 DEF OnlyViewed
<1>2. ASSUME NEW u \in Users, ExpireStats(u)
      PROVE  OnlyViewed'
  <2>1. \A w \in Users : statsCache'[w] = statsCache[w] \/ statsCache'[w] = Miss
    BY <1>2 DEF ExpireStats, LockInv, RelTypeOK
  <2>2. Miss.hit = FALSE
    BY DEF Miss
  <2> QED
    BY <1>2, <2>1, <2>2 DEF ExpireStats, OnlyViewed
<1>3. CASE UNCHANGED relVars
  BY <1>3 DEF relVars, OnlyViewed
<1> QED
  BY <1>1, <1>2, <1>3 DEF RelNext

\* Steps of a request that has nothing to clear.
LEMMA QuietKeepsRace ==
    ASSUME StaleOnlyInRace, NEW s \in Sessions, req[s].at # "clear",
           \A r \in Sessions \ {s} : req'[r] = req[r],
           UNCHANGED <<fanCnt, followeeCnt, statsCache, excused>>
    PROVE  StaleOnlyInRace'
<1>1. \A u \in Users : Stale(u)' <=> Stale(u)
  BY DEF Stale, StatsOf
<1> QED
  BY <1>1 DEF StaleOnlyInRace

\* A commit that changes the counters of a user has that user to clear.
LEMMA CommitKeepsRace ==
    ASSUME LockInv, StaleOnlyInRace, NEW s \in Sessions, Commit(s)
    PROVE  StaleOnlyInRace'
<1> SUFFICES ASSUME NEW u \in Users, Stale(u)'
             PROVE  \/ u \in excused
                    \/ \E r \in Sessions : /\ req'[r].at = "clear"
                                           /\ u \in {req'[r].pair[1], req'[r].pair[2]}
  BY DEF StaleOnlyInRace, Commit
<1>1. /\ \A r \in Sessions \ {s} : req'[r] = req[r]
      /\ req[s].at = "commit" /\ UNCHANGED statsCache
  BY OneSession DEF Commit
<1>2. CASE \E p \in Flips(s) : u \in {p[1], p[2]}
  <2>1. u \in {req[s].pair[1], req[s].pair[2]}
    BY <1>2, CommitFlips, PairFacts DEF EdgeReqs
  <2>2. req' = [req EXCEPT ![s].at = "clear"] /\ req[s] \in EdgeReqs
    BY <1>2, CommitFlips DEF Commit, Goto
  <2>3. req'[s] = [req[s] EXCEPT !.at = "clear"]
    BY <2>2 DEF LockInv, RelTypeOK, RequestsOK
  <2>4. req'[s].at = "clear" /\ req'[s].pair = req[s].pair
    BY <2>2, <2>3 DEF EdgeReqs
  <2> QED
    BY <2>1, <2>4
<1>3. CASE ~ \E p \in Flips(s) : u \in {p[1], p[2]}
  <2>1. fanCnt'[u] = fanCnt[u] /\ followeeCnt'[u] = followeeCnt[u]
    BY <1>3 DEF Commit, WriteCounters
  <2>2. Stale(u)
    BY <1>1, <2>1 DEF Stale, StatsOf
  <2> QED
    BY <1>1, <2>2 DEF StaleOnlyInRace
<1> QED
  BY <1>2, <1>3

LEMMA ClearKeepsRace ==
    ASSUME LockInv, OnlyViewed, StaleOnlyInRace, NEW s \in Sessions, Clear(s)
    PROVE  StaleOnlyInRace'
<1> SUFFICES ASSUME NEW u \in Users, Stale(u)'
             PROVE  \/ u \in excused'
                    \/ \E r \in Sessions : /\ req'[r].at = "clear"
                                           /\ u \in {req'[r].pair[1], req'[r].pair[2]}
  BY DEF StaleOnlyInRace
<1>1. /\ \A r \in Sessions \ {s} : req'[r] = req[r]
      /\ UNCHANGED <<fanCnt, followeeCnt>>
  BY OneSession DEF Clear, relTables
<1>2. CASE /\ statsCache' = [w \in Users |-> IF w \in Cleared(s) THEN Miss ELSE statsCache[w]]
           /\ excused' = excused \ Cleared(s)
  <2>1. u \notin Cleared(s) /\ statsCache'[u] = statsCache[u]
    BY <1>2 DEF Stale, Miss
  <2>2. Stale(u)
    BY <1>1, <2>1 DEF Stale, StatsOf
  <2> QED
    BY <1>1, <1>2, <2>1, <2>2 DEF StaleOnlyInRace, Cleared
<1>3. CASE excused' = excused \union (Cleared(s) \intersect Viewed) /\ UNCHANGED statsCache
  <2>1. Stale(u)
    BY <1>1, <1>3 DEF Stale, StatsOf
  <2>2. u \in Viewed
    BY <2>1 DEF Stale, OnlyViewed
  <2> QED
    BY <1>1, <1>3, <2>1, <2>2 DEF StaleOnlyInRace, Cleared
<1> QED
  BY <1>2, <1>3 DEF Clear

LEMMA StoreKeepsRace ==
    ASSUME LockInv, StaleOnlyInRace, NEW s \in Sessions, StoreStats(s)
    PROVE  StaleOnlyInRace'
<1>1. CASE UNCHANGED <<statsCache, excused>>
  BY <1>1, QuietKeepsRace, OneSession DEF StoreStats, relTables
<1>2. CASE /\ statsCache' = [statsCache EXCEPT ![req[s].uid] = req[s].val]
           /\ excused' = IF req[s].val = StatsOf(req[s].uid) THEN excused \ {req[s].uid}
                                                       ELSE excused \union {req[s].uid}
  <2> SUFFICES ASSUME NEW u \in Users, Stale(u)'
               PROVE  \/ u \in excused'
                      \/ \E r \in Sessions : /\ req'[r].at = "clear"
                                             /\ u \in {req'[r].pair[1], req'[r].pair[2]}
    BY DEF StaleOnlyInRace
  <2>1. /\ \A r \in Sessions \ {s} : req'[r] = req[r]
        /\ UNCHANGED <<fanCnt, followeeCnt>> /\ req[s].at = "store"
    BY OneSession DEF StoreStats, relTables
  <2>2. StatsOf(u)' = StatsOf(u)
    BY <2>1 DEF StatsOf
  <2>3. CASE u = req[s].uid
    BY <1>2, <2>2, <2>3 DEF Stale, LockInv, RelTypeOK
  <2>4. CASE u # req[s].uid
    <3>1. Stale(u)
      BY <1>2, <2>2, <2>4 DEF Stale, LockInv, RelTypeOK
    <3> QED
      BY <1>2, <2>1, <2>4, <3>1 DEF StaleOnlyInRace
  <2> QED
    BY <2>3, <2>4
<1> QED
  BY <1>1, <1>2 DEF StoreStats

LEMMA RaceInvStep == RaceInv /\ [RelNext]_relVars => RaceInv'
<1> SUFFICES ASSUME RaceInv, [RelNext]_relVars PROVE StaleOnlyInRace'
  BY LockInvStep, OnlyViewedStep DEF RaceInv
<1> USE DEF RaceInv
<1>1. ASSUME NEW s \in Sessions,
             Request(s) \/ Gate(s) \/ GateBy(s) \/ InsertBlock(s) \/ Lock(s) \/ LockBack(s)
      PROVE  StaleOnlyInRace'
  <2>1. UNCHANGED <<fanCnt, followeeCnt, statsCache, excused>>
    BY <1>1, EarlyStep, LockStep DEF relTables
  <2>2. req[s].at # "clear"
    BY <1>1 DEF Request, Gate, GateBy, InsertBlock, Lock, LockBack
  <2> QED
    BY <1>1, <2>1, <2>2, QuietKeepsRace, OneSession
<1>2. ASSUME NEW s \in Sessions, RelRollback(s) \/ Unblock(s) \/ ReadStats(s)
      PROVE  StaleOnlyInRace'
  <2>1. UNCHANGED <<fanCnt, followeeCnt, statsCache, excused>> /\ req[s].at # "clear"
    BY <1>2 DEF RelRollback, Unblock, ReadStats, relTables
  <2> QED
    BY <1>2, <2>1, QuietKeepsRace, OneSession
<1>3. ASSUME NEW s \in Sessions, Commit(s) \/ Clear(s) \/ StoreStats(s)
      PROVE  StaleOnlyInRace'
  BY <1>3, CommitKeepsRace, ClearKeepsRace, StoreKeepsRace
<1>4. ASSUME NEW u \in Users, ExpireStats(u)
      PROVE  StaleOnlyInRace'
  <2>1. /\ statsCache' = [statsCache EXCEPT ![u] = Miss] /\ excused' = excused \ {u}
        /\ UNCHANGED <<fanCnt, followeeCnt, req>>
    BY <1>4 DEF ExpireStats, relTables
  <2>2. ~ Stale(u)'
    BY <2>1 DEF Stale, Miss, LockInv, RelTypeOK
  <2>3. \A w \in Users \ {u} : Stale(w)' <=> Stale(w)
    BY <2>1 DEF Stale, StatsOf, LockInv, RelTypeOK
  <2> QED
    BY <2>1, <2>2, <2>3 DEF StaleOnlyInRace
<1>5. CASE UNCHANGED relVars
  BY <1>5 DEF relVars, relTables, StaleOnlyInRace, Stale, StatsOf
<1> QED
  BY <1>1, <1>2, <1>3, <1>4, <1>5 DEF RelNext

\* Cached counters that differ from the database belong to a request that has
\* yet to clear them, to a refill that raced with a change, or to a DEL that
\* failed: every commit that changes counters goes on to clear those it changed.
THEOREM StaleOnlyInRaceAlways == RelSpec => []StaleOnlyInRace
<1>1. RelInit => RaceInv
  <2> SUFFICES ASSUME RelInit PROVE OnlyViewed /\ StaleOnlyInRace
    BY LockInvInit DEF RaceInv
  <2>1. \A u \in Users : ~ statsCache[u].hit
    BY DEF RelInit, Miss
  <2>2. \A s \in Sessions : req[s] \notin StatsReqs
    BY DEF RelInit, NoReq, StatsReqs
  <2> QED
    BY <2>1, <2>2 DEF OnlyViewed, StaleOnlyInRace, Stale
<1>2. RaceInv => StaleOnlyInRace
  BY DEF RaceInv
<1> QED
  BY <1>1, <1>2, RaceInvStep, PTL DEF RelSpec

-----------------------------------------------------------------------------
(* Refinement.                                                             *)

LEMMA CommitRefines ==
    ASSUME RelInv, RelInv', NEW s \in Sessions, Commit(s)
    PROVE  [Graph!GraphNext]_Graph!graphVars
<1> DEFINE p == req[s].pair
<1>1. /\ req[s] \in EdgeReqs /\ p \in Pairs /\ Swap(p) \in Pairs
      /\ req[s].on \subseteq {p, Swap(p)} /\ req[s].at = "commit"
      /\ req[s].op # "block" => req[s].on \subseteq {p} /\ Holds(s, p)
  <2>1. req[s] \in EdgeReqs /\ req[s].at = "commit"
    BY CommitFlips DEF RelInv, Commit
  <2>2. p \in Pairs /\ Swap(p) \in Pairs
    BY <2>1, PairFacts DEF EdgeReqs
  <2>3. req[s].op # "block" => req[s].on \subseteq {p} /\ Holds(s, p)
    BY <2>1 DEF RelInv, LockInv, ReadsLocked, EdgeReqs, EdgeOps, Holds
  <2> QED
    BY <2>1, <2>2, <2>3 DEF RelInv, LockInv, RelTypeOK, RequestsOK
<1>2. Graph!Counted
  <2>1. ASSUME NEW u \in Users
        PROVE  /\ fanCnt'[u] = Graph!FansIn(Following')[u]
               /\ followeeCnt'[u] = Graph!FolloweesIn(Following')[u]
    <3>1. /\ fanCnt'[u] = Cardinality({v \in Users : <<v, u>> \in Following'})
          /\ followeeCnt'[u] = Cardinality({v \in Users : <<u, v>> \in Following'})
      BY DEF RelInv, CountersExact
    <3>2. /\ fanCnt'[u] = Graph!InDegree(Following', u)
          /\ followeeCnt'[u] = Graph!OutDegree(Following', u)
      BY <3>1 DEF Graph!InDegree, Graph!OutDegree
    <3> QED
      BY <3>2 DEF Graph!FansIn, Graph!FolloweesIn
  <2>2. fanCnt' \in [Users -> Nat] /\ followeeCnt' \in [Users -> Nat]
    BY DEF RelInv, LockInv, RelTypeOK
  <2>3. DOMAIN Graph!FansIn(Following') = Users /\ DOMAIN Graph!FolloweesIn(Following') = Users
    BY DEF Graph!FansIn, Graph!FolloweesIn
  <2>4. /\ Graph!FansIn(Following') = [u \in Users |-> Graph!FansIn(Following')[u]]
        /\ Graph!FolloweesIn(Following') = [u \in Users |-> Graph!FolloweesIn(Following')[u]]
    BY DEF Graph!FansIn, Graph!FolloweesIn
  <2>5. fanCnt' = Graph!FansIn(Following') /\ followeeCnt' = Graph!FolloweesIn(Following')
    BY <2>1, <2>2, <2>4
  <2> QED
    BY <2>5 DEF Graph!Counted
<1>3. p \in Graph!Couples /\ Graph!Reverse(p) = Swap(p)
  BY <1>1 DEF Graph!Couples, Pairs, Graph!Reverse, Swap
<1>4. CASE req[s].op = "follow"
  <2>1. Following' = Following \union {p} /\ UNCHANGED blacklist
    <3>1. Following' = Following \union ({p} \ req[s].on)
      BY <1>4, CommitEdges DEF RelInv, Flips
    <3>2. p \in req[s].on => p \in Following
      BY <1>1, <1>4 DEF RelInv, LockInv, ReadsHold, Following
    <3> QED
      BY <1>4, <3>1, <3>2 DEF Commit
  <2> QED
    BY <1>2, <1>3, <2>1 DEF Graph!GraphNext, Graph!Followed
<1>5. CASE req[s].op = "unfollow"
  <2>1. Following' = Following \ {p} /\ UNCHANGED blacklist
    <3>1. Following' = Following \ req[s].on
      BY <1>5, CommitEdges DEF RelInv, Flips
    <3>2. p \notin req[s].on => p \notin Following
      BY <1>1, <1>5 DEF RelInv, LockInv, ReadsHold, Following
    <3> QED
      BY <1>1, <1>5, <3>1, <3>2 DEF Commit
  <2> QED
    BY <1>2, <1>3, <2>1 DEF Graph!GraphNext, Graph!Unfollowed
<1>6. CASE req[s].op = "block"
  <2>1. Following' = Following \ {p, Swap(p)} /\ blacklist' = blacklist \union {p}
    <3>1. Following' = Following \ req[s].on
      BY <1>6, CommitEdges DEF RelInv, Flips
    <3>2. Holds(s, p) /\ Holds(s, Swap(p))
      BY <1>1, <1>6, PairFacts DEF Holds, Swap
    <3>3. \A q \in {p, Swap(p)} : q \notin req[s].on => q \notin Following
      BY <1>1, <3>2 DEF RelInv, LockInv, ReadsHold, Following
    <3> QED
      BY <1>1, <1>6, <3>1, <3>3 DEF Commit
  <2> QED
    BY <1>2, <1>3, <2>1 DEF Graph!GraphNext, Graph!Blocked
<1> QED
  BY <1>1, <1>4, <1>5, <1>6 DEF EdgeReqs, EdgeOps

\* RelationService implements FollowGraph: the statements of any number of
\* concurrent requests, with failures and rollbacks, come out as single changes
\* of the graph and its degrees, a block and its cascade as one.
THEOREM RelationImplementsGraph == RelSpec => ImplementsGraph
<1>1. RelInit => Graph!GraphInit
  <2> SUFFICES ASSUME RelInit PROVE Graph!GraphInit
    OBVIOUS
  <2>1. Following = {} /\ blacklist = {}
    BY DEF RelInit, Following
  <2>2. ASSUME NEW u \in Users
        PROVE  Graph!FansIn({})[u] = 0 /\ Graph!FolloweesIn({})[u] = 0
    <3>1. {v \in Users : <<v, u>> \in {}} = {} /\ {v \in Users : <<u, v>> \in {}} = {}
      OBVIOUS
    <3>2. Graph!InDegree({}, u) = 0 /\ Graph!OutDegree({}, u) = 0
      BY <3>1, FS_EmptySet DEF Graph!InDegree, Graph!OutDegree
    <3> QED
      BY <3>2 DEF Graph!FansIn, Graph!FolloweesIn
  <2>3. /\ Graph!FansIn({}) = [u \in Users |-> Graph!FansIn({})[u]]
        /\ Graph!FolloweesIn({}) = [u \in Users |-> Graph!FolloweesIn({})[u]]
    BY DEF Graph!FansIn, Graph!FolloweesIn
  <2>4. Graph!FansIn({}) = [u \in Users |-> 0] /\ Graph!FolloweesIn({}) = [u \in Users |-> 0]
    BY <2>2, <2>3
  <2> QED
    BY <2>1, <2>4 DEF RelInit, Graph!GraphInit
<1>2. RelInv /\ RelInv' /\ [RelNext]_relVars => [Graph!GraphNext]_Graph!graphVars
  <2> SUFFICES ASSUME RelInv, RelInv', [RelNext]_relVars
               PROVE  [Graph!GraphNext]_Graph!graphVars
    OBVIOUS
  <2>1. ASSUME NEW s \in Sessions, Commit(s)
        PROVE  [Graph!GraphNext]_Graph!graphVars
    BY <2>1, CommitRefines
  <2>2. ASSUME NEW s \in Sessions, Unblock(s)
        PROVE  [Graph!GraphNext]_Graph!graphVars
    <3>1. PICK p \in Pairs : blacklist' = blacklist \ {p}
      BY <2>2, RelAssumption DEF Unblock, RelInv, LockInv, RelTypeOK
    <3>2. p \in Graph!Couples /\ UNCHANGED <<Following, fanCnt, followeeCnt>>
      BY <2>2 DEF Unblock, Following, Graph!Couples, Pairs
    <3> QED
      BY <3>1, <3>2 DEF Graph!GraphNext, Graph!Unblocked
  <2>3. CASE UNCHANGED relTables
    BY <2>3 DEF relTables, Following, Graph!graphVars
  <2>4. ASSUME NEW s \in Sessions,
               Request(s) \/ Gate(s) \/ GateBy(s) \/ InsertBlock(s) \/ RelRollback(s)
                 \/ Clear(s) \/ ReadStats(s) \/ StoreStats(s) \/ Lock(s) \/ LockBack(s)
        PROVE  UNCHANGED relTables
    BY <2>4, EarlyStep, LateStep, LockStep DEF RelInv
  <2> QED
    BY <2>1, <2>2, <2>3, <2>4 DEF RelNext, ExpireStats, relVars
<1> QED
  BY <1>1, <1>2, RelInvInit, RelInvStep, PTL DEF RelSpec, ImplementsGraph, Graph!GraphSpec

-----------------------------------------------------------------------------
(* The feed.                                                               *)

Gatherings ==
    [at : {"save", "answer"}, todo : SUBSET Authors, items : SUBSET Articles,
     bigs : SUBSET Authors, phase : {"outbox"}]
Refills ==
    [at : {"save", "answer"}, todo : SUBSET Authors, items : SUBSET Articles,
     bigs : SUBSET Authors, phase : {"fill", "reread"}, from : Authors,
     list : SUBSET Articles]
ReaderStates ==
    [at : {"idle", "mark", "read"}] \union [at : {"stats"}, todo : SUBSET Authors]
       \union Gatherings \union Refills

SourcesOK ==
    /\ published \subseteq Articles /\ following \subseteq People \X Authors
    /\ relEvents \subseteq [type : {"edge", "block"}, er : People, ee : People]
    /\ incidents \in 0 .. MaxIncidents

\* A fan-out is about an event that is in the topic.
QueueOK ==
    /\ articleLog \in Seq([type : {"published", "withdrawn"}, art : Articles])
    /\ next \in 1 .. Len(articleLog) + 1 /\ marked \in 1 .. next
    /\ fanout \in {Idle} \union [at : {"list"}] \union [at : {"append"}, to : SUBSET Readers]
    /\ fanout.at # "idle" => next <= Len(articleLog)

RedisOK ==
    /\ inbox \in [Readers -> SUBSET Articles] /\ bigv \in [Readers -> SUBSET Authors]
    /\ built \in [Readers -> BOOLEAN] /\ outbox \in [Authors -> SUBSET Articles]

ReadersOK == reader \in [Readers -> ReaderStates] /\ shown \in [Readers -> SUBSET Articles]

HistoryOK == unfanned \subseteq Articles /\ spoilt \subseteq Readers

FeedShape == SourcesOK /\ QueueOK /\ RedisOK /\ ReadersOK /\ HistoryOK

LEMMA AuthorsOfArticles == \A p \in Articles : AuthorOf[p] \in Authors
  BY DEF Authors

LEMMA AuthorsArePeople == Authors \subseteq People /\ Readers \subseteq People
  BY FeedAssumption DEF FeedAssumption

LEMMA ShapeHasTypes == FeedShape => FeedTypeOK
<1> SUFFICES ASSUME FeedShape PROVE FeedTypeOK
  OBVIOUS
<1>1. ASSUME NEW u \in Readers
      PROVE  \/ reader[u].at \in {"idle", "mark", "read"}
             \/ reader[u].at = "stats" /\ reader[u].todo \subseteq Authors
             \/ /\ reader[u].at \in {"save", "answer"}
                /\ reader[u].todo \subseteq Authors
                /\ reader[u].items \subseteq Articles
                /\ reader[u].phase \in {"outbox", "fill", "reread"}
  BY DEF FeedShape, ReadersOK, ReaderStates, Gatherings, Refills
<1>2. fanout = Idle \/ fanout \in [at : {"list"}]
         \/ fanout \in [at : {"append"}, to : SUBSET Readers]
  BY DEF FeedShape, QueueOK
<1> QED
  BY <1>1, <1>2 DEF FeedTypeOK, FeedShape, SourcesOK, QueueOK, RedisOK, ReadersOK, HistoryOK

LEMMA FeedShapeInit == FeedInit => FeedShape
<1> SUFFICES ASSUME FeedInit PROVE FeedShape
  OBVIOUS
<1>1. SourcesOK
  BY FeedAssumption DEF FeedInit, SourcesOK, FeedAssumption
<1>2. QueueOK
  BY DEF FeedInit, QueueOK, Idle
<1>3. RedisOK /\ HistoryOK
  BY DEF FeedInit, RedisOK, HistoryOK
<1>4. ReadersOK
  BY DEF FeedInit, ReadersOK, ReaderStates, Idle
<1> QED
  BY <1>1, <1>2, <1>3, <1>4 DEF FeedShape

LEMMA EventsAreOfArticles ==
    ASSUME FeedShape, NEW k \in 1 .. Len(articleLog)
    PROVE  articleLog[k].art \in Articles
<1>1. articleLog[k] \in [type : {"published", "withdrawn"}, art : Articles]
  <2> DEFINE Entry == [type : {"published", "withdrawn"}, art : Articles]
  <2>1. PICK log \in Seq(Entry) : log = articleLog
    BY DEF FeedShape, QueueOK
  <2> HIDE DEF Entry
  <2>2. k \in 1 .. Len(log) => log[k] \in Entry
    OBVIOUS
  <2>3. log[k] \in Entry
    BY <2>1, <2>2
  <2> QED
    BY <2>1, <2>3 DEF Entry
<1> QED
  BY <1>1

\* The event of an article is appended to the topic, or lost.
LEMMA ProduceShape ==
    ASSUME FeedShape, NEW type \in {"published", "withdrawn"}, NEW p \in Articles,
           Produce(type, p), UNCHANGED <<next, marked, fanout, spoilt>>
    PROVE  QueueOK' /\ HistoryOK' /\ incidents' \in 0 .. MaxIncidents
<1>1. CASE articleLog' = Append(articleLog, [type |-> type, art |-> p])
           /\ Incident(1) /\ UNCHANGED unfanned
  <2>1. /\ articleLog' \in Seq([type : {"published", "withdrawn"}, art : Articles])
        /\ Len(articleLog') = Len(articleLog) + 1
    BY <1>1 DEF FeedShape, QueueOK
  <2>2. QueueOK'
    BY <2>1 DEF FeedShape, QueueOK
  <2> QED
    BY <1>1, <2>2, FeedAssumption
       DEF FeedShape, SourcesOK, HistoryOK, Incident, FeedAssumption
<1>2. CASE Incident(2) /\ unfanned' = unfanned \union {p} /\ UNCHANGED articleLog
  BY <1>2, FeedAssumption
     DEF FeedShape, SourcesOK, QueueOK, HistoryOK, Incident, FeedAssumption
<1> QED
  BY <1>1, <1>2 DEF Produce

LEMMA SourceShape ==
    ASSUME FeedShape, NEW p \in Articles, Publish(p) \/ Withdraw(p)
    PROVE  FeedShape'
<1>1. QueueOK' /\ HistoryOK' /\ incidents' \in 0 .. MaxIncidents
  BY ProduceShape DEF Publish, Withdraw
<1>2. SourcesOK'
  BY <1>1 DEF Publish, Withdraw, FeedShape, SourcesOK
<1>3. RedisOK' /\ ReadersOK'
  BY DEF Publish, Withdraw, FeedShape, RedisOK, ReadersOK, redisVars
<1> QED
  BY <1>1, <1>2, <1>3 DEF FeedShape

LEMMA EdgeShape ==
    ASSUME FeedShape, NEW edges, NEW type \in {"edge", "block"},
           NEW u \in People, NEW v \in People,
           edges \subseteq People \X Authors, ChangeEdge(edges, Event(type, u, v))
    PROVE  FeedShape'
<1>0. Event(type, u, v) \in [type : {"edge", "block"}, er : People, ee : People]
  BY DEF Event
<1>1. SourcesOK' /\ HistoryOK'
  BY <1>0, FeedAssumption
     DEF ChangeEdge, RelationEvent, Incident, FeedShape, SourcesOK, HistoryOK, FeedAssumption
<1>2. RedisOK' /\ ReadersOK' /\ QueueOK'
  BY DEF ChangeEdge, FeedShape, RedisOK, ReadersOK, QueueOK, redisVars
<1> QED
  BY <1>1, <1>2 DEF FeedShape

\* Follow, Unfollow and Block change edges between people and authors.
LEMMA EdgeSteps ==
    ASSUME FeedShape, NEW u \in People, NEW v \in People,
           \/ v \in Authors /\ (Follow(u, v) \/ Unfollow(u, v))
           \/ Block(u, v)
    PROVE  \E edges :
              /\ edges \subseteq People \X Authors
              /\ \/ /\ ChangeEdge(edges, Event("edge", u, v))
                    /\ following \ edges \subseteq {<<u, v>>}
                 \/ /\ ChangeEdge(edges, Event("block", u, v))
                    /\ following \ edges \subseteq {<<u, v>>, <<v, u>>}
<1>0. following \subseteq People \X Authors
  BY DEF FeedShape, SourcesOK
<1>1. CASE v \in Authors /\ Follow(u, v)
  <2>1. ChangeEdge(following \union {<<u, v>>}, Event("edge", u, v))
    BY <1>1 DEF Follow
  <2>2. /\ following \union {<<u, v>>} \subseteq People \X Authors
        /\ following \ (following \union {<<u, v>>}) \subseteq {<<u, v>>}
    BY <1>0, <1>1
  <2> QED
    BY <2>1, <2>2
<1>2. CASE Unfollow(u, v)
  <2>1. ChangeEdge(following \ {<<u, v>>}, Event("edge", u, v))
    BY <1>2 DEF Unfollow
  <2>2. /\ following \ {<<u, v>>} \subseteq People \X Authors
        /\ following \ (following \ {<<u, v>>}) \subseteq {<<u, v>>}
    BY <1>0
  <2> QED
    BY <2>1, <2>2
<1>3. CASE Block(u, v)
  <2>1. ChangeEdge(following \ {<<u, v>>, <<v, u>>}, Event("block", u, v))
    BY <1>3 DEF Block
  <2>2. /\ following \ {<<u, v>>, <<v, u>>} \subseteq People \X Authors
        /\ following \ (following \ {<<u, v>>, <<v, u>>}) \subseteq {<<u, v>>, <<v, u>>}
    BY <1>0
  <2> QED
    BY <2>1, <2>2
<1> QED
  BY <1>1, <1>2, <1>3

LEMMA InvalidateShape ==
    ASSUME FeedShape, InvalidateInboxes
    PROVE  FeedShape'
<1>1. ReadersOK' /\ QueueOK'
  BY DEF InvalidateInboxes, FeedShape, ReadersOK, QueueOK
<1>2. PICK e \in relEvents :
         /\ relEvents' = relEvents \ {e}
         /\ \/ LET us == Invalidates(e) \intersect Readers
               IN  /\ inbox' = [u \in Readers |-> IF u \in us THEN {} ELSE inbox[u]]
                   /\ bigv' = [u \in Readers |-> IF u \in us THEN {} ELSE bigv[u]]
                   /\ built' = [u \in Readers |-> built[u] /\ u \notin us]
                   /\ spoilt' = spoilt \ us
                   /\ UNCHANGED incidents
            \/ /\ Incident(1)
               /\ spoilt' = spoilt \union ({e.er, e.ee} \intersect Readers)
               /\ UNCHANGED <<inbox, bigv, built>>
  BY DEF InvalidateInboxes
<1>3. UNCHANGED <<published, following, outbox, unfanned>>
  BY DEF InvalidateInboxes, sourceVars
<1>4. SourcesOK' /\ HistoryOK'
  BY <1>2, <1>3, FeedAssumption
     DEF FeedShape, SourcesOK, HistoryOK, Incident, FeedAssumption
<1>5. RedisOK'
  BY <1>2, <1>3 DEF FeedShape, RedisOK
<1> QED
  BY <1>1, <1>4, <1>5 DEF FeedShape

LEMMA WorkerShape ==
    ASSUME FeedShape, ConsumerStep \/ ConsumerFails \/ WorkerRestarts
    PROVE  FeedShape'
<1>1. SourcesOK'
  BY FeedAssumption
     DEF ConsumerStep, FanoutBegin, FanoutList, FanoutAppend, RemoveArticle, ConsumerFails,
         WorkerRestarts, Incident, FeedShape, SourcesOK, sourceVars, FeedAssumption
<1>2. ReadersOK'
  BY DEF ConsumerStep, FanoutBegin, FanoutList, FanoutAppend, RemoveArticle, ConsumerFails,
         WorkerRestarts, FeedShape, ReadersOK
<1>3. \A k \in 1 .. Len(articleLog) : articleLog[k].art \in Articles
  BY EventsAreOfArticles
<1>4. next <= Len(articleLog) => next \in 1 .. Len(articleLog)
  BY DEF FeedShape, QueueOK
<1>5. QueueOK'
  <2>1. CASE FanoutBegin \/ FanoutList \/ RemoveArticle
    BY <2>1 DEF FanoutBegin, FanoutList, RemoveArticle, Handled, FeedShape, QueueOK, Idle
  <2>2. CASE FanoutAppend \/ ConsumerFails \/ WorkerRestarts
    BY <2>2 DEF FanoutAppend, ConsumerFails, WorkerRestarts, Handled, FeedShape, QueueOK, Idle
  <2> QED
    BY <2>1, <2>2 DEF ConsumerStep
<1>6. RedisOK' /\ HistoryOK'
  <2>1. CASE FanoutBegin
    BY <1>3, <1>4, <2>1
       DEF FanoutBegin, AppendOutboxIfExists, FeedShape, RedisOK, HistoryOK, historyVars
  <2>2. CASE FanoutAppend
    <3>1. next \in 1 .. Len(articleLog) /\ fanout.to \subseteq Readers
      BY <1>4, <2>2 DEF FanoutAppend, FeedShape, QueueOK, Idle
    <3> QED
      BY <1>3, <2>2, <3>1 DEF FanoutAppend, FeedShape, RedisOK, HistoryOK
  <2>3. CASE RemoveArticle
    BY <2>3 DEF RemoveArticle, FeedShape, RedisOK, HistoryOK, historyVars
  <2>4. CASE FanoutList \/ WorkerRestarts
    BY <2>4 DEF FanoutList, WorkerRestarts, FeedShape, RedisOK, HistoryOK, historyVars, redisVars
  <2>5. CASE ConsumerFails
    BY <1>3, <1>4, <2>5 DEF ConsumerFails, FeedShape, RedisOK, HistoryOK, redisVars
  <2> QED
    BY <2>1, <2>2, <2>3, <2>4, <2>5 DEF ConsumerStep
<1> QED
  BY <1>1, <1>2, <1>5, <1>6 DEF FeedShape

\* What a step of ListFeed is at afterwards.
LEMMA ReaderFacts ==
    ASSUME FeedShape, NEW u \in Readers
    PROVE  /\ Idle \in ReaderStates /\ [at |-> "read"] \in ReaderStates
           /\ [at |-> "mark"] \in ReaderStates
           /\ \A todo \in SUBSET Authors : [at |-> "stats", todo |-> todo] \in ReaderStates
           /\ \A where \in {"save", "answer"}, todo \in SUBSET Authors,
                 items \in SUBSET Articles, bigs \in SUBSET Authors :
                 Gathering(where, todo, items, bigs) \in Gatherings
           /\ reader[u].at = "stats" => reader[u].todo \in SUBSET Authors
           /\ reader[u].at \in {"save", "answer"} =>
                 /\ reader[u].todo \in SUBSET Authors /\ reader[u].items \in SUBSET Articles
                 /\ reader[u].bigs \in SUBSET Authors
                 /\ reader[u].phase # "outbox" => reader[u] \in Refills
<1>1. reader[u] \in ReaderStates
  BY DEF FeedShape, ReadersOK
<1>2. /\ Idle \in ReaderStates /\ [at |-> "read"] \in ReaderStates
      /\ [at |-> "mark"] \in ReaderStates
      /\ \A todo \in SUBSET Authors : [at |-> "stats", todo |-> todo] \in ReaderStates
  BY DEF Idle, ReaderStates
<1>3. \A where \in {"save", "answer"}, todo \in SUBSET Authors,
         items \in SUBSET Articles, bigs \in SUBSET Authors :
         Gathering(where, todo, items, bigs) \in Gatherings
  BY DEF Gathering, Gatherings
<1>4. reader[u].at = "stats" => reader[u].todo \in SUBSET Authors
  BY <1>1 DEF ReaderStates, Gatherings, Refills
<1>5. reader[u].at \in {"save", "answer"} =>
         /\ reader[u].todo \in SUBSET Authors /\ reader[u].items \in SUBSET Articles
         /\ reader[u].bigs \in SUBSET Authors
         /\ reader[u].phase # "outbox" => reader[u] \in Refills
  BY <1>1 DEF ReaderStates, Gatherings, Refills
<1> QED
  BY <1>2, <1>3, <1>4, <1>5

LEMMA ReaderMoves ==
    ASSUME FeedShape, NEW u \in Readers, NEW new \in ReaderStates,
           reader' = [reader EXCEPT ![u] = new], UNCHANGED shown
    PROVE  ReadersOK'
  BY DEF FeedShape, ReadersOK

LEMMA MoveShape ==
    ASSUME FeedShape, NEW u \in Readers, NEW new \in ReaderStates, Move(u, new)
    PROVE  SourcesOK' /\ QueueOK' /\ reader' \in [Readers -> ReaderStates]
  BY DEF Move, FeedShape, SourcesOK, QueueOK, ReadersOK, sourceVars, queueVars

LEMMA GatherShape ==
    ASSUME FeedShape, NEW u \in Readers, NEW a \in Authors,
           OutboxRead(u, a) \/ OutboxSkip(u, a)
    PROVE  FeedShape' /\ UNCHANGED <<published, following, articleLog, next, fanout,
                                     relEvents, inbox, bigv, built, outbox, unfanned, spoilt>>
<1>1. UNCHANGED <<published, following, articleLog, next, marked, fanout, relEvents,
                  inbox, bigv, built, outbox, shown, unfanned, spoilt>>
  BY DEF OutboxRead, OutboxSkip, Move, sourceVars, queueVars, redisVars, historyVars
<1>2. RedisOK' /\ HistoryOK' /\ QueueOK'
  BY <1>1 DEF FeedShape, RedisOK, HistoryOK, QueueOK
<1>3. SourcesOK'
  <2>1. UNCHANGED incidents \/ Incident(1)
    BY DEF OutboxRead, OutboxSkip, Move
  <2>2. incidents' \in 0 .. MaxIncidents
    BY <2>1, FeedAssumption DEF Incident, FeedShape, SourcesOK, FeedAssumption
  <2> QED
    BY <1>1, <2>2 DEF FeedShape, SourcesOK
<1>4. reader[u].at \in {"save", "answer"}
  BY DEF OutboxRead, OutboxSkip
<1>5. outbox[a] \in SUBSET Articles /\ published \subseteq Articles
  BY DEF FeedShape, RedisOK, SourcesOK
<1>6. /\ Gathering(reader[u].at, reader[u].todo \ {a}, reader[u].items, reader[u].bigs)
            \in ReaderStates
      /\ Taken(reader[u], a) \in ReaderStates
  <2>1. /\ reader[u].todo \ {a} \in SUBSET Authors /\ reader[u].items \in SUBSET Articles
        /\ reader[u].bigs \in SUBSET Authors
        /\ reader[u].items \union outbox[a] \in SUBSET Articles
    BY <1>4, <1>5, ReaderFacts
  <2>2. /\ Gathering(reader[u].at, reader[u].todo \ {a}, reader[u].items, reader[u].bigs)
              \in Gatherings
        /\ Gathering(reader[u].at, reader[u].todo \ {a}, reader[u].items \union outbox[a],
                     reader[u].bigs) \in Gatherings
    BY <1>4, <2>1, ReaderFacts
  <2> QED
    BY <2>2 DEF Taken, ReaderStates
<1>7. Refill(reader[u], "fill", a) \in ReaderStates
  <2>1. /\ reader[u].todo \in SUBSET Authors /\ reader[u].items \in SUBSET Articles
        /\ reader[u].bigs \in SUBSET Authors
        /\ published \intersect By(a) \in SUBSET Articles
    BY <1>4, <1>5, ReaderFacts
  <2>2. Refill(reader[u], "fill", a) \in Refills
    BY <1>4, <2>1 DEF Refill, Refills
  <2> QED
    BY <2>2 DEF ReaderStates
<1>8. \E new \in ReaderStates : reader' = [reader EXCEPT ![u] = new]
  BY <1>6, <1>7 DEF OutboxRead, OutboxSkip, Move
<1>9. ReadersOK'
  BY <1>1, <1>8, ReaderMoves
<1> QED
  BY <1>1, <1>2, <1>3, <1>9 DEF FeedShape

LEMMA FillShape ==
    ASSUME FeedShape, NEW u \in Readers, OutboxFill(u)
    PROVE  FeedShape'
<1>1. reader[u] \in Refills /\ published \subseteq Articles
  BY ReaderFacts DEF OutboxFill, FeedShape, SourcesOK
<1>2. /\ reader[u].from \in Authors /\ reader[u].list \in SUBSET Articles
      /\ Refill(reader[u], "reread", reader[u].from) \in Refills
  BY <1>1 DEF Refills, Refill
<1>3. /\ Refill(reader[u], "reread", reader[u].from) \in ReaderStates
      /\ Move(u, Refill(reader[u], "reread", reader[u].from))
  BY <1>2 DEF OutboxFill, ReaderStates
<1>4. SourcesOK' /\ QueueOK' /\ ReadersOK'
  BY <1>3, MoveShape DEF OutboxFill, ReadersOK, FeedShape
<1>5. RedisOK' /\ HistoryOK'
  BY <1>1, <1>2 DEF OutboxFill, FeedShape, RedisOK, HistoryOK
<1> QED
  BY <1>4, <1>5 DEF FeedShape

LEMMA SaveShape ==
    ASSUME FeedShape, NEW u \in Readers, SaveInbox(u)
    PROVE  FeedShape'
<1>1. /\ reader[u].items \in SUBSET Articles /\ reader[u].bigs \in SUBSET Authors
      /\ [at |-> "mark"] \in ReaderStates /\ Move(u, [at |-> "mark"])
  BY ReaderFacts DEF SaveInbox
<1>2. SourcesOK' /\ QueueOK' /\ ReadersOK'
  BY <1>1, MoveShape DEF SaveInbox, ReadersOK, FeedShape
<1>3. RedisOK' /\ HistoryOK'
  BY <1>1 DEF SaveInbox, FeedShape, RedisOK, HistoryOK
<1> QED
  BY <1>2, <1>3 DEF FeedShape

LEMMA PlainReadShape ==
    ASSUME FeedShape, NEW u \in Readers,
           ListFeed(u) \/ BatchStats(u) \/ MarkBuilt(u) \/ ReadInbox(u) \/ Answer(u)
    PROVE  FeedShape' /\ UNCHANGED <<published, following, articleLog, next, fanout,
                                     relEvents, inbox, bigv, outbox, unfanned, spoilt>>
<1>1. UNCHANGED <<inbox, bigv, outbox, unfanned, spoilt>>
  BY DEF ListFeed, BatchStats, MarkBuilt, ReadInbox, Answer, redisVars, historyVars
<1>2. \E new \in ReaderStates : Move(u, new)
  <2>1. CASE ListFeed(u)
    <3>1. {a \in Authors : <<u, a>> \in following} \in SUBSET Authors
      OBVIOUS
    <3>2. [at |-> "stats", todo |-> {a \in Authors : <<u, a>> \in following}] \in ReaderStates
      BY <3>1, ReaderFacts
    <3> QED
      BY <2>1, <3>2, ReaderFacts DEF ListFeed
  <2>2. CASE BatchStats(u)
    <3> DEFINE bigs == {a \in reader[u].todo : IsBig(a)}
    <3>1. reader[u].todo \ bigs \in SUBSET Authors /\ bigs \in SUBSET Authors
      BY <2>2, ReaderFacts DEF BatchStats
    <3>2. Gathering("save", reader[u].todo \ bigs, {}, bigs) \in Gatherings
      BY <3>1, ReaderFacts
    <3>3. Gathering("save", reader[u].todo \ bigs, {}, bigs) \in ReaderStates
      BY <3>2 DEF ReaderStates
    <3> QED
      BY <2>2, <3>3 DEF BatchStats
  <2>3. CASE MarkBuilt(u)
    BY <2>3, ReaderFacts DEF MarkBuilt
  <2>4. CASE ReadInbox(u)
    <3>1. bigv[u] \in SUBSET Authors /\ inbox[u] \in SUBSET Articles /\ {} \in SUBSET Authors
      BY DEF FeedShape, RedisOK
    <3>2. Gathering("answer", bigv[u], inbox[u], {}) \in Gatherings
      BY <3>1, ReaderFacts
    <3>3. Gathering("answer", bigv[u], inbox[u], {}) \in ReaderStates
      BY <3>2 DEF ReaderStates
    <3> QED
      BY <2>4, <3>3 DEF ReadInbox
  <2>5. CASE Answer(u)
    BY <2>5, ReaderFacts DEF Answer
  <2> QED
    BY <2>1, <2>2, <2>3, <2>4, <2>5
<1>3. /\ SourcesOK' /\ QueueOK' /\ reader' \in [Readers -> ReaderStates]
      /\ UNCHANGED <<published, following, articleLog, next, fanout, relEvents>>
  BY <1>2, MoveShape DEF Move, sourceVars, queueVars
<1>4. shown' \in [Readers -> SUBSET Articles]
  <2>1. CASE UNCHANGED shown
    BY <2>1 DEF FeedShape, ReadersOK
  <2>2. CASE Answer(u)
    <3>1. reader[u].items \intersect published \in SUBSET Articles
      BY <2>2, ReaderFacts DEF Answer
    <3> QED
      BY <2>2, <3>1 DEF Answer, FeedShape, ReadersOK
  <2> QED
    BY <2>1, <2>2 DEF ListFeed, BatchStats, MarkBuilt, ReadInbox
<1>5. built' \in [Readers -> BOOLEAN]
  BY DEF ListFeed, BatchStats, MarkBuilt, ReadInbox, Answer, redisVars, FeedShape, RedisOK
<1>6. RedisOK' /\ HistoryOK'
  BY <1>1, <1>5 DEF FeedShape, RedisOK, HistoryOK
<1> QED
  BY <1>1, <1>3, <1>4, <1>6 DEF FeedShape, ReadersOK

LEMMA ExpiryShape ==
    ASSUME FeedShape,
           (\E u \in Readers : ExpireInbox(u)) \/ (\E a \in Authors : ExpireOutbox(a))
    PROVE  FeedShape'
<1>1. SourcesOK' /\ QueueOK' /\ ReadersOK'
  BY DEF ExpireInbox, ExpireOutbox, FeedShape, SourcesOK, QueueOK, ReadersOK, sourceVars,
         queueVars
<1>2. RedisOK'
  BY DEF ExpireInbox, ExpireOutbox, FeedShape, RedisOK
<1>3. HistoryOK'
  BY DEF ExpireInbox, ExpireOutbox, FeedShape, HistoryOK, historyVars
<1> QED
  BY <1>1, <1>2, <1>3 DEF FeedShape

LEMMA FeedShapeStep == FeedShape /\ [FeedNext]_feedVars => FeedShape'
<1> SUFFICES ASSUME FeedShape, [FeedNext]_feedVars PROVE FeedShape'
  OBVIOUS
<1>1. ASSUME NEW u \in People, NEW v \in People,
             \/ v \in Authors /\ (Follow(u, v) \/ Unfollow(u, v))
             \/ Block(u, v)
      PROVE  FeedShape'
  BY <1>1, EdgeSteps, EdgeShape
<1>2. CASE UNCHANGED feedVars
  BY <1>2 DEF feedVars, redisVars, sourceVars, queueVars, historyVars, FeedShape, SourcesOK,
              QueueOK, RedisOK, ReadersOK, HistoryOK
<1> QED
  BY <1>1, <1>2, AuthorsArePeople, SourceShape, InvalidateShape, WorkerShape, GatherShape,
     FillShape, SaveShape, PlainReadShape, ExpiryShape DEF FeedNext, ReaderStep

\* The feed's state stays well formed.
THEOREM FeedTypeCorrect == FeedSpec => []FeedTypeOK
  BY FeedShapeInit, FeedShapeStep, ShapeHasTypes, PTL DEF FeedSpec

-----------------------------------------------------------------------------
(* Inboxes.                                                                *)

\* Whether an inbox is built or not, what it holds of somebody its owner does
\* not follow is about to go, or was written by a race.
InboxAccounted ==
    \A u \in Readers : \A p \in inbox[u] :
       \/ <<u, AuthorOf[p]>> \in following
       \/ u \in spoilt
       \/ \E e \in relEvents : u \in Invalidates(e)

LEMMA AccountedForgets == FeedShape /\ InboxAccounted => InboxForgets
<1>1. \A e : Invalidates(e) \subseteq {e.er, e.ee}
  BY DEF Invalidates
<1> QED
  BY <1>1 DEF InboxAccounted, InboxForgets

LEMMA InboxesKept ==
    ASSUME InboxAccounted,
           UNCHANGED <<inbox, following, spoilt, relEvents>>
    PROVE  InboxAccounted'
  BY DEF InboxAccounted

\* Whoever loses an edge has an inbox that the event of it invalidates.
LEMMA EdgeKeepsInboxes ==
    ASSUME FeedShape, InboxAccounted, NEW edges, NEW u \in People, NEW v \in People,
           \/ /\ ChangeEdge(edges, Event("edge", u, v))
              /\ following \ edges \subseteq {<<u, v>>}
           \/ /\ ChangeEdge(edges, Event("block", u, v))
              /\ following \ edges \subseteq {<<u, v>>, <<v, u>>}
    PROVE  InboxAccounted'
<1> SUFFICES ASSUME NEW w \in Readers, NEW p \in inbox[w],
                    <<w, AuthorOf[p]>> \notin following', w \notin spoilt'
             PROVE  \E e \in relEvents' : w \in Invalidates(e)
  BY DEF InboxAccounted, ChangeEdge, redisVars
<1>1. following' = edges
  BY DEF ChangeEdge
<1>2. spoilt \subseteq spoilt' /\ relEvents \subseteq relEvents'
  BY DEF ChangeEdge, RelationEvent
<1>3. CASE <<w, AuthorOf[p]>> \notin following
  BY <1>2, <1>3 DEF InboxAccounted
<1>4. CASE <<w, AuthorOf[p]>> \in following
  <2>1. PICK type \in {"edge", "block"} :
           /\ ChangeEdge(edges, Event(type, u, v))
           /\ w = u \/ (type = "block" /\ w = v)
    BY <1>1, <1>4
  <2> DEFINE e == Event(type, u, v)
  <2>2. e.type = type /\ e.er = u /\ e.ee = v
    BY DEF Event
  <2>3. w \in Invalidates(e)
    BY <2>1, <2>2 DEF Invalidates
  <2>4. RelationEvent(e)
    BY <2>1, <2>2 DEF ChangeEdge
  <2>5. e \in relEvents'
    BY <2>1, <2>2, <2>4 DEF RelationEvent
  <2> QED
    BY <2>3, <2>5
<1> QED
  BY <1>3, <1>4

LEMMA InvalidateKeepsInboxes ==
    ASSUME FeedShape, InboxAccounted, InvalidateInboxes
    PROVE  InboxAccounted'
<1>1. PICK e \in relEvents :
         /\ relEvents' = relEvents \ {e}
         /\ \/ LET us == Invalidates(e) \intersect Readers
               IN  /\ inbox' = [u \in Readers |-> IF u \in us THEN {} ELSE inbox[u]]
                   /\ bigv' = [u \in Readers |-> IF u \in us THEN {} ELSE bigv[u]]
                   /\ built' = [u \in Readers |-> built[u] /\ u \notin us]
                   /\ spoilt' = spoilt \ us
                   /\ UNCHANGED incidents
            \/ /\ Incident(1)
               /\ spoilt' = spoilt \union ({e.er, e.ee} \intersect Readers)
               /\ UNCHANGED <<inbox, bigv, built>>
  BY DEF InvalidateInboxes
<1>2. following' = following
  BY DEF InvalidateInboxes, sourceVars
<1>3. Invalidates(e) \subseteq {e.er, e.ee}
  BY DEF Invalidates
<1> SUFFICES ASSUME NEW w \in Readers, NEW p \in inbox'[w],
                    <<w, AuthorOf[p]>> \notin following, w \notin spoilt'
             PROVE  \E f \in relEvents' : w \in Invalidates(f)
  BY <1>2 DEF InboxAccounted
<1>4. w \notin Invalidates(e) /\ p \in inbox[w] /\ w \notin spoilt
  BY <1>1, <1>3
<1>5. PICK f \in relEvents : w \in Invalidates(f)
  BY <1>4 DEF InboxAccounted
<1> QED
  BY <1>1, <1>4, <1>5

LEMMA AppendKeepsInboxes ==
    ASSUME FeedShape, InboxAccounted, FanoutAppend
    PROVE  InboxAccounted'
<1> SUFFICES ASSUME NEW w \in Readers, NEW p \in inbox'[w],
                    <<w, AuthorOf[p]>> \notin following, w \notin spoilt'
             PROVE  \E f \in relEvents : w \in Invalidates(f)
  BY DEF InboxAccounted, FanoutAppend, sourceVars
<1>1. following \subseteq People \X Authors /\ spoilt \subseteq spoilt'
  BY DEF FeedShape, SourcesOK, FanoutAppend
<1>2. p \in inbox[w]
  <2>1. CASE w \in fanout.to
    <3>1. w \in FansOf(AuthorOf[articleLog[next].art])
      BY <2>1 DEF FanoutAppend
    <3>2. <<w, AuthorOf[articleLog[next].art]>> \in following
      BY <3>1 DEF FansOf
    <3> QED
      BY <2>1, <3>2 DEF FanoutAppend
  <2>2. CASE w \notin fanout.to
    BY <2>2 DEF FanoutAppend
  <2> QED
    BY <2>1, <2>2
<1> QED
  BY <1>1, <1>2 DEF InboxAccounted

LEMMA RebuildKeepsInboxes ==
    ASSUME FeedShape, InboxAccounted, NEW u \in Readers, SaveInbox(u) \/ ExpireInbox(u)
    PROVE  InboxAccounted'
<1>1. UNCHANGED <<following, relEvents>>
  BY DEF SaveInbox, ExpireInbox, Move, sourceVars, queueVars
<1>2. \A w \in Readers \ {u} : inbox'[w] = inbox[w] /\ (w \in spoilt => w \in spoilt')
  BY DEF SaveInbox, ExpireInbox, FeedShape, RedisOK
<1>3. \A p \in inbox'[u] : <<u, AuthorOf[p]>> \in following \/ u \in spoilt'
  <2>1. CASE ExpireInbox(u)
    BY <2>1 DEF ExpireInbox, FeedShape, RedisOK
  <2>2. CASE SaveInbox(u)
    <3>1. inbox'[u] = reader[u].items
      BY <2>2 DEF SaveInbox, FeedShape, RedisOK
    <3> QED
      BY <2>2, <3>1 DEF SaveInbox
  <2> QED
    BY <2>1, <2>2
<1> QED
  BY <1>1, <1>2, <1>3 DEF InboxAccounted

LEMMA InboxStep == FeedShape /\ InboxAccounted /\ [FeedNext]_feedVars => InboxAccounted'
<1> SUFFICES ASSUME FeedShape, InboxAccounted, [FeedNext]_feedVars PROVE InboxAccounted'
  OBVIOUS
<1>1. ASSUME NEW u \in People, NEW v \in People,
             \/ v \in Authors /\ (Follow(u, v) \/ Unfollow(u, v))
             \/ Block(u, v)
      PROVE  InboxAccounted'
  BY <1>1, EdgeSteps, EdgeKeepsInboxes
<1>2. ASSUME NEW p \in Articles, Publish(p) \/ Withdraw(p)
      PROVE  InboxAccounted'
  BY <1>2, InboxesKept DEF Publish, Withdraw, redisVars
<1>3. CASE FanoutBegin \/ FanoutList \/ RemoveArticle \/ ConsumerFails \/ WorkerRestarts
  BY <1>3, InboxesKept DEF FanoutBegin, FanoutList, RemoveArticle, ConsumerFails,
     WorkerRestarts, sourceVars, redisVars, historyVars
<1>4. ASSUME NEW u \in Readers,
             \/ \E a \in Authors : OutboxRead(u, a) \/ OutboxSkip(u, a)
             \/ ListFeed(u) \/ BatchStats(u) \/ MarkBuilt(u) \/ ReadInbox(u) \/ Answer(u)
             \/ OutboxFill(u)
      PROVE  InboxAccounted'
  BY <1>4, GatherShape, PlainReadShape, InboxesKept
     DEF OutboxFill, Move, sourceVars, queueVars
<1>5. ASSUME NEW a \in Authors, ExpireOutbox(a)
      PROVE  InboxAccounted'
  BY <1>5, InboxesKept DEF ExpireOutbox, sourceVars, queueVars, historyVars
<1>6. CASE UNCHANGED feedVars
  BY <1>6, InboxesKept DEF feedVars, redisVars, sourceVars, queueVars, historyVars
<1> QED
  BY <1>1, <1>2, <1>3, <1>4, <1>5, <1>6, AuthorsArePeople, InvalidateKeepsInboxes,
     AppendKeepsInboxes, RebuildKeepsInboxes DEF FeedNext, ReaderStep, ConsumerStep

\* A built inbox holds nobody's articles but those its owner follows, unless the
\* event that will invalidate it is on the way: of a changed edge it is the
\* follower's inbox that goes, of a block both.
THEOREM InboxForgetsAlways == FeedSpec => []InboxForgets
<1>1. FeedInit => InboxAccounted
  BY DEF FeedInit, InboxAccounted
<1> QED
  BY <1>1, FeedShapeInit, FeedShapeStep, InboxStep, AccountedForgets, PTL DEF FeedSpec

-----------------------------------------------------------------------------
(* Outboxes.                                                               *)

\* An article that a fan-out is at is in the outbox already, or need not be, or
\* is announced again.
FanoutCovers ==
    fanout.at # "idle" =>
       LET p == articleLog[next].art
       IN  \/ p \notin published
           \/ outbox[AuthorOf[p]] = {} \/ p \in outbox[AuthorOf[p]]
           \/ p \in unfanned
           \/ \E i \in next + 1 .. Len(articleLog) : articleLog[i].art = p

OutboxInv == FeedShape /\ FanoutCovers /\ OutboxNeverPartial

LEMMA OutboxesKept ==
    ASSUME OutboxInv,
           UNCHANGED <<published, articleLog, next, fanout, outbox, unfanned>>
    PROVE  FanoutCovers' /\ OutboxNeverPartial'
<1>1. FanoutCovers'
  BY DEF OutboxInv, FanoutCovers
<1>2. OutboxNeverPartial'
  BY DEF OutboxInv, OutboxNeverPartial, Pending
<1> QED
  BY <1>1, <1>2

LEMMA SourceKeepsOutboxes ==
    ASSUME OutboxInv, NEW p \in Articles, Publish(p) \/ Withdraw(p)
    PROVE  FanoutCovers' /\ OutboxNeverPartial'
<1>1. UNCHANGED <<next, fanout, outbox>>
  BY DEF Publish, Withdraw, redisVars
<1>2. /\ articleLog \in Seq([type : {"published", "withdrawn"}, art : Articles])
      /\ next \in 1 .. Len(articleLog) + 1
      /\ fanout.at # "idle" => next <= Len(articleLog)
  BY DEF OutboxInv, FeedShape, QueueOK
<1>3. /\ Len(articleLog) \in Nat /\ Len(articleLog) <= Len(articleLog')
      /\ Len(articleLog') \in Nat
      /\ \A i \in 1 .. Len(articleLog) : articleLog'[i] = articleLog[i]
      /\ unfanned \subseteq unfanned'
  BY <1>2 DEF Publish, Withdraw, Produce
<1>4. p \in unfanned' \/ \E i \in Len(articleLog) + 1 .. Len(articleLog') : articleLog'[i].art = p
  BY <1>2 DEF Publish, Withdraw, Produce
<1>5. published' \ {p} \subseteq published
  BY DEF Publish, Withdraw
<1>6. FanoutCovers'
  <2> SUFFICES ASSUME fanout.at # "idle"
               PROVE  LET q == articleLog[next].art
                      IN  \/ q \notin published'
                          \/ outbox[AuthorOf[q]] = {} \/ q \in outbox[AuthorOf[q]]
                          \/ q \in unfanned'
                          \/ \E i \in next + 1 .. Len(articleLog') : articleLog'[i].art = q
    BY <1>1, <1>2, <1>3 DEF FanoutCovers
  <2> QED
    BY <1>2, <1>3, <1>4, <1>5 DEF OutboxInv, FanoutCovers
<1>7. OutboxNeverPartial'
  <2> SUFFICES ASSUME NEW a \in Authors, outbox[a] # {},
                      NEW q \in (published' \intersect By(a)) \ outbox[a]
               PROVE  \/ \E i \in next .. Len(articleLog') : articleLog'[i].art = q
                      \/ q \in unfanned'
    BY <1>1 DEF OutboxNeverPartial, Pending
  <2>1. CASE q = p
    BY <1>2, <1>3, <1>4, <2>1
  <2>2. CASE q # p
    <3>1. Pending(q) \/ q \in unfanned
      BY <1>5, <2>2 DEF OutboxInv, OutboxNeverPartial
    <3> QED
      BY <1>2, <1>3, <3>1 DEF Pending
  <2> QED
    BY <2>1, <2>2
<1> QED
  BY <1>6, <1>7

\* An event is done with once its article is in the outbox, need not be there,
\* or is announced again.
LEMMA EventHandled ==
    ASSUME OutboxInv, next <= Len(articleLog), next' = next + 1, fanout' = Idle,
           UNCHANGED <<published, articleLog>>, unfanned \subseteq unfanned',
           \A a \in Authors : outbox'[a] # {} => outbox[a] # {} /\ outbox[a] \subseteq outbox'[a],
           LET p == articleLog[next].art
           IN  \/ p \notin published
               \/ outbox'[AuthorOf[p]] = {} \/ p \in outbox'[AuthorOf[p]]
               \/ p \in unfanned'
               \/ \E i \in next + 1 .. Len(articleLog) : articleLog[i].art = p
    PROVE  FanoutCovers' /\ OutboxNeverPartial'
<1>1. Idle.at = "idle"
  BY DEF Idle
<1>2. FanoutCovers'
  BY <1>1 DEF FanoutCovers
<1>3. next \in 1 .. Len(articleLog) /\ Len(articleLog) \in Nat
  BY DEF OutboxInv, FeedShape, QueueOK
<1>4. OutboxNeverPartial'
  <2> SUFFICES ASSUME NEW a \in Authors, outbox'[a] # {},
                      NEW q \in (published \intersect By(a)) \ outbox'[a]
               PROVE  \/ \E i \in next + 1 .. Len(articleLog) : articleLog[i].art = q
                      \/ q \in unfanned'
    BY DEF OutboxNeverPartial, Pending
  <2>1. outbox[a] # {} /\ q \in (published \intersect By(a)) \ outbox[a]
    OBVIOUS
  <2>2. Pending(q) \/ q \in unfanned
    BY <2>1 DEF OutboxInv, OutboxNeverPartial
  <2>3. CASE Pending(q)
    <3>1. PICK i \in next .. Len(articleLog) : articleLog[i].art = q
      BY <2>3 DEF Pending
    <3>2. CASE i = next
      <4>1. AuthorOf[q] = a
        BY DEF By
      <4> QED
        BY <3>1, <3>2, <4>1
    <3>3. CASE i # next
      BY <1>3, <3>1, <3>3
    <3> QED
      BY <3>2, <3>3
  <2> QED
    BY <2>2, <2>3
<1> QED
  BY <1>2, <1>4

LEMMA BeginKeepsOutboxes ==
    ASSUME OutboxInv, FanoutBegin
    PROVE  FanoutCovers' /\ OutboxNeverPartial'
<1> DEFINE p == articleLog[next].art
<1>1. /\ next \in 1 .. Len(articleLog) /\ p \in Articles /\ AuthorOf[p] \in Authors
      /\ UNCHANGED <<published, articleLog, unfanned>>
  <2>1. next \in 1 .. Len(articleLog)
    BY DEF FanoutBegin, OutboxInv, FeedShape, QueueOK
  <2> QED
    BY <2>1, EventsAreOfArticles, AuthorsOfArticles
       DEF FanoutBegin, OutboxInv, sourceVars, historyVars
<1>2. /\ outbox'[AuthorOf[p]] = {} \/ p \in outbox'[AuthorOf[p]]
      /\ \A a \in Authors : outbox'[a] # {} => outbox[a] # {} /\ outbox[a] \subseteq outbox'[a]
  BY <1>1 DEF FanoutBegin, AppendOutboxIfExists, OutboxInv, FeedShape, RedisOK
<1>3. CASE Handled
  BY <1>1, <1>2, <1>3, EventHandled DEF FanoutBegin, Handled
<1>4. CASE fanout' = [at |-> "list"] /\ UNCHANGED <<next, marked>>
  <2>1. FanoutCovers'
    BY <1>1, <1>2, <1>4 DEF FanoutCovers
  <2>2. OutboxNeverPartial'
    BY <1>1, <1>2, <1>4 DEF OutboxInv, OutboxNeverPartial, Pending
  <2> QED
    BY <2>1, <2>2
<1> QED
  BY <1>3, <1>4 DEF FanoutBegin

LEMMA HandleKeepsOutboxes ==
    ASSUME OutboxInv, FanoutAppend \/ RemoveArticle
    PROVE  FanoutCovers' /\ OutboxNeverPartial'
<1>1. CASE FanoutAppend
  <2>1. fanout.at # "idle" /\ next <= Len(articleLog)
    BY <1>1 DEF FanoutAppend, OutboxInv, FeedShape, QueueOK
  <2>2. next' = next + 1 /\ fanout' = Idle
        /\ UNCHANGED <<published, articleLog, outbox, unfanned>>
    BY <1>1 DEF FanoutAppend, Handled, sourceVars
  <2> QED
    BY <2>1, <2>2, EventHandled DEF OutboxInv, FanoutCovers
<1>2. CASE RemoveArticle
  <2>1. /\ next <= Len(articleLog) /\ next' = next + 1 /\ fanout' = Idle
        /\ outbox' = [outbox EXCEPT ![AuthorOf[articleLog[next].art]] = {}]
        /\ UNCHANGED <<published, articleLog, unfanned>>
    BY <1>2 DEF RemoveArticle, Handled, sourceVars, historyVars
  <2>2. AuthorOf[articleLog[next].art] \in Authors
    <3>1. next \in 1 .. Len(articleLog)
      BY <2>1 DEF OutboxInv, FeedShape, QueueOK
    <3> QED
      BY <3>1, EventsAreOfArticles, AuthorsOfArticles DEF OutboxInv
  <2>3. /\ outbox'[AuthorOf[articleLog[next].art]] = {}
        /\ \A a \in Authors : outbox'[a] # {} => outbox[a] # {} /\ outbox[a] \subseteq outbox'[a]
    BY <2>1, <2>2 DEF OutboxInv, FeedShape, RedisOK
  <2> QED
    BY <2>1, <2>3, EventHandled
<1> QED
  BY <1>1, <1>2

\* A handler that fails, and a restart, which goes back and never forth.
LEMMA TroubleKeepsOutboxes ==
    ASSUME OutboxInv, ConsumerFails \/ WorkerRestarts
    PROVE  FanoutCovers' /\ OutboxNeverPartial'
<1>1. CASE ConsumerFails
  <2>1. /\ next <= Len(articleLog) /\ next' = next + 1 /\ fanout' = Idle
        /\ unfanned' = unfanned \union {articleLog[next].art}
        /\ UNCHANGED <<published, articleLog, outbox>>
    BY <1>1 DEF ConsumerFails, sourceVars, redisVars
  <2> QED
    BY <2>1, EventHandled
<1>2. CASE WorkerRestarts
  <2>1. /\ next' \in 1 .. marked /\ fanout' = Idle
        /\ UNCHANGED <<published, articleLog, outbox, unfanned>>
    BY <1>2 DEF WorkerRestarts, sourceVars, redisVars, historyVars
  <2>2. next' <= next /\ next' \in Nat /\ next \in Nat /\ Len(articleLog) \in Nat
    BY <2>1 DEF OutboxInv, FeedShape, QueueOK
  <2>3. \A p : Pending(p) => Pending(p)'
    BY <2>1, <2>2 DEF Pending
  <2>4. FanoutCovers'
    BY <2>1 DEF FanoutCovers, Idle
  <2>5. OutboxNeverPartial'
    BY <2>1, <2>3 DEF OutboxInv, OutboxNeverPartial
  <2> QED
    BY <2>4, <2>5
<1> QED
  BY <1>1, <1>2

\* What a refill leaves out has come out since it was fetched.
LEMMA FillKeepsOutboxes ==
    ASSUME OutboxInv,
           (\E u \in Readers : OutboxFill(u)) \/ (\E a \in Authors : ExpireOutbox(a))
    PROVE  FanoutCovers' /\ OutboxNeverPartial'
<1>1. UNCHANGED <<published, articleLog, next, fanout>>
  BY DEF OutboxFill, ExpireOutbox, Move, sourceVars, queueVars
<1>2. PICK a \in Authors :
         /\ \A b \in Authors \ {a} : outbox'[b] = outbox[b]
         /\ unfanned \subseteq unfanned'
         /\ outbox'[a] # {} => (published \intersect By(a)) \ outbox'[a] \subseteq unfanned'
  <2>1. CASE \E u \in Readers : OutboxFill(u)
    <3>1. PICK u \in Readers : OutboxFill(u)
      BY <2>1
    <3>2. reader[u].from \in Authors
      BY <3>1, ReaderFacts DEF OutboxFill, OutboxInv, Refills
    <3> QED
      BY <3>1, <3>2 DEF OutboxFill, OutboxInv, FeedShape, RedisOK
  <2>2. CASE \E a \in Authors : ExpireOutbox(a)
    BY <2>2 DEF ExpireOutbox, OutboxInv, FeedShape, RedisOK, historyVars
  <2> QED
    BY <2>1, <2>2
<1>3. FanoutCovers'
  <2> SUFFICES ASSUME fanout.at # "idle"
               PROVE  LET p == articleLog[next].art
                      IN  \/ p \notin published
                          \/ outbox'[AuthorOf[p]] = {} \/ p \in outbox'[AuthorOf[p]]
                          \/ p \in unfanned'
                          \/ \E i \in next + 1 .. Len(articleLog) : articleLog[i].art = p
    BY <1>1 DEF FanoutCovers
  <2>1. next \in 1 .. Len(articleLog)
    BY DEF OutboxInv, FeedShape, QueueOK
  <2>2. articleLog[next].art \in Articles /\ AuthorOf[articleLog[next].art] \in Authors
    BY <2>1, EventsAreOfArticles, AuthorsOfArticles DEF OutboxInv
  <2>3. CASE AuthorOf[articleLog[next].art] = a
    BY <1>2, <2>2, <2>3 DEF By
  <2>4. CASE AuthorOf[articleLog[next].art] # a
    BY <1>2, <2>2, <2>4 DEF OutboxInv, FanoutCovers
  <2> QED
    BY <2>3, <2>4
<1>4. OutboxNeverPartial'
  <2> SUFFICES ASSUME NEW b \in Authors, outbox'[b] # {},
                      NEW q \in (published \intersect By(b)) \ outbox'[b]
               PROVE  Pending(q) \/ q \in unfanned'
    BY <1>1 DEF OutboxNeverPartial, Pending
  <2> QED
    BY <1>2 DEF OutboxInv, OutboxNeverPartial
<1> QED
  BY <1>3, <1>4

LEMMA OutboxStep == OutboxInv /\ [FeedNext]_feedVars => OutboxInv'
<1> SUFFICES ASSUME OutboxInv, [FeedNext]_feedVars PROVE FanoutCovers' /\ OutboxNeverPartial'
  BY FeedShapeStep DEF OutboxInv
<1>1. ASSUME NEW u \in People, NEW v \in People,
             \/ v \in Authors /\ (Follow(u, v) \/ Unfollow(u, v))
             \/ Block(u, v)
      PROVE  FanoutCovers' /\ OutboxNeverPartial'
  BY <1>1, OutboxesKept DEF Follow, Unfollow, Block, ChangeEdge, redisVars
<1>2. CASE InvalidateInboxes \/ FanoutList
  <2>1. CASE InvalidateInboxes
    BY <2>1, OutboxesKept DEF InvalidateInboxes, sourceVars
  <2>2. CASE FanoutList
    <3>1. UNCHANGED <<published, articleLog, next, outbox, unfanned>> /\ fanout.at = "list"
      BY <2>2 DEF FanoutList, sourceVars, redisVars, historyVars
    <3>2. FanoutCovers'
      BY <3>1 DEF OutboxInv, FanoutCovers
    <3>3. OutboxNeverPartial'
      BY <3>1 DEF OutboxInv, OutboxNeverPartial, Pending
    <3> QED
      BY <3>2, <3>3
  <2> QED
    BY <1>2, <2>1, <2>2
<1>3. ASSUME NEW u \in Readers,
             \/ \E a \in Authors : OutboxRead(u, a) \/ OutboxSkip(u, a)
             \/ ListFeed(u) \/ BatchStats(u) \/ MarkBuilt(u) \/ ReadInbox(u) \/ Answer(u)
      PROVE  FanoutCovers' /\ OutboxNeverPartial'
  BY <1>3, GatherShape, PlainReadShape, OutboxesKept DEF OutboxInv
<1>4. ASSUME NEW u \in Readers, SaveInbox(u) \/ ExpireInbox(u)
      PROVE  FanoutCovers' /\ OutboxNeverPartial'
  BY <1>4, OutboxesKept DEF SaveInbox, ExpireInbox, Move, sourceVars, queueVars
<1>5. CASE UNCHANGED feedVars
  BY <1>5, OutboxesKept DEF feedVars, redisVars, sourceVars, queueVars, historyVars
<1> QED
  BY <1>1, <1>2, <1>3, <1>4, <1>5, AuthorsArePeople, SourceKeepsOutboxes, BeginKeepsOutboxes,
     HandleKeepsOutboxes, TroubleKeepsOutboxes, FillKeepsOutboxes
     DEF FeedNext, ReaderStep, ConsumerStep

\* An outbox that exists lacks no published article of its author but those
\* whose event is on the way, or was lost, or raced with a refill: the fan-out
\* appends to outboxes that exist and never makes one.
THEOREM OutboxNeverPartialAlways == FeedSpec => []OutboxNeverPartial
<1>1. FeedInit => OutboxInv
  <2> SUFFICES ASSUME FeedInit PROVE FanoutCovers /\ OutboxNeverPartial
    BY FeedShapeInit DEF OutboxInv
  <2>1. FanoutCovers
    BY DEF FeedInit, FanoutCovers, Idle
  <2>2. OutboxNeverPartial
    BY DEF FeedInit, OutboxNeverPartial
  <2> QED
    BY <2>1, <2>2
<1>2. OutboxInv => OutboxNeverPartial
  BY DEF OutboxInv
<1> QED
  BY <1>1, <1>2, OutboxStep, PTL DEF FeedSpec
=============================================================================
