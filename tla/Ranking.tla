------------------------------ MODULE Ranking ------------------------------
(***************************************************************************)
(* The daily boards of articles (core: internal/service/ranking.go, its    *)
(* repository, cache and DAO; worker/job/ranking.go; pkg/cronx).  The      *)
(* scheduler runs each job with today's date; a job of a total board loads *)
(* the articles with their counters and replaces the board in Redis, the   *)
(* hot job then those of the categories; reads raise the hot board in      *)
(* between; the archive copies the boards of a date to the database and    *)
(* clears them in Redis.  A board is abstracted to the number of reads it  *)
(* shows, 0 when the key is absent; names, ranks and details are left out. *)
(***************************************************************************)
EXTENDS Naturals, Sequences

CONSTANTS Totals,      \* the boards of all articles, a sequence that starts with the hot one
          Categories,  \* the boards of the categories, a sequence
          LastDay,     \* bound: dates 1..LastDay
          MaxVisits,   \* bound: reads of articles
          MaxByHand    \* bound: archives that are asked for over HTTP

VARIABLES day,      \* today
          night,    \* TRUE until ten past midnight
          visits,   \* reads the database has counted
          boosts,   \* increments the pool has accepted and not run
          board,    \* by date and board: what Redis shows
          snap,     \* by date and board: the rows of article_ranking
          job,      \* by total board: the run of its job
          archive,  \* the run of the archive
          byHand    \* archives that were asked for

rankVars == <<day, night, visits, boosts, board, snap, job, archive, byHand>>

Order == Totals \o Categories
Boards == {Order[i] : i \in 1..Len(Order)}
Hot == Totals[1]
Jobs == {Totals[i] : i \in 1..Len(Totals)}
Dates == 1..LastDay
Counts == 0..(2 * MaxVisits)
NoBoard == "none"
Resting == [date |-> 0, left |-> <<>>]

ASSUME RankAssumption ==
    /\ Totals \in Seq(Boards) /\ Totals # <<>> /\ Categories \in Seq(Boards)
    /\ NoBoard \notin Boards
    /\ LastDay \in Nat \ {0} /\ MaxVisits \in Nat /\ MaxByHand \in Nat

\* A run of the job of board j holds its lock, so that there is one at a time;
\* left: the boards it has still to replace; open: the one it has just deleted.
Idle(j) == job[j].left = <<>> /\ job[j].open = NoBoard

RankTypeOK ==
    /\ day \in Dates /\ night \in BOOLEAN
    /\ visits \in 0..MaxVisits /\ boosts \in 0..MaxVisits
    /\ board \in [Dates -> [Boards -> Counts]]
    /\ snap \in [Dates -> [Boards -> Counts]]
    /\ \A j \in Jobs :
          /\ job[j].date \in 0..LastDay /\ job[j].seen \in 0..MaxVisits
          /\ job[j].open \in Boards \cup {NoBoard}
          /\ \A i \in 1..Len(job[j].left) : job[j].left[i] \in Boards
    /\ archive.date \in 0..LastDay /\ byHand \in 0..MaxByHand
    \* a board that does not exist is not archived, and one date is never ahead of today
    /\ \A d \in Dates, b \in Boards : d > day => board[d][b] = 0 /\ snap[d][b] = 0

RankInit ==
    /\ day = 1 /\ night = TRUE /\ visits = 0 /\ boosts = 0
    /\ board = [d \in Dates |-> [b \in Boards |-> 0]]
    /\ snap = [d \in Dates |-> [b \in Boards |-> 0]]
    /\ job = [j \in Jobs |-> [date |-> 0, seen |-> 0, left |-> <<>>, open |-> NoBoard]]
    /\ archive = Resting /\ byHand = 0

----------------------------------------------------------------------------
\* An article is read: the counter is raised, and the hot board's increment is
\* handed to the pool, which drops it when its queue is full.
Visit ==
    /\ visits < MaxVisits
    /\ visits' = visits + 1
    /\ boosts' \in {boosts, boosts + 1}
    /\ UNCHANGED <<day, night, board, snap, job, archive, byHand>>

\* The pool runs an increment, of the board of the day on which it runs; it may fail.
Boost ==
    /\ boosts > 0
    /\ boosts' = boosts - 1
    /\ \/ board' = [board EXCEPT ![day][Hot] = @ + 1]
       \/ board' = board
    /\ UNCHANGED <<day, night, visits, snap, job, archive, byHand>>

\* Mutant: the date is computed once, when the job first runs.
RunDateOnce(j) == IF job[j].date = 0 THEN day ELSE job[j].date

\* The date a run gets: that of the day on which it starts.
RunDate(j) == day

\* A job starts and loads the articles with their counters.
RecomputeBegin(j) ==
    /\ Idle(j)
    /\ job' = [job EXCEPT ![j] = [date |-> RunDate(j), seen |-> visits, open |-> NoBoard,
                                  left |-> IF j = Hot THEN <<j>> \o Categories ELSE <<j>>]]
    /\ UNCHANGED <<day, night, visits, boosts, board, snap, archive, byHand>>

\* It replaces the next board.  The commands go to Redis in one pipeline,
\* which other clients' commands may part.
ReplaceDel(j, b) ==
    /\ job[j].left # <<>> /\ Head(job[j].left) = b /\ job[j].open = NoBoard
    /\ board' = [board EXCEPT ![job[j].date][b] = 0]
    /\ job' = [job EXCEPT ![j].open = b, ![j].left = Tail(@)]
    /\ UNCHANGED <<day, night, visits, boosts, snap, archive, byHand>>

ReplaceAdd(j) ==
    /\ job[j].open # NoBoard
    /\ board' = [board EXCEPT ![job[j].date][job[j].open] = IF job[j].seen = 0 THEN @ ELSE job[j].seen]
    /\ job' = [job EXCEPT ![j].open = NoBoard]
    /\ UNCHANGED <<day, night, visits, boosts, snap, archive, byHand>>

\* Loading or the pipeline fails: the total board ends the run, a category's
\* error is logged and the next one is replaced.
RecomputeFails(j) ==
    /\ job[j].left # <<>> /\ job[j].open = NoBoard
    /\ job' = [job EXCEPT ![j].left = IF Head(@) = j THEN <<>> ELSE Tail(@)]
    /\ UNCHANGED <<day, night, visits, boosts, board, snap, archive, byHand>>

----------------------------------------------------------------------------
\* The scheduler runs the archive at 00:10, or is down.  The runs of the day
\* before have reached their deadline of 55 s by then.
TenPast ==
    /\ night /\ archive = Resting
    /\ \A j \in Jobs : Idle(j) \/ job[j].date = day
    /\ night' = FALSE
    /\ archive' \in {[date |-> day, left |-> Order], Resting}
    /\ UNCHANGED <<day, visits, boosts, board, snap, job, byHand>>

\* The archive can be asked for over HTTP, for any date, outside production.
ArchiveByHand(d) ==
    /\ byHand < MaxByHand /\ ~ night /\ archive = Resting /\ d <= day
    /\ archive' = [date |-> d, left |-> Order] /\ byHand' = byHand + 1
    /\ UNCHANGED <<day, night, visits, boosts, board, snap, job>>

\* It copies the next board to the database; one that is empty is skipped.
\* The unique key of date, board and rank refuses a second copy.
ArchiveOne ==
    /\ archive.left # <<>>
    /\ LET d == archive.date
           top == Head(archive.left)
       IN  \/ /\ board[d][top] = 0
              /\ archive' = [archive EXCEPT !.left = Tail(@)]
              /\ UNCHANGED snap
           \/ /\ board[d][top] # 0 /\ snap[d][top] = 0
              /\ snap' = [snap EXCEPT ![d][top] = board[d][top]]
              /\ archive' \in {[archive EXCEPT !.left = Tail(@)], Resting}
           \/ /\ board[d][top] # 0 /\ snap[d][top] # 0
              /\ archive' = Resting
              /\ UNCHANGED snap
    /\ UNCHANGED <<day, night, visits, boosts, board, job, byHand>>

\* The boards of the date are deleted once all are copied.
ArchiveClear ==
    /\ archive.date # 0 /\ archive.left = <<>>
    /\ board' = [board EXCEPT ![archive.date] = [b \in Boards |-> 0]]
    /\ archive' = Resting
    /\ UNCHANGED <<day, night, visits, boosts, snap, job, byHand>>

\* Redis or the database fails, and with it the archive.
ArchiveFails ==
    /\ archive # Resting
    /\ archive' = Resting
    /\ UNCHANGED <<day, night, visits, boosts, board, snap, job, byHand>>

\* An archive has two minutes: none runs at midnight.
Midnight ==
    /\ day < LastDay /\ ~ night /\ archive = Resting
    /\ day' = day + 1 /\ night' = TRUE
    /\ UNCHANGED <<visits, boosts, board, snap, job, archive, byHand>>

\* A board expires 25 hours after it was last written: on the next day, not
\* before one o'clock.
ExpireBoard(d, b) ==
    /\ d < day /\ (night => d + 1 < day) /\ board[d][b] # 0
    /\ board' = [board EXCEPT ![d][b] = 0]
    /\ UNCHANGED <<day, night, visits, boosts, snap, job, archive, byHand>>

----------------------------------------------------------------------------
RankNext ==
    \/ Visit \/ Boost \/ TenPast \/ ArchiveOne \/ ArchiveClear \/ ArchiveFails \/ Midnight
    \/ \E d \in Dates : ArchiveByHand(d) \/ \E b \in Boards : ExpireBoard(d, b)
    \/ \E j \in Jobs :
          \/ RecomputeBegin(j) \/ ReplaceAdd(j) \/ RecomputeFails(j)
          \/ \E b \in Boards : ReplaceDel(j, b)

\* The jobs are run again and again, and replacing a board does not fail for ever.
RankFairness ==
    \A j \in Jobs :
       /\ WF_rankVars(RecomputeBegin(j) \/ ReplaceAdd(j))
       /\ \A b \in Boards : SF_rankVars(ReplaceDel(j, b))

RankSpec == RankInit /\ [][RankNext]_rankVars /\ RankFairness

----------------------------------------------------------------------------
\* Whatever increments were dropped, lost, late or overwritten, and whatever
\* an archive has cleared, in the end today's boards show what the database
\* has counted whenever no job is at work on them (the comments of
\* ranking_decorator.go: the full recomputation makes up for them).
RecomputeHeals ==
    <>[]((\A j \in Jobs : Idle(j)) => \A b \in Boards : board[day][b] = visits)

\* The archive of a day that has ended without an error has copied the boards
\* of the day before, as Redis still has them (PRD 7: the archive of 00:10
\* freezes yesterday's boards).
YesterdayArchived ==
    [][ArchiveClear /\ archive.date = day /\ day > 1 =>
          \A b \in Boards : board[day - 1][b] # 0 => snap[day - 1][b] = board[day - 1][b]]_rankVars
=============================================================================
