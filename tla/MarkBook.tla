------------------------------ MODULE MarkBook ------------------------------
(***************************************************************************)
(* What the interaction service promises of an article: who has marked it, *)
(* and how often it was marked and read.  A mark turns together with its   *)
(* tally, in one step, and only if it was not that way before.             *)
(***************************************************************************)
EXTENDS Integers

CONSTANTS Fans, Marks

VARIABLES marked,  \* the marks of each user
          tally,   \* of each mark
          reads

bookVars == <<marked, tally, reads>>

BookInit ==
    /\ marked = [u \in Fans |-> {}]
    /\ tally = [k \in Marks |-> 0]
    /\ reads = 0

TurnOn(u, k) ==
    /\ k \notin marked[u]
    /\ marked' = [marked EXCEPT ![u] = @ \union {k}]
    /\ tally' = [tally EXCEPT ![k] = @ + 1]
    /\ UNCHANGED reads

TurnOff(u, k) ==
    /\ k \in marked[u]
    /\ marked' = [marked EXCEPT ![u] = @ \ {k}]
    /\ tally' = [tally EXCEPT ![k] = @ - 1]
    /\ UNCHANGED reads

\* One read, or a batch of them.
Read == reads' > reads /\ UNCHANGED <<marked, tally>>

BookNext == Read \/ \E u \in Fans, k \in Marks : TurnOn(u, k) \/ TurnOff(u, k)

BookSpec == BookInit /\ [][BookNext]_bookVars
=============================================================================
