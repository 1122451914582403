------------------------------- MODULE Threads -------------------------------
(***************************************************************************)
(* What the comment service promises of an article: floors of one level,   *)
(* changed by one request at a time, each first comment shown with the     *)
(* number of the replies it still has.  To delete a first comment is to    *)
(* delete its replies in the same breath; a reply that comes after that    *)
(* stays, in a floor that is gone.                                         *)
(***************************************************************************)
CONSTANTS Ids,
          NoFloor,
          Size(_)   \* the number of elements of a finite set

VARIABLES state,  \* none, live or deleted
          floor,  \* the first comment above a reply; NoFloor for one itself
          shown   \* the number shown with each first comment

threadVars == <<state, floor, shown>>

Firsts(s, f) == {r \in Ids : s[r] = "live" /\ f[r] = NoFloor}
Replies(s, f, r) == {i \in Ids : s[i] = "live" /\ f[i] = r}

Shown(s, f) == [r \in Firsts(s, f) |-> Size(Replies(s, f, r))]

\* A first comment, before or after its deletion.
IsFirst(r) == r \in Ids /\ state[r] # "none" /\ floor[r] = NoFloor

Floor(r) == {i \in Ids : state[i] = "live" /\ (i = r \/ floor[i] = r)}

ThreadsInit ==
    /\ state \in [Ids -> {"none", "live"}]
    /\ floor = [i \in Ids |-> NoFloor]
    /\ shown = Shown(state, floor)

Written(i, r) ==
    /\ state[i] = "none" /\ state' = [state EXCEPT ![i] = "live"]
    /\ r = NoFloor \/ IsFirst(r)
    /\ floor' = [floor EXCEPT ![i] = r]

ReplyDeleted(i) ==
    /\ state[i] = "live" /\ floor[i] # NoFloor
    /\ state' = [state EXCEPT ![i] = "deleted"]
    /\ UNCHANGED floor

FloorDeleted(r) ==
    /\ IsFirst(r)
    /\ state' = [i \in Ids |-> IF i \in Floor(r) THEN "deleted" ELSE state[i]]
    /\ UNCHANGED floor

ThreadsNext ==
    /\ \E i \in Ids :
          \/ \E r \in Ids \union {NoFloor} : Written(i, r)
          \/ ReplyDeleted(i) \/ FloorDeleted(i)
    /\ shown' = Shown(state', floor')

ThreadsSpec == ThreadsInit /\ [][ThreadsNext]_threadVars
=============================================================================
