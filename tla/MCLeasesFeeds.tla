--------------------------- MODULE MCLeasesFeeds ---------------------------
(***************************************************************************)
(* A lock with leases and watchdogs, and a feed, explored side by side:    *)
(* focus says which one moves.  They share no state, so that a behaviour   *)
(* of the sum is one of a single part, which is fair to itself.            *)
(***************************************************************************)
EXTENDS MCRedisLock, MCFeed

VARIABLE focus

On(part) == focus = part

LeasesFeedsInit ==
    /\ focus \in {"lock", "feed"}
    /\ Init /\ FeedInit
    /\ ~ On("feed") => following = {}

LeasesFeedsNext ==
    \/ On("lock") /\ Next /\ UNCHANGED <<focus, feedVars>>
    \/ On("feed") /\ FeedNext /\ UNCHANGED <<focus, vars>>

\* The fairness of each part, for as long as it is the one that moves.
LeasesFeedsFairness ==
    /\ WF_vars(On("lock") /\ Tick)
    /\ \A h \in Handles :
          /\ WF_vars(On("lock") /\ DogStep(h))
          /\ SF_vars(On("lock") /\ DogStop(h))
          /\ WF_vars(On("lock") /\ Resume(h))
          /\ WF_vars(On("lock") /\ CallGoesOn(h))
    /\ WF_feedVars(On("feed") /\ ConsumerStep)
    /\ WF_feedVars(On("feed") /\ InvalidateInboxes)
    /\ \A u \in Readers :
          /\ WF_feedVars(On("feed") /\ ReaderStep(u))
          /\ SF_feedVars(On("feed") /\ ExpireInbox(u))
    /\ \A x \in Authors : SF_feedVars(On("feed") /\ ExpireOutbox(x))

LeasesFeedsSpec ==
    LeasesFeedsInit /\ [][LeasesFeedsNext]_<<focus, vars, feedVars>> /\ LeasesFeedsFairness

\* FeedConverges, where the feed moves.
FeedCatchesUp == On("feed") => FeedConverges
=============================================================================
