------------------------------- MODULE MCFeed -------------------------------
(* Instances of Feed: who writes.                                          *)
EXTENDS Feed

\* One author writes everything, and the others follow or read.
OneAuthor == [p \in Articles |-> 1]
=============================================================================
