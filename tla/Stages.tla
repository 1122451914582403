------------------------------- MODULE Stages -------------------------------
(***************************************************************************)
(* The stage of a cutover and what it decides: which stage may follow,     *)
(* where the SDK in the application reads and which tables it writes.      *)
(* An unset key is SRC_ONLY, for the service and for the SDK alike.        *)
(***************************************************************************)
Stage == {"SRC_ONLY", "SRC_FIRST", "DST_FIRST", "DST_ONLY"}

Side == {"old", "new"}

CanTransitionTo(s, next) ==
    <<s, next>> \in { <<"SRC_ONLY", "SRC_FIRST">>,
                      <<"SRC_FIRST", "DST_FIRST">>,
                      <<"DST_FIRST", "DST_ONLY">> }

\* With the last stage no longer excluded.
CanRollbackLate(s) == s # "SRC_ONLY"

CanRollback(s) == s \in {"SRC_FIRST", "DST_FIRST"}

\* With DST_ONLY left to the default case.
ReadSideDefault(s, inGray) ==
    IF s = "DST_FIRST" \/ (s = "SRC_FIRST" /\ inGray) THEN "new" ELSE "old"

\* inGray: gray > 0 and hashMod100(hashKey) < gray, for the row looked at.
ReadSide(s, inGray) ==
    IF s \in {"DST_FIRST", "DST_ONLY"} \/ (s = "SRC_FIRST" /\ inGray)
    THEN "new"
    ELSE "old"

\* NEW written before OLD already in DST_FIRST.
FirstSideSwapped(s) == IF s \in {"DST_FIRST", "DST_ONLY"} THEN "new" ELSE "old"

\* Where Write starts, and whether a second write follows a successful first.
FirstSide(s) == IF s = "DST_ONLY" THEN "new" ELSE "old"

IsDual(s) == s \in {"SRC_FIRST", "DST_FIRST"}

\* A failed write to NEW is recorded and swallowed, not returned.
BestEffort(s) == s = "SRC_FIRST"
=============================================================================
