-------------------------------- MODULE Repair --------------------------------
(***************************************************************************)
(* Verify and repair: two scans run side by side over the source and the   *)
(* target of a migration, what differs is logged with both rows, and       *)
(* an operator repairs logged rows from one side or the other, or only     *)
(* marks them.  Requests overlap; the application goes on writing to the   *)
(* source, and the incremental engine applies its changes to the target.   *)
(* What is compared and logged is a row without its version, so a repair   *)
(* overwrites whatever it meets.                                           *)
(***************************************************************************)
EXTENDS RowStore

CONSTANTS LastPK,       \* primary keys are 1 .. LastPK
          PageSize,     \* rows of one SELECT of a scan
          MaxRequests   \* bound on the verifications and changes of the source

ASSUME RepairAssumption ==
    {LastPK, PageSize, MaxRequests} \subseteq Nat \ {0}

VARIABLES left, right,  \* the source and the target
          version,      \* changes of the source so far
          stream,       \* changes the incremental engine has yet to apply
          verify,       \* the verification in progress
          vlog,         \* validate_log: one row per primary key
          fix,          \* the repair in progress
          verifies,     \* verifications begun
          calm          \* history: nothing was written but by repairs from the
                        \* source as it was, since the last verification began

sides == <<left, right, version, stream>>
repairVars == <<sides, verify, vlog, fix, verifies, calm>>

Keys == 1 .. LastPK
MaxVersion == MaxRequests + 2
Off == [at |-> "idle"]
NoLog == [kind |-> "none", src |-> 0, dst |-> 0, repaired |-> TRUE]
Blank == [r \in Keys |-> 0]

RepairTypeOK ==
    /\ left \in [Keys -> 0 .. MaxVersion] /\ right \in [Keys -> 0 .. MaxVersion]
    /\ version \in 2 .. MaxVersion
    /\ stream \in Seq([pk : Keys, val : 0 .. MaxVersion])
    /\ verify.at # "idle" => {verify.srcAt, verify.dstAt} \subseteq 0 .. LastPK + 1
    /\ \A r \in Keys :
          vlog[r] = NoLog \/ (vlog[r].src # vlog[r].dst /\ vlog[r].kind \in {"missing", "extra", "diff"})
    /\ fix.at # "idle" => DOMAIN fix.batch \subseteq Keys /\ fix.side \in {"src", "dst"}
    /\ verifies \in 0 .. MaxRequests /\ calm \in BOOLEAN

\* A target that was written to before traffic was switched back may be ahead.
RepairInit ==
    /\ left \in [Keys -> {0, 1}] /\ right \in [Keys -> {0, 1, 2}]
    /\ version = 2 /\ stream = <<>>
    /\ verify = Off /\ fix = Off /\ vlog = [r \in Keys |-> NoLog]
    /\ verifies = 0 /\ calm = FALSE

-----------------------------------------------------------------------------
(* Others.                                                                 *)

Write(r) ==
    /\ version + verifies < MaxVersion
    /\ version' = version + 1
    /\ \E val \in {0, version + 1} :
          /\ val # left[r]
          /\ left' = [left EXCEPT ![r] = val]
          /\ stream' = Append(stream, [pk |-> r, val |-> val])
    /\ calm' = FALSE
    /\ UNCHANGED <<right, verify, vlog, fix, verifies>>

\* The engine's upserts do carry versions and may yield to that of the row they
\* meet, which the repairs leave as it was: what it is does not matter here.
Stream ==
    /\ stream # <<>> /\ stream' = Tail(stream)
    /\ LET next == Head(stream)
       IN  \/ right' = Overwrite(right, [r \in {next.pk} |-> next.val])
           \/ Versioned /\ next.val # 0 /\ right[next.pk] # 0 /\ right' = right
    /\ calm' = FALSE
    /\ UNCHANGED <<left, version, verify, vlog, fix, verifies>>

-----------------------------------------------------------------------------
(* Verify.                                                                 *)

VerifyStart ==
    /\ verify = Off /\ version + verifies < MaxVersion
    /\ verifies' = verifies + 1
    /\ verify' = [at |-> "scan", srcAt |-> 0, dstAt |-> 0, src |-> Blank, dst |-> Blank]
    /\ calm' = (fix.at # "mark")
    /\ UNCHANGED <<sides, vlog, fix>>

Seen(rows, table, found) == [r \in Keys |-> IF r \in found THEN table[r] ELSE rows[r]]

After(found) == IF Cardinality(found) < PageSize THEN LastPK + 1 ELSE Greatest(found)

ScanSource ==
    LET found == SelectRows(left, verify.srcAt, LastPK, PageSize)
    IN  /\ verify.at = "scan" /\ verify.srcAt <= LastPK
        /\ verify' = [verify EXCEPT !.src = Seen(@, left, found), !.srcAt = After(found)]
        /\ UNCHANGED <<sides, vlog, fix, verifies, calm>>

ScanTarget ==
    LET found == SelectRows(right, verify.dstAt, LastPK, PageSize)
    IN  /\ verify.at = "scan" /\ verify.dstAt <= LastPK
        /\ verify' = [verify EXCEPT !.dst = Seen(@, right, found), !.dstAt = After(found)]
        /\ UNCHANGED <<sides, vlog, fix, verifies, calm>>

Kind(s, d) == IF d = 0 THEN "missing" ELSE IF s = 0 THEN "extra" ELSE "diff"

\* Mutant: a row that is logged again stays repaired.
LogAgain(r, s, d) ==
    [kind |-> Kind(s, d), src |-> s, dst |-> d,
     repaired |-> vlog[r] # NoLog /\ vlog[r].repaired]

\* BatchInsert: one log row per primary key, reset to unrepaired.
LogRow(r, s, d) == [kind |-> Kind(s, d), src |-> s, dst |-> d, repaired |-> FALSE]

\* diffAndLog; what was logged of a row that is equal by now stays.
DiffAndLog ==
    /\ verify.at = "scan" /\ verify.srcAt > LastPK /\ verify.dstAt > LastPK
    /\ vlog' = [r \in Keys |-> IF verify.src[r] = verify.dst[r] THEN vlog[r]
                               ELSE LogRow(r, verify.src[r], verify.dst[r])]
    /\ verify' = Off
    /\ UNCHANGED <<sides, fix, verifies, calm>>

VerifyFails ==
    /\ verify.at = "scan"
    /\ verify' = Off
    /\ calm' = FALSE
    /\ UNCHANGED <<sides, vlog, fix, verifies>>

-----------------------------------------------------------------------------
(* Repair.                                                                 *)

Logged == {r \in Keys : vlog[r] # NoLog}
Unrepaired == {r \in Keys : ~ vlog[r].repaired}

Marked(ids) == [r \in Keys |-> IF r \in ids THEN [vlog[r] EXCEPT !.repaired = TRUE] ELSE vlog[r]]

\* The log rows that the operator has chosen are read, repaired or not ...
RepairBegin ==
    /\ fix = Off
    /\ \E ids \in SUBSET Logged \ {{}}, side \in {"src", "dst"} :
          fix' = [at |-> "apply", side |-> side,
                  batch |-> [r \in ids |-> IF side = "src" THEN vlog[r].src ELSE vlog[r].dst]]
    /\ UNCHANGED <<sides, verify, vlog, verifies, calm>>

\* ... what they say of one side is applied to the other, a delete where that
\* side had no row ...
RepairTarget ==
    /\ fix.at = "apply" /\ fix.side = "src"
    /\ right' = Overwrite(right, fix.batch)
    /\ calm' = (calm /\ \A r \in DOMAIN fix.batch : fix.batch[r] = left[r])
    /\ fix' = [fix EXCEPT !.at = "mark"]
    /\ UNCHANGED <<left, version, stream, verify, vlog, verifies>>

\* (a change of the source like any other: the engine will carry it)
RepairSource ==
    LET moved == {r \in Keys : left'[r] # left[r]}
    IN  /\ fix.at = "apply" /\ fix.side = "dst"
        /\ left' = Overwrite(left, fix.batch)
        /\ \E s \in [1 .. Cardinality(moved) -> moved] :
              /\ {s[i] : i \in DOMAIN s} = moved
              /\ stream' = stream \o [i \in DOMAIN s |-> [pk |-> s[i], val |-> left'[s[i]]]]
        /\ calm' = FALSE
        /\ fix' = [fix EXCEPT !.at = "mark"]
        /\ UNCHANGED <<right, version, verify, vlog, verifies>>

RepairFails ==
    /\ fix.at = "apply"
    /\ fix' = Off
    /\ UNCHANGED <<sides, verify, vlog, verifies, calm>>

\* ... and they are marked, or that fails and is logged.
RepairMark ==
    /\ fix.at = "mark"
    /\ vlog' \in {vlog, Marked(DOMAIN fix.batch)}
    /\ fix' = Off
    /\ UNCHANGED <<sides, verify, verifies, calm>>

MarkOnly ==
    /\ fix = Off
    /\ \E ids \in SUBSET Logged \ {{}} : vlog' = Marked(ids)
    /\ calm' = FALSE
    /\ UNCHANGED <<sides, verify, fix, verifies>>

RepairNext ==
    \/ \E r \in Keys : Write(r)
    \/ Stream \/ VerifyStart \/ ScanSource \/ ScanTarget \/ DiffAndLog \/ VerifyFails
    \/ RepairBegin \/ RepairTarget \/ RepairSource \/ RepairFails \/ RepairMark \/ MarkOnly

RepairSpec == RepairInit /\ [][RepairNext]_repairVars

-----------------------------------------------------------------------------
(* Properties.                                                             *)

\* A difference is not forgotten: once a verification of quiet tables is over, a
\* row that differs is in the log as unrepaired with what the source holds, and
\* it stays there until a repair has made it equal, however repairs of other
\* rows, failed repairs and repairs from older logs come between.  So a
\* verification and the repair of all that is unrepaired make the tables equal.
FoundOut ==
    calm /\ verify = Off =>
        \A r \in Keys : left[r] # right[r] => vlog[r].src = left[r] /\ ~ vlog[r].repaired
=============================================================================
