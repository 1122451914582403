--------------------------- MODULE MCMigratorChat ---------------------------
(***************************************************************************)
(* Instances of a table's cutover, of its verification and repair, and of  *)
(* the chat service, explored side by side: focus says which one moves.    *)
(* They share no state, so that a behaviour of the sum is one of a single  *)
(* part, and each property is checked on the states of its own.            *)
(***************************************************************************)
EXTENDS MCCutover, Repair, ChatStream

VARIABLE focus

MigratorChatInit ==
    /\ focus \in {"cutover", "repair", "chat"}
    /\ Init /\ RepairInit /\ ChatInit
    \* bound: the first row is at each side or not, the second at the source
    /\ IF focus = "repair" THEN right[1] < 2 /\ left[2] = 1
                           ELSE left = Blank /\ right = Blank

MigratorChatNext ==
    \/ focus = "cutover" /\ Next /\ UNCHANGED <<focus, repairVars, chatVars>>
    \/ focus = "repair" /\ RepairNext /\ UNCHANGED <<focus, vars, chatVars>>
    \/ focus = "chat" /\ ChatNext /\ UNCHANGED <<focus, vars, repairVars>>

MigratorChatSpec ==
    MigratorChatInit /\ [][MigratorChatNext]_<<focus, vars, repairVars, chatVars>>
=============================================================================
