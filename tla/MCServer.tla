------------------------------- MODULE MCServer -------------------------------
(***************************************************************************)
(* The parts of the server that answer requests, for TLC: scan jobs,       *)
(* reader progress, logins, accounts, sockets and playlists.  They share   *)
(* no state, so their interleavings show nothing that each of them does    *)
(* not: a behaviour exercises one part and the others stay at their start. *)
(***************************************************************************)
EXTENDS ScanJobs, ReaderProgress, LoginLimiter, Accounts, Sockets, Playlists, TLC

CONSTANTS None, a1, a2, a3, b1, b2, b3, c1, c2   \* whatever a part needs names for

VARIABLE part

Parts == {"scans", "reader", "logins", "accounts", "sockets", "playlists"}

Scans(changes, sweeps, inserts, updates, restarts, streams) ==
    [changes |-> changes, sweeps |-> sweeps, inserts |-> inserts, updates |-> updates, restarts |-> restarts, streams |-> streams]
ScanCases == {
    Scans(1, 0, 1, 0, 0, FALSE), Scans(0, 0, 0, 3, 0, FALSE), Scans(1, 1, 0, 0, 0, FALSE),
    Scans(1, 0, 0, 0, 1, FALSE), Scans(0, 0, 0, 0, 0, TRUE)}

TokenUsers == [t \in SkTokens |-> IF t = b3 THEN c2 ELSE c1]
Connections(tokens, dials, reports, commands, cuts) ==
    [tokens |-> tokens, dials |-> dials, reports |-> reports, commands |-> commands, cuts |-> cuts]
SkCases == {
    Connections({b1}, 1, 3, 1, 0), Connections({b1}, 1, 1, 1, 1), Connections({b1}, 2, 1, 1, 0), Connections({b1, b3}, 1, 1, 1, 0),
    Connections({b1, b2, b3}, 2, 0, 1, 0)}

-----------------------------------------------------------------------------
\* A part that is not exercised starts with any one of its bounds.
Init ==
    /\ part \in Parts
    /\ ScanInit /\ (part = "scans" \/ scanBudget = CHOOSE b \in ScanBudgets : TRUE)
    /\ RpInit /\ (part = "reader" \/ ~rpEdition.game)
    /\ LlInit
    /\ AcInit
    /\ SkInit /\ (part = "sockets" \/ skLeft.tokens = SkTokens)
    /\ PlInit

Next ==
    \/ part = "scans" /\ ScanNext
       /\ UNCHANGED <<part, rpVars, llVars, acVars, skVars, plVars>>
    \/ part = "reader" /\ RpNext
       /\ UNCHANGED <<part, scanVars, llVars, acVars, skVars, plVars>>
    \/ part = "logins" /\ LlNext
       /\ UNCHANGED <<part, scanVars, rpVars, acVars, skVars, plVars>>
    \/ part = "accounts" /\ AcNext
       /\ UNCHANGED <<part, scanVars, rpVars, llVars, skVars, plVars>>
    \/ part = "sockets" /\ SkNext
       /\ UNCHANGED <<part, scanVars, rpVars, llVars, acVars, plVars>>
    \/ part = "playlists" /\ PlNext
       /\ UNCHANGED <<part, scanVars, rpVars, llVars, acVars, skVars>>

Spec == Init /\ [][Next]_<<part, scanVars, rpVars, llVars, acVars, skVars, plVars>>

-----------------------------------------------------------------------------
\* The type invariants of all parts: the last administrator, bounded channels and tables, one order of a playlist.
ServerTypeOK == ScanTypeOK /\ RpTypeOK /\ LlTypeOK /\ AcTypeOK /\ SkTypeOK /\ PlTypeOK

\* Every bound above treats a1 like a2 and, where both occur, b1 like b2.
Symmetric == Permutations({a1, a2}) \cup Permutations({b1, b2})

===============================================================================
