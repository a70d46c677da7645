----------------------------- MODULE MCServerLive -----------------------------
(***************************************************************************)
(* What the server must eventually do, for TLC: scan jobs and sockets.  As *)
(* in MCServer, a behaviour exercises one of them.                         *)
(***************************************************************************)
EXTENDS ScanJobs, Sockets, TLC

CONSTANTS None, a1, a2, b1, b2, c1

VARIABLE part

Scans(changes, restarts, streams) ==
    [changes |-> changes, sweeps |-> 0, inserts |-> 0, updates |-> 0, restarts |-> restarts, streams |-> streams]
ScanCases == {Scans(1, 0, FALSE), Scans(0, 1, FALSE), Scans(0, 0, TRUE)}

TokenUsers == [t \in SkTokens |-> c1]
Connections(tokens, reports, commands) == [tokens |-> tokens, reports |-> reports, commands |-> commands, dials |-> 1, cuts |-> 0]
SkCases == {Connections({b1}, 1, 1), Connections({b1, b2}, 0, 1)}

Init ==
    /\ part \in {"scans", "sockets"}
    /\ ScanInit /\ (part = "scans" \/ scanBudget = CHOOSE b \in ScanBudgets : TRUE)
    /\ SkInit /\ (part = "sockets" \/ skLeft = CHOOSE b \in SkBudgets : TRUE)

Next ==
    \/ part = "scans" /\ ScanNext /\ UNCHANGED <<part, skVars>>
    \/ part = "sockets" /\ SkNext /\ UNCHANGED <<part, scanVars>>

\* ScanFair and SkFair, each for the behaviours that exercise its part.
Fairness ==
    /\ WF_scanVars(part = "scans" /\ HandleEvent)
    /\ WF_scanVars(part = "scans" /\ SyncLibraries)
    /\ WF_scanVars(part = "scans" /\ StartSweep)
    /\ WF_scanVars(part = "scans" /\ (SubscribeRun \/ ReceiveEvent))
    /\ \A l \in ScanLibraries : WF_scanVars(part = "scans" /\ Expire(l)) /\ WF_scanVars(part = "scans" /\ SweepNext(l))
    /\ \A c \in ScanCallers : WF_scanVars(part = "scans" /\ ScanCaller(c))
    /\ \A j \in ScanJobIds : WF_scanVars(part = "scans" /\ ScanGoroutine(j))
    /\ \A c \in SkConns :
          /\ WF_skVars(part = "sockets" /\ RegisterConn(c)) /\ WF_skVars(part = "sockets" /\ TakeMessage(c))
          /\ WF_skVars(part = "sockets" /\ FrameWritten(c)) /\ WF_skVars(part = "sockets" /\ WriterTick(c))
          /\ WF_skVars(part = "sockets" /\ skConn[c].shut /\ ReaderEnds(c))

FairSpec == Init /\ [][Next]_<<part, scanVars, skVars>> /\ Fairness

===============================================================================
