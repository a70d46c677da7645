----------------------------- MODULE MCMediaQueue -----------------------------
(***************************************************************************)
(* MediaQueue for TLC.                                                     *)
(***************************************************************************)
EXTENDS MediaQueue

CONSTANTS f1, shaA, shaB, o1, o2, o3, o4, s1, s2, t1, t2

OnePart(identity) ==
    <<[id |-> f1, duration |-> 2, missing |-> FALSE, identity |-> identity]>>

OneTimeline == {OnePart(shaA)}
Replaced == {OnePart(shaA), OnePart(shaB), <<[OnePart(shaA)[1] EXCEPT !.missing = TRUE]>>}

Patch(i, p) == [intent |-> i, position |-> p]
AllPatches == {Patch("heartbeat", 1), Patch("seek", 1), Patch("finish", 2)}
Heartbeats == {Patch("heartbeat", 1)}
Seeking == {Patch("heartbeat", 1), Patch("seek", 1)}

\* TLC takes no SYMMETRY with liveness.  Behaviours that differ in the names of
\* the tabs or the ids only are alike, so one of them is enough: that where t1
\* plays, and o1 is made first.  As a bound, t2 opens no page that asks the
\* server for a snapshot: it adopts the base that localStorage keeps.
Canonical ==
    /\ issued # {} => o1 \in issued
    /\ chain[t2] = None
    /\ fetch[t2] = None

CanonicalSpec == QInit /\ [][QNext /\ Canonical']_vars /\ Fairness

Symmetric == Permutations(Tabs) \cup Permutations(OperationIds) \cup Permutations(Sessions)

=============================================================================
