------------------------- MODULE MCTranscodeManager -------------------------
(***************************************************************************)
(* TranscodeManager for TLC.                                               *)
(***************************************************************************)
EXTENDS TranscodeManager, TLC

CONSTANTS x1, x2, n1, n2, c1, c2, e1, e2

Symmetric == Permutations(Sessions) \cup Permutations(Names) \cup Permutations(Callers) \cup Permutations(Editions)

=============================================================================
