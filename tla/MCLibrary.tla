------------------------------ MODULE MCLibrary -------------------------------
(***************************************************************************)
(* The parts of the server that keep the library and its files, for TLC:   *)
(* podcasts, backup, trickplay, scanner and importers, metadata.  As in    *)
(* MCServer, a behaviour exercises one part and the others stay as they    *)
(* start.                                                                  *)
(***************************************************************************)
EXTENDS PodcastService, Backup, Trickplay, Imports, Metadata, TLC

CONSTANTS None, a1, a2, a3, b1, b2, b3, c1, c2   \* whatever a part needs names for

VARIABLE part

Parts == {"podcasts", "backup", "trickplay", "library", "metadata"}

Podcasts(feeds, starts, deletes, patches, crashes) ==
    [feeds |-> feeds, starts |-> starts, deletes |-> deletes, patches |-> patches, crashes |-> crashes]
PodCases == {Podcasts({c1}, 3, 0, 1, 1), Podcasts({c1}, 3, 2, 0, 0), Podcasts({c1, c2}, 2, 1, 0, 0)}

SetSizes == [s \in TpSets |-> IF s = c1 THEN 2 ELSE 1]

Shelf(kind, folders, items, changes, scans, imports) ==
    [kind |-> kind, folder |-> folders, items |-> items, changes |-> changes, scans |-> scans, imports |-> imports]
Apart == <<1, 2, 3>>
Together == <<1, 1, 3>>
Libraries == {
    Shelf(BooksLibrary, Apart, {}, 2, 2, 0), Shelf(BooksLibrary, Together, {1}, 1, 2, 0),
    Shelf(AudioLibrary, Together, {}, 1, 3, 0), Shelf(VideoLibrary, Together, {}, 2, 2, 0),
    Shelf(MusicLibrary, Together, {}, 2, 2, 0), Shelf(GamesLibrary, Together, {}, 2, 2, 0),
    Shelf(BooksLibrary, Apart, {1}, 0, 1, 2), Shelf(AudioLibrary, Together, {1}, 1, 1, 1),
    Shelf(BooksLibrary, Apart, {1, 2}, 1, 0, 2)}

-----------------------------------------------------------------------------
\* A part that is not exercised starts with any one of its bounds.
Init ==
    /\ part \in Parts
    /\ PodInit /\ (part = "podcasts" \/ podBudget = CHOOSE b \in PodBudgets : TRUE)
    /\ BkInit
    /\ TpInit
    /\ ImInit /\ (part = "library" \/ lsLib = CHOOSE l \in LsLibraries : TRUE)
    /\ part = "library" \/ \A p \in LsPaths : lsDisk[p] = LsNone
    /\ MtInit

Next ==
    \/ part = "podcasts" /\ PodNext
       /\ UNCHANGED <<part, bkVars, tpVars, lsVars, imVars, mtVars>>
    \/ part = "backup" /\ BkNext
       /\ UNCHANGED <<part, podVars, tpVars, lsVars, imVars, mtVars>>
    \/ part = "trickplay" /\ TpNext
       /\ UNCHANGED <<part, podVars, bkVars, lsVars, imVars, mtVars>>
    \/ part = "library" /\ ImNext
       /\ UNCHANGED <<part, podVars, bkVars, tpVars, mtVars>>
    \/ part = "metadata" /\ MtNext
       /\ UNCHANGED <<part, podVars, bkVars, tpVars, lsVars, imVars>>

Spec == Init /\ [][Next]_<<part, podVars, bkVars, tpVars, lsVars, imVars, mtVars>>

-----------------------------------------------------------------------------
\* The type invariants of all parts: editions in works that exist, locks in their order, a pool that sums its leases.
LibraryTypeOK == PodTypeOK /\ BkTypeOK /\ TpTypeOK /\ LsTypeOK /\ ImTypeOK /\ MtTypeOK

\* What a step may never undo, in any part: a handled episode, a generation that is to be kept, scanned chapters.
NothingIsUndone == [][HandledOnce /\ NewestAreKept /\ ScannedChaptersStay]_<<podVars, bkVars, mtVars>>

\* Every bound above treats a1 like a2 and, where both occur, b1 like b2.
Symmetric == Permutations({a1, a2}) \cup Permutations({b1, b2})

===============================================================================
