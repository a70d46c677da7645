--------------------------- MODULE LibraryScanner ---------------------------
(***************************************************************************)
(* A scan of one library (scan/) and the identity it gives to files        *)
(* (store/sources.go, store/queries.go, store/reconcile.go): editions are  *)
(* found by the key of their source, then by the paths of their files,     *)
(* then by the content of files that have gone.  The disk changes between  *)
(* scans and under them.                                                   *)
(***************************************************************************)
EXTENDS Integers, Sequences, FiniteSets, FiniteSetsExt

CONSTANTS LsPaths,      \* 1..n, in the order in which they are walked
          LsContents,   \* what a file can hold, which decides its size, its hashes and its modification time
          LsLibraries,  \* libraries: [kind, folder: the folder of each path, items: what a provider knows, changes, scans, imports]
          LsNone

(* What the five scanners do differently: whether a folder is one transaction, whether it is one edition, whether a
   refused transaction ends the scan, whether a folder that changed is stored whole, and whether sources have keys. *)
BooksLibrary == [grouped |-> FALSE, whole |-> FALSE, aborts |-> TRUE, keyed |-> TRUE]
AudioLibrary == [grouped |-> TRUE, whole |-> TRUE, aborts |-> FALSE, keyed |-> TRUE]
VideoLibrary == [grouped |-> TRUE, whole |-> FALSE, aborts |-> TRUE, keyed |-> TRUE]
MusicLibrary == [grouped |-> TRUE, whole |-> FALSE, aborts |-> TRUE, keyed |-> TRUE]
GamesLibrary == [grouped |-> FALSE, whole |-> FALSE, aborts |-> TRUE, keyed |-> FALSE]

(* Importers know books and audiobooks only.                               *)
ASSUME LsAssumption ==
    /\ IsFiniteSet(LsPaths) /\ LsPaths # {} /\ LsPaths = 1..Cardinality(LsPaths) /\ LsNone \notin LsContents
    /\ LsLibraries \subseteq [kind : {BooksLibrary, AudioLibrary, VideoLibrary, MusicLibrary, GamesLibrary},
                              folder : [LsPaths -> LsPaths], items : SUBSET LsPaths, changes : Nat, scans : Nat, imports : Nat]
    /\ \A l \in LsLibraries : l.items # {} => l.kind \in {BooksLibrary, AudioLibrary}

VARIABLES lsLib,      \* the library, and what is left of the bounds on its changes and its scans
          lsDisk,     \* path -> content
          lsRows,     \* files: path -> [ed, sha, stat, hash: whether there is a sampled hash, missing], edition 0 where there is no row
          lsEditions, \* editions: [key, work] by id, in the order in which they were added
          lsAlias,    \* edition_source_aliases: key -> edition, 0 for none
          lsScan,     \* the scan under way, or the last one
          lsBefore    \* the disk and the rows when a scan last showed the disk, and what was only moved since (history)

lsVars == <<lsLib, lsDisk, lsRows, lsEditions, lsAlias, lsScan, lsBefore>>

Kind == lsLib.kind
Folder(p) == IF Kind.grouped THEN lsLib.folder[p] ELSE p
SourceKey(p) == IF Kind.whole THEN lsLib.folder[p] ELSE p
Title(p) == lsLib.folder[p]

(* Scanners key sources by path, and providers by an id of their own: item i of a provider has the key -i. *)
Keys == LsPaths \cup {0 - p : p \in LsPaths}
OfProvider(key) == key < 0

NoRow == [ed |-> 0, sha |-> LsNone, stat |-> LsNone, hash |-> FALSE, missing |-> FALSE]
NoScan == [at |-> "idle", found |-> [p \in LsPaths |-> LsNone], todo |-> {}, digest |-> [p \in LsPaths |-> LsNone],
           taken |-> {}, gone |-> {}, errors |-> FALSE, quiet |-> FALSE, whole |-> FALSE]
EdIds == DOMAIN lsEditions
RowsOf(rows, ed) == {p \in LsPaths : rows[p].ed = ed}
Live(p) == lsRows[p].ed # 0 /\ ~lsRows[p].missing

LsInit ==
    /\ lsLib \in LsLibraries
    /\ lsDisk \in [LsPaths -> LsContents \cup {LsNone}]
    /\ lsEditions = << >>
    /\ lsRows = [p \in LsPaths |-> NoRow]
    /\ lsAlias = [k \in Keys |-> 0]
    /\ lsScan = NoScan
    /\ lsBefore = [disk |-> [p \in LsPaths |-> LsNone], rows |-> lsRows, moved |-> {}]

-----------------------------------------------------------------------------
(* The disk.                                                               *)

At(disk, c) == {p \in LsPaths : disk[p] = c}
Alone(disk, p) == \A q \in LsPaths \ {p} : SourceKey(q) = SourceKey(p) => disk[q] = LsNone

(* Content is kept by an edition that has a row of it while one source alone holds it, which no other edition knows, and
   no file of such a row gives way to another. *)
IsKeptBy(disk, c, ed) ==
    /\ \E q \in LsPaths : At(disk, c) = {q} /\ Alone(disk, q) /\ {lsAlias[SourceKey(q)], lsRows[q].ed} \subseteq {0, ed}
    /\ \A r \in LsPaths : lsRows[r].ed = ed /\ lsRows[r].sha = c => disk[r] \in {c, LsNone}

DiskChanges(disk) ==
    /\ lsLib.changes > 0 /\ lsLib' = [lsLib EXCEPT !.changes = @ - 1]
    /\ disk # lsDisk /\ lsDisk' = disk
    /\ lsScan' = [lsScan EXCEPT !.quiet = FALSE]
    /\ lsBefore' = [lsBefore EXCEPT !.moved = {c \in @ : /\ lsScan.at = "idle" \/ At(disk, c) = At(lsDisk, c)
                                                       /\ \E p \in At(lsBefore.disk, c) : IsKeptBy(disk, c, lsBefore.rows[p].ed)}]
    /\ UNCHANGED <<lsRows, lsEditions, lsAlias>>

Write(p, c) == DiskChanges([lsDisk EXCEPT ![p] = c])
MoveFile(p, q) == lsDisk[p] # LsNone /\ lsDisk[q] = LsNone /\ DiskChanges([lsDisk EXCEPT ![p] = LsNone, ![q] = lsDisk[p]])

-----------------------------------------------------------------------------
(* A scan: the walk, the files that are gone, and folder after folder.     *)

Start ==
    /\ lsScan.at = "idle" /\ lsLib.scans > 0 /\ lsLib' = [lsLib EXCEPT !.scans = @ - 1]
    /\ lsScan' = [NoScan EXCEPT !.at = "walk", !.todo = LsPaths, !.quiet = TRUE]
    /\ UNCHANGED <<lsDisk, lsRows, lsEditions, lsAlias, lsBefore>>

WalkDir ==
    /\ lsScan.at = "walk"
    /\ LET p == Min(lsScan.todo) IN
       lsScan' = [lsScan EXCEPT !.found[p] = lsDisk[p], !.todo = @ \ {p},
                                !.at = IF lsScan.todo = {p} THEN "gone" ELSE "walk"]
    /\ UNCHANGED <<lsLib, lsDisk, lsRows, lsEditions, lsAlias, lsBefore>>

Gone == {p \in LsPaths : Live(p) /\ lsDisk[p] = LsNone}
StatRows ==
    /\ lsScan.at = "gone"
    /\ lsScan' = [lsScan EXCEPT !.at = "mark", !.gone = Gone]
    /\ UNCHANGED <<lsLib, lsDisk, lsRows, lsEditions, lsAlias, lsBefore>>

MarkMissing_MutantWalk ==
    /\ lsScan.at = "mark"
    /\ lsRows' = [p \in LsPaths |-> IF Live(p) /\ lsScan.found[p] = LsNone /\ p \notin lsScan.gone
                                    THEN [lsRows[p] EXCEPT !.missing = TRUE] ELSE lsRows[p]]
    /\ lsScan' = [lsScan EXCEPT !.at = "next", !.todo = {p \in LsPaths : lsScan.found[p] # LsNone}]
    /\ UNCHANGED <<lsLib, lsDisk, lsEditions, lsAlias, lsBefore>>

MarkMissing ==
    /\ lsScan.at = "mark"
    /\ lsRows' = [p \in LsPaths |-> IF p \in lsScan.gone THEN [lsRows[p] EXCEPT !.missing = TRUE] ELSE lsRows[p]]
    /\ lsScan' = [lsScan EXCEPT !.at = "next", !.todo = {p \in LsPaths : lsScan.found[p] # LsNone}]
    /\ UNCHANGED <<lsLib, lsDisk, lsEditions, lsAlias, lsBefore>>

Group == LET first == Min(lsScan.todo) IN {p \in lsScan.todo : Folder(p) = Folder(first)}

(* fileUnchanged: the size and the times the walk saw, and the content there is now. *)
Unchanged(p) == Live(p) /\ lsRows[p].sha # LsNone /\ lsRows[p].stat = lsScan.found[p] /\ lsRows[p].sha = lsDisk[p]
Changed(group) == {p \in group : ~Unchanged(p)}
Skip ==
    /\ lsScan.at = "next" /\ lsScan.todo # {} /\ Changed(Group) = {}
    /\ lsScan' = [lsScan EXCEPT !.todo = @ \ Group]
    /\ UNCHANGED <<lsLib, lsDisk, lsRows, lsEditions, lsAlias, lsBefore>>

(* The files are read.  One that is gone by now is an error of its own, of the folder (whole), or of the scan (a book is
   opened once more to be hashed); a game is stored all the same, without a digest. *)
Probe ==
    LET wanted == IF Kind.whole /\ Changed(Group) # {} THEN Group ELSE Changed(Group)
        there == {p \in wanted : lsDisk[p] # LsNone}
        taken == IF Kind.keyed THEN there ELSE wanted
    IN /\ lsScan.at = "next" /\ lsScan.todo # {} /\ wanted # {}
       /\ \/ /\ taken # {} /\ (Kind.whole => taken = wanted)
             /\ lsScan' = [lsScan EXCEPT !.at = "store", !.taken = taken, !.errors = @ \/ taken # wanted,
                                         !.digest = [p \in LsPaths |-> IF p \in taken THEN lsDisk[p] ELSE LsNone]]
          \/ /\ taken # wanted /\ (taken = {} \/ Kind.whole)
             /\ lsScan' = [lsScan EXCEPT !.todo = @ \ Group, !.errors = TRUE]
          \/ /\ taken # wanted /\ ~Kind.grouped /\ lsScan' = [NoScan EXCEPT !.errors = TRUE]
    /\ UNCHANGED <<lsLib, lsDisk, lsRows, lsEditions, lsAlias, lsBefore>>

-----------------------------------------------------------------------------
(* The transaction of a folder.                                            *)

(* tx is what a transaction has read and written: the rows, editions and aliases, and the digests it was given. *)
KnownIn(tx, paths) == {tx.rows[p].ed : p \in {p \in paths : tx.rows[p].ed # 0}}
MovedIn(tx, paths) ==
    {tx.rows[p].ed : p \in {p \in LsPaths : tx.rows[p].missing /\ \E q \in paths : tx.rows[p].sha = tx.digest[q]}}

(* UpsertSourceWork and UpsertSourceWorkDigests: the works that may be meant, more than one of them is a conflict. *)
KnownWorks(tx, paths) == {tx.editions[e].work : e \in KnownIn(tx, paths)}
SourceWorks(tx, paths) ==
    IF ~Kind.keyed THEN {}
    ELSE IF KnownIn(tx, paths) # {} THEN KnownWorks(tx, paths) ELSE {tx.editions[e].work : e \in MovedIn(tx, paths)}
InWork(tx, works, title) == [tx EXCEPT !.refused = @ \/ Cardinality(works) > 1, !.work = IF works = {} THEN title ELSE Min(works)]

BySource_MutantPaths(tx, key, paths) == IF tx.alias[key] # 0 THEN {tx.alias[key]} ELSE KnownIn(tx, paths)

(* sourceEditionID: none, one or several editions; several are a conflict, and so is one that holds other files. *)
BySource(tx, key, paths) ==
    LET known == KnownIn(tx, paths)
        moved == MovedIn(tx, paths)
        Proven(ed) == \A p \in paths : tx.rows[p].ed = ed /\ tx.rows[p].sha \in {tx.digest[p], LsNone}
        Fits(ed) == /\ Cardinality(RowsOf(tx.rows, ed)) <= Cardinality(paths)
                    /\ tx.editions[ed].key # key => Cardinality(RowsOf(tx.rows, ed)) = Cardinality(paths)
        OnlyIf(ok, eds) == IF Cardinality(eds) = 1 /\ ~ok THEN LsPaths \cup {0} ELSE eds
    IN IF tx.alias[key] # 0 THEN OnlyIf(OfProvider(key) => RowsOf(tx.rows, tx.alias[key]) = paths, {tx.alias[key]})
       ELSE IF known # {} THEN OnlyIf(\A ed \in known : Fits(ed) /\ (tx.editions[ed].key # key => Proven(ed)), known)
       ELSE OnlyIf(\A ed \in moved : Fits(ed), moved)

(* A game is the file of its path, or one more file of the edition that its title has on the platform. *)
ByGame(tx, paths) ==
    IF KnownIn(tx, paths) # {} THEN KnownIn(tx, paths) ELSE {e \in DOMAIN tx.editions : tx.editions[e].work = tx.work}

(* upsertSourceEdition and upsertEdition: the edition of these files, its key and its alias. *)
UpsertEdition(tx, key, paths) ==
    LET eds == IF Kind.keyed THEN BySource(tx, key, paths) ELSE ByGame(tx, paths)
        ed == IF eds = {} THEN Len(tx.editions) + 1 ELSE CHOOSE e \in eds : TRUE
        rekeyed == Kind.keyed /\ ~OfProvider(tx.editions[ed].key) /\ ~OfProvider(key)
    IN IF tx.refused \/ Cardinality(eds) > 1 THEN [tx EXCEPT !.refused = TRUE]
       ELSE [tx EXCEPT !.editions = IF eds = {} THEN Append(@, [key |-> key, work |-> tx.work])
                                    ELSE IF rekeyed THEN [@ EXCEPT ![ed].key = key] ELSE @,
                       !.alias[key] = IF Kind.keyed /\ @ = 0 THEN ed ELSE @, !.edition = ed]

(* upsertFile: the row of the path, or the only row of the edition whose file has gone with this content and whose sampled
   hash says so, or a new row. *)
Relinkable(tx, p) ==
    {q \in LsPaths : /\ tx.rows[q].ed = tx.edition /\ tx.rows[q].missing /\ tx.rows[q].hash /\ lsDisk[q] = LsNone
                     /\ tx.rows[q].sha = tx.digest[p] /\ tx.digest[p] # LsNone}
UpsertFile(tx, p, stat, hash) ==
    LET row == [ed |-> tx.edition, sha |-> tx.digest[p], stat |-> stat, hash |-> hash, missing |-> FALSE]
        gone == IF hash THEN Relinkable(tx, p) ELSE {}
    IN IF tx.refused THEN tx
       ELSE [tx EXCEPT !.rows = [q \in LsPaths |-> IF q = p THEN row
                                                   ELSE IF tx.rows[p].ed = 0 /\ gone = {q} THEN NoRow ELSE @[q]]]

Opened(digest) == [rows |-> lsRows, editions |-> lsEditions, alias |-> lsAlias, digest |-> digest, work |-> 0, edition |-> 0,
                   refused |-> FALSE]

(* A folder that is one edition is stored as one unit, any other file by file, in the order of the walk. *)
Unit(p) == IF Kind.whole THEN lsScan.taken ELSE {p}
StoreFile(tx, p) ==
    UpsertFile(IF p = Min(Unit(p)) THEN UpsertEdition(tx, SourceKey(p), Unit(p)) ELSE tx, p, lsScan.found[p], TRUE)
InItsWork(tx, p) == InWork(tx, SourceWorks(tx, Unit(p)), Title(p))
Transaction ==
    LET stored[p \in 0..Cardinality(LsPaths)] ==
            IF p = 0 THEN InItsWork(Opened(lsScan.digest), Min(lsScan.taken))
            ELSE IF p \in lsScan.taken THEN StoreFile(stored[p - 1], p) ELSE stored[p - 1]
    IN stored[Cardinality(LsPaths)]

Handled == [lsScan EXCEPT !.at = "next", !.todo = @ \ Group, !.taken = {}, !.digest = NoScan.digest]
Store ==
    /\ lsScan.at = "store"
    /\ IF Transaction.refused
       THEN /\ lsScan' = IF Kind.aborts THEN [NoScan EXCEPT !.errors = TRUE, !.quiet = lsScan.quiet, !.whole = TRUE]
                         ELSE [Handled EXCEPT !.errors = TRUE]
            /\ UNCHANGED <<lsRows, lsEditions, lsAlias>>
       ELSE /\ lsRows' = Transaction.rows /\ lsEditions' = Transaction.editions /\ lsAlias' = Transaction.alias
            /\ lsScan' = Handled
    /\ UNCHANGED <<lsLib, lsDisk, lsBefore>>

Shown == lsScan.quiet /\ ~lsScan.errors
Finish ==
    /\ lsScan.at = "next" /\ lsScan.todo = {}
    /\ lsScan' = [NoScan EXCEPT !.errors = lsScan.errors, !.quiet = lsScan.quiet, !.whole = TRUE]
    /\ lsBefore' = IF Shown THEN [disk |-> lsDisk, rows |-> lsRows,
                                  moved |-> {c \in LsContents : \E p \in At(lsDisk, c) : IsKeptBy(lsDisk, c, lsRows[p].ed)}]
                   ELSE lsBefore
    /\ UNCHANGED <<lsLib, lsDisk, lsRows, lsEditions, lsAlias>>

(* The context is cancelled, or the server ends.                           *)
Cancel ==
    /\ lsScan.at # "idle" /\ lsScan' = [NoScan EXCEPT !.errors = TRUE]
    /\ UNCHANGED <<lsLib, lsDisk, lsRows, lsEditions, lsAlias, lsBefore>>

LsNext ==
    \/ \E p \in LsPaths : (\E c \in LsContents \cup {LsNone} : Write(p, c)) \/ \E q \in LsPaths : MoveFile(p, q)
    \/ Start \/ WalkDir \/ StatRows \/ MarkMissing \/ Skip \/ Probe \/ Store \/ Finish \/ Cancel

LsSpec == LsInit /\ [][LsNext]_lsVars

-----------------------------------------------------------------------------
(* Properties.                                                             *)

(* Rows and aliases name editions that exist, and only rows are missing. *)
LsTypeOK ==
    /\ lsDisk \in [LsPaths -> LsContents \cup {LsNone}] /\ lsAlias \in [Keys -> EdIds \cup {0}]
    /\ \A e \in EdIds : lsEditions[e].key \in Keys /\ lsEditions[e].work \in LsPaths
    /\ \A p \in LsPaths : lsRows[p].ed \in EdIds \cup {0} /\ (lsRows[p].ed = 0 => lsRows[p] = NoRow)

(* No move, copy or interrupted scan leaves an edition, and the progress that readers have in it, without a file.  Only
   the edition of an import can lose its files, to an edition that had the path before (see README). *)
EditionsHaveFiles == \A e \in EdIds : RowsOf(lsRows, e) # {} \/ OfProvider(lsEditions[e].key)

(* A scan that ends without an error, and under which the disk was still, leaves live rows for exactly the files there
   are, with their content, whatever interrupted scans and changes came before it (scan.go, reconcile.go). *)
ScanShowsDisk == lsScan.at = "idle" /\ lsScan.whole /\ Shown =>
    \A p \in LsPaths : (Live(p) <=> lsDisk[p] # LsNone) /\ (Live(p) => lsRows[p].sha = lsDisk[p])

(* Both of it, for the runs: neither files nor editions are lost between the disk and the rows. *)
LibraryShowsFiles == EditionsHaveFiles /\ ScanShowsDisk

(* Editions outlive the moves of their files: content that one source alone held when a scan last showed the disk, and
   that was only moved since, between scans, to sources that no other edition knew, and not imported, is in the same
   edition when the next scan shows the disk. *)
MovedKeepsEdition ==
    [][lsScan.at # "idle" /\ lsScan'.whole /\ lsBefore' # lsBefore => \A p, q \in LsPaths :
        /\ lsDisk[q] = lsBefore.disk[p] /\ lsDisk[q] \in lsBefore.moved /\ (Kind.keyed \/ Title(p) = Title(q))
        => lsRows[q].ed = lsBefore.rows[p].ed]_lsVars

=============================================================================
