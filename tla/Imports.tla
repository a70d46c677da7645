------------------------------- MODULE Imports -------------------------------
(***************************************************************************)
(* Imports from other media servers (importer/): a snapshot of the foreign *)
(* database is read, the files it names are proved, and the result is      *)
(* published in one transaction, next to the scans of the same library     *)
(* and to other imports.  An item of the foreign server is a folder of an  *)
(* audiobook library (abs.go) or a file of a book library (kavita.go).     *)
(***************************************************************************)
EXTENDS LibraryScanner

CONSTANT ImCallers     \* importers that may run at once

VARIABLES imRuns,      \* caller -> the import it is about, or the last one
          imProgress,  \* progress of the foreign reader here: edition -> revision of its row
          imPlaylist,  \* editions on the reader's playlist of the foreign name
          imAccounts   \* accounts that have the reader's name

imVars == <<imRuns, imProgress, imPlaylist, imAccounts>>

NoRun == [at |-> "idle", source |-> << >>, unproven |-> {}, digest |-> [p \in LsPaths |-> LsNone]]

ImInit ==
    /\ LsInit
    /\ imRuns = [c \in ImCallers |-> NoRun]
    /\ imProgress = << >> /\ imPlaylist = {} /\ imAccounts = 0

-----------------------------------------------------------------------------
(* The plan of an import: one read transaction of the foreign database,    *)
(* which finds each item where its own server last saw it, and a proof of  *)
(* what each file holds, file by file.                                     *)

Sources == {s \in [lsLib.items -> {Folder(p) : p \in LsPaths}] : \A i, j \in lsLib.items : s[i] = s[j] => i = j}
Import(c) ==
    /\ imRuns[c].at \in {"idle", "published", "refused"}
    /\ lsLib.imports > 0 /\ lsLib' = [lsLib EXCEPT !.imports = @ - 1]
    /\ \E s \in Sources : imRuns' = [imRuns EXCEPT ![c] = [NoRun EXCEPT !.at = "prove", !.source = s,
           !.unproven = {p \in LsPaths : \E i \in lsLib.items : Folder(p) = s[i]}]]
    /\ UNCHANGED <<lsDisk, lsRows, lsEditions, lsAlias, lsScan, lsBefore, imProgress, imPlaylist, imAccounts>>

(* A file that is gone is left out of the plan.                            *)
SnapshotFile(c) ==
    /\ imRuns[c].at = "prove"
    /\ LET p == Min(imRuns[c].unproven) IN
       imRuns' = [imRuns EXCEPT ![c].digest[p] = lsDisk[p], ![c].unproven = @ \ {p},
                                ![c].at = IF imRuns[c].unproven = {p} THEN "ready" ELSE @]
    /\ UNCHANGED <<lsVars, imProgress, imPlaylist, imAccounts>>

(* A dry run only shows its plan; a file that changes while it is read, or an error of a database, ends an import. *)
Abandon(c) ==
    /\ imRuns[c].at \in {"prove", "ready"} /\ imRuns' = [imRuns EXCEPT ![c] = NoRun]
    /\ UNCHANGED <<lsVars, imProgress, imPlaylist, imAccounts>>

-----------------------------------------------------------------------------
(* Publication.                                                            *)

PlannedFiles(run, i) == {p \in LsPaths : Folder(p) = run.source[i] /\ run.digest[p] # LsNone}
PlannedItems(run) == {i \in DOMAIN run.source : PlannedFiles(run, i) # {}}

(* A file must still be what was proved.  The live row of this edition is kept when nothing contradicts it. *)
ApplyFile_MutantTrusts(tx, p) ==
    LET row == tx.rows[p] IN
    IF tx.refused \/ row.ed \notin {0, tx.edition} THEN [tx EXCEPT !.refused = TRUE]
    ELSE IF row.ed # 0 /\ ~row.missing /\ row.sha \in {tx.digest[p], LsNone} THEN tx
    ELSE UpsertFile(tx, p, tx.digest[p], FALSE)

ApplyFile(tx, p) ==
    LET row == tx.rows[p] IN
    IF tx.refused \/ lsDisk[p] # tx.digest[p] \/ row.ed \notin {0, tx.edition} THEN [tx EXCEPT !.refused = TRUE]
    ELSE IF row.ed # 0 /\ ~row.missing /\ row.sha = tx.digest[p] THEN tx
    ELSE IF row.ed # 0 /\ ~row.missing /\ row.sha = LsNone THEN [tx EXCEPT !.rows[p].sha = tx.digest[p], !.rows[p].stat = lsDisk[p]]
    ELSE UpsertFile(tx, p, lsDisk[p], FALSE)

PublishItem(run, tx, i) ==
    LET paths == PlannedFiles(run, i)
        applied[p \in 0..Cardinality(LsPaths)] ==
            IF p = 0 THEN UpsertEdition(InWork(tx, KnownWorks(tx, paths), Title(Min(paths))), 0 - i, paths)
            ELSE IF p \in paths THEN ApplyFile(applied[p - 1], p) ELSE applied[p - 1]
    IN applied[Cardinality(LsPaths)]
Published(run) ==
    LET published[i \in 0..Cardinality(LsPaths)] ==
            IF i = 0 THEN Opened(run.digest)
            ELSE IF i \in PlannedItems(run) THEN PublishItem(run, published[i - 1], i) ELSE published[i - 1]
    IN published[Cardinality(LsPaths)]

(* A reader gets an account unless there is one of the name, and progress is written again, one revision further. *)
ReadersAccount == IF imAccounts = 0 THEN 1 ELSE imAccounts
Republished(known) == [e \in DOMAIN imProgress \cup known |->
    (IF e \in DOMAIN imProgress THEN imProgress[e] ELSE 0) + (IF e \in known THEN 1 ELSE 0)]

(* The whole import is one transaction: editions, files, the account, progress and the playlist, where an edition is once. *)
Publish(c) ==
    LET run == imRuns[c]
        tx == Published(run)
        known == {tx.alias[0 - i] : i \in PlannedItems(run)}
    IN /\ run.at = "ready"
       /\ IF tx.refused
          THEN /\ imRuns' = [imRuns EXCEPT ![c].at = "refused"]
               /\ UNCHANGED <<lsRows, lsEditions, lsAlias, lsBefore, imProgress, imPlaylist, imAccounts>>
          ELSE /\ imRuns' = [imRuns EXCEPT ![c].at = "published"]
               /\ lsRows' = tx.rows /\ lsEditions' = tx.editions /\ lsAlias' = tx.alias
               /\ lsBefore' = [lsBefore EXCEPT !.moved = @ \ {run.digest[p] : p \in LsPaths}]
               /\ imProgress' = Republished(known)
               /\ imPlaylist' = imPlaylist \cup known /\ imAccounts' = ReadersAccount
    /\ UNCHANGED <<lsLib, lsDisk, lsScan>>

ImNext ==
    \/ LsNext /\ UNCHANGED imVars
    \/ \E c \in ImCallers : Import(c) \/ SnapshotFile(c) \/ Abandon(c) \/ Publish(c)

ImSpec == ImInit /\ [][ImNext]_<<lsVars, imVars>>

-----------------------------------------------------------------------------
(* Properties.                                                             *)

(* Progress and playlists name editions that exist, of the one account there is for the foreign reader: an import that is
   refused late takes all of it back. *)
ImTypeOK ==
    /\ \A c \in ImCallers : imRuns[c].digest \in [LsPaths -> LsContents \cup {LsNone}]
    /\ DOMAIN imProgress = imPlaylist /\ imPlaylist \subseteq EdIds
    /\ imAccounts <= 1 /\ (imPlaylist # {} => imAccounts = 1)

(* What an import publishes is what is on the disk at that moment, although it was proved long before: the files of an item
   are live files of its edition, with the content they have, they are all of its files when the item or one of the files
   was known, and no other edition loses a file (abs.go, "media identity and stat revalidated before publication"). *)
PublishedAsProven ==
    [][\A c \in ImCallers : imRuns[c].at = "ready" /\ imRuns'[c].at = "published" =>
        /\ \A i \in PlannedItems(imRuns[c]) :
            LET files == PlannedFiles(imRuns[c], i) IN
            /\ \A p \in files : lsRows'[p].ed = lsAlias'[0 - i] /\ ~lsRows'[p].missing /\ lsRows'[p].sha = lsDisk[p]
            /\ lsAlias[0 - i] # 0 \/ (\E p \in files : lsRows[p].ed # 0) => RowsOf(lsRows', lsAlias'[0 - i]) = files
        /\ \A p \in LsPaths : lsRows[p].ed # 0 => lsRows'[p].ed = lsRows[p].ed]_<<lsVars, imVars>>

=============================================================================
