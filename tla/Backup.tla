------------------------------- MODULE Backup -------------------------------
(***************************************************************************)
(* The backup command beside a running server (store/backup.go,            *)
(* assets/assets.go): two file locks, a stage that is renamed into a       *)
(* generation, pruning, and crashes in between.  Cover writers are the     *)
(* scanner and the podcast service, which take the covers lock, and the    *)
(* metadata match, which does not (api/core/providers.go:582).             *)
(***************************************************************************)
EXTENDS Integers, FiniteSets

CONSTANTS BkWorks, BkPodcasts,   \* what may have a cover
          BkProcs,        \* backup processes
          BkKeep,         \* -keep
          BkMaxRuns,      \* bound on the backups that are started
          BkMaxWrites,    \* bound on the cover writes and removals
          BkMaxCrashes,
          BkLegacy        \* whether a backup of the old layout is there

ASSUME BkAssumption ==
    /\ BkKeep \in Nat \ {0} /\ BkMaxRuns \in Nat /\ BkMaxWrites \in Nat
    /\ BkWorks \cap BkPodcasts = {} /\ "free" \notin BkProcs   \* their covers have names of their own
    /\ \A name \in {"none", "temp"} : name \notin BkWorks \cup BkPodcasts

BkItems == BkWorks \cup BkPodcasts

VARIABLES bkRef,      \* items whose row names a cover, in the database
          bkCover,    \* cover files
          bkPending,  \* items whose row is gone and whose cover is to be removed
          bkTemp,     \* of the metadata match: "none", "temp", or the work it saved a cover for
          bkLocked,   \* holder of .backup.lock, or "free"
          bkCovers,   \* holder of .covers.lock, or "free"
          bkProc,     \* per process: [at, stage, db, left, copied]
          bkStages,   \* stages on disk
          bkGens,     \* published generations: [at, db, covers]
          bkOld,      \* "db" and "covers" of the old layout
          bkRuns, bkWrites, bkCrashes

bkServer == <<bkRef, bkCover, bkPending, bkTemp>>
bkDisk == <<bkStages, bkGens, bkOld>>
bkVars == <<bkServer, bkLocked, bkCovers, bkProc, bkDisk, bkRuns, bkWrites, bkCrashes>>

BkIdle == [at |-> "idle", stage |-> 0, db |-> {}, left |-> {}, copied |-> {}]

BkInit ==
    /\ bkRef = {} /\ bkCover = {} /\ bkPending = {} /\ bkTemp = "none"
    /\ bkLocked = "free" /\ bkCovers = "free"
    /\ bkProc = [p \in BkProcs |-> BkIdle]
    /\ bkStages = {} /\ bkGens = {}
    /\ bkOld = IF BkLegacy THEN {"db", "covers"} ELSE {}
    /\ bkRuns = 0 /\ bkWrites = 0 /\ bkCrashes = 0

-----------------------------------------------------------------------------
(* The server's side of the covers directory.                              *)

Writes == bkWrites < BkMaxWrites /\ bkWrites' = bkWrites + 1

(* ensureCover, fetchCover: file and row under the shared lock.            *)
WriteCover(i) ==
    /\ i \notin bkRef \cup bkPending /\ bkCovers = "free" /\ Writes
    /\ bkCover' = bkCover \cup {i} /\ bkRef' = bkRef \cup {i}
    /\ UNCHANGED <<bkPending, bkTemp, bkLocked, bkCovers, bkProc, bkDisk, bkRuns, bkCrashes>>

(* downloadCover: a temporary file, renamed if there is no cover; the row  *)
(* follows.  None of it takes the lock.                                    *)
MatchTemp ==
    /\ bkTemp = "none" /\ Writes /\ bkTemp' = "temp"
    /\ UNCHANGED <<bkRef, bkCover, bkPending, bkLocked, bkCovers, bkProc, bkDisk, bkRuns, bkCrashes>>
MatchPublish(i) ==
    /\ bkTemp = "temp" /\ i \in BkWorks
    /\ bkTemp' = i /\ bkCover' = bkCover \cup {i}
    /\ UNCHANGED <<bkRef, bkPending, bkLocked, bkCovers, bkProc, bkDisk, bkRuns, bkWrites, bkCrashes>>
(* The temporary file is removed; or the row is not written and the file   *)
(* stays.                                                                  *)
MatchFails ==
    /\ bkTemp # "none" /\ bkTemp' = "none"
    /\ UNCHANGED <<bkRef, bkCover, bkPending, bkLocked, bkCovers, bkProc, bkDisk, bkRuns, bkWrites, bkCrashes>>
MatchCommit ==
    /\ bkTemp \in BkWorks /\ bkTemp' = "none"
    /\ bkRef' = bkRef \cup {bkTemp}
    /\ UNCHANGED <<bkCover, bkPending, bkLocked, bkCovers, bkProc, bkDisk, bkRuns, bkWrites, bkCrashes>>

(* DeletePodcast: the row first, the file later, under the shared lock.    *)
DeleteCoveredRow(i) ==
    /\ i \in bkRef \cap BkPodcasts /\ Writes
    /\ bkRef' = bkRef \ {i} /\ bkPending' = bkPending \cup {i}
    /\ UNCHANGED <<bkCover, bkTemp, bkLocked, bkCovers, bkProc, bkDisk, bkRuns, bkCrashes>>
(* Mutant: the file goes without the lock.                                 *)
RemoveCover_MutantUnlocked(i) ==
    /\ i \in bkPending
    /\ bkCover' = bkCover \ {i} /\ bkPending' = bkPending \ {i}
    /\ UNCHANGED <<bkRef, bkTemp, bkLocked, bkCovers, bkProc, bkDisk, bkRuns, bkWrites, bkCrashes>>
RemoveCover(i) ==
    /\ i \in bkPending /\ bkCovers = "free"
    /\ bkCover' = bkCover \ {i} /\ bkPending' = bkPending \ {i}
    /\ UNCHANGED <<bkRef, bkTemp, bkLocked, bkCovers, bkProc, bkDisk, bkRuns, bkWrites, bkCrashes>>

-----------------------------------------------------------------------------
(* Snapshot.                                                               *)

BkGo(p, from, to) == bkProc[p].at = from /\ bkProc' = [bkProc EXCEPT ![p].at = to]

WithBackupLock(p) ==
    /\ bkLocked = "free" /\ bkRuns < BkMaxRuns
    /\ BkGo(p, "idle", "clean") /\ bkLocked' = p /\ bkRuns' = bkRuns + 1
    /\ UNCHANGED <<bkServer, bkCovers, bkDisk, bkWrites, bkCrashes>>

(* Stages of backups that were killed: their deferred removal never ran.   *)
CleanupBackupStages(p) ==
    /\ BkGo(p, "clean", "lock") /\ bkStages' = {}
    /\ UNCHANGED <<bkServer, bkLocked, bkCovers, bkGens, bkOld, bkRuns, bkWrites, bkCrashes>>

WithCoversLock(p) ==
    /\ bkCovers = "free" /\ bkCovers' = p
    /\ bkProc[p].at = "lock"
    /\ bkProc' = [bkProc EXCEPT ![p].at = "vacuum", ![p].stage = bkRuns]
    /\ bkStages' = bkStages \cup {bkRuns}
    /\ UNCHANGED <<bkServer, bkLocked, bkGens, bkOld, bkRuns, bkWrites, bkCrashes>>

(* VACUUM INTO: one point in time of the database.                         *)
BackupTo(p) ==
    /\ bkProc[p].at = "vacuum"
    /\ bkProc' = [bkProc EXCEPT ![p].at = "list", ![p].db = bkRef]
    /\ UNCHANGED <<bkServer, bkLocked, bkCovers, bkDisk, bkRuns, bkWrites, bkCrashes>>

Unlock(p) ==
    /\ bkLocked' = "free" /\ bkCovers' = IF bkCovers = p THEN "free" ELSE bkCovers
    /\ bkProc' = [bkProc EXCEPT ![p] = BkIdle]

ListCovers(p) ==
    /\ bkProc[p].at = "list"
    /\ bkProc' = [bkProc EXCEPT ![p].at = "copy", ![p].left = bkCover \cup ({bkTemp} \cap {"temp"})]
    /\ UNCHANGED <<bkServer, bkLocked, bkCovers, bkDisk, bkRuns, bkWrites, bkCrashes>>

(* copyTree, entry by entry: what was listed and is gone fails the backup, *)
(* and the deferred removal takes the stage with it.                       *)
Here(e) == IF e = "temp" THEN bkTemp = "temp" ELSE e \in bkCover
CopyEntry(p) ==
    /\ bkProc[p].at = "copy"
    /\ \E e \in bkProc[p].left :
          \/ /\ Here(e)
             /\ bkProc' = [bkProc EXCEPT ![p].left = @ \ {e}, ![p].copied = @ \cup {e}]
             /\ UNCHANGED <<bkLocked, bkCovers, bkStages>>
          \/ ~Here(e) /\ Unlock(p) /\ bkStages' = bkStages \ {bkProc[p].stage}
    /\ UNCHANGED <<bkServer, bkGens, bkOld, bkRuns, bkWrites, bkCrashes>>

PublishGeneration(p) ==
    /\ bkProc[p].left = {} /\ BkGo(p, "copy", "prune")
    /\ bkGens' = bkGens \cup {[at |-> bkProc[p].stage, db |-> bkProc[p].db, covers |-> bkProc[p].copied]}
    /\ bkStages' = bkStages \ {bkProc[p].stage}
    /\ UNCHANGED <<bkServer, bkLocked, bkCovers, bkOld, bkRuns, bkWrites, bkCrashes>>

(* pruneBackups removes one candidate after the other, oldest first, and a *)
(* kill in the middle leaves part of it: its covers go first here.  The    *)
(* old layout counts, and its shared covers go with its last database.     *)
Candidates == {g.at : g \in bkGens} \cup {0 : o \in bkOld \cap {"db"}}
(* Mutant: the youngest goes first.                                        *)
Oldest_MutantNewest == CHOOSE c \in Candidates : \A d \in Candidates : c >= d
Oldest == CHOOSE c \in Candidates : \A d \in Candidates : c <= d
PruneBackups(p) ==
    /\ bkProc[p].at = "prune"
    /\ IF Cardinality(Candidates) > BkKeep
       THEN /\ \/ bkGens' = {g \in bkGens : g.at # Oldest}
               \/ bkGens' = {[g EXCEPT !.covers = IF g.at = Oldest THEN {} ELSE @] : g \in bkGens}
            /\ bkOld' = IF Oldest = 0 THEN bkOld \ {"db"} ELSE bkOld
            /\ UNCHANGED <<bkLocked, bkCovers, bkProc>>
       ELSE /\ bkOld' = IF "db" \in bkOld THEN bkOld ELSE {}
            /\ Unlock(p) /\ UNCHANGED bkGens
    /\ UNCHANGED <<bkServer, bkStages, bkRuns, bkWrites, bkCrashes>>

(* A backup process is killed: the kernel drops its locks.                 *)
Kill(p) ==
    /\ bkProc[p].at # "idle" /\ bkCrashes < BkMaxCrashes /\ bkCrashes' = bkCrashes + 1
    /\ Unlock(p)
    /\ UNCHANGED <<bkServer, bkDisk, bkRuns, bkWrites>>

BkNext ==
    \/ \E i \in BkItems : WriteCover(i) \/ MatchPublish(i) \/ DeleteCoveredRow(i) \/ RemoveCover(i)
    \/ MatchTemp \/ MatchFails \/ MatchCommit
    \/ \E p \in BkProcs : \/ WithBackupLock(p) \/ CleanupBackupStages(p) \/ WithCoversLock(p) \/ BackupTo(p) \/ ListCovers(p)
                          \/ CopyEntry(p) \/ PublishGeneration(p) \/ PruneBackups(p) \/ Kill(p)

BkSpec == BkInit /\ [][BkNext]_bkVars

-----------------------------------------------------------------------------
(* Properties.                                                             *)

(* Every variable keeps its type; the covers lock is taken after the other. *)
BkTypeOK ==
    /\ bkRef \subseteq BkItems /\ bkCover \subseteq BkItems /\ bkPending \subseteq BkItems
    /\ bkTemp \in {"none", "temp"} \cup BkWorks
    /\ bkLocked \in BkProcs \cup {"free"} /\ bkCovers \in {bkLocked, "free"}
    /\ bkStages \subseteq 1..BkMaxRuns /\ bkOld \subseteq {"db", "covers"}

(* A published generation restores by itself: what its database names is   *)
(* among its covers, except in one that pruning has begun to remove, which *)
(* as many newer ones outlive as are to be kept (README.md:126-137,        *)
(* assets.go:13-19).                                                       *)
Newer(g) == {h \in bkGens : h.at > g.at}
GenerationsSelfContained == \A g \in bkGens : g.db \subseteq g.covers \/ Cardinality(Newer(g)) >= BkKeep

(* Nothing is lost for good while backups are killed: at most one stage    *)
(* and one generation are there beyond the budget (backup.go:102-106).     *)
LeftoversBounded ==
    /\ Cardinality(bkStages) <= 1
    /\ Cardinality(Candidates) <= BkKeep + 1 + bkCrashes

(* Pruning removes no generation before as many newer ones as are to be    *)
(* kept are published, and the covers of the old layout stay until its     *)
(* last database has gone (backup.go:220-292).                             *)
NewestAreKept ==
    /\ \A g \in bkGens \ bkGens' : Cardinality(Newer(g)) >= BkKeep
    /\ "db" \in bkOld' => "covers" \in bkOld'

(* Both of it, for the runs: the generations that restore are enough, and  *)
(* what killed backups left behind does not add up.                        *)
GenerationsHold == GenerationsSelfContained /\ LeftoversBounded

=============================================================================
