--------------------------- MODULE PodcastService ---------------------------
(***************************************************************************)
(* Podcast subscriptions: subscribing, refreshing, downloading, retention, *)
(* unsubscribing and deleting the whole library (internal/podcast,         *)
(* store/podcasts.go).  The workers are the requests of the admin faces    *)
(* and the goroutines of RefreshAll.  A feed only grows: its version n has *)
(* the episodes 1..n, the larger the newer, and n is also its validator.   *)
(* All episodes have the same title, so that file names collide.           *)
(***************************************************************************)
EXTENDS Integers, FiniteSets, FiniteSetsExt

CONSTANTS PodFeeds, PodWorkers, PodNone,
          PodEpisodes,     \* how many episodes a feed may publish
          PodKeeps,        \* values of max_episodes
          PodMaxId,        \* bound on the row ids in use
          PodBudgets       \* records [feeds, starts, deletes, patches, crashes]: what happens, and to which feeds

PodIds == 1..PodMaxId
Guids == 1..PodEpisodes
Paths == PodIds \X (Guids \cup {0})       \* 0: the plain title, g: title-g
PodRows == [feed : PodFeeds, etag : 0..PodEpisodes, cover : BOOLEAN, auto : BOOLEAN, max : PodKeeps]

ASSUME PodAssumption ==
    /\ PodEpisodes \in Nat \ {0} /\ PodKeeps \subseteq Nat \ {0} /\ PodMaxId \in Nat
    /\ PodNone \notin PodWorkers \cup PodRows \cup Paths \cup (PodFeeds \X Guids)

VARIABLES podServer,    \* the feeds out there: their newest episode
          podRow,       \* podcasts: [feed, etag, cover, auto, max]
          podEp,        \* podcast_episodes: [at, feed, file]
          podFile,      \* files rows of downloads: "none", "present", "missing"
          podDisk,      \* the audio files: which episode of which feed they hold
          podCover,     \* the cover files
          podSlot,      \* Service.inflight
          podGate,      \* Service.lifecycleMu
          podJob,       \* what every worker is doing
          podBudget,
          podPast       \* history: "cut" (a crash or a failed purge), "patch", "gone" (rows deleted)

podStore == <<podRow, podEp, podFile>>
podWorld == <<podDisk, podCover>>
podLocks == <<podSlot, podGate>>
podVars == <<podServer, podStore, podWorld, podLocks, podJob, podBudget, podPast>>

NoEpisode == [at |-> "absent", feed |-> PodNone, file |-> PodNone]
Resting == [at |-> "idle", id |-> 0, row |-> PodNone, ver |-> 0, next |-> 0, left |-> {}, file |-> PodNone,
            failed |-> FALSE, own |-> {}, paths |-> {}, subscriber |-> FALSE]

Subscribed == {i \in PodIds : podRow[i] # PodNone}
Pending(i) == {g \in Guids : podEp[i][g].at = "pending"}
Kept(i) == {g \in Guids : podEp[i][g].at = "kept"}
Linked(p) == \E i \in PodIds : \E g \in Kept(i) : podEp[i][g].file = p
FilesOf(i) == {podEp[i][g].file : g \in Kept(i)}
(* INTEGER PRIMARY KEY: the next id is one more than the largest in use.   *)
NextId == 1 + (IF Subscribed = {} THEN 0 ELSE Max(Subscribed))

PodInit ==
    /\ podServer \in [PodFeeds -> {1}]
    /\ podRow = [i \in PodIds |-> PodNone]
    /\ podEp = [i \in PodIds |-> [g \in Guids |-> NoEpisode]]
    /\ podFile = [p \in Paths |-> "none"]
    /\ podDisk = [p \in Paths |-> PodNone]
    /\ podCover = {}
    /\ podSlot = {} /\ podGate = PodNone
    /\ podJob = [w \in PodWorkers |-> Resting]
    /\ podBudget \in PodBudgets
    /\ podPast = {}

Goto(w, at) == podJob' = [podJob EXCEPT ![w].at = at]
(* The deferred release, and the gate where the worker holds it.           *)
Leave(w) ==
    /\ podSlot' = podSlot \ podJob[w].own
    /\ podGate' = IF podGate = w THEN PodNone ELSE podGate
    /\ podJob' = [podJob EXCEPT ![w] = Resting]

NewEpisode(f) ==
    /\ podServer[f] < PodEpisodes
    /\ podServer' = [podServer EXCEPT ![f] = @ + 1]
    /\ UNCHANGED <<podStore, podWorld, podLocks, podJob, podBudget, podPast>>

Spend(kind) == podBudget[kind] > 0 /\ podBudget' = [podBudget EXCEPT ![kind] = @ - 1]

-----------------------------------------------------------------------------
(* Starting: subscribe, or refresh a row that was read before the slot.    *)

SubscribeFeed(w, f) ==
    /\ podJob[w].at = "idle" /\ Spend("starts") /\ f \in podBudget.feeds
    /\ \A i \in Subscribed : podRow[i].feed # f
    /\ \E keep \in PodKeeps, auto \in BOOLEAN :
          podJob' = [podJob EXCEPT ![w] = [Resting EXCEPT !.at = "insert", !.ver = podServer[f], !.subscriber = TRUE,
             !.row = [feed |-> f, etag |-> 0, cover |-> FALSE, auto |-> auto, max |-> keep]]]
    /\ UNCHANGED <<podServer, podStore, podWorld, podLocks, podPast>>

(* AddPodcast under the gate; feed_url is unique.                          *)
AddPodcast(w) ==
    /\ podJob[w].at = "insert" /\ podGate = PodNone
    /\ IF \E i \in Subscribed : podRow[i].feed = podJob[w].row.feed
       THEN Leave(w) /\ UNCHANGED podRow
       ELSE /\ NextId \in PodIds
            /\ podRow' = [podRow EXCEPT ![NextId] = podJob[w].row]
            /\ podJob' = [podJob EXCEPT ![w].at = "own", ![w].id = NextId]
            /\ podGate' = w /\ UNCHANGED podSlot
    /\ UNCHANGED <<podServer, podEp, podFile, podWorld, podBudget, podPast>>

Snapshot(w, i) ==
    /\ podJob[w].at = "idle" /\ i \in Subscribed /\ Spend("starts")
    /\ podJob' = [podJob EXCEPT ![w] = [Resting EXCEPT !.at = "own", !.id = i, !.row = podRow[i]]]
    /\ UNCHANGED <<podServer, podStore, podWorld, podLocks, podPast>>

(* acquire: a subscriber leaves the gate, a refresher goes on to fetch.    *)
AcquireSlot(w) ==
    /\ podJob[w].at = "own"
    /\ IF podJob[w].id \in podSlot
       THEN Leave(w)
       ELSE /\ podSlot' = podSlot \cup {podJob[w].id}
            /\ podJob' = [podJob EXCEPT ![w].own = {podJob[w].id}, ![w].at = IF podGate = w THEN "cover" ELSE "fetch",
                                        ![w].next = 1]
            /\ podGate' = IF podGate = w THEN PodNone ELSE podGate
    /\ UNCHANGED <<podServer, podStore, podWorld, podBudget, podPast>>

(* UpdatePodcastFetch: it finds no row once the podcast is gone.           *)
SaveEtag(i, etag) == podRow' = IF podRow[i] = PodNone THEN podRow ELSE [podRow EXCEPT ![i].etag = etag]

(* The validator of the snapshot goes out with the request.                *)
Unchanged304(row) == podServer[row.feed] = row.etag

Refresh(w) ==
    LET row == podJob[w].row IN
    /\ podJob[w].at = "fetch"
    /\ \/ SaveEtag(podJob[w].id, row.etag) /\ Leave(w)
       \/ /\ Unchanged304(row)
          /\ Goto(w, IF row.auto THEN "pending" ELSE "retain")
          /\ UNCHANGED <<podRow, podLocks>>
       \/ /\ ~Unchanged304(row)
          /\ podJob' = [podJob EXCEPT ![w].at = "cover", ![w].ver = podServer[row.feed]]
          /\ UNCHANGED <<podRow, podLocks>>
    /\ UNCHANGED <<podServer, podEp, podFile, podWorld, podBudget, podPast>>

(* refresh and applyFeed see after the fetch, and between the downloads    *)
(* and retention, that the request was cancelled: nothing is saved.        *)
Cancelled(w) ==
    /\ podJob[w].at \in {"fetch", "retain"} /\ Leave(w)
    /\ UNCHANGED <<podServer, podStore, podWorld, podBudget, podPast>>

SetPodcastCover(i) == IF podRow[i] = PodNone THEN podRow ELSE [podRow EXCEPT ![i].cover = TRUE]

(* fetchCover: the bytes, then cover_path if it was empty; best effort.    *)
FetchCover(w) ==
    LET i == podJob[w].id IN
    /\ podJob[w].at = "cover" /\ Goto(w, "upsert")
    /\ \/ /\ ~podJob[w].row.cover
          /\ podCover' = podCover \cup {i}
          /\ podRow' = SetPodcastCover(i)
       \/ UNCHANGED <<podCover, podRow>>
    /\ UNCHANGED <<podServer, podEp, podFile, podDisk, podLocks, podBudget, podPast>>

UpsertPodcastEpisode(ep, f) == [at |-> IF ep.at = "absent" THEN "pending" ELSE ep.at, feed |-> f, file |-> ep.file]

(* applyFeed upserts one episode after the other; the foreign key refuses  *)
(* a podcast that is gone, and the request may be cancelled.               *)
(* Mutant: goes on after an upsert failed.                                 *)
UpsertEpisode_MutantIgnores(w) ==
    LET j == podJob[w]
        known == podEp[j.id][j.next].at # "absent" IN
    /\ j.at = "upsert" /\ j.next <= j.ver
    /\ \/ /\ known \/ podRow[j.id] # PodNone
          /\ podEp' = [podEp EXCEPT ![j.id][j.next] = UpsertPodcastEpisode(@, j.row.feed)]
          /\ podJob' = [podJob EXCEPT ![w].next = @ + 1]
          /\ UNCHANGED podLocks
       \/ Goto(w, "retain") /\ UNCHANGED <<podEp, podLocks>>
    /\ UNCHANGED <<podServer, podRow, podFile, podWorld, podBudget, podPast>>

UpsertEpisode(w) ==
    LET j == podJob[w]
        known == podEp[j.id][j.next].at # "absent" IN
    /\ j.at = "upsert" /\ j.next <= j.ver
    /\ \/ /\ known \/ podRow[j.id] # PodNone
          /\ podEp' = [podEp EXCEPT ![j.id][j.next] = UpsertPodcastEpisode(@, j.row.feed)]
          /\ podJob' = [podJob EXCEPT ![w].next = @ + 1]
          /\ UNCHANGED podLocks
       \/ Leave(w) /\ UNCHANGED podEp
    /\ UNCHANGED <<podServer, podRow, podFile, podWorld, podBudget, podPast>>

Upserted(w) ==
    /\ podJob[w].at = "upsert" /\ podJob[w].next > podJob[w].ver
    /\ Goto(w, IF podJob[w].row.auto THEN "pending" ELSE "retain")
    /\ UNCHANGED <<podServer, podStore, podWorld, podLocks, podBudget, podPast>>

-----------------------------------------------------------------------------
(* Downloads: the newest max_episodes of the pending ones, the rest is seen. *)

ListPending(w) ==
    /\ podJob[w].at = "pending"
    /\ podJob' = [podJob EXCEPT ![w].at = "download", ![w].left = Pending(podJob[w].id), ![w].next = podJob[w].row.max]
    /\ UNCHANGED <<podServer, podStore, podWorld, podLocks, podBudget, podPast>>

PathFor(i, g) == IF \E h \in Kept(i) \ {g} : podEp[i][h].file = <<i, 0>> THEN <<i, g>> ELSE <<i, 0>>

(* This episode failed; the round goes on and reports it at its end.       *)
GiveUp(w) == podJob' = [podJob EXCEPT ![w].at = "download", ![w].left = @ \ {Max(@)}, ![w].next = @ - 1,
                                      ![w].file = PodNone, ![w].failed = TRUE]

(* One enclosure: fetched and published under its name, or failed.         *)
Download(w) ==
    LET j == podJob[w]
        g == Max(j.left)
        p == PathFor(j.id, g) IN
    /\ j.at = "download" /\ j.left # {} /\ j.next > 0
    /\ \/ /\ podDisk' = [podDisk EXCEPT ![p] = <<podEp[j.id][g].feed, g>>]
          /\ podJob' = [podJob EXCEPT ![w].at = "record", ![w].file = p]
       \/ GiveUp(w) /\ UNCHANGED podDisk
    /\ UNCHANGED <<podServer, podStore, podCover, podLocks, podBudget, podPast>>

InsertPodcastFile(p) == podFile' = [podFile EXCEPT ![p] = "present"]

(* InsertPodcastFile, which revives the row of the same path, or a failure *)
(* that removes the bytes again.                                           *)
InsertFile(w) ==
    LET p == podJob[w].file IN
    /\ podJob[w].at = "record"
    /\ \/ InsertPodcastFile(p) /\ Goto(w, "link") /\ UNCHANGED podDisk
       \/ podDisk' = [podDisk EXCEPT ![p] = PodNone] /\ GiveUp(w) /\ UNCHANGED podFile
    /\ UNCHANGED <<podServer, podRow, podEp, podCover, podLocks, podBudget, podPast>>

LinkEpisodeFile(w) ==
    LET j == podJob[w]
        g == Max(j.left) IN
    /\ j.at = "link"
    /\ \/ /\ podEp' = [podEp EXCEPT ![j.id][g].at = "kept", ![j.id][g].file = j.file]
          /\ podJob' = [podJob EXCEPT ![w].at = "download", ![w].left = @ \ {g}, ![w].next = @ - 1, ![w].file = PodNone]
          /\ UNCHANGED <<podFile, podDisk>>
       \/ /\ podFile' = [podFile EXCEPT ![j.file] = "none"]
          /\ podDisk' = [podDisk EXCEPT ![j.file] = PodNone]
          /\ GiveUp(w) /\ UNCHANGED podEp
    /\ UNCHANGED <<podServer, podRow, podCover, podLocks, podBudget, podPast>>

MarkSeen(w) ==
    LET j == podJob[w]
        g == Max(j.left) IN
    /\ j.at = "download" /\ j.left # {} /\ j.next = 0
    /\ podEp' = [podEp EXCEPT ![j.id][g].at = "seen"]
    /\ podJob' = [podJob EXCEPT ![w].left = @ \ {g}]
    /\ UNCHANGED <<podServer, podRow, podFile, podWorld, podLocks, podBudget, podPast>>

Downloaded(w) ==
    /\ podJob[w].at = "download" /\ podJob[w].left = {} /\ Goto(w, "retain")
    /\ UNCHANGED <<podServer, podStore, podWorld, podLocks, podBudget, podPast>>

-----------------------------------------------------------------------------
(* Retention: the file of the oldest goes first, its row follows.          *)

NewestEpisodes(S, n) == {g \in S : Cardinality({h \in S : h > g}) < n}

PlanRetention(w) ==
    LET kept == Kept(podJob[w].id) IN
    /\ podJob[w].at = "retain"
    /\ podJob' = [podJob EXCEPT ![w].at = "remove", ![w].left = kept \ NewestEpisodes(kept, podJob[w].row.max)]
    /\ UNCHANGED <<podServer, podStore, podWorld, podLocks, podBudget, podPast>>

RemoveOldest(w) ==
    LET j == podJob[w]
        p == podEp[j.id][Min(j.left)].file IN
    /\ j.at = "remove" /\ j.left # {}
    /\ \/ /\ podDisk' = [podDisk EXCEPT ![p] = PodNone]
          /\ podJob' = [podJob EXCEPT ![w].at = "purge", ![w].file = p]
          /\ UNCHANGED podLocks
       \/ Leave(w) /\ UNCHANGED podDisk
    /\ UNCHANGED <<podServer, podStore, podCover, podBudget, podPast>>

PurgeEpisode(w) ==
    LET j == podJob[w]
        g == Min(j.left) IN
    /\ j.at = "purge"
    /\ \/ /\ podFile' = [podFile EXCEPT ![j.file] = "missing"]
          /\ podEp' = [podEp EXCEPT ![j.id][g].at = "seen", ![j.id][g].file = PodNone]
          /\ podJob' = [podJob EXCEPT ![w].at = "remove", ![w].left = @ \ {g}, ![w].file = PodNone]
          /\ UNCHANGED <<podLocks, podPast>>
       \/ Leave(w) /\ podPast' = podPast \cup {"cut"} /\ UNCHANGED <<podFile, podEp>>
    /\ UNCHANGED <<podServer, podRow, podWorld, podBudget>>

(* The validator is saved last, and only when nothing failed.              *)
FinishRefresh(w) ==
    LET j == podJob[w] IN
    /\ j.at = "remove" /\ j.left = {}
    /\ IF j.failed THEN UNCHANGED podRow ELSE SaveEtag(j.id, IF j.ver = 0 THEN j.row.etag ELSE j.ver)
    /\ Leave(w)
    /\ UNCHANGED <<podServer, podEp, podFile, podWorld, podBudget, podPast>>

-----------------------------------------------------------------------------
(* Deleting one subscription, or the library with all of them: the slots,  *)
(* one transaction, then the files.                                        *)

TakeForDelete(w, ids) ==
    /\ podJob' = [podJob EXCEPT ![w] = [Resting EXCEPT !.at = "delete", !.own = ids]]
    /\ podSlot' = podSlot \cup ids

DeletePodcast(w, i) ==
    /\ podJob[w].at = "idle" /\ i \in Subscribed \ podSlot /\ Spend("deletes")
    /\ TakeForDelete(w, {i})
    /\ UNCHANGED <<podServer, podStore, podWorld, podGate, podPast>>

DeleteLibraryPodcasts(w) ==
    /\ podJob[w].at = "idle" /\ podGate = PodNone /\ Subscribed # {} /\ Subscribed \cap podSlot = {} /\ Spend("deletes")
    /\ TakeForDelete(w, Subscribed) /\ podGate' = w
    /\ UNCHANGED <<podServer, podStore, podWorld, podPast>>

DeleteWithFiles(ids, files) ==
    /\ podRow' = [i \in PodIds |-> IF i \in ids THEN PodNone ELSE podRow[i]]
    /\ podEp' = [i \in PodIds |-> IF i \in ids THEN [g \in Guids |-> NoEpisode] ELSE podEp[i]]
    /\ podFile' = [p \in Paths |-> IF p \in files THEN "none" ELSE podFile[p]]

(* FilesForPodcast and the transaction, both under the slots.              *)
DeleteRows(w) ==
    LET ids == podJob[w].own
        files == UNION {FilesOf(i) : i \in ids} IN
    /\ podJob[w].at = "delete"
    /\ DeleteWithFiles(ids, files)
    /\ podJob' = [podJob EXCEPT ![w].at = "clean", ![w].paths = files,
                                ![w].left = {i \in ids : podRow[i] # PodNone /\ podRow[i].cover}]
    /\ podPast' = podPast \cup {"gone"}
    /\ UNCHANGED <<podServer, podWorld, podLocks, podBudget>>

RemoveFiles(w) ==
    /\ podJob[w].at = "clean"
    /\ podDisk' = [p \in Paths |-> IF p \in podJob[w].paths THEN PodNone ELSE podDisk[p]]
    /\ podCover' = podCover \ podJob[w].left
    /\ Leave(w)
    /\ UNCHANGED <<podServer, podStore, podBudget, podPast>>

WithSettings(row, keep, auto) == [row EXCEPT !.max = keep, !.auto = auto]
PatchPodcast(i) ==
    /\ i \in Subscribed /\ Spend("patches")
    /\ \E keep \in PodKeeps, auto \in BOOLEAN : podRow' = [podRow EXCEPT ![i] = WithSettings(@, keep, auto)]
    /\ podPast' = podPast \cup {"patch"}
    /\ UNCHANGED <<podServer, podEp, podFile, podWorld, podLocks, podJob>>

(* The server dies and comes back: the database and the disk are left.     *)
PodCrash ==
    /\ Spend("crashes")
    /\ podSlot' = {} /\ podGate' = PodNone
    /\ podJob' = [w \in PodWorkers |-> Resting]
    /\ podPast' = podPast \cup {"cut"}
    /\ UNCHANGED <<podServer, podStore, podWorld>>

PodWork(w) ==
    \/ AddPodcast(w) \/ AcquireSlot(w) \/ Refresh(w) \/ FetchCover(w) \/ UpsertEpisode(w) \/ Upserted(w)
    \/ ListPending(w) \/ Download(w) \/ InsertFile(w) \/ LinkEpisodeFile(w) \/ MarkSeen(w) \/ Downloaded(w)
    \/ PlanRetention(w) \/ RemoveOldest(w) \/ PurgeEpisode(w) \/ FinishRefresh(w) \/ Cancelled(w)
    \/ DeleteRows(w) \/ RemoveFiles(w)

PodNext ==
    \/ \E f \in PodFeeds : NewEpisode(f) \/ \E w \in PodWorkers : SubscribeFeed(w, f)
    \/ \E i \in PodIds : PatchPodcast(i) \/ \E w \in PodWorkers : Snapshot(w, i) \/ DeletePodcast(w, i)
    \/ \E w \in PodWorkers : DeleteLibraryPodcasts(w) \/ PodWork(w)
    \/ PodCrash

PodSpec == PodInit /\ [][PodNext]_podVars

-----------------------------------------------------------------------------
(* Properties.                                                             *)

(* Every variable keeps its type, and ids stay within the number of feeds. *)
PodTypeOK ==
    /\ \A i \in Subscribed : podRow[i] \in PodRows
    /\ \A i \in PodIds, g \in Guids : podEp[i][g].at \in {"absent", "pending", "kept", "seen"}
    /\ podFile \in [Paths -> {"none", "present", "missing"}]
    /\ podCover \subseteq PodIds /\ podSlot \subseteq PodIds /\ podGate \in PodWorkers \cup {PodNone}
    /\ \A i \in PodIds, g \in Guids : (podEp[i][g].file # PodNone) <=> (podEp[i][g].at = "kept")

(* A downloaded episode has a live file row and its own audio on disk,     *)
(* though names collide and rows are revived; except while, or since a     *)
(* crash while, retention was removing it, which the next retention with   *)
(* the same setting completes.  The row may have another setting: it was   *)
(* changed, or it is a new row with an old id, for whose former row a      *)
(* refresh was waiting (podcast.go:174-186, download.go:60-186, 218-260).  *)
Overflowing(i, g) == g \in Kept(i) \ NewestEpisodes(Kept(i), podRow[i].max)
PodLinksHold == \A i \in Subscribed : \A g \in Kept(i) :
    /\ podFile[podEp[i][g].file] = "present"
    /\ \A h \in Kept(i) \ {g} : podEp[i][h].file # podEp[i][g].file
    /\ \/ podDisk[podEp[i][g].file] # PodNone /\ podDisk[podEp[i][g].file][2] = g
       \/ \E w \in PodWorkers : podJob[w].at = "purge" /\ podJob[w].id = i /\ podJob[w].file = podEp[i][g].file
       \/ "cut" \in podPast /\ (Overflowing(i, g) \/ podPast \cap {"patch", "gone"} # {})

(* Audio on disk that no episode links is in a worker's hands, unless the  *)
(* server died: unsubscribing leaves nothing behind (podcast.go:318-322).  *)
NoAudioOrphans == \A p \in Paths : podDisk[p] # PodNone /\ ~Linked(p) =>
    \/ "cut" \in podPast
    \/ \E w \in PodWorkers : p = podJob[w].file \/ p \in podJob[w].paths

(* The validator of a feed is only saved when all episodes of that version *)
(* were stored: a 304 never hides an episode, although refreshes send and  *)
(* write back validators they read before they owned the slot              *)
(* (podcast.go:223-274).  An id in use again after a deletion may break    *)
(* it: a refresh of the old row writes into the new one.                   *)
EtagCoversEpisodes == \A i \in Subscribed :
    "gone" \in podPast \/ \A g \in 1..podRow[i].etag : podEp[i][g].at # "absent"

(* The deletion of a library never takes the row of a subscription that is *)
(* still being made (podcast.go:166-171, 374-378).  The deletion of one    *)
(* podcast may, in the moment before the subscriber owns the slot.         *)
SubscribersKeepTheirRow == \A w, d \in PodWorkers :
    podJob[w].subscriber /\ podJob[w].at # "insert" /\ podJob[d].at = "delete" /\ podGate = d
        => podJob[w].id \notin podJob[d].own

(* An episode that was purged or passed over is never downloaded again     *)
(* while the subscription lasts (download.go:209-217).                     *)
HandledOnce == \A i \in PodIds, g \in Guids : podEp[i][g].at = "seen" => podEp'[i][g].at \in {"seen", "absent"}

(* A refresh that completed its retention leaves at most max_episodes      *)
(* downloads, by the setting it read, whatever failed before               *)
(* (download.go:218-260).                                                  *)
RetentionHolds == \A w \in PodWorkers :
    podJob[w].at = "remove" /\ podJob[w].left = {} => Cardinality(Kept(podJob[w].id)) <= podJob[w].row.max

(* All of it, for the runs: what the rows, the links, the disk and the     *)
(* validators say of a subscription is of the same episodes.               *)
SubscriptionsHold ==
    PodLinksHold /\ NoAudioOrphans /\ EtagCoversEpisodes /\ SubscribersKeepTheirRow /\ RetentionHolds
=============================================================================
