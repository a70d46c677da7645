------------------------------- MODULE Metadata -------------------------------
(***************************************************************************)
(* Works and what is known of them: editions are moved between works       *)
(* (store/linking.go) and scanned while metadata from providers is applied *)
(* (core/providers.go), by a request or by the refresh of a library, whose *)
(* progress is streamed.  Everything is applied to the id of a work that   *)
(* was read before the providers answered.                                 *)
(***************************************************************************)
EXTENDS Integers, Sequences, FiniteSets, FiniteSetsExt

CONSTANTS MtEditions, MtTitles,   \* an edition is also a title: the one of the work it is split to
          MtMatches, MtRefresh,   \* requests that apply a match, and the refresh, which does so work after work
          MtStreams, MtChannel,   \* subscribers of the refresh, and the events that wait for one of them at most
          MtMaxId, MtMaxSteps

ASSUME MtAssumption == MtRefresh \notin MtMatches /\ MtChannel \in Nat \ {0} /\ MtMaxId \in Nat /\ MtMaxSteps \in Nat

VARIABLES mtWorks,     \* id -> [title, described, cover]
          mtEditions,  \* edition -> its work, 0 for one that is not known
          mtChapters,  \* edition -> the chapters of its files: "generic", "provider" or "scanned"
          mtPictures,  \* ids that have a file in the covers directory
          mtSkips,     \* ids that the matching inbox leaves out
          mtApply,     \* requests and the refresh: what each is about to apply
          mtRun,       \* the refresh: [status, inbox]
          mtStreams,   \* subscriber -> [on: whether it is subscribed, queue, ended]
          mtSteps      \* requests and scans so far

mtVars == <<mtWorks, mtEditions, mtChapters, mtPictures, mtSkips, mtApply, mtRun, mtStreams, mtSteps>>
mtRows == <<mtWorks, mtEditions, mtChapters, mtPictures, mtSkips>>

Appliers == MtMatches \cup {MtRefresh}
NoApply == [at |-> "idle", id |-> 0, chapters |-> {}]
NoStream == [on |-> FALSE, queue |-> << >>, ended |-> FALSE]

MtInit ==
    /\ mtWorks = [i \in {} |-> 0] /\ mtEditions = [e \in MtEditions |-> 0]
    /\ mtChapters = [e \in MtEditions |-> "generic"] /\ mtPictures = {} /\ mtSkips = {}
    /\ mtApply = [a \in Appliers |-> NoApply] /\ mtRun = [status |-> "none", inbox |-> {}]
    /\ mtStreams = [s \in MtStreams |-> NoStream] /\ mtSteps = 0

Counts == mtSteps < MtMaxSteps /\ mtSteps' = mtSteps + 1

-----------------------------------------------------------------------------
(* Works and editions.                                                     *)

NewWork(title) == [title |-> title, described |-> FALSE, cover |-> FALSE]
Titled(title) == {i \in DOMAIN mtWorks : mtWorks[i].title = title}
FreeId == Max(DOMAIN mtWorks \cup {0}) + 1
EditionsOf(w) == {e \in MtEditions : mtEditions[e] = w}

(* ensureWorkInLibrary or upsertWork, and moveEditionToWork: a work that loses its last edition goes. *)
Place_MutantStays(e, w, title) ==
    /\ mtEditions' = [mtEditions EXCEPT ![e] = w]
    /\ mtWorks' = [i \in DOMAIN mtWorks \cup {w} |-> IF i \in DOMAIN mtWorks THEN mtWorks[i] ELSE NewWork(title)]

Place(e, w, title) ==
    LET left == IF EditionsOf(mtEditions[e]) \subseteq {e} THEN {mtEditions[e]} \ {w} ELSE {} IN
    /\ mtEditions' = [mtEditions EXCEPT ![e] = w]
    /\ mtWorks' = [i \in (DOMAIN mtWorks \cup {w}) \ left |-> IF i \in DOMAIN mtWorks THEN mtWorks[i] ELSE NewWork(title)]

WorkFor(e, title) ==
    \E w \in 1..MtMaxId : w \in (IF Titled(title) # {} THEN Titled(title) ELSE {FreeId}) /\ Place(e, w, title)

(* A scan finds an edition under a title; or reads the chapters that its files have by now. *)
ScanNew(e, title) ==
    /\ Counts /\ mtEditions[e] = 0 /\ WorkFor(e, title)
    /\ UNCHANGED <<mtChapters, mtPictures, mtSkips, mtApply, mtRun, mtStreams>>
ScanChapters(e) ==
    /\ Counts /\ mtEditions[e] # 0 /\ mtChapters' = [mtChapters EXCEPT ![e] = "scanned"]
    /\ UNCHANGED <<mtWorks, mtEditions, mtPictures, mtSkips, mtApply, mtRun, mtStreams>>

MoveEditionToWork(e, w) ==
    /\ Counts /\ mtEditions[e] # 0 /\ w \in DOMAIN mtWorks /\ Place(e, w, e)
    /\ UNCHANGED <<mtChapters, mtPictures, mtSkips, mtApply, mtRun, mtStreams>>
SplitEditionToNewWork(e) ==
    /\ Counts /\ mtEditions[e] # 0 /\ WorkFor(e, e)
    /\ UNCHANGED <<mtChapters, mtPictures, mtSkips, mtApply, mtRun, mtStreams>>

(* The picture of the work that goes stays in the covers directory, under its id. *)
MergeWorks(source, target) ==
    /\ Counts /\ source # target /\ {source, target} \subseteq DOMAIN mtWorks
    /\ mtEditions' = [e \in MtEditions |-> IF mtEditions[e] = source THEN target ELSE mtEditions[e]]
    /\ mtWorks' = [i \in DOMAIN mtWorks \ {source} |-> mtWorks[i]]
    /\ UNCHANGED <<mtChapters, mtPictures, mtSkips, mtApply, mtRun, mtStreams>>

SkipWork(w) ==
    /\ Counts /\ w \in DOMAIN mtWorks /\ mtSkips' = mtSkips \cup {w}
    /\ UNCHANGED <<mtWorks, mtEditions, mtChapters, mtPictures, mtApply, mtRun, mtStreams>>

-----------------------------------------------------------------------------
(* Events of a refresh.                                                    *)

(* A full channel misses an event, but never the last one: an older one makes room. *)
PublishSnapshot(streams, event) ==
    [s \in MtStreams |-> IF streams[s].on /\ Len(streams[s].queue) < MtChannel
                         THEN [streams[s] EXCEPT !.queue = Append(@, event)] ELSE streams[s]]
Finished_MutantDrops(streams) == PublishSnapshot(streams, "end")
Finished(streams) ==
    [s \in MtStreams |-> IF streams[s].on
                         THEN [streams[s] EXCEPT !.queue = Append(IF Len(@) < MtChannel THEN @ ELSE Tail(@), "end")] ELSE streams[s]]

Subscribe(s) ==
    /\ ~mtStreams[s].on /\ ~mtStreams[s].ended /\ mtRun.status # "none"
    /\ mtStreams' = [mtStreams EXCEPT ![s] = [NoStream EXCEPT !.on = TRUE,
                         !.queue = <<IF mtRun.status = "running" THEN "running" ELSE "end">>]]
    /\ UNCHANGED <<mtRows, mtApply, mtRun, mtSteps>>
Receive(s) ==
    /\ mtStreams[s].on /\ mtStreams[s].queue # << >>
    /\ LET k == mtStreams[s] IN
       mtStreams' = [mtStreams EXCEPT ![s] = IF Head(k.queue) = "end" THEN [NoStream EXCEPT !.ended = TRUE]
                                             ELSE [k EXCEPT !.queue = Tail(k.queue)]]
    /\ UNCHANGED <<mtRows, mtApply, mtRun, mtSteps>>

-----------------------------------------------------------------------------
(* A refresh, and what is applied by it or by a request.                   *)

(* Works without a description, as they are now; a subscriber of an earlier refresh has its end and leaves. *)
RefreshMeta ==
    /\ mtRun.status # "running" /\ Counts
    /\ mtRun' = [status |-> "running", inbox |-> {w \in DOMAIN mtWorks : ~mtWorks[w].described /\ w \notin mtSkips}]
    /\ mtStreams' = [s \in MtStreams |-> IF mtStreams[s].on THEN NoStream ELSE mtStreams[s]]
    /\ UNCHANGED <<mtRows, mtApply>>

(* The work is read; providers disagree or fail, or all answer and there is one candidate alike in title. *)
TakeWork ==
    /\ mtRun.status = "running" /\ mtApply[MtRefresh].at = "idle" /\ mtRun.inbox # {}
    /\ LET w == Min(mtRun.inbox) IN
       /\ mtRun' = [mtRun EXCEPT !.inbox = @ \ {w}]
       /\ mtStreams' = IF w \in DOMAIN mtWorks THEN PublishSnapshot(mtStreams, "running") ELSE mtStreams
       /\ \/ UNCHANGED mtApply
          \/ w \in DOMAIN mtWorks /\ mtApply' = [mtApply EXCEPT ![MtRefresh] = [NoApply EXCEPT !.at = "meta", !.id = w]]
    /\ UNCHANGED <<mtRows, mtSteps>>
EndRefresh ==
    /\ mtRun.status = "running" /\ mtApply[MtRefresh].at = "idle"
    /\ mtRun' = [status |-> "done", inbox |-> {}] /\ mtStreams' = Finished(mtStreams)
    /\ UNCHANGED <<mtRows, mtApply, mtSteps>>

ApplyMatch(a, w) ==
    /\ Counts /\ a # MtRefresh /\ mtApply[a].at = "idle" /\ w \in DOMAIN mtWorks
    /\ mtApply' = [mtApply EXCEPT ![a] = [NoApply EXCEPT !.at = "meta", !.id = w]]
    /\ UNCHANGED <<mtRows, mtRun, mtStreams>>

Goes(a, at) == mtApply' = [mtApply EXCEPT ![a].at = at] /\ UNCHANGED <<mtRun, mtSteps>>
Updated(w, field) == IF w \in DOMAIN mtWorks THEN [mtWorks EXCEPT ![w][field] = TRUE] ELSE mtWorks

ApplyWorkMeta(a) ==
    /\ mtApply[a].at = "meta" /\ mtWorks' = Updated(mtApply[a].id, "described")
    /\ \E at \in {"cover", "chapters"} : Goes(a, at)
    /\ UNCHANGED <<mtEditions, mtChapters, mtPictures, mtSkips, mtStreams>>
(* A picture that is there already is not fetched again; a failure is a warning. *)
DownloadCover(a) ==
    /\ mtApply[a].at = "cover"
    /\ \/ mtPictures' = mtPictures \cup {mtApply[a].id} /\ Goes(a, "link")
       \/ mtApply[a].id \notin mtPictures /\ UNCHANGED mtPictures /\ Goes(a, "chapters")
    /\ UNCHANGED <<mtWorks, mtEditions, mtChapters, mtSkips, mtStreams>>
SetWorkCover(a) ==
    /\ mtApply[a].at = "link" /\ mtWorks' = Updated(mtApply[a].id, "cover") /\ Goes(a, "chapters")
    /\ UNCHANGED <<mtEditions, mtChapters, mtPictures, mtSkips, mtStreams>>

(* Where the work could not be written, nothing more is applied to it. *)
ApplyFails(a) ==
    /\ mtApply[a].at \in {"meta", "link"} /\ mtApply' = [mtApply EXCEPT ![a] = NoApply]
    /\ UNCHANGED <<mtRows, mtRun, mtStreams, mtSteps>>

(* The chapters of the work's editions are read, and those that were generic are replaced one after the other, if they
   still are what was read. *)
ReadChapters(a) ==
    /\ mtApply[a].at = "chapters"
    /\ mtApply' = [mtApply EXCEPT ![a].at = "swap", ![a].chapters = {e \in EditionsOf(mtApply[a].id) : mtChapters[e] = "generic"}]
    /\ UNCHANGED <<mtRows, mtRun, mtStreams, mtSteps>>
ReplaceChapters(a, e) ==
    /\ mtApply[a].at = "swap" /\ e \in mtApply[a].chapters
    /\ mtApply' = [mtApply EXCEPT ![a].chapters = @ \ {e}]
    /\ mtChapters' = IF mtChapters[e] = "generic" THEN [mtChapters EXCEPT ![e] = "provider"] ELSE mtChapters
    /\ UNCHANGED <<mtWorks, mtEditions, mtPictures, mtSkips, mtRun, mtStreams, mtSteps>>
Applied(a) ==
    /\ mtApply[a].at = "swap" /\ mtApply[a].chapters = {}
    /\ mtApply' = [mtApply EXCEPT ![a] = NoApply]
    /\ mtStreams' = IF a = MtRefresh THEN PublishSnapshot(mtStreams, "running") ELSE mtStreams
    /\ UNCHANGED <<mtRows, mtRun, mtSteps>>

MtNext ==
    \/ \E e \in MtEditions : (\E t \in MtTitles : ScanNew(e, t)) \/ ScanChapters(e) \/ SplitEditionToNewWork(e)
    \/ \E w \in 1..MtMaxId :
          \/ \E e \in MtEditions : MoveEditionToWork(e, w)
          \/ \E v \in 1..MtMaxId : MergeWorks(w, v)
          \/ SkipWork(w) \/ \E a \in MtMatches : ApplyMatch(a, w)
    \/ \E s \in MtStreams : Subscribe(s) \/ Receive(s)
    \/ RefreshMeta \/ TakeWork \/ EndRefresh
    \/ \E a \in Appliers :
          \/ ApplyWorkMeta(a) \/ DownloadCover(a) \/ SetWorkCover(a) \/ ApplyFails(a) \/ ReadChapters(a) \/ Applied(a)
          \/ \E e \in MtEditions : ReplaceChapters(a, e)

MtSpec == MtInit /\ [][MtNext]_mtVars

-----------------------------------------------------------------------------
(* Properties.                                                             *)

(* However works are merged, split and moved into, editions are in works that exist and no work is without one; a work
   that shows a cover has a picture. *)
MtTypeOK ==
    /\ \A e \in MtEditions : mtEditions[e] # 0 => mtEditions[e] \in DOMAIN mtWorks
    /\ \A w \in DOMAIN mtWorks : EditionsOf(w) # {} /\ (mtWorks[w].cover => w \in mtPictures)

(* Chapters that a scan read from the files are not overwritten with a provider's, even when the scan came after the
   chapters were inspected (providers.go, "compare-and-swap"). *)
ScannedChaptersStay == \A e \in MtEditions : mtChapters[e] = "scanned" => mtChapters'[e] = "scanned"

(* A subscriber that falls behind misses progress but never the end: whoever is subscribed to a refresh that is over has
   its end before it (providers.go, "the terminal snapshot is never dropped"). *)
RefreshEndIsDelivered == mtRun.status = "done" =>
    \A s \in MtStreams : mtStreams[s].on => \E i \in DOMAIN mtStreams[s].queue : mtStreams[s].queue[i] = "end"

=============================================================================
